----------------------------- MODULE SpawnBudget -----------------------------
(* invoke_agent and its limits: spawn-tracker.ts, invokeAgentTool of          *)
(* agents.ts, and the counters kept in state.json over a restart.             *)
(*                                                                            *)
(* A call runs without interruption from its checks to the first await, so    *)
(* checking and counting are one step.  Then it waits for persistSpawnStats,  *)
(* for the CLI process, and for persistSpawnStats again.                      *)
EXTENDS Naturals, FiniteSets

CONSTANTS
  Calls,          \* invocations of agents, each used again once it has ended
  Delegates,      \* <<p, c>>: p's agent has allowSubInvocation and may call c
  MaxDepth, MaxConcurrent, MaxSession,   \* config.spawning
  MaxMishaps      \* bound on failed writes and kills of the coordinator

ASSUME CallsAssumption ==
  IsFiniteSet(Calls) /\ Delegates \subseteq Calls \X Calls
ASSUME LimitsAssumption ==
  MaxDepth \in Nat \ {0} /\ MaxConcurrent \in Nat \ {0} /\ MaxSession \in Nat \ {0}
ASSUME MishapsAssumption == MaxMishaps \in Nat

VARIABLES
  stage,          \* where each call is
  depth,          \* the depth in the invocationContext of each call
  image,          \* the counters a call has handed to session.update
  activeCount, sessionTotal,
  disk,           \* spawnStats of state.json
  begun,          \* history: invocations of the session
  slotLost,       \* history: a slot was taken that nobody gives back
  apart,          \* history: the latest calls and updates began with no earlier one
                  \* under way, and no write has failed since
  kept,           \* history: every kill so far came at rest after such calls
  mishaps         \* bound: failed writes and kills so far

spawnVars == <<stage, depth, image, activeCount, sessionTotal, disk,
               begun, slotLost, apart, kept, mishaps>>
tracker == <<activeCount, sessionTotal, begun>>
history == <<slotLost, apart, kept, mishaps>>

Ended == {"idle", "answered", "failed"}
InFlight == {"saving", "running"}
Closing == {"closing", "rejecting", "noting"}
Stages == Ended \cup InFlight \cup Closing \cup {"asking"}
Stats == [active : Nat, total : Nat]
Zero == [active |-> 0, total |-> 0]

SpawnInit ==
  /\ stage = [c \in Calls |-> "idle"]
  /\ depth = [c \in Calls |-> 1]
  /\ image = [c \in Calls |-> Zero]
  /\ activeCount = 0 /\ sessionTotal = 0 /\ disk = Zero
  /\ begun = 0 /\ mishaps = 0
  /\ slotLost = FALSE /\ apart = TRUE /\ kept = TRUE

\* source === "agent": beginInvocation counted a slot for it.
Delegated(c) == depth[c] # 1
Holders == {c \in Calls : stage[c] \in InFlight /\ Delegated(c)}

\* No call and no update is under way.
Resting == \A c \in Calls : stage[c] \in Ended

-----------------------------------------------------------------------------
(* SpawnTracker                                                              *)

InBudget == sessionTotal < MaxSession

SlotFree == activeCount < MaxConcurrent

Close(c, s) == stage' = [stage EXCEPT ![c] = s]
\* The call returns: its context and what it wrote are gone.
Return(c, s) == /\ Close(c, s)
                /\ depth' = [depth EXCEPT ![c] = 1]
                /\ image' = [image EXCEPT ![c] = Zero]
Now == [active |-> activeCount, total |-> sessionTotal]

Counted(c, active) ==
  /\ Close(c, "saving")
  /\ activeCount' = active /\ sessionTotal' = sessionTotal + 1 /\ begun' = begun + 1
  /\ image' = [image EXCEPT ![c] = [active |-> active, total |-> sessionTotal + 1]]

\* A rejection saves the counters too, after the operator was told when the
\* call is too deep or the budget is used up.
Refused(c, escalate) ==
  /\ Close(c, IF escalate THEN "asking" ELSE "rejecting")
  /\ image' = [image EXCEPT ![c] = Now]
  /\ UNCHANGED tracker

\* check, beginInvocation and the call of persistSpawnStats, for a call of the
\* coordinator: the concurrency cap is not for it.
BeginTop(c) ==
  /\ stage[c] \in Ended
  /\ depth' = [depth EXCEPT ![c] = 1]
  /\ IF InBudget THEN Counted(c, activeCount) ELSE Refused(c, TRUE)
  /\ apart' = Resting
  /\ UNCHANGED <<disk, slotLost, kept, mishaps>>

\* The same for a call that the agent of p makes, with the context its prompt
\* told it to pass; only agents that may delegate are told how.  p may have been
\* killed before the request arrives.
Delegate(c, p) ==
  /\ stage[c] \in Ended /\ <<p, c>> \in Delegates /\ stage[p] \in {"running"} \cup Closing
  /\ depth' = [depth EXCEPT ![c] = depth[p] + 1]
  /\ LET permitted == stage[p] = "running"      \* in activeInvocations
         tooDeep == depth[p] + 1 > MaxDepth
     IN IF permitted /\ ~tooDeep /\ SlotFree /\ InBudget
        THEN Counted(c, activeCount + 1)
        ELSE Refused(c, permitted /\ (tooDeep \/ SlotFree))
  /\ apart' = Resting
  /\ UNCHANGED <<disk, slotLost, kept, mishaps>>

-----------------------------------------------------------------------------
(* The rest of invokeAgentTool                                               *)

\* state.json as this call wrote it; a write that started later may have ended
\* before.
Saved(c) ==
  /\ stage[c] = "saving"
  /\ Close(c, "running")
  /\ disk' = image[c] /\ image' = [image EXCEPT ![c] = Zero]
  /\ UNCHANGED <<depth, tracker, history>>

\* The write fails before the try block: the call is over, endInvocation is not
\* called.
SaveFails(c) ==
  /\ stage[c] = "saving" /\ mishaps < MaxMishaps
  /\ Return(c, "failed") /\ mishaps' = mishaps + 1
  /\ slotLost' = (slotLost \/ Delegated(c)) /\ apart' = FALSE
  /\ UNCHANGED <<tracker, disk, kept>>

SlotsNowAny(c) == activeCount - 1      \* mutant: a call of the coordinator gives back a slot too
SlotsNow(c) == IF Delegated(c) /\ activeCount > 0 THEN activeCount - 1 ELSE activeCount

\* The CLI ends, fails, or is killed after ctx.timeoutMs: endInvocation, in the
\* finally block, and the call of persistSpawnStats.
Exits(c) ==
  /\ stage[c] = "running"
  /\ Close(c, "closing")
  /\ activeCount' = SlotsNow(c)
  /\ image' = [image EXCEPT ![c] = [active |-> SlotsNow(c), total |-> sessionTotal]]
  /\ UNCHANGED <<depth, sessionTotal, begun, disk, history>>

\* The last write is done: the answer of the CLI, its error, or the rejection.
Closes(c) ==
  /\ \/ stage[c] = "closing" /\ \E s \in {"answered", "failed"} : Return(c, s)
     \/ stage[c] = "rejecting" /\ Return(c, "failed")
     \/ stage[c] = "noting" /\ Return(c, "answered")
  /\ disk' = image[c]
  /\ UNCHANGED <<tracker, history>>

\* A failed write in the finally block turns an answer into an error.
CloseFails(c) ==
  /\ stage[c] \in Closing /\ mishaps < MaxMishaps
  /\ Return(c, "failed") /\ mishaps' = mishaps + 1
  /\ apart' = FALSE
  /\ UNCHANGED <<tracker, disk, slotLost, kept>>

\* Another update of the session (a revision round, an outcome, a phase): it
\* writes the counters of now with the rest.
Note(c) ==
  /\ stage[c] \in Ended /\ Close(c, "noting")
  /\ image' = [image EXCEPT ![c] = Now] /\ apart' = Resting
  /\ UNCHANGED <<depth, tracker, disk, slotLost, kept, mishaps>>

\* The steps a call takes by itself once it has been counted.
Runs(c) ==
  \/ Saved(c)
  \/ SaveFails(c)
  \/ Exits(c)
  \/ Closes(c)
  \/ CloseFails(c)

RestartFromZero == activeCount' = 0 /\ sessionTotal' = 0     \* mutant: nothing restored
\* new SpawnTracker(spawning, session.get().spawnStats): slots that were taken
\* when the counters were written come back taken.
RestoreCounters == activeCount' = disk.active /\ sessionTotal' = disk.total

\* The process is killed, and the session resumed.
SpawnRestart ==
  /\ mishaps < MaxMishaps /\ mishaps' = mishaps + 1
  /\ stage' = [c \in Calls |-> "idle"]
  /\ depth' = [c \in Calls |-> 1] /\ image' = [c \in Calls |-> Zero]
  /\ RestoreCounters
  /\ slotLost' = (disk.active # 0) /\ apart' = TRUE /\ kept' = (kept /\ apart /\ Resting)
  /\ UNCHANGED <<disk, begun>>

-----------------------------------------------------------------------------
SpawnTypeOK ==
  /\ stage \in [Calls -> Stages]
  /\ depth \in [Calls -> Nat \ {0}]
  /\ image \in [Calls -> Stats] /\ disk \in Stats
  /\ activeCount \in Nat /\ sessionTotal \in Nat
  /\ begun \in Nat /\ mishaps \in 0 .. MaxMishaps
  /\ slotLost \in BOOLEAN /\ apart \in BOOLEAN /\ kept \in BOOLEAN

(* No more delegated calls run at a time than the configuration allows,       *)
(* whatever fails, in one process and after a restart, whose counters may be  *)
(* of any older moment.  And the cap is the configured one: as long as no     *)
(* call ended by a failed first write, and the process was not resumed with   *)
(* slots taken, every slot that is taken is a running call's.                 *)
SlotsHold ==
  /\ Cardinality(Holders) <= activeCount /\ activeCount <= MaxConcurrent
  /\ ~slotLost => activeCount = Cardinality(Holders)

(* Calls and updates that overlap write the counters in any order, and the    *)
(* write that lands last may be old; but those of a review that nobody else's *)
(* overlap leave the count on the disk when the last of them has ended.  Over *)
(* any kills that came after such an end, the session gets no more            *)
(* invocations than maxSessionInvocations.                                    *)
BudgetHolds ==
  /\ apart /\ Resting => disk = Now
  /\ kept => begun <= MaxSession

(* What spawn-controls promises: a call that completes gives its slot back.   *)
SlotsReturned == Resting => activeCount = 0

(* What session-format.md promises of state.json: sessionTotal is the count   *)
(* of all the session's invocations.                                          *)
AllTimeCount == Resting /\ mishaps = 0 => disk.total = begun
=============================================================================
