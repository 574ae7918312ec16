------------------------------ MODULE Workflow ------------------------------
(* The phases of a session: the pipeline of `start` (index.ts, phases/), the  *)
(* workflow tools that MCP clients call meanwhile or, under `serve`, alone    *)
(* (workflow.ts), and state.json, from which a session is resumed.            *)
EXTENDS SessionState, Sequences

CONSTANTS
  Agents,         \* invocations of a review, each saving the spawn counters
  Clients,        \* MCP clients
  Ids,            \* the artifacts clients name in their calls
  Options,        \* values of --workflow: "proposal", the default, or "later"
  Nested,         \* the spec files lie in directories of their own
  MaxCalls,       \* bound on the calls of clients
  MaxStarts       \* bound on processes

ASSUME OptionsAssumption == Options \subseteq {"proposal", "later"} /\ Nested \in BOOLEAN

Main == "main"
Artifacts == {"proposal", "design", "spec", "tasks", "task-assignment",
              "other"}     \* an id that no phase reviews

ASSUME WritersAssumption ==
  /\ Writers = {Main} \cup Agents \cup Clients
  /\ Main \notin Agents \cup Clients /\ Agents \cap Clients = {}
ASSUME IdsAssumption == Ids \subseteq Artifacts
ASSUME BoundsAssumption == MaxCalls \in Nat /\ MaxStarts \in Nat

VARIABLES
  pc,             \* where the pipeline is
  pos,            \* its phase, as an index into Phases
  artifact,       \* what it reviews
  result,         \* the outcome its last review returned
  option,         \* --workflow
  call, about,    \* what each client's call waits for, and its artifact
  approved,       \* history: artifacts that were ever approved
  revoked,        \* history: artifacts for which a client has stored "aborted" since
  strayed,        \* history: the phase was moved, or the pipeline started, out of place
  refused,        \* history: advancePhaseTool threw at the pipeline
  calls, starts

flow == <<pc, pos, artifact, result, option, refused>>
client == <<call, about, calls>>
history == <<approved, revoked, strayed>>
vars == <<stateVars, flow, client, history, starts>>

Phases == <<"proposal", "design", "spec", "task", "implementation", "review">>
Index(p) == CHOOSE i \in 1 .. Len(Phases) : Phases[i] = p

\* The artifacts of each phase, in the order in which they are reviewed.
Reviewed == [i \in 1 .. Len(Phases) |->
  CASE Phases[i] = "proposal" -> <<"proposal">>
    [] Phases[i] = "design"   -> <<"design">>
    [] Phases[i] = "spec"     -> <<"spec">>
    [] Phases[i] = "task"     -> <<"tasks", "task-assignment">>
    [] OTHER -> <<>>]
Last(i) == Reviewed[i][Len(Reviewed[i])]

\* The key transitionPhase looks the outcome up under: that of the last spec
\* file is made from its path with the slashes left in.
KeyOfPath(i) == IF Phases[i] = "spec" THEN "other" ELSE Last(i)
                              \* mutant: no spec is found again
Key(i) == IF Phases[i] = "spec" /\ Nested THEN "other" ELSE Last(i)

State == [phase : 1 .. Len(Phases),
          outcome : [Artifacts -> {"open", "approved"}],    \* pending or aborted are open
          stats : 0 .. 1]        \* spawnStats: which of two values

Fresh == [phase |-> 1, outcome |-> [a \in Artifacts |-> "open"], stats |-> 0]
WithOutcome(a, o) ==
  [session EXCEPT !.outcome[a] = IF o = "approved" THEN "approved" ELSE "open"]
Note(a, o) == approved' = IF o = "approved" THEN approved \cup {a} ELSE approved
\* What a client's call stores.
NoteOfClient(a, o) ==
  /\ Note(a, o) /\ UNCHANGED strayed
  /\ revoked' = IF o = "aborted" THEN revoked \cup {a} ELSE revoked \ {a}

Init ==
  /\ Created(Fresh)
  /\ pc = "off" /\ pos = 1 /\ artifact = "proposal" /\ result = "pending"
  /\ option = "later" /\ refused = FALSE
  /\ call = [c \in Clients |-> "idle"] /\ about = [c \in Clients |-> "proposal"]
  /\ approved = {} /\ revoked = {} /\ strayed = FALSE /\ calls = 0 /\ starts = 0

-----------------------------------------------------------------------------
(* Starting and stopping                                                     *)

\* start --session: the state is loaded, and the steward's digest added to it.
Start ==
  /\ pc = "off" /\ Loads /\ starts < MaxStarts /\ starts' = starts + 1
  /\ \E o \in Options : option' = o
  /\ Update(Main, file.img)
  /\ pc' = "boot"
  /\ UNCHANGED <<pos, artifact, result, refused, client, history>>

\* serve: the most recent session, and no pipeline.
Serve ==
  /\ pc = "off" /\ Loads /\ starts < MaxStarts /\ starts' = starts + 1
  /\ session' = file.img /\ unsettled' = FALSE
  /\ pc' = "serving"
  /\ UNCHANGED <<file, write, faults, pos, artifact, result, option, refused,
                 client, history>>

Stop ==
  /\ pc' = "off" /\ Die
  /\ pos' = 1 /\ artifact' = "proposal" /\ result' = "pending" /\ option' = "later"
  /\ refused' = FALSE
  /\ call' = [c \in Clients |-> "idle"] /\ about' = [c \in Clients |-> "proposal"]
  /\ revoked' = {}
  /\ UNCHANGED <<calls, approved, strayed, starts>>

\* A kill, or the end of a run: one that is complete waits for its writes, one
\* that failed calls process.exit.
Kill == pc # "off" /\ Stop
Leave == pc = "complete" /\ ~Busy /\ Stop

-----------------------------------------------------------------------------
(* The pipeline                                                              *)

\* The chain of ifs of the start action: phases are tried in order, once each.
EnterPhase(i, phase) ==
  LET at == {j \in i .. 4 : j = phase}
  IN IF at = {} THEN pc' = "complete" /\ UNCHANGED <<pos, artifact>>
     ELSE /\ pc' = "review"
          /\ pos' = phase /\ artifact' = Reviewed[phase][1]

Boot ==
  /\ pc = "boot" /\ Saved(Main)
  /\ IF option = "proposal" \/ session.phase = 1
     THEN pc' = "review" /\ pos' = 1 /\ artifact' = "proposal"
     ELSE EnterPhase(2, session.phase)
  /\ strayed' = (strayed \/ (option = "proposal" /\ session.phase # 1))
  /\ UNCHANGED <<stateVars, result, option, refused, client, approved, revoked, starts>>

\* During a review each invocation saves the counters when it begins and when
\* it has ended.
AgentSaves(a) ==
  /\ pc = "review"
  /\ Update(a, [session EXCEPT !.stats = 1 - @])
  /\ UNCHANGED <<flow, client, history, starts>>

AgentGoesOn(a) ==          \* the error of a failed write is the invocation's
  /\ Failed(a) /\ Forget(a)
  /\ UNCHANGED <<session, file, unsettled, faults, flow, client, history, starts>>

ReviewDoneEarly == TRUE    \* mutant: run() does not wait for its invocations
ReviewDone == \A a \in Agents : Saved(a)

\* submitForConsensusTool: the outcome of the loop is stored.
Conclude ==
  /\ pc = "review" /\ ReviewDone
  /\ \E o \in {"approved", "aborted"} :
       /\ result' = o /\ Note(artifact, o) /\ revoked' = revoked \ {artifact}
       /\ Update(Main, WithOutcome(artifact, o))
  /\ pc' = "recorded"
  /\ UNCHANGED <<pos, artifact, option, refused, client, strayed, starts>>

\* The loop throws: the reviser failed, or a write.
ReviewThrows ==
  /\ pc = "review" /\ ReviewDone /\ pc' = "failed"
  /\ UNCHANGED <<stateVars, pos, artifact, result, option, refused, client, history, starts>>

PhaseAborted == result = "aborted" /\ pc' = "failed" /\ UNCHANGED <<stateVars, artifact>>

\* After the review of the tasks, that of their assignment; after that,
\* taskAssignments is stored.
TasksReviewed ==
  /\ result = "approved"
  /\ \/ /\ artifact = "tasks"
        /\ pc' = "review" /\ artifact' = "task-assignment" /\ UNCHANGED stateVars
     \/ /\ artifact = "task-assignment"
        /\ pc' = "assigned" /\ UNCHANGED artifact
        /\ Update(Main, session)

PhaseReviewed ==
  /\ result = "approved" /\ artifact \notin {"tasks", "task-assignment"}
  /\ pc' = "prompt" /\ UNCHANGED <<stateVars, artifact>>

Recorded ==
  /\ pc = "recorded" /\ Saved(Main)
  /\ PhaseAborted \/ TasksReviewed \/ PhaseReviewed
  /\ UNCHANGED <<pos, result, option, refused, client, history, starts>>

Assigned ==
  /\ pc = "assigned" /\ Saved(Main)
  /\ pc' = "prompt"
  /\ UNCHANGED <<stateVars, pos, artifact, result, option, refused, client, history, starts>>

AdvancesAnyway(a) == session.phase < Len(Phases)      \* mutant: no look at the outcome
\* advancePhaseTool does not throw.
Advances(a) == session.outcome[a] = "approved" /\ session.phase < Len(Phases)

NextPhase == [session EXCEPT !.phase = @ + 1]

\* transitionPhase, when the operator has answered.
Transition ==
  /\ pc = "prompt"
  /\ \/ pc' = "failed" /\ UNCHANGED <<stateVars, refused>>          \* abort
     \/ Advances(Key(pos)) /\ pc' = "advancing" /\ Update(Main, NextPhase) /\ UNCHANGED refused
     \/ ~Advances(Key(pos)) /\ pc' = "failed" /\ refused' = TRUE /\ UNCHANGED stateVars
  /\ UNCHANGED <<pos, artifact, result, option, client, history, starts>>

\* Implementation follows the task phase only, in the process that ran it.
Advanced ==
  /\ pc = "advancing" /\ Saved(Main)
  /\ IF pos = 4
     THEN /\ IF session.phase = Index("implementation")
             THEN pc' = "implement" /\ Update(Main, session)        \* implBranch
             ELSE pc' = "complete" /\ UNCHANGED stateVars
          /\ UNCHANGED <<pos, artifact>>
     ELSE EnterPhase(pos + 1, session.phase) /\ UNCHANGED stateVars
  /\ UNCHANGED <<result, option, refused, client, history, starts>>

Implement ==
  /\ pc = "implement" /\ Saved(Main)
  /\ pc' \in {"complete", "failed"}
  /\ UNCHANGED <<stateVars, pos, artifact, result, option, refused, client, history, starts>>

RunningTools == pc \in {"recorded", "advancing"}
                         \* mutant: only the errors of the workflow tools are caught
Running == pc \notin {"off", "serving", "failed"}

\* A rejected update leaves the start action.
MainFails ==
  /\ Running /\ Failed(Main) /\ Forget(Main)
  /\ pc' = "failed"
  /\ UNCHANGED <<session, file, unsettled, faults, pos, artifact, result, option, refused, client, history, starts>>

Exit == pc = "failed" /\ Stop

Pipeline ==
  \/ Boot
  \/ Conclude
  \/ ReviewThrows
  \/ Recorded
  \/ Assigned
  \/ Advanced
  \/ Implement
  \/ MainFails
  \/ Exit
  \/ Leave

-----------------------------------------------------------------------------
(* Workflow tools called by clients                                          *)

Up == pc \notin {"off", "failed"}
Called(c, a, s) ==
  /\ Up /\ call[c] = "idle" /\ calls < MaxCalls /\ calls' = calls + 1
  /\ call' = [call EXCEPT ![c] = s] /\ about' = [about EXCEPT ![c] = a]
Continues(c, s) == call' = [call EXCEPT ![c] = s] /\ UNCHANGED <<about, calls>>

Submit(c) ==
  /\ \E a \in Ids : Called(c, a, "review")
  /\ UNCHANGED <<stateVars, flow, history, starts>>

Submitted(c) ==
  /\ Up /\ call[c] = "review"
  /\ \E o \in {"approved", "aborted"} :
       NoteOfClient(about[c], o) /\ Update(c, WithOutcome(about[c], o))
  /\ Continues(c, "write")
  /\ UNCHANGED <<flow, starts>>

\* resolve_checkpoint stores an outcome if it is told an artifact, whatever is
\* being reviewed, and then clears checkpointPending, which nothing sets.
Resolve(c) ==
  /\ \/ \E a \in Ids, o \in {"approved", "aborted"} :
          /\ Called(c, a, "resolve")
          /\ NoteOfClient(a, o) /\ Update(c, WithOutcome(a, o))
     \/ Called(c, "other", "write") /\ Update(c, session) /\ UNCHANGED history
  /\ UNCHANGED <<flow, starts>>

Resolved(c) ==
  /\ Up /\ call[c] = "resolve" /\ Saved(c)
  /\ Update(c, session)
  /\ Continues(c, "write")
  /\ UNCHANGED <<flow, history, starts>>

\* The artifact of an advance_phase under serve, for the phase it leaves.
InPlace(a) == pc = "serving" /\ (session.phase > 4 \/ a = Last(session.phase))

\* advance_phase looks only at the outcome of the artifact it is told, whatever
\* the phase is, and whether a pipeline advances it or not.
Advance(c) ==
  /\ \E a \in Ids :
       /\ Advances(a) /\ Called(c, a, "write")
       /\ strayed' = (strayed \/ ~InPlace(a))
  /\ Update(c, NextPhase)
  /\ UNCHANGED <<flow, approved, revoked, starts>>

Returns(c) ==
  /\ \/ call[c] = "write" /\ Saved(c) /\ UNCHANGED write
     \/ call[c] \in {"write", "resolve"} /\ Failed(c) /\ Forget(c)
  /\ call' = [call EXCEPT ![c] = "idle"] /\ about' = [about EXCEPT ![c] = "proposal"]
  /\ UNCHANGED calls
  /\ UNCHANGED <<session, file, unsettled, faults, flow, history, starts>>

ClientStep(c) ==
  \/ Submit(c) \/ Submitted(c)
  \/ Resolve(c) \/ Resolved(c)
  \/ Advance(c)
  \/ Returns(c)

-----------------------------------------------------------------------------
Write(w) == WriteStep(w) /\ UNCHANGED <<flow, client, history, starts>>

Next ==
  \/ Start \/ Serve \/ Kill
  \/ Pipeline
  \/ Transition
  \/ \E a \in Agents : AgentSaves(a) \/ AgentGoesOn(a)
  \/ \E c \in Clients : ClientStep(c)
  \/ \E w \in Writers : Write(w)

Spec == Init /\ [][Next]_vars

\* The process runs what is ready, writes end, and a review comes to its end as
\* Consensus shows when the operator answers; the operator need not.
FairSpec ==
  /\ Spec
  /\ WF_vars(Pipeline)
  /\ \A w \in Writers : WF_vars(Write(w))
  /\ \A a \in Agents : WF_vars(AgentGoesOn(a))

-----------------------------------------------------------------------------
TypeOK ==
  /\ StateOK(State)
  /\ pc \in {"off", "serving", "boot", "review", "recorded", "assigned", "prompt", "advancing",
             "implement", "complete", "failed"}
  /\ pos \in 1 .. 4 /\ artifact \in Artifacts
  /\ result \in {"pending", "approved", "aborted"} /\ option \in {"proposal", "later"}
  /\ call \in [Clients -> {"idle", "review", "resolve", "write"}]
  /\ about \in [Clients -> Artifacts]
  /\ approved \subseteq Artifacts /\ revoked \subseteq Artifacts /\ strayed \in BOOLEAN
  /\ refused \in BOOLEAN
  /\ calls \in 0 .. MaxCalls /\ starts \in 0 .. MaxStarts

PassedIn(s) == \A i \in 1 .. 4 : s.phase > i => Last(i) \in approved

(* No phase is passed before its last artifact was approved, by a review or   *)
(* by the operator, over kills, restarts from an older or newer file, and     *)
(* calls of clients that submit, approve or revoke anything at any time:      *)
(* neither in memory nor in the file.  Two causes are named in `strayed`: a   *)
(* client's advance_phase out of place, and a session resumed with the        *)
(* default --workflow in a later phase, which reviews the proposal again and  *)
(* then leaves the phase the session is in.                                   *)
ReviewedInOrder == strayed \/ (PassedIn(session) /\ (Loads => PassedIn(file.img)))

(* What consensus-workflow promises, for whoever calls.                       *)
PassedPhasesReviewed == PassedIn(session)

(* What session-format.md promises of a resumed session: it goes on in the    *)
(* phase it was in, and what is approved is not reviewed again.               *)
ResumesInPlace == pc = "review" => pos = session.phase
SkipsApproved == pc = "review" => session.outcome[artifact] # "approved"

(* What the operator is asked about at the end of a phase is on disk: a kill  *)
(* at the prompt loses nothing, unless clients write at the same time.        *)
SavedWhenAsked == pc = "prompt" /\ calls = 0 => file = Full(session)

(* A phase whose last artifact is approved is not refused: when the pipeline  *)
(* fails at a transition, a client has revoked that very approval, or there   *)
(* is no later phase.                                                         *)
AdvanceAfterApproval == refused => Last(pos) \in revoked \/ session.phase = Len(Phases)

(* The same, but for specs in directories of their own.                       *)
ApprovedAdvances == (Nested /\ Phases[pos] = "spec") \/ AdvanceAfterApproval

(* A run ends, or waits for the operator at the end of a phase.               *)
RunEnds == pc \notin {"off", "serving"} ~> pc \in {"off", "prompt"} \/ (pc = "review" /\ ~ReviewDone)
=============================================================================
