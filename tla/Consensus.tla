------------------------------ MODULE Consensus ------------------------------
(* The consensus loop of one artifact (consensus.ts) with the invocations it  *)
(* makes (SpawnBudget), those that agents and clients make meanwhile, and the *)
(* operator at the terminal (checkpoint.ts).                                  *)
EXTENDS SpawnBudget, Functions

CONSTANTS
  Reviewers,      \* the loop's call of each reviewer
  Reviser,        \* the loop's call of the reviser
  Clients,        \* calls that MCP clients make
  MaxRounds,      \* config.consensus.maxRounds
  MaxReviews      \* bound on the reviews of one process

ASSUME LoopAssumption ==
  /\ Reviewers \subseteq Calls /\ Reviewers # {}
  /\ Reviser \in Calls \ Reviewers
  /\ Clients \subseteq Calls \ (Reviewers \cup {Reviser})
  /\ Delegates \subseteq Calls \X (Calls \ (Reviewers \cup {Reviser}))
  /\ MaxRounds \in Nat \ {0} /\ MaxReviews \in Nat

VARIABLES
  auto,           \* HumanCheckpoint.autoDecide is "proceed"
  pc,             \* what run() awaits
  round, version, \* version of currentContent, from 1
  shown,          \* the version each reviewer's CLI was last started with
  vote,           \* msgs: the answers of the round, once they are all in
  said,           \* history: what the operator last said to the loop, or to a rejected call
  outcome,
  reviews         \* bound: reviews of this process

loopVars == <<pc, round, version, shown, vote, said, outcome>>
vars == <<spawnVars, auto, loopVars, reviews>>

Answers == {"approve", "block", "other"}    \* request-changes is one of the others
Outcomes == {"none", "consensus-reached", "human-approved", "aborted", "error"}

Init ==
  /\ SpawnInit
  /\ auto \in BOOLEAN
  /\ pc = "idle" /\ round = 0 /\ version = 0
  /\ shown = [r \in Reviewers |-> 0] /\ vote = [r \in Reviewers |-> "other"]
  /\ said = "none" /\ outcome = "none" /\ reviews = 0

-----------------------------------------------------------------------------
(* The loop                                                                  *)

\* submit_for_consensus, or the review of a phase; run() writes the snapshot.
Submit ==
  /\ pc \in {"idle", "ended"} /\ reviews < MaxReviews /\ reviews' = reviews + 1
  /\ pc' = "capture" /\ round' = 0 /\ version' = 1 /\ outcome' = "none" /\ said' = "none"
  /\ shown' = [r \in Reviewers |-> 0] /\ vote' = [r \in Reviewers |-> "other"]
  /\ UNCHANGED <<spawnVars, auto>>

Throw == pc' = "ended" /\ outcome' = "error"

\* The write of the snapshot fails: run() throws.
LoopWriteFails ==
  /\ pc = "capture" /\ mishaps < MaxMishaps
  /\ Throw /\ mishaps' = mishaps + 1
  /\ UNCHANGED <<stage, depth, image, tracker, disk, slotLost, apart, kept, reviews,
                 auto, round, version, shown, vote, said>>

\* All reviewers are invoked before the first of them awaits: the budget admits
\* them in their order and rejects the rest.
StartRound ==
  /\ pc = "capture" /\ pc' = "review"
  /\ \E order \in Bijection(Reviewers, 1 .. Cardinality(Reviewers)) :
       LET In(r) == sessionTotal + order[r] <= MaxSession
           admitted == Cardinality({r \in Reviewers : In(r)})
       IN /\ stage' = [c \in Calls |-> IF c \notin Reviewers THEN stage[c]
                                       ELSE IF In(c) THEN "saving" ELSE "asking"]
          /\ image' = [c \in Calls |-> IF c \in Reviewers
                         THEN [active |-> activeCount,
                               total |-> sessionTotal + IF In(c) THEN order[c] ELSE admitted]
                         ELSE image[c]]
          /\ shown' = [r \in Reviewers |-> IF In(r) THEN version ELSE shown[r]]
          /\ sessionTotal' = sessionTotal + admitted /\ begun' = begun + admitted
  /\ vote' = [r \in Reviewers |-> "other"] /\ apart' = Resting
  /\ UNCHANGED <<depth, activeCount, disk, slotLost, kept, mishaps, reviews,
                 auto, round, version, said, outcome>>

AllAnswered == \A r \in Reviewers : stage[r] = "answered"
                         \* mutant: Promise.all without the catch
AllVoted == \A r \in Reviewers : stage[r] \in {"answered", "failed"}

VoteLenient(r, answer) == answer     \* mutant: an error is no block
\* A reviewer that failed counts as one that blocks.
Vote(r, answer) == IF stage[r] = "failed" THEN "block" ELSE answer

\* evaluateConsensus, and what run() does with its result.
Evaluate(ballot) ==
  CASE \E r \in Reviewers : ballot[r] = "block" -> "block"
    [] \A r \in Reviewers : ballot[r] = "approve" -> "consensus-reached"
    [] OTHER -> "needs-revision"

AtCap == round + 1 >= MaxRounds

EndRound ==
  /\ pc = "review" /\ AllVoted
  /\ \E answer \in [Reviewers -> Answers] :
       LET ballot == [r \in Reviewers |-> Vote(r, answer[r])] IN
       /\ vote' = ballot
       /\ \/ /\ Evaluate(ballot) = "block"
             /\ pc' = "asking" /\ said' = "none"
             /\ UNCHANGED <<spawnVars, round, outcome>>
          \/ /\ Evaluate(ballot) = "consensus-reached"
             /\ pc' = "ended" /\ outcome' = "consensus-reached"
             /\ UNCHANGED <<spawnVars, round, said>>
          \/ /\ Evaluate(ballot) = "needs-revision" /\ AtCap
             /\ pc' = "asking" /\ round' = round + 1 /\ said' = "none"
             /\ UNCHANGED <<spawnVars, outcome>>
          \/ /\ Evaluate(ballot) = "needs-revision" /\ ~AtCap
             /\ pc' = "revise" /\ round' = round + 1
             /\ BeginTop(Reviser)
             /\ UNCHANGED <<said, outcome>>
  /\ UNCHANGED <<auto, version, shown, reviews>>

\* requestRevision returns, and incrementRevisionRound writes a counter that
\* nothing reads; or the reviser's error leaves run().
Revised ==
  /\ pc = "revise"
  /\ \/ /\ stage[Reviser] = "answered" /\ Note(Reviser)
        /\ pc' = "counting" /\ version' = version + 1
        /\ UNCHANGED outcome
     \/ /\ stage[Reviser] = "failed" /\ Throw
        /\ UNCHANGED <<spawnVars, version>>
  /\ UNCHANGED <<auto, reviews, round, shown, vote, said>>

NextRound ==
  /\ pc = "counting"
  /\ \/ stage[Reviser] = "answered" /\ pc' = "capture" /\ UNCHANGED outcome
     \/ stage[Reviser] = "failed" /\ Throw
  /\ UNCHANGED <<spawnVars, auto, reviews, round, version, shown, vote, said>>

-----------------------------------------------------------------------------
(* The operator, and the other callers of invoke_agent                       *)

Asking == pc = "asking" \/ \E c \in Calls : stage[c] = "asking"

DecideAnything(d) ==      \* mutant: the answer to a rejected call ends the review
  IF pc \in {"asking", "review"}
  THEN pc' = "ended" /\ outcome' = IF d = "abort" THEN "aborted" ELSE "human-approved"
  ELSE UNCHANGED <<pc, outcome>>

Decide(d) ==
  IF pc = "asking"
  THEN pc' = "ended" /\ outcome' = IF d = "abort" THEN "aborted" ELSE "human-approved"
  ELSE UNCHANGED <<pc, outcome>>

\* A line typed at the terminal: every open prompt reads it.  The prompt of a
\* rejected call ignores what it says.
Typed ==
  /\ Asking
  /\ \E d \in IF auto THEN {"proceed"} ELSE {"proceed", "abort"} :
       said' = (IF pc = "ended" THEN said ELSE d) /\ Decide(d)
  /\ stage' = [c \in Calls |-> IF stage[c] = "asking" THEN "rejecting" ELSE stage[c]]
  /\ image' = [c \in Calls |-> IF stage[c] = "asking" THEN Now ELSE image[c]]
  /\ UNCHANGED <<depth, tracker, disk, history, auto, reviews, round, version, shown, vote>>

\* A client calls invoke_agent without an invocationContext, or another tool that
\* updates the session (submit_for_consensus stores its outcome so).
ClientCall(c) ==
  c \in Clients /\ (BeginTop(c) \/ Note(c)) /\ UNCHANGED <<auto, loopVars, reviews>>

AgentCall(c, p) == Delegate(c, p) /\ UNCHANGED <<auto, loopVars, reviews>>

Progress(c) == Runs(c) /\ UNCHANGED <<auto, loopVars, reviews>>

\* start --session and serve begin with no loop; serve decides by itself.
Crash ==
  /\ SpawnRestart
  /\ auto' \in BOOLEAN
  /\ pc' = "idle" /\ outcome' = "none" /\ said' = "none" /\ reviews' = 0
  /\ round' = 0 /\ version' = 0
  /\ shown' = [r \in Reviewers |-> 0] /\ vote' = [r \in Reviewers |-> "other"]

Loop == StartRound \/ EndRound \/ Revised \/ NextRound \/ LoopWriteFails

Next ==
  \/ Submit
  \/ Loop
  \/ Typed
  \/ \E c \in Calls : ClientCall(c) \/ Progress(c) \/ \E p \in Calls : AgentCall(c, p)
  \/ Crash

Spec == Init /\ [][Next]_vars

\* The process runs what is ready; a CLI ends or is killed after its timeout.
\* Of the operator nothing is assumed.
FairSpec ==
  /\ Spec
  /\ WF_vars(Loop) /\ WF_vars(auto /\ Typed)
  /\ \A c \in Calls : WF_vars(Progress(c))

-----------------------------------------------------------------------------
(* Properties                                                                *)

TypeOK ==
  /\ SpawnTypeOK
  /\ auto \in BOOLEAN
  /\ pc \in {"idle", "capture", "review", "revise", "counting", "asking", "ended"}
  /\ round \in 0 .. MaxRounds /\ version \in 0 .. MaxRounds
  /\ shown \in [Reviewers -> 0 .. MaxRounds]
  /\ vote \in [Reviewers -> Answers]
  /\ said \in {"none", "proceed", "abort"} /\ outcome \in Outcomes
  /\ reviews \in 0 .. MaxReviews

(* Consensus is reported only when every reviewer's CLI was started with the  *)
(* content as it is now, ended without an error, and approved: no reviewer    *)
(* that was rejected by the budget, failed, or saw an older version counts.    *)
Unanimity ==
  outcome = "consensus-reached" =>
    \A r \in Reviewers : vote[r] = "approve" /\ stage[r] = "answered" /\ shown[r] = version

(* A review the reviewers did not agree on is decided by an answer given      *)
(* after the loop asked for it, and the loop asks only after a block or when  *)
(* its rounds are used up; serve and --dry-run always answer proceed.         *)
OperatorDecides ==
  outcome \in {"human-approved", "aborted"} =>
    /\ said = IF outcome = "aborted" THEN "abort" ELSE "proceed"
    /\ (\E r \in Reviewers : vote[r] = "block") \/ round = MaxRounds
    /\ auto => outcome = "human-approved"

(* Every review comes to its end or waits for the operator, whatever fails    *)
(* and whoever else invokes agents.                                           *)
ReviewEnds ==
  pc \notin {"idle", "ended"} ~> pc \in {"idle", "ended"} \/ (~auto /\ Asking)
=============================================================================
