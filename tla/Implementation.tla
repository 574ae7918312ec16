--------------------------- MODULE Implementation ---------------------------
(* The implementation phase (phases/implementation.ts) with the steward's     *)
(* verification (steward-verifier.ts).  Tasks run one after the other, each   *)
(* on a branch and worktree of its own, while others, people or agents, may   *)
(* commit to the session branch.                                              *)
(*                                                                            *)
(* The commits of the session branch are numbered; a candidate is the commit  *)
(* of the task branch: the patch gen applied to commit base.                  *)
EXTENDS Naturals

CONSTANTS
  Tasks,          \* number of task assignments
  Budget,         \* invocations of agents the session has left
  MaxForeign,     \* bound on commits of others
  MaxFaults       \* bound on updates of state.json that fail

ASSUME BoundsAssumption ==
  Tasks \in Nat \ {0} /\ Budget \in Nat /\ MaxForeign \in Nat /\ MaxFaults \in Nat

MaxReviewRounds == 3

VARIABLES
  pc,             \* where run() is
  task,           \* the task it runs
  status,         \* taskWorktrees[task].status, in memory
  head,           \* the session branch
  cand,           \* the candidate
  onBranch,       \* reviewBase is the session branch, not baseCommit
  baseCommit,
  diff,           \* getDiff: the candidate against a commit
  tries,          \* rounds of reviewTaskImplementation
  checked,        \* reviewedSessionHead
  verified,       \* the candidate the steward passed
  spent, foreign, faults,
  approval,       \* history: who approved, of which diff, having seen what of it
  raced,          \* history: the branch moved after its last check
  landed          \* history: one record for each task merged

vars == <<pc, task, status, head, cand, onBranch, baseCommit, diff, tries, checked,
          verified, spent, foreign, faults, approval, raced, landed>>

Cand == [base : Nat, gen : Nat]
NoCand == [base |-> 0, gen |-> 0]
\* A diff has at most the 12,000 characters a prompt takes, or more.
Diff == [against : Nat, of : Cand, fits : BOOLEAN]
NoDiff == [against |-> 0, of |-> NoCand, fits |-> TRUE]

\* A diff that does not fit is cut, and what is left tells no candidates apart.
\* The operator's prompt has the name of the task and a reason, and no diff.
SeenBy(who, d) == IF who = "reviewer" /\ d.fits THEN d ELSE NoDiff

Approval == [by : {"nobody", "reviewer", "operator"}, of : Diff, seen : Diff]
NoApproval == [by |-> "nobody", of |-> NoDiff, seen |-> NoDiff]

Init ==
  /\ pc = "begin" /\ task = 1 /\ status = [t \in 1 .. Tasks |-> "none"]
  /\ head = 1 /\ cand = NoCand /\ onBranch = FALSE /\ baseCommit = 0
  /\ diff = NoDiff /\ tries = 0 /\ checked = 0 /\ verified = NoCand
  /\ spent = 0 /\ foreign = 0 /\ faults = 0
  /\ approval = NoApproval /\ raced = FALSE /\ landed = {}

Go(p) == pc' = p
SetStatus(s) == status' = [status EXCEPT ![task] = s]

\* What reviewBase names now.
ReviewBase == IF onBranch THEN head ELSE baseCommit

git == <<head, cand, onBranch, baseCommit, diff>>
review == <<tries, checked, verified>>
history == <<approval, raced, landed>>
bounds == <<spent, foreign, faults>>

-----------------------------------------------------------------------------
(* The task's patch                                                          *)

\* The branch and the worktree are made from HEAD.
Begin ==
  /\ pc = "begin" /\ Go("generate")
  /\ baseCommit' = head /\ cand' = [base |-> head, gen |-> 0] /\ onBranch' = FALSE
  /\ SetStatus("implementing")
  /\ diff' = NoDiff /\ tries' = 0 /\ checked' = 0 /\ verified' = NoCand
  /\ approval' = NoApproval /\ raced' = FALSE
  /\ UNCHANGED <<task, head, landed, bounds>>

\* Before the try: git fails, on a branch left over from a run that was killed
\* say, or the update does after it has changed the state in memory.
BeginFails ==
  /\ pc = "begin" /\ Go("failed")
  /\ UNCHANGED status \/ SetStatus("implementing")
  /\ UNCHANGED <<task, git, review, history, bounds>>

\* invokeAgent: the budget lets the call in, or it is rejected.
Invoke == spent < Budget /\ spent' = spent + 1
RefusedRetried == spent = Budget /\ UNCHANGED <<pc, spent>>   \* mutant: asked again
Refused == spent = Budget /\ Go("escalated") /\ UNCHANGED spent

\* The operator is asked at a spent budget, and the call rejected all the same.
Escalated ==
  /\ pc = "escalated" /\ Go("failing")
  /\ UNCHANGED <<task, status, git, review, history, bounds>>

Generate ==
  /\ pc = "generate"
  /\ \/ Invoke /\ Go("apply")
     \/ Invoke /\ Go("failing")          \* the CLI fails, or no diff is found
     \/ Refused
  /\ UNCHANGED <<task, status, git, review, history, foreign, faults>>

\* materializePatch: reset --hard to the review base, apply, commit.
Materialize ==
  /\ pc = "apply"
  /\ \/ Go("diff") /\ cand' = [base |-> ReviewBase, gen |-> cand.gen + 1]
     \/ Go("failing") /\ UNCHANGED cand  \* the patch does not apply
  /\ UNCHANGED <<task, status, head, onBranch, baseCommit, diff, review, history, bounds>>

GetDiff ==
  /\ pc = "diff" /\ Go("review")
  /\ \E fits \in BOOLEAN :
       /\ (diff.against = ReviewBase /\ diff.of = cand) => fits = diff.fits  \* the same again
       /\ diff' = [against |-> ReviewBase, of |-> cand, fits |-> fits]
  /\ SetStatus("reviewing") /\ tries' = 0
  /\ UNCHANGED <<task, head, cand, onBranch, baseCommit, checked, verified, history, bounds>>

-----------------------------------------------------------------------------
(* reviewTaskImplementation                                                  *)

ApprovedBy(who) ==
  Go("approved") /\ approval' = [by |-> who, of |-> diff, seen |-> SeenBy(who, diff)]

\* A round: approve and request-changes end it, a block asks the operator, any
\* other answer is asked for again.
ReviewRound ==
  /\ pc = "review" /\ tries < MaxReviewRounds
  /\ \/ /\ Invoke
        /\ \/ ApprovedBy("reviewer") /\ UNCHANGED <<tries, status>>
           \/ Go("generate") /\ SetStatus("implementing") /\ UNCHANGED <<tries, approval>>
           \/ Go("blocked") /\ UNCHANGED <<tries, status, approval>>
           \/ Go("review") /\ tries' = tries + 1 /\ UNCHANGED <<status, approval>>
           \/ Go("failing") /\ UNCHANGED <<tries, status, approval>>
     \/ Refused /\ UNCHANGED <<tries, status, approval>>
  /\ UNCHANGED <<task, git, checked, verified, raced, landed, foreign, faults>>

ReviewCap ==
  /\ pc = "review" /\ tries = MaxReviewRounds /\ Go("blocked")
  /\ UNCHANGED <<task, status, git, review, history, bounds>>

\* The operator decides on a block or at the cap.
Unblock ==
  /\ pc = "blocked"
  /\ \/ ApprovedBy("operator")
     \/ Go("failing") /\ UNCHANGED approval
  /\ UNCHANGED <<task, status, git, review, raced, landed, bounds>>

-----------------------------------------------------------------------------
(* From an approval to the merge                                             *)

\* The branch must contain the head of the session branch, or it is rebased.
CheckBase ==
  /\ pc = "approved"
  /\ checked' = head
  /\ Go(IF cand.base = head THEN "verify" ELSE "rebase")
  /\ UNCHANGED <<task, status, git, tries, verified, history, bounds>>

\* git rebase onto whatever the session branch is by now.
Rebased ==
  \/ Go("diff") /\ cand' = [cand EXCEPT !.base = head] /\ onBranch' = TRUE
  \/ cand.base # head /\ Go("failing") /\ UNCHANGED <<cand, onBranch>>

Rebase ==
  /\ pc = "rebase" /\ Rebased
  /\ UNCHANGED <<task, status, head, baseCommit, diff, review, history, bounds>>

\* What the provider reports: the candidate it ran, and a verdict.
Evidence == [commit : {cand, NoCand}, verdict : {"pass", "fail", "not-verifiable"},
             authentic : BOOLEAN]

AcceptsUnbound(e) == e.authentic /\ e.verdict = "pass"
                       \* mutant: the result may be of other inputs
Accepts(e) == e.commit = cand /\ e.authentic /\ e.verdict = "pass"

Verify ==
  /\ pc = "verify"
  /\ \E e \in Evidence :
       IF Accepts(e) THEN verified' = e.commit /\ Go("integrate")
       ELSE verified' = verified /\ Go("failing")
  /\ UNCHANGED <<task, status, git, tries, checked, history, bounds>>

HeadUnmovedUnchecked == TRUE       \* mutant: the head is not compared again
HeadUnmoved == head = checked

\* integrateTask looks at the head again: if it has moved, the candidate is
\* reviewed once more as it is, and rebased when that review has ended.
Integrate ==
  /\ pc = "integrate"
  /\ IF HeadUnmoved
     THEN Go("merge") /\ raced' = FALSE /\ UNCHANGED onBranch
     ELSE Go("diff") /\ onBranch' = TRUE /\ UNCHANGED raced
  /\ UNCHANGED <<task, status, head, cand, baseCommit, diff, review, approval, landed, bounds>>

\* mutant: a merge that fails is taken for one that is done
MergeFailsUnseen == Go("merged") /\ UNCHANGED <<head, landed>>
MergeFails == Go("conflict") /\ UNCHANGED <<head, landed>>

\* checkout and merge --no-ff are commands of their own after that look.
Merge ==
  /\ pc = "merge"
  /\ \/ /\ Go("merged") /\ head' = head + 1
        /\ landed' = landed \cup {[task |-> task, onto |-> head, cand |-> cand,
                                   approval |-> approval, verified |-> verified, raced |-> raced]}
     \/ MergeFails
  /\ UNCHANGED <<task, status, cand, onBranch, baseCommit, diff, review, approval, raced, bounds>>

\* merge --abort, the operator, and a rebase.
Conflict ==
  /\ pc = "conflict"
  /\ \/ Rebased
     \/ Go("failing") /\ UNCHANGED <<cand, onBranch>>          \* abort
  /\ UNCHANGED <<task, status, head, baseCommit, diff, review, history, bounds>>

GoesOn ==
  IF task < Tasks THEN Go("begin") /\ task' = task + 1
  ELSE Go("complete") /\ UNCHANGED task

Integrated ==
  /\ pc = "merged" /\ SetStatus("integrated") /\ GoesOn
  /\ UNCHANGED <<git, review, history, bounds>>

RethrowForgotten == GoesOn     \* mutant: run() goes on with the next task
Rethrow == Go("failed") /\ UNCHANGED task

\* catch and finally: the task is marked, its worktree removed, the phase over.
Fail ==
  /\ pc = "failing" /\ SetStatus("failed") /\ Rethrow
  /\ UNCHANGED <<git, review, history, bounds>>

\* Status, evidence and checkpointPending are stored by updates that may fail.
Storing == {"generate", "review", "blocked", "integrate", "merged", "conflict"}
StoreFails ==
  /\ pc \in Storing /\ faults < MaxFaults /\ faults' = faults + 1
  /\ Go("failing")
  /\ UNCHANGED <<task, status, git, review, history, spent, foreign>>

\* Somebody else commits to the session branch.
Foreign ==
  /\ pc \notin {"complete", "failed"} /\ foreign < MaxForeign
  /\ foreign' = foreign + 1 /\ head' = head + 1
  /\ raced' = (raced \/ pc = "merge")
  /\ UNCHANGED <<pc, task, status, cand, onBranch, baseCommit, diff, review, approval, landed,
                 spent, faults>>

Work ==
  \/ Begin \/ Generate \/ Materialize \/ GetDiff \/ ReviewRound \/ ReviewCap
  \/ CheckBase \/ Rebase \/ Verify \/ Integrate \/ Merge \/ Integrated \/ Fail

Next ==
  \/ Work
  \/ BeginFails \/ StoreFails
  \/ Escalated \/ Unblock \/ Conflict
  \/ Foreign

Spec == Init /\ [][Next]_vars

\* CLIs, git and the provider end, the last two after a timeout; the operator
\* need not answer.
FairSpec == Spec /\ WF_vars(Work)

-----------------------------------------------------------------------------
TypeOK ==
  /\ pc \in {"begin", "generate", "escalated", "apply", "diff", "review", "blocked", "approved",
             "rebase", "verify", "integrate", "merge", "conflict", "merged", "failing", "failed",
             "complete"}
  /\ task \in 1 .. Tasks
  /\ status \in [1 .. Tasks -> {"none", "implementing", "reviewing", "integrated", "failed"}]
  /\ head \in Nat /\ cand \in Cand /\ baseCommit \in Nat /\ onBranch \in BOOLEAN
  /\ diff \in Diff /\ approval \in Approval /\ verified \in Cand
  /\ tries \in 0 .. MaxReviewRounds /\ checked \in Nat
  /\ spent \in 0 .. Budget /\ foreign \in 0 .. MaxForeign /\ faults \in 0 .. MaxFaults
  /\ raced \in BOOLEAN
  /\ landed \subseteq [task : 1 .. Tasks, onto : Nat, cand : Cand, approval : Approval,
                       verified : Cand, raced : BOOLEAN]

(* What is merged was approved, by the reviewer or the operator, while the     *)
(* diff of exactly that candidate against its base was under review, of which  *)
(* a reviewer was shown all if it fits a prompt; the steward passed that very  *)
(* candidate; and it lands on that base, unless somebody committed in the      *)
(* moment between the last look at the branch and the merge.                   *)
MergedAsReviewed ==
  \A m \in landed :
    LET a == m.approval IN
    /\ a.by # "nobody" /\ a.of.against = m.cand.base /\ a.of.of = m.cand
    /\ (a.by = "reviewer" /\ a.of.fits) => a.seen = a.of
    /\ m.verified = m.cand
    /\ m.onto = m.cand.base \/ m.raced

(* What is merged on the word of the reviewing agent is what the agent saw,    *)
(* "the coordinator SHALL send the diff and context to the reviewing agent":   *)
(* two candidates that differ behind the cut are the same review to it.        *)
DiffSent ==
  \A m \in landed :
    m.approval.by = "reviewer" =>
      m.approval.seen.of = m.cand /\ m.approval.seen.against = m.cand.base

(* A task is marked integrated only when its merge is on the branch, and is    *)
(* marked otherwise after its merge only when storing the mark failed, which   *)
(* ends the phase: no earlier task is marked wrongly.  Tasks are merged in     *)
(* order, and the phase is complete only when all of them are.                 *)
MarksTellMerges ==
  LET merged == {m.task : m \in landed} IN
  /\ \A t \in 1 .. Tasks : status[t] = "integrated" => t \in merged
  /\ \A t \in merged : \/ status[t] = "integrated"
                       \/ t = task /\ pc = "merged"
                       \/ t = task /\ pc \in {"failing", "failed"} /\ faults > 0
  /\ 1 .. task - 1 \subseteq merged /\ merged \subseteq 1 .. task
  /\ pc = "complete" => merged = 1 .. Tasks

\* Where the operator is asked.
Waiting == {"blocked", "conflict", "escalated"}

(* The phase ends or waits for the operator: nothing bounds how often a       *)
(* reviewer asks for changes or others move the branch, but each turn costs   *)
(* an invocation of the session's budget.                                     *)
PhaseEnds == <>(pc \in {"complete", "failed"} \cup Waiting)
=============================================================================
