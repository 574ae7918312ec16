------------------------ MODULE Implementation_proofs ------------------------
(* Proofs about the implementation phase, for any number of tasks, any budget *)
(* and any number of commits of others and failed updates.                    *)
EXTENDS Implementation, TLAPS

USE BoundsAssumption DEF MaxReviewRounds

-----------------------------------------------------------------------------
(* The candidate and the commits it is compared with                         *)

InTask == pc \notin {"begin", "failed", "complete"}

\* Where the candidate stands: on the commit its task began from until it is
\* rebased, and never ahead of the session branch.
Based ==
  InTask => /\ cand.base <= head /\ baseCommit <= head
            /\ ~onBranch => cand.base = baseCommit

\* A reviewer is shown a diff whole that fits.
Told(a) == (a.by = "reviewer" /\ a.of.fits) => a.seen = a.of

\* The diff under review is the candidate's, against a commit no older than its
\* base: it may show what others have committed since.
UnderReview ==
  pc \in {"review", "blocked", "approved", "verify", "integrate", "merge"} =>
    diff.of = cand /\ cand.base <= diff.against /\ diff.against <= head

\* Once the branch was found where the candidate starts, nothing lay between.
Bound ==
  /\ pc \in {"approved", "verify", "integrate", "merge"} =>
       approval.by # "nobody" /\ approval.of = diff
  /\ pc \in {"verify", "integrate", "merge"} => checked = cand.base /\ diff.against = cand.base
  /\ pc \in {"integrate", "merge"} => verified = cand
  /\ pc = "merge" => head = checked \/ raced

Reviewed == Based /\ UnderReview /\ Bound /\ Told(approval) /\ MergedAsReviewed

-----------------------------------------------------------------------------
(* The marks                                                                 *)

Merged == {m.task : m \in landed}

Marks ==
  /\ \A t \in 1 .. Tasks : status[t] = "integrated" => t \in Merged
  /\ \A t \in Merged : \/ status[t] = "integrated"
                       \/ t = task /\ pc = "merged"
                       \/ t = task /\ pc \in {"failing", "failed"} /\ faults > 0
  /\ 1 .. task - 1 \subseteq Merged /\ Merged \subseteq 1 .. task
  /\ pc = "merged" => task \in Merged
  /\ task \in Merged => pc \in {"merged", "failing", "failed", "complete"}
  /\ pc = "complete" => task = Tasks /\ task \in Merged
  /\ status[task] = "integrated" => pc = "complete"

Inv == TypeOK /\ Reviewed /\ Marks

-----------------------------------------------------------------------------
(* What the records of candidates and diffs hold                             *)

LEMMA CandTyped ==
  ASSUME NEW c \in Cand
  PROVE  c.base \in Nat /\ c.gen \in Nat
  BY DEF Cand

LEMMA CandMade ==
  ASSUME NEW b \in Nat, NEW g \in Nat
  PROVE  /\ [base |-> b, gen |-> g] \in Cand
         /\ [base |-> b, gen |-> g].base = b
  BY DEF Cand

LEMMA CandMoved ==
  ASSUME NEW c \in Cand, NEW b \in Nat
  PROVE  [c EXCEPT !.base = b] \in Cand /\ [c EXCEPT !.base = b].base = b
  BY DEF Cand

LEMMA DiffMade ==
  ASSUME NEW a \in Nat, NEW c \in Cand, NEW f \in BOOLEAN
  PROVE  /\ [against |-> a, of |-> c, fits |-> f] \in Diff
         /\ [against |-> a, of |-> c, fits |-> f].against = a
         /\ [against |-> a, of |-> c, fits |-> f].of = c
  BY DEF Diff

LEMMA DiffTyped ==
  ASSUME NEW d \in Diff
  PROVE  d.against \in Nat /\ d.of \in Cand
  BY DEF Diff

LEMMA NoneTyped == NoCand \in Cand /\ NoDiff \in Diff /\ NoApproval \in Approval
  BY DEF NoCand, NoDiff, NoApproval, Cand, Diff, Approval

LEMMA NoneTold == Told(NoApproval)
  BY DEF Told, NoApproval

LEMMA ApprovalMade ==
  ASSUME NEW d \in Diff, NEW who \in {"reviewer", "operator"}
  PROVE  LET a == [by |-> who, of |-> d, seen |-> SeenBy(who, d)]
         IN  a \in Approval /\ a.by # "nobody" /\ a.of = d /\ Told(a)
<1>1. SeenBy(who, d) \in Diff /\ ((who = "reviewer" /\ d.fits) => SeenBy(who, d) = d)
  BY NoneTyped DEF SeenBy
<1> QED
  BY <1>1 DEF Approval, Told

LEMMA InitInv == Init => Inv
<1> SUFFICES ASSUME Init PROVE Inv
  OBVIOUS
<1> USE DEF Init
<1>1. TypeOK
  <2>1. status \in [1 .. Tasks -> {"none", "implementing", "reviewing", "integrated", "failed"}]
    OBVIOUS
  <2>2. landed \subseteq [task : 1 .. Tasks, onto : Nat, cand : Cand, approval : Approval,
                          verified : Cand, raced : BOOLEAN]
    OBVIOUS
  <2>3. /\ head \in Nat /\ baseCommit \in Nat /\ task \in 1 .. Tasks /\ checked \in Nat
        /\ tries \in 0 .. MaxReviewRounds /\ spent \in 0 .. Budget
        /\ foreign \in 0 .. MaxForeign /\ faults \in 0 .. MaxFaults
    OBVIOUS
  <2> QED
    BY <2>1, <2>2, <2>3, NoneTyped DEF TypeOK
<1>2. Reviewed
  BY NoneTold DEF Reviewed, Based, InTask, UnderReview, Bound, MergedAsReviewed
<1>3. Merged = {}
  BY DEF Merged
<1>4. Marks
  BY <1>3 DEF Marks
<1> QED
  BY <1>1, <1>2, <1>4 DEF Inv

\* Every step keeps the types.
LEMMA ApprovedMade ==
  ASSUME TypeOK, NEW who \in {"reviewer", "operator"}, ApprovedBy(who)
  PROVE  /\ pc' = "approved" /\ approval' \in Approval
         /\ approval'.by # "nobody" /\ approval'.of = diff /\ Told(approval')
<1>1. diff \in Diff
  BY DEF TypeOK
<1> QED
  BY <1>1, ApprovalMade DEF ApprovedBy, Go

LEMMA TypeKept ==
  ASSUME TypeOK, [Next]_vars
  PROVE  TypeOK'
<1> USE DEF TypeOK
<1>1. CASE Begin
  <2>1. cand' \in Cand /\ diff' \in Diff /\ verified' \in Cand /\ approval' \in Approval
    BY <1>1, CandMade, NoneTyped DEF Begin
  <2>2. status' \in [1 .. Tasks -> {"none", "implementing", "reviewing", "integrated", "failed"}]
    BY <1>1 DEF Begin, SetStatus
  <2> QED
    <3>1. /\ pc' = "generate" /\ task' = task /\ head' = head /\ landed' = landed
          /\ baseCommit' = head /\ onBranch' = FALSE /\ tries' = 0 /\ checked' = 0 /\ raced' = FALSE
          /\ UNCHANGED bounds
      BY <1>1 DEF Begin, Go
    <3>2. /\ pc' \in {"generate"} /\ task' \in 1 .. Tasks /\ head' \in Nat /\ baseCommit' \in Nat
          /\ onBranch' \in BOOLEAN /\ raced' \in BOOLEAN
      BY <3>1
    <3>3. tries' \in 0 .. MaxReviewRounds /\ checked' \in Nat
      BY <3>1
    <3>4. spent' \in 0 .. Budget /\ foreign' \in 0 .. MaxForeign /\ faults' \in 0 .. MaxFaults
      BY <3>1 DEF bounds
    <3>5. landed' \subseteq [task : 1 .. Tasks, onto : Nat, cand : Cand, approval : Approval,
                             verified : Cand, raced : BOOLEAN]
      BY <3>1
    <3> QED
      BY <2>1, <2>2, <3>2, <3>3, <3>4, <3>5
<1>2. CASE BeginFails
  <2>1. status' \in [1 .. Tasks -> {"none", "implementing", "reviewing", "integrated", "failed"}]
    BY <1>2 DEF BeginFails, SetStatus
  <2> QED
    BY <1>2, <2>1 DEF BeginFails, Go, git, review, history, bounds
<1>3. CASE Generate
  BY <1>3 DEF Generate, Go, Invoke, Refused, git, review, history
<1>4. CASE Materialize
  <2>1. ReviewBase \in Nat
    BY DEF ReviewBase
  <2>2. [base |-> ReviewBase, gen |-> cand.gen + 1] \in Cand
    BY <2>1, CandTyped, CandMade
  <2> QED
    BY <1>4, <2>2 DEF Materialize, Go, review, history, bounds
<1>5. CASE GetDiff
  <2>1. ReviewBase \in Nat
    BY DEF ReviewBase
  <2>2. diff' \in Diff
    <3>1. PICK fits \in BOOLEAN : diff' = [against |-> ReviewBase, of |-> cand, fits |-> fits]
      BY <1>5 DEF GetDiff
    <3> QED
      BY <2>1, <3>1, DiffMade
  <2>3. status' \in [1 .. Tasks -> {"none", "implementing", "reviewing", "integrated", "failed"}]
    BY <1>5 DEF GetDiff, SetStatus
  <2> QED
    BY <1>5, <2>2, <2>3 DEF GetDiff, Go, history, bounds
<1>6. CASE ReviewRound
  <2>1. approval' \in Approval /\ pc' \in {"approved", "generate", "blocked", "review", "failing",
                                            "escalated"}
    BY <1>6, ApprovedMade DEF ReviewRound, Go, Refused
  <2>2. status' \in [1 .. Tasks -> {"none", "implementing", "reviewing", "integrated", "failed"}]
    BY <1>6 DEF ReviewRound, SetStatus, ApprovedBy
  <2>3. tries' \in 0 .. MaxReviewRounds /\ spent' \in 0 .. Budget
    BY <1>6 DEF ReviewRound, Invoke, Refused, ApprovedBy
  <2> QED
    BY <1>6, <2>1, <2>2, <2>3 DEF ReviewRound, git
<1>7. CASE ReviewCap
  BY <1>7 DEF ReviewCap, Go, git, review, history, bounds
<1>8. CASE CheckBase
  BY <1>8 DEF CheckBase, Go, git, history, bounds
<1>9. CASE Rebase
  <2>1. [cand EXCEPT !.base = head] \in Cand
    BY CandMoved
  <2> QED
    BY <1>9, <2>1 DEF Rebase, Go, Rebased, review, history, bounds
<1>10. CASE Verify
  BY <1>10 DEF Verify, Go, Accepts, Evidence, git, history, bounds
<1>11. CASE Integrate
  BY <1>11 DEF Integrate, Go, HeadUnmoved, review, bounds
<1>12. CASE Merge
  <2>1. CASE MergeFails
    BY <1>12, <2>1 DEF Merge, MergeFails, Go, review, bounds
  <2>2. CASE landed' = landed \cup {[task |-> task, onto |-> head, cand |-> cand,
                                    approval |-> approval, verified |-> verified, raced |-> raced]} /\ head' = head + 1
             /\ Go("merged")
    <3>1. landed' \subseteq [task : 1 .. Tasks, onto : Nat, cand : Cand, approval : Approval,
                             verified : Cand, raced : BOOLEAN]
      BY <2>2
    <3> QED
      BY <1>12, <2>2, <3>1 DEF Merge, Go, review, bounds
  <2> QED
    BY <1>12, <2>1, <2>2 DEF Merge
<1>13. CASE Integrated
  BY <1>13 DEF Integrated, Go, SetStatus, GoesOn, git, review, history, bounds
<1>14. CASE Fail
  BY <1>14 DEF Fail, Go, SetStatus, Rethrow, git, review, history, bounds
<1>15. CASE StoreFails
  BY <1>15 DEF StoreFails, Go, Storing, git, review, history
<1>16. CASE Escalated
  BY <1>16 DEF Escalated, Go, git, review, history, bounds
<1>17. CASE Unblock
  <2>1. approval' \in Approval /\ pc' \in {"approved", "failing"}
    BY <1>17, ApprovedMade DEF Unblock, Go
  <2> QED
    BY <1>17, <2>1 DEF Unblock, git, review, bounds
<1>18. CASE Conflict
  <2>1. [cand EXCEPT !.base = head] \in Cand
    BY CandMoved
  <2> QED
    BY <1>18, <2>1 DEF Conflict, Go, Rebased, review, history, bounds
<1>19. CASE Foreign
  BY <1>19 DEF Foreign, review
<1>20. CASE UNCHANGED vars
  BY <1>20 DEF vars
<1> QED
  BY <1>1, <1>2, <1>3, <1>4, <1>5, <1>6, <1>7, <1>8, <1>9, <1>10, <1>11, <1>12, <1>13, <1>14, <1>15, <1>16, <1>17, <1>18, <1>19, <1>20 DEF Next, Work

\* Every step keeps the candidate and what it was compared with together.
LEMMA ReviewedKept ==
  ASSUME TypeOK, Reviewed, [Next]_vars
  PROVE  Reviewed'
<1> USE DEF TypeOK, Reviewed, Based, InTask, UnderReview, Bound, MergedAsReviewed
<1>1. CASE Begin
  <2>1. [base |-> head, gen |-> 0].base = head
    BY CandMade
  <2> QED
    BY <1>1, <2>1, NoneTold DEF Begin, Go, bounds
<1>2. CASE BeginFails
  BY <1>2 DEF BeginFails, Go, SetStatus, git, review, history, bounds
<1>3. CASE Generate
  BY <1>3 DEF Generate, Go, Invoke, Refused, git, review, history
<1>4. CASE Materialize
  <2>1. ReviewBase \in Nat /\ ReviewBase <= head /\ (~onBranch => ReviewBase = baseCommit)
    BY <1>4 DEF ReviewBase, Materialize
  <2>2. [base |-> ReviewBase, gen |-> cand.gen + 1].base = ReviewBase
    BY <2>1, CandTyped, CandMade
  <2> QED
    BY <1>4, <2>1, <2>2 DEF Materialize, Go, review, history, bounds
<1>5. CASE GetDiff
  <2>1. /\ ReviewBase \in Nat /\ cand.base \in Nat
        /\ ReviewBase <= head /\ cand.base <= ReviewBase
    BY <1>5, CandTyped DEF ReviewBase, GetDiff
  <2>2. diff'.of = cand /\ diff'.against = ReviewBase
    <3>1. PICK fits \in BOOLEAN : diff' = [against |-> ReviewBase, of |-> cand, fits |-> fits]
      BY <1>5 DEF GetDiff
    <3> QED
      BY <2>1, <3>1, DiffMade
  <2> QED
    BY <1>5, <2>1, <2>2 DEF GetDiff, Go, history, bounds
<1>6. CASE ReviewRound
  <2>1. CASE ApprovedBy("reviewer") /\ UNCHANGED <<tries, status>>
    BY <1>6, <2>1, ApprovedMade DEF ReviewRound, git
  <2>2. CASE approval' = approval /\ pc' \in {"generate", "blocked", "review", "failing", "escalated"}
    BY <1>6, <2>2 DEF ReviewRound, git
  <2> QED
    BY <1>6, <2>1, <2>2 DEF ReviewRound, Go, Refused
<1>7. CASE ReviewCap
  BY <1>7 DEF ReviewCap, Go, git, review, history, bounds
<1>8. CASE CheckBase
  <2>1. cand.base \in Nat /\ diff.against \in Nat
    BY CandTyped, DiffTyped
  <2> QED
    BY <1>8, <2>1 DEF CheckBase, Go, git, history, bounds
<1>9. CASE Rebase
  <2>1. landed' = landed /\ head' = head /\ baseCommit' = baseCommit /\ baseCommit <= head
    BY <1>9 DEF Rebase, history
  <2> Told(approval')
    BY <1>9 DEF Rebase, history
  <2>2. CASE cand' = [cand EXCEPT !.base = head] /\ onBranch' = TRUE /\ pc' = "diff"
    <3>1. cand'.base = head
      BY <2>2, CandMoved
    <3>2. Based'
      BY <2>1, <2>2, <3>1
    <3>3. UnderReview' /\ Bound' /\ MergedAsReviewed'
      BY <2>1, <2>2
    <3> QED
      BY <3>2, <3>3
  <2>3. CASE pc' = "failing" /\ UNCHANGED <<cand, onBranch>>
    BY <1>9, <2>1, <2>3 DEF Rebase
  <2> QED
    BY <1>9, <2>2, <2>3 DEF Rebase, Rebased, Go
<1>10. CASE Verify
  BY <1>10 DEF Verify, Go, Accepts, Evidence, git, history, bounds
<1>11. CASE Integrate
  BY <1>11 DEF Integrate, Go, HeadUnmoved, review, bounds
<1>12. CASE Merge
  <2>1. CASE MergeFails
    BY <1>12, <2>1 DEF Merge, MergeFails, Go, review, bounds
  <2>2. CASE landed' = landed \cup {[task |-> task, onto |-> head, cand |-> cand,
                                    approval |-> approval, verified |-> verified, raced |-> raced]} /\ head' = head + 1
             /\ Go("merged")
    <3>1. /\ approval.by # "nobody" /\ approval.of.against = cand.base
          /\ approval.of.of = cand /\ Told(approval)
      BY <1>12 DEF Merge
    <3>2. verified = cand /\ (head = cand.base \/ raced)
      BY <1>12 DEF Merge
    <3>3. MergedAsReviewed'
      <4> DEFINE rec == [task |-> task, onto |-> head, cand |-> cand, approval |-> approval,
                         verified |-> verified, raced |-> raced]
      <4>1. /\ rec.onto = head /\ rec.cand = cand /\ rec.approval = approval
            /\ rec.verified = verified /\ rec.raced = raced
        OBVIOUS
      <4>2. landed' = landed \cup {rec}
        BY <2>2
      <4> HIDE DEF rec
      <4>3. MergedAsReviewed
        OBVIOUS
      <4> QED
        BY <3>1, <3>2, <4>1, <4>2, <4>3 DEF Told
    <3>4. cand.base \in Nat
      BY CandTyped
    <3>5. Based' /\ UnderReview' /\ Bound' /\ Told(approval')
      BY <1>12, <2>2, <3>4 DEF Merge, Go, review, bounds
    <3> QED
      BY <3>3, <3>5
  <2> QED
    BY <1>12, <2>1, <2>2 DEF Merge
<1>13. CASE Integrated
  BY <1>13 DEF Integrated, Go, SetStatus, GoesOn, git, review, history, bounds
<1>14. CASE Fail
  BY <1>14 DEF Fail, Go, SetStatus, Rethrow, git, review, history, bounds
<1>15. CASE StoreFails
  BY <1>15 DEF StoreFails, Go, Storing, git, review, history
<1>16. CASE Escalated
  BY <1>16 DEF Escalated, Go, git, review, history, bounds
<1>17. CASE Unblock
  <2>1. CASE ApprovedBy("operator")
    BY <1>17, <2>1, ApprovedMade DEF Unblock, git, review
  <2>2. CASE approval' = approval /\ pc' = "failing"
    BY <1>17, <2>2 DEF Unblock, git, review
  <2> QED
    BY <1>17, <2>1, <2>2 DEF Unblock, Go
<1>18. CASE Conflict
  <2>1. landed' = landed /\ head' = head /\ baseCommit' = baseCommit /\ baseCommit <= head
    BY <1>18 DEF Conflict, history
  <2> Told(approval')
    BY <1>18 DEF Conflict, history
  <2>2. CASE cand' = [cand EXCEPT !.base = head] /\ onBranch' = TRUE /\ pc' = "diff"
    <3>1. cand'.base = head
      BY <2>2, CandMoved
    <3>2. Based'
      BY <2>1, <2>2, <3>1
    <3>3. UnderReview' /\ Bound' /\ MergedAsReviewed'
      BY <2>1, <2>2
    <3> QED
      BY <3>2, <3>3
  <2>3. CASE pc' = "failing" /\ UNCHANGED <<cand, onBranch>>
    BY <1>18, <2>1, <2>3 DEF Conflict
  <2> QED
    BY <1>18, <2>2, <2>3 DEF Conflict, Rebased, Go
<1>19. CASE Foreign
  <2>1. cand.base \in Nat /\ diff.against \in Nat
    BY CandTyped, DiffTyped
  <2>2. /\ landed' = landed /\ head' = head + 1 /\ raced' = (raced \/ pc = "merge")
        /\ UNCHANGED <<pc, cand, onBranch, baseCommit, diff, approval, checked, verified>>
    BY <1>19 DEF Foreign, review
  <2>3. MergedAsReviewed'
    BY <2>2
  <2>4. Based' /\ UnderReview'
    BY <2>1, <2>2
  <2>5. Bound' /\ Told(approval')
    BY <2>2
  <2> QED
    BY <2>3, <2>4, <2>5
<1>20. CASE UNCHANGED vars
  BY <1>20 DEF vars
<1> QED
  BY <1>1, <1>2, <1>3, <1>4, <1>5, <1>6, <1>7, <1>8, <1>9, <1>10, <1>11, <1>12, <1>13, <1>14, <1>15, <1>16, <1>17, <1>18, <1>19, <1>20 DEF Next, Work

\* Every step keeps marks and merges together.
LEMMA MarksKept ==
  ASSUME TypeOK, Marks, [Next]_vars
  PROVE  Marks'
<1> USE DEF TypeOK, Marks, Merged
<1>1. CASE Begin
  BY <1>1 DEF Begin, Go, SetStatus, bounds
<1>2. CASE BeginFails
  BY <1>2 DEF BeginFails, Go, SetStatus, git, review, history, bounds
<1>3. CASE Generate
  BY <1>3 DEF Generate, Go, ApprovedBy, Invoke, Refused, git, review, history
<1>4. CASE Materialize
  BY <1>4 DEF Materialize, Go, ReviewBase, review, history, bounds
<1>5. CASE GetDiff
  BY <1>5 DEF GetDiff, Go, SetStatus, ReviewBase, history, bounds
<1>6. CASE ReviewRound
  BY <1>6 DEF ReviewRound, Go, SetStatus, ApprovedBy, Invoke, Refused, git
<1>7. CASE ReviewCap
  BY <1>7 DEF ReviewCap, Go, git, review, history, bounds
<1>8. CASE CheckBase
  BY <1>8 DEF CheckBase, Go, git, history, bounds
<1>9. CASE Rebase
  BY <1>9 DEF Rebase, Go, Rebased, review, history, bounds
<1>10. CASE Verify
  BY <1>10 DEF Verify, Go, Accepts, Evidence, git, history, bounds
<1>11. CASE Integrate
  BY <1>11 DEF Integrate, Go, HeadUnmoved, review, bounds
<1>12. CASE Merge
  <2>1. CASE MergeFails
    BY <1>12, <2>1 DEF Merge, MergeFails, Go, review, bounds
  <2>2. CASE landed' = landed \cup {[task |-> task, onto |-> head, cand |-> cand,
                                    approval |-> approval, verified |-> verified, raced |-> raced]} /\ Go("merged")
    <3>1. Merged' = Merged \cup {task}
      <4> DEFINE rec == [task |-> task, onto |-> head, cand |-> cand, approval |-> approval,
                         verified |-> verified, raced |-> raced]
      <4>1. rec.task = task
        OBVIOUS
      <4>2. landed' = landed \cup {rec}
        BY <2>2
      <4> HIDE DEF rec
      <4> QED
        BY <4>1, <4>2 DEF Merged
    <3> HIDE DEF Merged
    <3> QED
      BY <1>12, <2>2, <3>1 DEF Merge, Go, review, bounds
  <2> QED
    BY <1>12, <2>1, <2>2 DEF Merge
<1>13. CASE Integrated
  <2>1. Merged' = Merged
    BY <1>13 DEF Integrated, history, Merged
  <2>2. status' = [status EXCEPT ![task] = "integrated"] /\ faults' = faults /\ task \in Merged
    BY <1>13 DEF Integrated, SetStatus, bounds
  <2> HIDE DEF Merged
  <2>3. CASE task < Tasks /\ pc' = "begin" /\ task' = task + 1
    <3>1. 1 .. task' - 1 = (1 .. task - 1) \cup {task} /\ 1 .. task \subseteq 1 .. task'
      BY <2>3
    <3>2. task' \notin Merged
      BY <2>3
    <3> QED
      BY <2>1, <2>2, <2>3, <3>1, <3>2
  <2>4. CASE ~(task < Tasks) /\ pc' = "complete" /\ task' = task
    BY <2>1, <2>2, <2>4
  <2> QED
    BY <1>13, <2>3, <2>4 DEF Integrated, GoesOn, Go
<1>14. CASE Fail
  <2>1. Merged' = Merged
    BY <1>14 DEF Fail, history, Merged
  <2>2. /\ status' = [status EXCEPT ![task] = "failed"] /\ faults' = faults
        /\ pc = "failing" /\ pc' = "failed" /\ task' = task
    BY <1>14 DEF Fail, SetStatus, bounds, Rethrow, Go
  <2> HIDE DEF Merged
  <2> QED
    BY <2>1, <2>2
<1>15. CASE StoreFails
  BY <1>15 DEF StoreFails, Go, Storing, git, review, history
<1>16. CASE Escalated
  BY <1>16 DEF Escalated, Go, git, review, history, bounds
<1>17. CASE Unblock
  BY <1>17 DEF Unblock, ApprovedBy, Go, git, review, bounds
<1>18. CASE Conflict
  BY <1>18 DEF Conflict, Go, Rebased, review, history, bounds
<1>19. CASE Foreign
  BY <1>19 DEF Foreign, review
<1>20. CASE UNCHANGED vars
  BY <1>20 DEF vars
<1> QED
  BY <1>1, <1>2, <1>3, <1>4, <1>5, <1>6, <1>7, <1>8, <1>9, <1>10, <1>11, <1>12, <1>13, <1>14, <1>15, <1>16, <1>17, <1>18, <1>19, <1>20 DEF Next, Work

LEMMA SpecInv == Spec => []Inv
<1>1. Inv /\ [Next]_vars => Inv'
  BY TypeKept, ReviewedKept, MarksKept DEF Inv
<1> QED
  BY <1>1, InitInv, PTL DEF Spec

-----------------------------------------------------------------------------
(* For any number of tasks and of commits of others, what is merged is the    *)
(* candidate that was approved from its own diff and passed by the steward.   *)
THEOREM MergesReviewed == Spec => []MergedAsReviewed
<1>1. Inv => MergedAsReviewed
  BY DEF Inv, Reviewed
<1> QED
  BY <1>1, SpecInv, PTL

(* For any number of tasks and failed updates, the marks of the tasks tell    *)
(* the merges, tasks merge in order, and the phase ends with all merged.      *)
THEOREM MarksAlwaysTell == Spec => []MarksTellMerges
<1>1. Inv => MarksTellMerges
  BY DEF Inv, TypeOK, Marks, Merged, MarksTellMerges
<1> QED
  BY <1>1, SpecInv, PTL
=============================================================================
