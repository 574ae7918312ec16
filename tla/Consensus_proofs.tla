-------------------------- MODULE Consensus_proofs --------------------------
(* Proofs about the consensus loop and the budget of invocations, for any    *)
(* calls, reviewers, limits and bounds.                                      *)
EXTENDS Consensus, FiniteSetTheorems, TLAPS

\* No counters that may come back exceed what is counted now or the limits.
SavedCounters ==
  /\ disk.active <= MaxConcurrent /\ disk.total <= sessionTotal
  /\ \A c \in Calls : image[c].active <= MaxConcurrent /\ image[c].total <= sessionTotal

\* The loop's own calls are never delegated ones.
LoopDepth == \A r \in Reviewers \cup {Reviser} : depth[r] = 1

\* The total stays in the limit, and misses nothing unless a kill came early.
TotalInv == sessionTotal <= MaxSession /\ (kept => begun = sessionTotal)

(* When the latest calls and updates began apart: none of them is delegated,  *)
(* the last write of each has the counters of now, and so has the disk once   *)
(* all have ended.                                                            *)
ApartInv ==
  /\ \A c \in Calls : stage[c] \in Ended => depth[c] = 1
  /\ apart => /\ \A c \in Calls : depth[c] = 1 /\ (stage[c] \in Closing => image[c] = Now)
              /\ Resting => disk = Now

SpawnInv ==
  SpawnTypeOK /\ SlotsHold /\ TotalInv /\ SavedCounters /\ LoopDepth

USE CallsAssumption, LimitsAssumption, MishapsAssumption, LoopAssumption

-----------------------------------------------------------------------------
LEMMA RestingBoolean == Resting \in BOOLEAN
  BY DEF Resting

LEMMA HoldersFinite ==
  IsFiniteSet(Holders) /\ Cardinality(Holders) \in Nat
<1>1. Holders \subseteq Calls
  BY DEF Holders
<1>2. IsFiniteSet(Holders)
  BY <1>1, FS_Subset
<1> QED
  BY <1>2, FS_CardinalityType

LEMMA InitSpawnInv == SpawnInit => SpawnInv
<1> SUFFICES ASSUME SpawnInit PROVE SpawnInv
  OBVIOUS
<1> USE DEF SpawnInit
<1>1. Holders = {}
  BY DEF Holders, InFlight
<1>2. Cardinality(Holders) = 0
  BY <1>1, FS_EmptySet
<1>3. Zero \in Stats /\ Zero.active = 0 /\ Zero.total = 0
  BY DEF Zero, Stats
<1>4. SpawnTypeOK
  <2>1. slotLost \in BOOLEAN /\ apart \in BOOLEAN /\ kept \in BOOLEAN
    BY Zenon
  <2> QED
    BY <1>3, <2>1 DEF SpawnTypeOK, Stages, Ended
<1>5. SlotsHold
  BY <1>2 DEF SlotsHold, Holders
<1>6. TotalInv
  BY DEF TotalInv
<1>7. SavedCounters
  BY <1>3 DEF SavedCounters
<1>8. LoopDepth
  BY DEF LoopDepth
<1> QED
  BY <1>4, <1>5, <1>6, <1>7, <1>8 DEF SpawnInv

-----------------------------------------------------------------------------
(* Calls that are counted or refused                                         *)

LEMMA CountedKeeps ==
  ASSUME SpawnInv, NEW c \in Calls, stage[c] \in Ended, NEW d \in Nat \ {0},
         NEW active \in Nat, Counted(c, active), InBudget,
         depth' = [depth EXCEPT ![c] = d],
         c \in Reviewers \cup {Reviser} => d = 1,
         \/ d = 1 /\ active = activeCount
         \/ d # 1 /\ active = activeCount + 1 /\ SlotFree,
         apart' \in BOOLEAN, UNCHANGED <<disk, slotLost, kept, mishaps>>
  PROVE  SpawnInv'
<1> USE DEF Counted, Close, history
<1>0. SpawnTypeOK /\ SlotsHold /\ TotalInv /\ SavedCounters /\ LoopDepth
  BY DEF SpawnInv
<1>1. SpawnTypeOK'
  <2>1. stage' \in [Calls -> Stages]
    BY <1>0 DEF SpawnTypeOK, Stages, InFlight
  <2>2. image' \in [Calls -> Stats]
    BY <1>0 DEF SpawnTypeOK, Stats
  <2>3. depth' \in [Calls -> Nat \ {0}]
    BY <1>0 DEF SpawnTypeOK
  <2> QED
    BY <1>0, <2>1, <2>2, <2>3 DEF SpawnTypeOK
<1>2. c \notin Holders
  BY DEF Holders, InFlight, Ended
<1>3. \A e \in Calls : e # c => stage'[e] = stage[e] /\ depth'[e] = depth[e]
  BY <1>0 DEF SpawnTypeOK
<1>4. stage'[c] = "saving" /\ depth'[c] = d
  BY <1>0 DEF SpawnTypeOK
<1>5. SlotsHold'
  <2>1. CASE d = 1
    <3>1. Holders' = Holders
      BY <1>2, <1>3, <1>4, <2>1 DEF Holders, Delegated, InFlight
    <3> QED
      BY <1>0, <2>1, <3>1 DEF SlotsHold, Holders
  <2>2. CASE d # 1
    <3>1. Holders' = Holders \cup {c}
      BY <1>2, <1>3, <1>4, <2>2 DEF Holders, Delegated, InFlight
    <3>2. Cardinality(Holders') = Cardinality(Holders) + 1
      BY <1>2, <3>1, HoldersFinite, FS_AddElement
    <3>3. activeCount' = activeCount + 1 /\ activeCount < MaxConcurrent
      BY <2>2 DEF SlotFree
    <3> QED
      BY <1>0, <3>2, <3>3, HoldersFinite DEF SlotsHold, Holders, SpawnTypeOK
  <2> QED
    BY <2>1, <2>2
<1>6. TotalInv'
  BY <1>0 DEF TotalInv, InBudget, SpawnTypeOK
<1>7. SavedCounters'
  <2>1. image'[c] = [active |-> active, total |-> sessionTotal + 1]
    BY <1>0 DEF SpawnTypeOK
  <2>2. \A e \in Calls : e # c => image'[e] = image[e]
    BY <1>0 DEF SpawnTypeOK
  <2>3. active <= MaxConcurrent
    BY <1>0 DEF SlotsHold, SlotFree, SpawnTypeOK
  <2>4. sessionTotal' = sessionTotal + 1 /\ sessionTotal \in Nat
    BY <1>0 DEF SpawnTypeOK
  <2>5. \A e \in Calls : image[e].total \in Nat /\ disk.total \in Nat
    BY <1>0 DEF SpawnTypeOK, Stats
  <2> QED
    BY <1>0, <2>1, <2>2, <2>3, <2>4, <2>5 DEF SavedCounters
<1>8. LoopDepth'
  BY <1>0, <1>3, <1>4 DEF LoopDepth
<1> QED
  BY <1>1, <1>5, <1>6, <1>7, <1>8 DEF SpawnInv

\* Steps that hand the counters of now, or nothing, to some calls, and leave
\* the slots as they are.
LEMMA CountersKept ==
  ASSUME SpawnInv,
         stage' \in [Calls -> Stages], depth' \in [Calls -> Nat \ {0}],
         image' \in [Calls -> Stats],
         \A c \in Calls : image'[c] \in {image[c], Now, Zero},
         disk' = disk \/ \E c \in Calls : disk' = image[c],
         Holders' = Holders, LoopDepth',
         UNCHANGED <<tracker, slotLost, kept>>, apart' \in BOOLEAN, mishaps' \in 0 .. MaxMishaps
  PROVE  SpawnInv'
<1> USE DEF tracker
<1>0. SpawnTypeOK /\ SlotsHold /\ TotalInv /\ SavedCounters
  BY DEF SpawnInv
<1>1. SpawnTypeOK'
  BY <1>0 DEF SpawnTypeOK
<1>2. SlotsHold'
  BY <1>0 DEF SlotsHold, Holders
<1>3. TotalInv'
  BY <1>0 DEF TotalInv
<1>4. SavedCounters'
  <2>1. Now.active = activeCount /\ Now.total = sessionTotal /\ Zero.active = 0 /\ Zero.total = 0
    BY DEF Now, Zero
  <2>2. activeCount <= MaxConcurrent /\ sessionTotal \in Nat /\ activeCount \in Nat
    BY <1>0 DEF SlotsHold, SpawnTypeOK
  <2>3. \A c \in Calls : image'[c].active <= MaxConcurrent /\ image'[c].total <= sessionTotal
    BY <1>0, <2>1, <2>2 DEF SavedCounters
  <2>4. disk'.active <= MaxConcurrent /\ disk'.total <= sessionTotal
    BY <1>0 DEF SavedCounters
  <2> QED
    BY <2>3, <2>4 DEF SavedCounters
<1> QED
  BY <1>1, <1>2, <1>3, <1>4 DEF SpawnInv

LEMMA NowTyped == SpawnTypeOK => Now \in Stats /\ Zero \in Stats
  BY DEF SpawnTypeOK, Now, Zero, Stats

LEMMA RefusedKeeps ==
  ASSUME SpawnInv, NEW c \in Calls, stage[c] \in Ended, NEW d \in Nat \ {0},
         NEW escalate \in BOOLEAN, Refused(c, escalate),
         depth' = [depth EXCEPT ![c] = d],
         c \in Reviewers \cup {Reviser} => d = 1,
         apart' \in BOOLEAN, UNCHANGED <<disk, slotLost, kept, mishaps>>
  PROVE  SpawnInv'
<1> USE DEF Refused, Close, history
<1>0. SpawnTypeOK /\ LoopDepth
  BY DEF SpawnInv
<1>1. stage' \in [Calls -> Stages] /\ depth' \in [Calls -> Nat \ {0}]
  BY <1>0 DEF SpawnTypeOK, Stages, Closing
<1>2. image' \in [Calls -> Stats] /\ \A e \in Calls : image'[e] \in {image[e], Now, Zero}
  BY <1>0, NowTyped DEF SpawnTypeOK
<1>3. \A e \in Calls : e # c => stage'[e] = stage[e] /\ depth'[e] = depth[e]
  BY <1>0 DEF SpawnTypeOK
<1>4. stage'[c] \in {"asking", "rejecting"} /\ depth'[c] = d
  BY <1>0 DEF SpawnTypeOK
<1>5. Holders' = Holders
  BY <1>3, <1>4 DEF Holders, Delegated, InFlight, Ended
<1>6. LoopDepth'
  BY <1>0, <1>3, <1>4 DEF LoopDepth
<1>7. mishaps' \in 0 .. MaxMishaps /\ apart' \in BOOLEAN /\ UNCHANGED <<slotLost, kept>>
  BY <1>0 DEF SpawnTypeOK
<1> QED
  BY <1>1, <1>2, <1>5, <1>6, <1>7, CountersKept

LEMMA BeginTopKeeps ==
  ASSUME SpawnInv, NEW c \in Calls, BeginTop(c)
  PROVE  SpawnInv'
<1> USE DEF BeginTop
<1>0. activeCount \in Nat /\ 1 \in Nat \ {0} /\ apart' \in BOOLEAN
  BY RestingBoolean DEF SpawnInv, SpawnTypeOK
<1>1. CASE InBudget
  BY <1>0, <1>1, CountedKeeps
<1>2. CASE ~InBudget
  BY <1>0, <1>2, RefusedKeeps
<1> QED
  BY <1>1, <1>2

LEMMA DelegateKeeps ==
  ASSUME SpawnInv, NEW c \in Calls, NEW p \in Calls, Delegate(c, p)
  PROVE  SpawnInv'
<1> USE DEF Delegate
<1> DEFINE permitted == stage[p] = "running"
           tooDeep == depth[p] + 1 > MaxDepth
<1>0. /\ activeCount + 1 \in Nat /\ depth[p] \in Nat \ {0}
      /\ depth[p] + 1 \in Nat \ {0} /\ depth[p] + 1 # 1 /\ apart' \in BOOLEAN
  BY RestingBoolean DEF SpawnInv, SpawnTypeOK
<1>1. c \notin Reviewers \cup {Reviser}
  OBVIOUS
<1>2. CASE permitted /\ ~tooDeep /\ SlotFree /\ InBudget
  <2>1. Counted(c, activeCount + 1)
    BY <1>2
  <2> QED
    BY <1>0, <1>1, <1>2, <2>1, CountedKeeps
<1>3. CASE ~(permitted /\ ~tooDeep /\ SlotFree /\ InBudget)
  <2>1. Refused(c, permitted /\ (tooDeep \/ SlotFree))
    BY <1>3
  <2>2. (permitted /\ (tooDeep \/ SlotFree)) \in BOOLEAN
    OBVIOUS
  <2> QED
    BY <1>0, <1>1, <2>1, <2>2, RefusedKeeps
<1> QED
  BY <1>2, <1>3

-----------------------------------------------------------------------------
(* The rest of a call                                                        *)

LEMMA SavedKeeps ==
  ASSUME SpawnInv, NEW c \in Calls, Saved(c)
  PROVE  SpawnInv'
<1> USE DEF Saved, Close, history
<1>0. SpawnTypeOK /\ LoopDepth
  BY DEF SpawnInv
<1>1. stage' \in [Calls -> Stages] /\ depth' \in [Calls -> Nat \ {0}]
  BY <1>0 DEF SpawnTypeOK, Stages, InFlight
<1>2. image' \in [Calls -> Stats] /\ \A e \in Calls : image'[e] \in {image[e], Now, Zero}
  BY <1>0, NowTyped DEF SpawnTypeOK
<1>3. \A e \in Calls : e # c => stage'[e] = stage[e]
  BY <1>0 DEF SpawnTypeOK
<1>4. stage'[c] = "running" /\ stage[c] = "saving" /\ depth' = depth
  BY <1>0 DEF SpawnTypeOK
<1>5. Holders' = Holders
  BY <1>3, <1>4 DEF Holders, Delegated, InFlight
<1>6. LoopDepth'
  BY <1>0, <1>4 DEF LoopDepth
<1>7. mishaps' \in 0 .. MaxMishaps /\ apart' \in BOOLEAN /\ UNCHANGED <<slotLost, kept>>
  BY <1>0 DEF SpawnTypeOK
<1> QED
  BY <1>1, <1>2, <1>5, <1>6, <1>7, CountersKept

LEMMA HolderLeaves ==
  ASSUME NEW c \in Calls, NEW h,
         h = IF c \in Holders THEN 1 ELSE 0,
         Holders' = Holders \ {c}
  PROVE  Cardinality(Holders') = Cardinality(Holders) - h
<1>1. CASE c \in Holders
  BY <1>1, HoldersFinite, FS_RemoveElement
<1>2. CASE c \notin Holders
  <2>1. Holders' = Holders
    BY <1>2
  <2> QED
    BY <1>2, <2>1, HoldersFinite
<1> QED
  BY <1>1, <1>2

LEMMA ReturnKeeps ==
  ASSUME SpawnInv, NEW c \in Calls, NEW s \in {"answered", "failed"}, Return(c, s),
         stage[c] \in Closing,
         disk' \in {disk, image[c]}, mishaps' \in 0 .. MaxMishaps, apart' \in BOOLEAN,
         UNCHANGED <<tracker, slotLost, kept>>
  PROVE  SpawnInv'
<1> USE DEF Return, Close
<1>0. SpawnTypeOK /\ LoopDepth
  BY DEF SpawnInv
<1>1. stage' \in [Calls -> Stages] /\ depth' \in [Calls -> Nat \ {0}]
  BY <1>0 DEF SpawnTypeOK, Stages, Ended
<1>2. image' \in [Calls -> Stats] /\ \A e \in Calls : image'[e] \in {image[e], Now, Zero}
  BY <1>0, NowTyped DEF SpawnTypeOK
<1>3. \A e \in Calls : e # c => stage'[e] = stage[e] /\ depth'[e] = depth[e]
  BY <1>0 DEF SpawnTypeOK
<1>4. stage'[c] = s /\ depth'[c] = 1
  BY <1>0 DEF SpawnTypeOK
<1>5. Holders' = Holders
  BY <1>3, <1>4 DEF Holders, Delegated, InFlight, Closing
<1>6. LoopDepth'
  BY <1>0, <1>3, <1>4 DEF LoopDepth
<1> QED
  BY <1>1, <1>2, <1>5, <1>6, CountersKept

LEMMA ClosingKeeps ==
  ASSUME SpawnInv, NEW c \in Calls, Closes(c) \/ CloseFails(c)
  PROVE  SpawnInv'
<1>0. mishaps \in 0 .. MaxMishaps /\ apart \in BOOLEAN
  BY DEF SpawnInv, SpawnTypeOK
<1>1. CASE Closes(c)
  <2>1. \E s \in {"answered", "failed"} : Return(c, s) /\ stage[c] \in Closing
    BY <1>1 DEF Closes, Closing
  <2>2. /\ disk' \in {disk, image[c]} /\ mishaps' \in 0 .. MaxMishaps
        /\ apart' \in BOOLEAN /\ UNCHANGED <<tracker, slotLost, kept>>
    BY <1>0, <1>1 DEF Closes, history
  <2> QED
    BY <2>1, <2>2, ReturnKeeps
<1>2. CASE CloseFails(c)
  <2>1. Return(c, "failed") /\ stage[c] \in Closing
    BY <1>2 DEF CloseFails
  <2>2. /\ disk' \in {disk, image[c]} /\ mishaps' \in 0 .. MaxMishaps
        /\ apart' \in BOOLEAN /\ UNCHANGED <<tracker, slotLost, kept>>
    <3>1. apart' \in BOOLEAN
      BY <1>2, Zenon DEF CloseFails
    <3> QED
      BY <1>0, <1>2, <3>1 DEF CloseFails
  <2> QED
    BY <2>1, <2>2, ReturnKeeps
<1> QED
  BY <1>1, <1>2

LEMMA SaveFailsKeeps ==
  ASSUME SpawnInv, NEW c \in Calls, SaveFails(c)
  PROVE  SpawnInv'
<1> USE DEF SaveFails, Return, Close, tracker
<1>0. SpawnTypeOK /\ SlotsHold /\ TotalInv /\ SavedCounters /\ LoopDepth
  BY DEF SpawnInv
<1> DEFINE h == IF c \in Holders THEN 1 ELSE 0
<1>1. SpawnTypeOK'
  <2>1. stage' \in [Calls -> Stages]
    BY <1>0 DEF SpawnTypeOK, Stages, Ended
  <2>2. image' \in [Calls -> Stats]
    BY <1>0, NowTyped DEF SpawnTypeOK
  <2>3. depth' \in [Calls -> Nat \ {0}]
    BY <1>0 DEF SpawnTypeOK
  <2>4. slotLost' \in BOOLEAN /\ mishaps' \in 0 .. MaxMishaps
    BY <1>0 DEF SpawnTypeOK, Delegated
  <2> QED
    BY <1>0, <2>1, <2>2, <2>3, <2>4 DEF SpawnTypeOK
<1>2. \A e \in Calls : e # c => stage'[e] = stage[e] /\ depth'[e] = depth[e]
  BY <1>0 DEF SpawnTypeOK
<1>3. stage'[c] = "failed" /\ depth'[c] = 1
  BY <1>0 DEF SpawnTypeOK
<1>4. Holders' = Holders \ {c}
  BY <1>2, <1>3 DEF Holders, Delegated, InFlight
<1>6. SlotsHold'
  <2>1. Cardinality(Holders') = Cardinality(Holders) - h
    BY <1>4, HolderLeaves
  <2>2. h \in {0, 1} /\ activeCount' = activeCount /\ activeCount \in Nat
    BY <1>0 DEF SpawnTypeOK
  <2>3. h = 1 => slotLost'
    <3>1. h = 1 => Delegated(c)
      BY DEF Holders
    <3> QED
      BY <3>1, Zenon
  <2>4. slotLost => slotLost'
    OBVIOUS
  <2>5. /\ Cardinality(Holders) <= activeCount /\ activeCount <= MaxConcurrent
        /\ ~slotLost => activeCount = Cardinality(Holders)
    BY <1>0 DEF SlotsHold
  <2> QED
    BY <2>1, <2>2, <2>3, <2>4, <2>5, HoldersFinite DEF SlotsHold
<1>7. TotalInv'
  BY <1>0 DEF TotalInv
<1>8. SavedCounters'
  <2>1. \A e \in Calls : image'[e] \in {image[e], Zero}
    BY <1>0 DEF SpawnTypeOK
  <2> QED
    BY <1>0, <2>1 DEF SavedCounters, Zero, SpawnTypeOK
<1>9. LoopDepth'
  BY <1>0, <1>2, <1>3 DEF LoopDepth
<1> QED
  BY <1>1, <1>6, <1>7, <1>8, <1>9 DEF SpawnInv

LEMMA ExitsKeeps ==
  ASSUME SpawnInv, NEW c \in Calls, Exits(c)
  PROVE  SpawnInv'
<1> USE DEF Exits, Close
<1>0. SpawnTypeOK /\ SlotsHold /\ TotalInv /\ SavedCounters /\ LoopDepth
  BY DEF SpawnInv
<1> DEFINE h == IF c \in Holders THEN 1 ELSE 0
<1>1. \A e \in Calls : e # c => stage'[e] = stage[e]
  BY <1>0 DEF SpawnTypeOK
<1>2. stage[c] = "running" /\ stage'[c] = "closing" /\ depth' = depth
  BY <1>0 DEF SpawnTypeOK
<1>3. Holders' = Holders \ {c}
  BY <1>1, <1>2 DEF Holders, Delegated, InFlight
<1>4. c \in Holders => Cardinality(Holders) >= 1
  <2> SUFFICES ASSUME c \in Holders PROVE Cardinality(Holders) >= 1
    OBVIOUS
  <2>1. Cardinality(Holders) # 0
    BY HoldersFinite, FS_EmptySet
  <2> QED
    BY <2>1, HoldersFinite
<1>5. /\ Cardinality(Holders) <= activeCount /\ activeCount <= MaxConcurrent
      /\ ~slotLost => activeCount = Cardinality(Holders)
      /\ activeCount \in Nat
  BY <1>0 DEF SlotsHold, SpawnTypeOK
<1>6. SlotsNow(c) = activeCount - h /\ SlotsNow(c) \in Nat
  <2>1. CASE c \in Holders
    <3>1. Delegated(c) /\ activeCount > 0
      BY <1>4, <1>5, <2>1, HoldersFinite DEF Holders
    <3> QED
      BY <1>5, <2>1, <3>1 DEF SlotsNow
  <2>2. CASE c \notin Holders
    <3>1. ~Delegated(c)
      BY <1>2, <2>2 DEF Holders, InFlight
    <3> QED
      BY <1>5, <2>2, <3>1 DEF SlotsNow
  <2> QED
    BY <2>1, <2>2
<1>7. SpawnTypeOK'
  <2>1. stage' \in [Calls -> Stages]
    BY <1>0 DEF SpawnTypeOK, Stages, Closing
  <2>2. [active |-> SlotsNow(c), total |-> sessionTotal] \in Stats
    BY <1>0, <1>6 DEF SpawnTypeOK, Stats
  <2>3. image' \in [Calls -> Stats]
    BY <1>0, <2>2 DEF SpawnTypeOK
  <2> QED
    BY <1>0, <1>6, <2>1, <2>3 DEF SpawnTypeOK, history
<1>8. SlotsHold'
  <2>1. Cardinality(Holders') = Cardinality(Holders) - h
    BY <1>3, HolderLeaves
  <2>2. h \in Nat
    OBVIOUS
  <2>3. activeCount' = activeCount - h /\ slotLost' = slotLost
    BY <1>6 DEF history
  <2> QED
    BY <1>5, <2>1, <2>2, <2>3, HoldersFinite DEF SlotsHold
<1>9. TotalInv'
  BY <1>0 DEF TotalInv, history
<1>10. SavedCounters'
  <2>1. \A e \in Calls : e # c => image'[e] = image[e]
    BY <1>0 DEF SpawnTypeOK
  <2>2. image'[c].active = SlotsNow(c) /\ image'[c].total = sessionTotal
    BY <1>0 DEF SpawnTypeOK
  <2>3. SlotsNow(c) <= MaxConcurrent /\ sessionTotal' = sessionTotal /\ sessionTotal \in Nat
    BY <1>0, <1>5, <1>6 DEF SpawnTypeOK
  <2> QED
    BY <1>0, <2>1, <2>2, <2>3 DEF SavedCounters
<1>11. LoopDepth'
  BY <1>0, <1>2 DEF LoopDepth
<1> QED
  BY <1>7, <1>8, <1>9, <1>10, <1>11 DEF SpawnInv

\* A restart brings back no more than the disk says: slots of calls that are
\* gone, and a total that misses what a crash kept from the disk.
LEMMA RestartKeeps ==
  ASSUME SpawnInv, ApartInv, SpawnRestart
  PROVE  SpawnInv'
<1> USE DEF SpawnRestart, RestoreCounters, ApartInv
<1>0. SpawnTypeOK /\ SlotsHold /\ TotalInv /\ SavedCounters /\ LoopDepth
  BY DEF SpawnInv
<1>1. disk.active \in Nat /\ disk.total \in Nat
  BY <1>0 DEF SpawnTypeOK, Stats
<1>2. disk.active <= MaxConcurrent /\ disk.total <= MaxSession
  BY <1>0, <1>1 DEF SpawnTypeOK, SavedCounters, TotalInv
<1>3. SpawnTypeOK'
  <2>1. stage' \in [Calls -> Stages] /\ depth' \in [Calls -> Nat \ {0}] /\ image' \in [Calls -> Stats]
    BY <1>0, NowTyped DEF Stages, Ended
  <2>2. mishaps' \in 0 .. MaxMishaps /\ kept' \in BOOLEAN /\ slotLost' \in BOOLEAN
    BY <1>0, RestingBoolean DEF SpawnTypeOK
  <2> QED
    BY <1>0, <1>1, <2>1, <2>2 DEF SpawnTypeOK
<1>4. SlotsHold'
  <2>1. Holders' = {}
    BY DEF Holders, InFlight
  <2>2. Cardinality(Holders') = 0
    BY <2>1, FS_EmptySet
  <2>3. ~slotLost' => disk.active = 0
    BY Zenon
  <2> QED
    BY <1>1, <1>2, <2>2, <2>3 DEF SlotsHold
<1>5. TotalInv'
  BY <1>0, <1>1, <1>2, RestingBoolean DEF TotalInv, Now, SpawnTypeOK
<1>6. SavedCounters'
  BY <1>0, <1>1 DEF SavedCounters, Zero
<1>7. LoopDepth'
  BY DEF LoopDepth
<1> QED
  BY <1>3, <1>4, <1>5, <1>6, <1>7 DEF SpawnInv

LEMMA NoteKeeps ==
  ASSUME SpawnInv, NEW c \in Calls, Note(c)
  PROVE  SpawnInv'
<1> USE DEF Note, Close
<1>0. SpawnTypeOK /\ LoopDepth
  BY DEF SpawnInv
<1>1. stage' \in [Calls -> Stages] /\ depth' \in [Calls -> Nat \ {0}]
  BY <1>0 DEF SpawnTypeOK, Stages, Closing
<1>2. image' \in [Calls -> Stats] /\ \A e \in Calls : image'[e] \in {image[e], Now, Zero}
  BY <1>0, NowTyped DEF SpawnTypeOK
<1>3. \A e \in Calls : e # c => stage'[e] = stage[e]
  BY <1>0 DEF SpawnTypeOK
<1>4. stage'[c] = "noting" /\ depth' = depth
  BY <1>0 DEF SpawnTypeOK
<1>5. Holders' = Holders
  BY <1>3, <1>4 DEF Holders, Delegated, InFlight, Ended
<1>6. LoopDepth'
  BY <1>0, <1>4 DEF LoopDepth
<1>7. mishaps' \in 0 .. MaxMishaps /\ apart' \in BOOLEAN /\ UNCHANGED <<slotLost, kept>>
  BY <1>0, RestingBoolean DEF SpawnTypeOK
<1> QED
  BY <1>1, <1>2, <1>5, <1>6, <1>7, CountersKept

LEMMA RunsKeeps ==
  ASSUME SpawnInv, NEW c \in Calls, Runs(c)
  PROVE  SpawnInv'
<1> QED
  BY SavedKeeps, SaveFailsKeeps, ExitsKeeps, ClosingKeeps DEF Runs

-----------------------------------------------------------------------------
(* The loop's own calls                                                      *)

LEMMA IsAnInjection ==
  ASSUME NEW S, NEW T, NEW f \in [S -> T], \A a, b \in S : f[a] = f[b] => a = b
  PROVE  f \in Injection(S, T)
  BY DEF Injection, IsInjective

\* Of calls that come in some order, a budget of n takes the first ones.
LEMMA Admission ==
  ASSUME NEW R, IsFiniteSet(R), NEW order \in Bijection(R, 1 .. Cardinality(R)), NEW n \in Nat
  PROVE  LET In == {r \in R : order[r] <= n}
         IN /\ Cardinality(In) \in Nat /\ Cardinality(In) <= n
            /\ \A r \in In : order[r] \in Nat /\ order[r] <= Cardinality(In)
<1> DEFINE In == {r \in R : order[r] <= n}
           k == Cardinality(R)
<1>1. k \in Nat
  BY FS_CardinalityType
<1>2. order \in [R -> 1 .. k] /\ (\A a, b \in R : order[a] = order[b] => a = b)
      /\ \A t \in 1 .. k : \E s \in R : order[s] = t
  BY DEF Bijection, Injection, Surjection, IsInjective
<1>3. IsFiniteSet(In)
  <2>1. In \subseteq R
    OBVIOUS
  <2> QED
    BY <2>1, FS_Subset
<1>4. Cardinality(In) \in Nat
  BY <1>3, FS_CardinalityType
<1>5. Cardinality(In) <= n
  <2> DEFINE f == [r \in In |-> order[r]]
  <2>1. f \in [In -> 1 .. n]
    BY <1>1, <1>2
  <2>2. f \in Injection(In, 1 .. n)
    BY <1>2, <2>1 DEF Injection, IsInjective
  <2>3. IsFiniteSet(1 .. n) /\ Cardinality(1 .. n) = n
    BY FS_Interval
  <2> HIDE DEF f
  <2> QED
    BY <2>2, <2>3, FS_Injection
<1>6. ASSUME NEW r \in In PROVE order[r] \in Nat /\ order[r] <= Cardinality(In)
  <2> DEFINE m == order[r]
             g == [t \in 1 .. m |-> CHOOSE s \in R : order[s] = t]
  <2>1. m \in 1 .. k /\ m <= n
    BY <1>2
  <2>2. \A t \in 1 .. m : g[t] \in R /\ order[g[t]] = t
    <3> SUFFICES ASSUME NEW t \in 1 .. m PROVE g[t] \in R /\ order[g[t]] = t
      OBVIOUS
    <3>1. t \in 1 .. k
      BY <1>1, <2>1
    <3>2. \E s \in R : order[s] = t
      BY <1>2, <3>1
    <3> DEFINE u == CHOOSE s \in R : order[s] = t
    <3>3. g[t] = u
      OBVIOUS
    <3>4. u \in R /\ order[u] = t
      BY <3>2
    <3> HIDE DEF u, g
    <3> QED
      BY <3>3, <3>4
  <2>3. g \in [1 .. m -> In]
    <3>1. \A t \in 1 .. m : t <= n
      BY <1>1, <2>1
    <3>2. \A t \in 1 .. m : g[t] \in In
      BY <2>2, <3>1
    <3> QED
      BY <3>2
  <2> HIDE DEF g
  <2>4. g \in Injection(1 .. m, In)
    <3>1. \A a, b \in 1 .. m : g[a] = g[b] => a = b
      BY <2>2
    <3> QED
      BY <2>3, <3>1, IsAnInjection
  <2>5. Cardinality(1 .. m) = m
    <3>1. m \in Int /\ 1 \in Int /\ ~(1 > m)
      BY <1>1, <2>1
    <3> HIDE DEF m
    <3>2. Cardinality(1 .. m) = m - 1 + 1
      BY <3>1, FS_Interval
    <3> QED
      BY <3>1, <3>2
  <2> QED
    BY <1>3, <2>1, <2>4, <2>5, FS_Injection
<1> HIDE DEF In
<1> QED
  BY <1>4, <1>5, <1>6 DEF In

LEMMA StartRoundKeeps ==
  ASSUME SpawnInv, StartRound
  PROVE  SpawnInv'
<1> USE DEF StartRound
<1>0. SpawnTypeOK /\ SlotsHold /\ TotalInv /\ SavedCounters /\ LoopDepth
  BY DEF SpawnInv
<1>1. PICK order \in Bijection(Reviewers, 1 .. Cardinality(Reviewers)) : 
       LET In(r) == sessionTotal + order[r] <= MaxSession
           admitted == Cardinality({r \in Reviewers : In(r)})
       IN /\ stage' = [c \in Calls |-> IF c \notin Reviewers THEN stage[c]
                                       ELSE IF In(c) THEN "saving" ELSE "asking"]
          /\ image' = [c \in Calls |-> IF c \in Reviewers
                         THEN [active |-> activeCount,
                               total |-> sessionTotal + IF In(c) THEN order[c] ELSE admitted]
                         ELSE image[c]]
          /\ sessionTotal' = sessionTotal + admitted /\ begun' = begun + admitted
  OBVIOUS
<1> DEFINE In(r) == sessionTotal + order[r] <= MaxSession
           First == {r \in Reviewers : In(r)}
           admitted == Cardinality(First)
<1>2. sessionTotal \in Nat /\ activeCount \in Nat /\ sessionTotal <= MaxSession
      /\ activeCount <= MaxConcurrent
  BY <1>0 DEF SpawnTypeOK, TotalInv, SlotsHold
<1>3. IsFiniteSet(Reviewers)
  BY FS_Subset
<1>4. order \in [Reviewers -> 1 .. Cardinality(Reviewers)] /\ Cardinality(Reviewers) \in Nat
  BY <1>3, FS_CardinalityType DEF Bijection, Injection
<1>5. First = {r \in Reviewers : order[r] <= MaxSession - sessionTotal}
  BY <1>2, <1>4
<1>6. MaxSession - sessionTotal \in Nat
  BY <1>2
<1>7. /\ admitted \in Nat /\ admitted <= MaxSession - sessionTotal
      /\ \A r \in First : order[r] \in Nat /\ order[r] <= admitted
  BY <1>3, <1>5, <1>6, Admission
<1>8. \A c \in Calls : image'[c] \in {image[c]} \/
         /\ image'[c].active = activeCount /\ image'[c].total \in Nat
         /\ image'[c].total <= sessionTotal + admitted /\ image'[c] \in Stats
  <2> SUFFICES ASSUME NEW c \in Calls, c \in Reviewers
               PROVE  /\ image'[c].active = activeCount /\ image'[c].total \in Nat
                      /\ image'[c].total <= sessionTotal + admitted /\ image'[c] \in Stats
    BY <1>1
  <2> DEFINE n == IF In(c) THEN order[c] ELSE admitted
  <2>1. image'[c] = [active |-> activeCount, total |-> sessionTotal + n]
    BY <1>1
  <2>2. n \in Nat /\ n <= admitted
    BY <1>7
  <2> HIDE DEF n
  <2>3. sessionTotal + n \in Nat /\ sessionTotal + n <= sessionTotal + admitted
    BY <1>2, <1>7, <2>2
  <2> QED
    BY <1>2, <2>1, <2>3 DEF Stats
<1>9. stage' \in [Calls -> Stages]
      /\ \A c \in Calls : c \notin Reviewers => stage'[c] = stage[c]
  BY <1>0, <1>1 DEF SpawnTypeOK, Stages, InFlight
<1>10. sessionTotal' = sessionTotal + admitted /\ begun' = begun + admitted
  BY <1>1
<1> HIDE DEF First, admitted, In
<1>11. SpawnTypeOK'
  <2>1. image' \in [Calls -> Stats]
    <3>1. \A c \in Calls : image'[c] \in Stats
      BY <1>0, <1>8 DEF SpawnTypeOK
    <3>2. \E v : image' = [c \in Calls |-> v[c]]
      <4>1. image' = [c \in Calls |-> IF c \in Reviewers
                         THEN [active |-> activeCount,
                               total |-> sessionTotal + IF In(c) THEN order[c] ELSE admitted]
                         ELSE image[c]]
        BY <1>1 DEF In, admitted, First
      <4>2. image' = [c \in Calls |-> image'[c]]
        BY <4>1
      <4> QED
        BY <4>2
    <3> QED
      BY <3>1, <3>2
  <2>2. sessionTotal' \in Nat /\ begun' \in Nat
    BY <1>0, <1>7, <1>10 DEF SpawnTypeOK
  <2> QED
    BY <1>0, <1>9, <2>1, <2>2, RestingBoolean DEF SpawnTypeOK
<1>12. SlotsHold'
  <2>1. Holders' = Holders
    BY <1>0, <1>9 DEF LoopDepth, Holders, Delegated
  <2> QED
    BY <1>0, <2>1 DEF SlotsHold, Holders
<1>13. TotalInv'
  BY <1>0, <1>2, <1>7, <1>10 DEF TotalInv, SpawnTypeOK
<1>14. SavedCounters'
  <2>1. \A c \in Calls : image[c].total \in Nat /\ disk.total \in Nat
    BY <1>0 DEF SpawnTypeOK, Stats
  <2>2. \A c \in Calls : image'[c].active <= MaxConcurrent
    BY <1>0, <1>2, <1>8 DEF SavedCounters
  <2>3. \A c \in Calls : image'[c].total <= sessionTotal'
    <3> SUFFICES ASSUME NEW c \in Calls PROVE image'[c].total <= sessionTotal'
      OBVIOUS
    <3>1. image[c].total <= sessionTotal /\ image[c].total \in Nat
      BY <1>0, <2>1 DEF SavedCounters
    <3>2. CASE image'[c] = image[c]
      BY <1>2, <1>7, <1>10, <3>1, <3>2
    <3>3. CASE image'[c].total <= sessionTotal + admitted
      BY <1>10, <3>3
    <3> QED
      BY <1>8, <3>2, <3>3
  <2>4. disk'.active <= MaxConcurrent /\ disk'.total <= sessionTotal'
    BY <1>0, <1>2, <1>7, <1>10, <2>1 DEF SavedCounters
  <2> QED
    BY <2>2, <2>3, <2>4 DEF SavedCounters
<1>15. LoopDepth'
  BY <1>0 DEF LoopDepth
<1> QED
  BY <1>11, <1>12, <1>13, <1>14, <1>15 DEF SpawnInv

LEMMA TypedKeeps ==
  ASSUME SpawnInv, Typed
  PROVE  SpawnInv'
<1> USE DEF Typed, history
<1>0. SpawnTypeOK /\ LoopDepth
  BY DEF SpawnInv
<1>1. stage' \in [Calls -> Stages] /\ depth' \in [Calls -> Nat \ {0}]
  BY <1>0 DEF SpawnTypeOK, Stages, Closing
<1>2. image' \in [Calls -> Stats] /\ \A e \in Calls : image'[e] \in {image[e], Now, Zero}
  BY <1>0, NowTyped DEF SpawnTypeOK
<1>3. \A e \in Calls : stage'[e] = stage[e] \/ (stage[e] = "asking" /\ stage'[e] = "rejecting")
  BY <1>0 DEF SpawnTypeOK
<1>4. Holders' = Holders
  BY <1>3 DEF Holders, Delegated, InFlight
<1>5. LoopDepth'
  BY <1>0 DEF LoopDepth
<1>6. mishaps' \in 0 .. MaxMishaps /\ apart' \in BOOLEAN /\ UNCHANGED <<slotLost, kept>>
  BY <1>0 DEF SpawnTypeOK
<1> QED
  BY <1>1, <1>2, <1>4, <1>5, <1>6, CountersKept

-----------------------------------------------------------------------------
(* Calls that began apart                                                    *)

LEMMA BeginsApart ==
  ASSUME SpawnInv, ApartInv, NEW c \in Calls, BeginTop(c) \/ \E p \in Calls : Delegate(c, p)
  PROVE  ApartInv'
<1>0. stage \in [Calls -> Stages] /\ depth \in [Calls -> Nat \ {0}]
  BY DEF SpawnInv, SpawnTypeOK
<1>a. PICK s \in {"saving", "asking", "rejecting"}, d \in Nat :
        stage' = [stage EXCEPT ![c] = s] /\ depth' = [depth EXCEPT ![c] = d]
  <2>1. CASE BeginTop(c)
    BY <2>1 DEF BeginTop, Counted, Refused, Close
  <2>2. ASSUME NEW p \in Calls, Delegate(c, p)
        PROVE  \E s \in {"saving", "asking", "rejecting"}, d \in Nat :
                 stage' = [stage EXCEPT ![c] = s] /\ depth' = [depth EXCEPT ![c] = d]
    <3>1. \E s \in {"saving", "asking", "rejecting"} : stage' = [stage EXCEPT ![c] = s]
      BY <2>2 DEF Delegate, Counted, Refused, Close
    <3>2. depth' = [depth EXCEPT ![c] = depth[p] + 1] /\ depth[p] + 1 \in Nat
      BY <1>0, <2>2 DEF Delegate
    <3> QED
      BY <3>1, <3>2
  <2> QED
    BY <2>1, <2>2
<1>1. apart' = Resting /\ stage'[c] \in {"saving", "asking", "rejecting"}
  BY <1>0, <1>a DEF BeginTop, Delegate
<1>2. \A e \in Calls : e # c => stage'[e] = stage[e] /\ depth'[e] = depth[e]
  BY <1>0, <1>a
<1>3. CASE BeginTop(c)
  <2>1. depth'[c] = 1 /\ stage'[c] \in {"saving", "asking"}
    BY <1>0, <1>3 DEF BeginTop, Counted, Refused, Close
  <2>2. apart' => \A e \in Calls : stage[e] \in Ended /\ depth[e] = 1
    BY <1>1 DEF Resting, ApartInv
  <2>3. ~Resting'
    BY <2>1 DEF Resting, Ended
  <2> QED
    BY <1>2, <2>1, <2>2, <2>3 DEF ApartInv, Ended, Closing
<1>4. CASE \E p \in Calls : Delegate(c, p)
  <2>1. ~Resting
    BY <1>4 DEF Delegate, Resting, Ended, Closing
  <2> QED
    BY <1>1, <1>2, <2>1 DEF ApartInv, Ended
<1> QED
  BY <1>3, <1>4

LEMMA NotesApart ==
  ASSUME SpawnInv, ApartInv, NEW c \in Calls, Note(c)
  PROVE  ApartInv'
<1> USE DEF Note, Close
<1>0. /\ stage \in [Calls -> Stages] /\ depth \in [Calls -> Nat \ {0}]
      /\ image \in [Calls -> Stats]
  BY DEF SpawnInv, SpawnTypeOK
<1>1. stage'[c] = "noting" /\ image'[c] = Now /\ depth' = depth /\ Now' = Now
  BY <1>0 DEF Now, tracker
<1>2. \A e \in Calls : e # c => stage'[e] = stage[e]
  BY <1>0
<1>3. apart' => \A e \in Calls : stage[e] \in Ended /\ depth[e] = 1
  BY DEF Resting, ApartInv
<1>4. ~Resting'
  BY <1>1 DEF Resting, Ended
<1> QED
  BY <1>1, <1>2, <1>3, <1>4 DEF ApartInv, Ended, Closing

LEMMA RunsApart ==
  ASSUME SpawnInv, ApartInv, NEW c \in Calls, Runs(c)
  PROVE  ApartInv'
<1> USE DEF Close
<1>0. /\ stage \in [Calls -> Stages] /\ depth \in [Calls -> Nat \ {0}]
      /\ image \in [Calls -> Stats]
  BY DEF SpawnInv, SpawnTypeOK
<1>1. CASE Saved(c) \/ Exits(c)
  <2>1. stage'[c] \in {"running", "closing"} /\ depth' = depth /\ apart' = apart
    BY <1>0, <1>1 DEF Saved, Exits, history
  <2>2. \A e \in Calls : e # c => stage'[e] = stage[e] /\ image'[e] = image[e]
    BY <1>0, <1>1 DEF Saved, Exits
  <2>3. ~Resting'
    BY <2>1 DEF Resting, Ended
  <2>4. apart => SlotsNow(c) = activeCount
    BY DEF ApartInv, SlotsNow, Delegated
  <2>5. apart => Now' = Now /\ (stage'[c] = "closing" => image'[c] = Now)
    BY <1>0, <1>1, <2>4 DEF Saved, Exits, Now, tracker
  <2> QED
    BY <2>1, <2>2, <2>3, <2>5 DEF ApartInv, Ended, Closing
<1>2. CASE SaveFails(c) \/ CloseFails(c)
  <2>1. ~apart' /\ depth'[c] = 1
    BY <1>0, <1>2 DEF SaveFails, CloseFails, Return
  <2>2. \A e \in Calls : e # c => stage'[e] = stage[e] /\ depth'[e] = depth[e]
    BY <1>0, <1>2 DEF SaveFails, CloseFails, Return
  <2> QED
    BY <2>1, <2>2 DEF ApartInv
<1>3. CASE Closes(c)
  <2>1. /\ stage[c] \in Closing /\ stage'[c] \in Ended /\ depth'[c] = 1
        /\ disk' = image[c] /\ apart' = apart /\ Now' = Now
    BY <1>0, <1>3 DEF Closes, Return, history, tracker, Now, Closing, Ended
  <2>2. \A e \in Calls : e # c => /\ stage'[e] = stage[e] /\ depth'[e] = depth[e]
                                 /\ image'[e] = image[e]
    BY <1>0, <1>3 DEF Closes, Return
  <2> QED
    BY <2>1, <2>2 DEF ApartInv, Ended, Closing
<1> QED
  BY <1>1, <1>2, <1>3 DEF Runs

LEMMA RoundApart ==
  ASSUME SpawnInv, ApartInv, StartRound
  PROVE  ApartInv'
<1> USE DEF StartRound
<1>1. apart' = Resting /\ depth' = depth
  OBVIOUS
<1>2. /\ \A c \in Calls \ Reviewers : stage'[c] = stage[c]
      /\ \A c \in Reviewers : stage'[c] \in {"saving", "asking"}
  OBVIOUS
<1>3. ~Resting'
  BY <1>2 DEF Resting, Ended
<1>4. apart' => \A e \in Calls : stage[e] \in Ended /\ depth[e] = 1
  BY <1>1 DEF Resting, ApartInv
<1> QED
  BY <1>1, <1>2, <1>3, <1>4 DEF ApartInv, Ended, Closing

LEMMA TypedApart ==
  ASSUME SpawnInv, ApartInv, Typed
  PROVE  ApartInv'
<1>1. /\ apart' = apart /\ depth' = depth /\ disk' = disk /\ Now' = Now
  BY DEF Typed, history, tracker, Now
<1>2. ASSUME NEW c \in Calls
      PROVE  \/ stage'[c] = stage[c] /\ image'[c] = image[c]
             \/ stage[c] = "asking" /\ stage'[c] = "rejecting" /\ image'[c] = Now
  <2>1. /\ stage'[c] = IF stage[c] = "asking" THEN "rejecting" ELSE stage[c]
        /\ image'[c] = IF stage[c] = "asking" THEN Now ELSE image[c]
    BY DEF Typed
  <2> QED
    BY <2>1
<1>3. \A c \in Calls : stage'[c] \in Ended <=> stage[c] \in Ended
  BY <1>2 DEF Ended
<1>4. Resting' <=> Resting
  BY <1>3 DEF Resting
<1> QED
  BY <1>1, <1>2, <1>3, <1>4 DEF ApartInv

LEMMA RestartApart ==
  ASSUME SpawnInv, SpawnRestart
  PROVE  ApartInv'
<1> USE DEF SpawnRestart, RestoreCounters
<1>1. disk \in Stats /\ disk' = disk
  BY DEF SpawnInv, SpawnTypeOK
<1>2. Now' = disk
  BY <1>1 DEF Now, Stats
<1> QED
  BY <1>1, <1>2 DEF ApartInv, Closing

LEMMA QuietApart ==
  ASSUME ApartInv, UNCHANGED <<stage, depth, image, tracker, disk, apart>>
  PROVE  ApartInv'
  BY DEF ApartInv, tracker, Now, Resting

-----------------------------------------------------------------------------
(* The loop                                                                  *)

\* The version under review is the one its round is for.
Position ==
  /\ pc \in {"capture", "review", "counting"} => version = round + 1 /\ round < MaxRounds
  /\ pc = "revise" => version = round /\ round < MaxRounds

Started == {"saving", "running", "closing", "noting", "answered"}

\* A reviewer that was started in this round was shown its version.
Fresh ==
  pc = "review" => \A r \in Reviewers : stage[r] \in Started => shown[r] = version

\* The loop asks the operator only when the round was blocked or the last one.
AsksLast ==
  pc = "asking" => (\E r \in Reviewers : vote[r] = "block") \/ round = MaxRounds

EndsOnce == outcome # "none" => pc = "ended"

Inv ==
  /\ SpawnInv /\ ApartInv /\ TypeOK
  /\ Position /\ Fresh /\ AsksLast /\ EndsOnce
  /\ Unanimity /\ OperatorDecides

LEMMA InitInv == Init => Inv
<1> SUFFICES ASSUME Init PROVE Inv
  OBVIOUS
<1>1. SpawnInv /\ ApartInv
  BY InitSpawnInv DEF Init, SpawnInit, ApartInv, Closing, Now, Zero
<1>2. TypeOK
  BY <1>1 DEF Init, TypeOK, SpawnInv, Answers, Outcomes
<1> QED
  BY <1>1, <1>2 DEF Init, Inv, Position, Fresh, AsksLast, EndsOnce, Unanimity, OperatorDecides

\* What other steps than those of the loop do to its reviewers: an answer
\* stays, and only the loop starts them.
ReviewersMove ==
  \A r \in Reviewers :
    /\ stage[r] = "answered" => stage'[r] = "answered"
    /\ stage'[r] \in Started => stage[r] \in Started

LEMMA LoopUntouched ==
  ASSUME Inv, SpawnInv', ApartInv', ReviewersMove, UNCHANGED <<auto, loopVars, reviews>>
  PROVE  Inv'
<1> USE DEF loopVars, ReviewersMove
<1>1. TypeOK'
  BY DEF Inv, SpawnInv, TypeOK
<1>2. Position' /\ AsksLast' /\ EndsOnce' /\ OperatorDecides'
  BY DEF Inv, Position, AsksLast, EndsOnce, OperatorDecides
<1>3. Fresh'
  BY DEF Inv, Fresh
<1>4. Unanimity'
  BY DEF Inv, Unanimity
<1> QED
  BY <1>1, <1>2, <1>3, <1>4 DEF Inv

LEMMA OthersMove ==
  ASSUME SpawnInv, NEW c \in Calls, NEW s, Close(c, s),
         c \in Reviewers => /\ stage[c] # "answered"
                            /\ s \in Started => stage[c] \in Started
  PROVE  ReviewersMove
<1>1. stage \in [Calls -> Stages]
  BY DEF SpawnInv, SpawnTypeOK
<1>2. \A e \in Calls : e # c => stage'[e] = stage[e]
  BY <1>1 DEF Close
<1>3. stage'[c] = s
  BY <1>1 DEF Close
<1> QED
  BY <1>2, <1>3 DEF ReviewersMove

LEMMA RunsMove ==
  ASSUME SpawnInv, NEW c \in Calls, Runs(c)
  PROVE  ReviewersMove
<1>1. \E s \in Stages : /\ Close(c, s) /\ stage[c] # "answered"
                        /\ s \in Started => stage[c] \in Started
  BY DEF Runs, Saved, SaveFails, Exits, Closes, CloseFails, Return, Started, Stages,
         Ended, InFlight, Closing
<1> QED
  BY <1>1, OthersMove

LEMMA CallsMove ==
  ASSUME SpawnInv, NEW c \in Calls \ Reviewers,
         BeginTop(c) \/ Note(c) \/ \E p \in Calls : Delegate(c, p)
  PROVE  ReviewersMove
<1>1. \E s : Close(c, s)
  BY DEF BeginTop, Note, Delegate, Counted, Refused
<1> QED
  BY <1>1, OthersMove

LEMMA SpawnQuiet ==
  ASSUME SpawnInv, ApartInv,
         UNCHANGED <<stage, depth, image, tracker, disk, slotLost, apart, kept>>,
         mishaps' \in 0 .. MaxMishaps
  PROVE  SpawnInv' /\ ApartInv'
<1>1. SpawnInv'
  BY DEF tracker, SpawnInv, SpawnTypeOK, SlotsHold, TotalInv, SavedCounters,
         LoopDepth, Holders, Delegated
<1>2. ApartInv'
  BY QuietApart
<1> QED
  BY <1>1, <1>2

LEMMA SpawnStays ==
  ASSUME SpawnInv, ApartInv, UNCHANGED spawnVars
  PROVE  SpawnInv' /\ ApartInv'
<1>1. mishaps' \in 0 .. MaxMishaps
  BY DEF SpawnInv, SpawnTypeOK, spawnVars
<1> QED
  BY <1>1, SpawnQuiet DEF spawnVars, tracker

LEMMA SubmitKeeps ==
  ASSUME Inv, Submit
  PROVE  Inv'
<1> USE DEF Submit
<1>1. SpawnInv' /\ ApartInv'
  BY SpawnStays DEF Inv
<1>2. TypeOK'
  BY <1>1 DEF Inv, SpawnInv, TypeOK, Answers, Outcomes
<1>3. Position' /\ Fresh' /\ AsksLast' /\ EndsOnce' /\ Unanimity' /\ OperatorDecides'
  BY DEF Position, Fresh, AsksLast, EndsOnce, Unanimity, OperatorDecides
<1> QED
  BY <1>1, <1>2, <1>3 DEF Inv

LEMMA LoopWriteFailsKeeps ==
  ASSUME Inv, LoopWriteFails
  PROVE  Inv'
<1> USE DEF LoopWriteFails, Throw
<1>1. SpawnInv' /\ ApartInv'
  <2>1. SpawnInv /\ ApartInv /\ mishaps' \in 0 .. MaxMishaps
    BY DEF Inv, SpawnInv, SpawnTypeOK
  <2> QED
    BY <2>1, SpawnQuiet DEF tracker
<1>2. TypeOK'
  BY <1>1 DEF Inv, SpawnInv, TypeOK, Outcomes
<1>3. Position' /\ Fresh' /\ AsksLast' /\ EndsOnce' /\ Unanimity' /\ OperatorDecides'
  BY DEF Position, Fresh, AsksLast, EndsOnce, Unanimity, OperatorDecides
<1> QED
  BY <1>1, <1>2, <1>3 DEF Inv

LEMMA StartRoundInv ==
  ASSUME Inv, StartRound
  PROVE  Inv'
<1> USE DEF StartRound
<1>1. SpawnInv' /\ ApartInv'
  BY StartRoundKeeps, RoundApart DEF Inv
<1>2. version \in 0 .. MaxRounds /\ stage \in [Calls -> Stages]
      /\ shown \in [Reviewers -> 0 .. MaxRounds] /\ outcome = "none"
  BY DEF Inv, TypeOK, SpawnTypeOK, EndsOnce, Outcomes
<1>3. shown' \in [Reviewers -> 0 .. MaxRounds]
      /\ \A r \in Reviewers : \/ stage'[r] = "saving" /\ shown'[r] = version
                              \/ stage'[r] = "asking"
  BY <1>2
<1>4. TypeOK'
  BY <1>1, <1>3 DEF Inv, SpawnInv, TypeOK, Answers
<1>5. Fresh'
  BY <1>3 DEF Fresh, Started
<1>6. Position' /\ AsksLast' /\ EndsOnce' /\ Unanimity' /\ OperatorDecides'
  BY <1>2 DEF Inv, Position, AsksLast, EndsOnce, Unanimity, OperatorDecides
<1> QED
  BY <1>1, <1>4, <1>5, <1>6 DEF Inv

\* The ballot that brings consensus: nobody failed, so all were shown this version.
LEMMA EndRoundInv ==
  ASSUME Inv, EndRound
  PROVE  Inv'
<1> USE DEF EndRound
<1>0. /\ pc = "review" /\ AllVoted /\ outcome = "none"
      /\ version = round + 1 /\ round < MaxRounds /\ round \in Nat
  BY DEF Inv, EndsOnce, Position, TypeOK
<1>1. PICK answer \in [Reviewers -> Answers] :
       LET ballot == [r \in Reviewers |-> Vote(r, answer[r])] IN
       /\ vote' = ballot
       /\ \/ /\ Evaluate(ballot) = "block"
             /\ pc' = "asking" /\ said' = "none"
             /\ UNCHANGED <<spawnVars, round, outcome>>
          \/ /\ Evaluate(ballot) = "consensus-reached"
             /\ pc' = "ended" /\ outcome' = "consensus-reached"
             /\ UNCHANGED <<spawnVars, round, said>>
          \/ /\ Evaluate(ballot) = "needs-revision" /\ AtCap
             /\ pc' = "asking" /\ round' = round + 1 /\ said' = "none"
             /\ UNCHANGED <<spawnVars, outcome>>
          \/ /\ Evaluate(ballot) = "needs-revision" /\ ~AtCap
             /\ pc' = "revise" /\ round' = round + 1
             /\ BeginTop(Reviser)
             /\ UNCHANGED <<said, outcome>>
  BY Zenon
<1> DEFINE ballot == [r \in Reviewers |-> Vote(r, answer[r])]
<1>2. vote' = ballot /\ ballot \in [Reviewers -> Answers]
  BY <1>1 DEF Vote, Answers
<1>3. UNCHANGED <<auto, version, shown, reviews>>
  OBVIOUS
<1>4. SpawnInv /\ ApartInv
  BY DEF Inv
<1>5. CASE /\ Evaluate(ballot) = "block" /\ pc' = "asking" /\ said' = "none"
           /\ UNCHANGED <<spawnVars, round, outcome>>
  <2>1. SpawnInv' /\ ApartInv'
    BY <1>4, <1>5, SpawnStays
  <2>2. \E r \in Reviewers : ballot[r] = "block"
    BY <1>5 DEF Evaluate
  <2>3. TypeOK'
    BY <1>2, <1>3, <1>5, <2>1 DEF Inv, SpawnInv, TypeOK
  <2>4. Position' /\ Fresh' /\ AsksLast' /\ EndsOnce' /\ Unanimity' /\ OperatorDecides'
    BY <1>0, <1>2, <1>5, <2>2
    DEF Position, Fresh, AsksLast, EndsOnce, Unanimity, OperatorDecides
  <2> QED
    BY <2>1, <2>3, <2>4 DEF Inv
<1>6. CASE /\ Evaluate(ballot) = "consensus-reached"
           /\ pc' = "ended" /\ outcome' = "consensus-reached"
           /\ UNCHANGED <<spawnVars, round, said>>
  <2>1. SpawnInv' /\ ApartInv'
    BY <1>4, <1>6, SpawnStays
  <2>2. \A r \in Reviewers : ballot[r] = "approve"
    BY <1>6 DEF Evaluate
  <2>3. \A r \in Reviewers : stage[r] = "answered" /\ shown[r] = version
    <3> SUFFICES ASSUME NEW r \in Reviewers PROVE stage[r] = "answered" /\ shown[r] = version
      OBVIOUS
    <3>1. stage[r] # "failed"
      BY <2>2 DEF Vote
    <3>2. stage[r] = "answered"
      BY <1>0, <3>1 DEF AllVoted
    <3> QED
      BY <1>0, <3>2 DEF Inv, Fresh, Started
  <2>4. TypeOK'
    BY <1>2, <1>3, <1>6, <2>1 DEF Inv, SpawnInv, TypeOK, Outcomes
  <2>5. Unanimity'
    BY <1>2, <1>3, <1>6, <2>2, <2>3 DEF Unanimity, spawnVars
  <2>6. Position' /\ Fresh' /\ AsksLast' /\ EndsOnce' /\ OperatorDecides'
    BY <1>6 DEF Position, Fresh, AsksLast, EndsOnce, OperatorDecides
  <2> QED
    BY <2>1, <2>4, <2>5, <2>6 DEF Inv
<1>7. CASE /\ Evaluate(ballot) = "needs-revision" /\ AtCap
           /\ pc' = "asking" /\ round' = round + 1 /\ said' = "none"
           /\ UNCHANGED <<spawnVars, outcome>>
  <2>1. SpawnInv' /\ ApartInv'
    BY <1>4, <1>7, SpawnStays
  <2>2. round' = MaxRounds
    BY <1>0, <1>7 DEF AtCap
  <2>3. TypeOK'
    BY <1>2, <1>3, <1>7, <2>1, <2>2 DEF Inv, SpawnInv, TypeOK
  <2>4. Position' /\ Fresh' /\ AsksLast' /\ EndsOnce' /\ Unanimity' /\ OperatorDecides'
    BY <1>0, <1>7, <2>2
    DEF Position, Fresh, AsksLast, EndsOnce, Unanimity, OperatorDecides
  <2> QED
    BY <2>1, <2>3, <2>4 DEF Inv
<1>8. CASE /\ Evaluate(ballot) = "needs-revision" /\ ~AtCap
           /\ pc' = "revise" /\ round' = round + 1
           /\ BeginTop(Reviser)
           /\ UNCHANGED <<said, outcome>>
  <2>1. SpawnInv' /\ ApartInv'
    BY <1>4, <1>8, BeginTopKeeps, BeginsApart
  <2>2. round' \in 0 .. MaxRounds /\ round' < MaxRounds
    BY <1>0, <1>8 DEF AtCap
  <2>3. TypeOK'
    BY <1>2, <1>3, <1>8, <2>1, <2>2 DEF Inv, SpawnInv, TypeOK
  <2>4. Position' /\ Fresh' /\ AsksLast' /\ EndsOnce' /\ Unanimity' /\ OperatorDecides'
    BY <1>0, <1>3, <1>8, <2>2
    DEF Position, Fresh, AsksLast, EndsOnce, Unanimity, OperatorDecides
  <2> QED
    BY <2>1, <2>3, <2>4 DEF Inv
<1> QED
  BY <1>1, <1>5, <1>6, <1>7, <1>8

LEMMA RevisedInv ==
  ASSUME Inv, Revised
  PROVE  Inv'
<1> USE DEF Revised, Throw
<1>1. SpawnInv' /\ ApartInv'
  BY SpawnStays, NoteKeeps, NotesApart DEF Inv
<1>2. /\ pc = "revise" /\ outcome = "none" /\ version = round /\ round < MaxRounds
      /\ round \in Nat /\ MaxRounds \in Nat
  BY DEF Inv, EndsOnce, Position, TypeOK
<1>3. version' \in 0 .. MaxRounds /\ (pc' = "counting" => version' = version + 1)
  BY <1>2
<1>4. TypeOK'
  BY <1>1, <1>2, <1>3 DEF Inv, SpawnInv, TypeOK, Outcomes
<1>5. Position' /\ Fresh' /\ AsksLast' /\ EndsOnce' /\ Unanimity' /\ OperatorDecides'
  BY <1>2, <1>3 DEF Position, Fresh, AsksLast, EndsOnce, Unanimity, OperatorDecides
<1> QED
  BY <1>1, <1>4, <1>5 DEF Inv

LEMMA NextRoundInv ==
  ASSUME Inv, NextRound
  PROVE  Inv'
<1> USE DEF NextRound, Throw
<1>1. SpawnInv' /\ ApartInv'
  BY SpawnStays DEF Inv
<1>2. TypeOK'
  BY <1>1 DEF Inv, SpawnInv, TypeOK, Outcomes
<1>3. Position' /\ Fresh' /\ AsksLast' /\ EndsOnce' /\ Unanimity' /\ OperatorDecides'
  BY DEF Inv, Position, Fresh, AsksLast, EndsOnce, Unanimity, OperatorDecides
<1> QED
  BY <1>1, <1>2, <1>3 DEF Inv

LEMMA TypedInv ==
  ASSUME Inv, Typed
  PROVE  Inv'
<1> USE DEF Typed, Decide
<1>1. SpawnInv' /\ ApartInv'
  BY TypedKeeps, TypedApart DEF Inv
<1>2. PICK d \in IF auto THEN {"proceed"} ELSE {"proceed", "abort"} :
        said' = (IF pc = "ended" THEN said ELSE d) /\ Decide(d)
  BY Zenon
<1>3. /\ UNCHANGED <<auto, reviews, round, version, shown, vote>>
      /\ auto \in BOOLEAN /\ stage \in [Calls -> Stages]
  BY DEF Inv, TypeOK, SpawnTypeOK
<1>4. ReviewersMove
  BY <1>3 DEF ReviewersMove, Started
<1>5. TypeOK'
  BY <1>1, <1>2, <1>3 DEF Inv, SpawnInv, TypeOK, Outcomes
<1>6. CASE pc = "asking"
  <2>1. /\ pc' = "ended" /\ said' = d
        /\ outcome' = IF d = "abort" THEN "aborted" ELSE "human-approved"
    BY <1>2, <1>6
  <2>2. Position' /\ Fresh' /\ AsksLast' /\ EndsOnce' /\ Unanimity'
    BY <2>1 DEF Position, Fresh, AsksLast, EndsOnce, Unanimity
  <2>3. (\E r \in Reviewers : vote[r] = "block") \/ round = MaxRounds
    BY <1>6 DEF Inv, AsksLast
  <2>4. OperatorDecides'
    <3>1. said' = IF outcome' = "aborted" THEN "abort" ELSE "proceed"
      BY <1>2, <2>1
    <3>2. auto' => outcome' = "human-approved"
      BY <1>2, <1>3, <2>1
    <3> QED
      BY <1>3, <2>3, <3>1, <3>2 DEF OperatorDecides
  <2> QED
    BY <1>1, <1>5, <2>2, <2>4 DEF Inv
<1>7. CASE pc # "asking"
  <2>1. UNCHANGED <<pc, outcome>> /\ (pc = "ended" => said' = said)
    BY <1>2, <1>7
  <2>2. Position' /\ AsksLast' /\ EndsOnce'
    BY <1>3, <2>1 DEF Inv, Position, AsksLast, EndsOnce
  <2>3. Fresh' /\ Unanimity'
    BY <1>3, <1>4, <2>1 DEF Inv, Fresh, Unanimity, ReviewersMove
  <2>4. OperatorDecides'
    BY <1>3, <2>1 DEF Inv, EndsOnce, OperatorDecides
  <2> QED
    BY <1>1, <1>5, <2>2, <2>3, <2>4 DEF Inv
<1> QED
  BY <1>6, <1>7

LEMMA CrashInv ==
  ASSUME Inv, Crash
  PROVE  Inv'
<1> USE DEF Crash
<1>1. SpawnInv' /\ ApartInv'
  BY RestartKeeps, RestartApart DEF Inv
<1>2. TypeOK'
  BY <1>1 DEF Inv, SpawnInv, TypeOK, Answers, Outcomes
<1>3. Position' /\ Fresh' /\ AsksLast' /\ EndsOnce' /\ Unanimity' /\ OperatorDecides'
  BY DEF Position, Fresh, AsksLast, EndsOnce, Unanimity, OperatorDecides
<1> QED
  BY <1>1, <1>2, <1>3 DEF Inv

LEMMA NextInv ==
  ASSUME Inv, [Next]_vars
  PROVE  Inv'
<1>0. SpawnInv /\ ApartInv
  BY DEF Inv
<1>1. CASE Submit
  BY <1>1, SubmitKeeps
<1>2. CASE Loop
  BY <1>2, StartRoundInv, EndRoundInv, RevisedInv, NextRoundInv, LoopWriteFailsKeeps DEF Loop
<1>3. CASE Typed
  BY <1>3, TypedInv
<1>4. ASSUME NEW c \in Calls, ClientCall(c)
      PROVE  Inv'
  <2>1. c \in Calls \ Reviewers
    BY <1>4 DEF ClientCall
  <2> QED
    BY <1>0, <1>4, <2>1, BeginTopKeeps, BeginsApart, NoteKeeps, NotesApart, CallsMove, LoopUntouched
    DEF ClientCall
<1>5. ASSUME NEW c \in Calls, Progress(c)
      PROVE  Inv'
  BY <1>0, <1>5, RunsKeeps, RunsApart, RunsMove, LoopUntouched DEF Progress
<1>6. ASSUME NEW c \in Calls, NEW p \in Calls, AgentCall(c, p)
      PROVE  Inv'
  <2>1. c \in Calls \ Reviewers
    BY <1>6 DEF AgentCall, Delegate
  <2> QED
    BY <1>0, <1>6, <2>1, DelegateKeeps, BeginsApart, CallsMove, LoopUntouched DEF AgentCall
<1>7. CASE Crash
  BY <1>7, CrashInv
<1>8. CASE UNCHANGED vars
  <2>1. SpawnInv' /\ ApartInv' /\ ReviewersMove
    BY <1>0, <1>8, SpawnStays DEF vars, spawnVars, ReviewersMove
  <2> QED
    BY <1>8, <2>1, LoopUntouched DEF vars
<1> QED
  BY <1>1, <1>2, <1>3, <1>4, <1>5, <1>6, <1>7, <1>8 DEF Next

LEMMA SpecInv == Spec => []Inv
  BY InitInv, NextInv, PTL DEF Spec

-----------------------------------------------------------------------------
(* For every set of calls and of limits, the state keeps its types, whatever  *)
(* fails and whoever else invokes agents.                                     *)
THEOREM ReviewTypes == Spec => []TypeOK
<1>1. Inv => TypeOK
  BY DEF Inv
<1> QED
  BY <1>1, SpecInv, PTL

(* For any limits, calls and delegations, no more delegated calls run at a    *)
(* time than maxConcurrentSubInvocations, over failed writes, kills and       *)
(* restarts with counters of any age, and exactly that many may until a slot  *)
(* is lost.                                                                   *)
THEOREM SlotsAlwaysHold == Spec => []SlotsHold
<1>1. Inv => SlotsHold
  BY DEF Inv, SpawnInv
<1> QED
  BY <1>1, SpecInv, PTL

(* In whatever order the reviewers of a round are counted and their writes    *)
(* land, the disk has the count once calls that began apart have ended; and   *)
(* over any number of kills that came then the session gets no more           *)
(* invocations than maxSessionInvocations.                                    *)
THEOREM BudgetAlwaysHolds == Spec => []BudgetHolds
<1>1. Inv => BudgetHolds
  BY DEF Inv, SpawnInv, ApartInv, TotalInv, BudgetHolds
<1> QED
  BY <1>1, SpecInv, PTL

(* For any number of reviewers and rounds, consensus means that every one of  *)
(* them approved the content as it is, having been shown it.                  *)
THEOREM AlwaysUnanimous == Spec => []Unanimity
<1>1. Inv => Unanimity
  BY DEF Inv
<1> QED
  BY <1>1, SpecInv, PTL

(* For any number of reviewers and rounds, what they did not agree on was     *)
(* decided by an answer to the loop's own question.                           *)
THEOREM OperatorAlwaysDecides == Spec => []OperatorDecides
<1>1. Inv => OperatorDecides
  BY DEF Inv
<1> QED
  BY <1>1, SpecInv, PTL
=============================================================================
