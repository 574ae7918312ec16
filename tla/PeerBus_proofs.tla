--------------------------- MODULE PeerBus_proofs ---------------------------
(***************************************************************************)
(* The peer bus, for every number of calls, names, panes, messages, faults *)
(* and crashes: type correctness, the safety invariants, and that clients  *)
(* see the mailboxes of Mail.                                              *)
(*                                                                         *)
(* 1. The name locks, one lemma for each lock action, and the files of     *)
(*    persist(), whose interleavings the calls embed.                      *)
(* 2. BusInv.  BusTyped: the locks' invariant, the types, mailboxes within *)
(*    the cap wherever an entry is kept (memory, snapshots, files), the    *)
(*    locks running calls hold.  TokensInv: whose token an entry holds     *)
(*    while registrations are unanswered.  OwnersInv: the pane a running   *)
(*    call was authenticated for.                                          *)
(* 3. Mail.  MailInv adds that a message has one send and a place of its   *)
(*    own in the log (MsgsInv), and that a call in its persist() is all    *)
(*    that stands between its mailbox and memory (BoxInv).                 *)
(* 4. registry.json.  Where no two persists meet (OneAtATime), FileInv     *)
(*    ties the file to memory at each operation; OnceInv and SavedOnce     *)
(*    say that nothing still to be read has been returned, DurableInv that *)
(*    what was acknowledged waits, in memory or on the disk.               *)
(*                                                                         *)
(* OneAtATime is a hypothesis, not a fact: calls that lock different names *)
(* do persist at once, and with two names properties of part 4 fail, some  *)
(* of them after a crash only.  It follows where there is one name         *)
(* (OneNameOneAtATime).                                                    *)
(***************************************************************************)
EXTENDS PeerBusMail, Ranks_proofs

-----------------------------------------------------------------------------
(* The name locks exclude each other and are waited for in order, for any  *)
(* set of names and of calls.  The lemmas are about one lock action each,  *)
(* for the steps of tool calls that embed them.                            *)

(* A lock call is for one name or two.                                     *)
OneOrTwo ==
  \A p \in Procs : wants[p] = {} \/ \E a, b \in Names : wants[p] = {a, b}

(* A call is chained on a name only while it holds its smaller name.       *)
SmallerHeld ==
  \A p \in Procs : \A n, k \in wants[p] : p \in Members(n) /\ k < n => Holds(p, k)

LockInv == LockTypeOK /\ OneOrTwo /\ SmallerHeld

-----------------------------------------------------------------------------
LEMMA HolderIsMember ==
  ASSUME LockTypeOK, NEW p \in Procs, NEW n \in Names, Holds(p, n)
  PROVE  p \in Members(n) /\ n \in wants[p]
  BY DEF LockTypeOK, Holds, Members

LEMMA OneHolder ==
  ASSUME NEW p \in Procs, NEW q \in Procs, NEW n \in Names, Holds(p, n), Holds(q, n)
  PROVE  p = q
  BY DEF Holds

LEMMA LockInvOrders == LockInv => OrderedWaiting
<1> SUFFICES ASSUME LockInv, NEW p \in Procs, NEW n \in Names, NEW k \in Names,
                    Holds(p, k), p \in Members(n), ~Holds(p, n)
             PROVE  k < n
  BY DEF OrderedWaiting
<1>1. k \in wants[p] /\ n \in wants[p] /\ p \in Members(k)
  BY HolderIsMember DEF LockInv, LockTypeOK
<1>2. ~(n < k)
  BY <1>1 DEF LockInv, SmallerHeld
<1> QED
  BY <1>2, NamesAssumption

LEMMA LockInvExcludes ==
  ASSUME LockInv, NEW p \in Procs, NEW q \in Procs, p # q, Inside(p), Inside(q)
  PROVE  wants[p] \cap wants[q] = {}
<1> SUFFICES ASSUME NEW n \in wants[p] \cap wants[q] PROVE FALSE
  OBVIOUS
<1> QED
  BY OneHolder DEF Inside, LockInv, LockTypeOK

LEMMA LockInitially == LockInit => LockInv
<1> SUFFICES ASSUME LockInit PROVE LockInv
  OBVIOUS
<1>1. LockTypeOK
  BY DEF LockInit, LockTypeOK, Members
<1>2. OneOrTwo
  BY DEF LockInit, OneOrTwo
<1>3. SmallerHeld
  BY DEF LockInit, SmallerHeld
<1> QED
  BY <1>1, <1>2, <1>3 DEF LockInv

-----------------------------------------------------------------------------
(* p is chained on n, a name it wants and is not chained on yet, while it  *)
(* holds every smaller name it wants and is chained on no greater one.     *)
LEMMA ChainingPreserves ==
  ASSUME LockTypeOK, SmallerHeld, NEW p \in Procs, NEW n \in Names,
         queue' = [queue EXCEPT ![n] = Append(@, p)],
         wants' \in [Procs -> SUBSET Names],
         \A q \in Procs : q # p => wants'[q] = wants[q],
         wants[p] \in {{}, wants'[p]},
         n \in wants'[p], p \notin Members(n),
         \A k \in wants'[p] : k < n => Holds(p, k),
         \A k \in wants'[p] : n < k => p \notin Members(k)
  PROVE  LockTypeOK' /\ SmallerHeld'
<1>1. /\ queue \in [Names -> Seq(Procs)] /\ queue' \in [Names -> Seq(Procs)]
      /\ queue[n] \in Seq(Procs) /\ Len(queue[n]) \in Nat
      /\ queue'[n] = Append(queue[n], p)
      /\ \A k \in Names : k # n => queue'[k] = queue[k]
  BY DEF LockTypeOK
<1>2. /\ Len(queue'[n]) = Len(queue[n]) + 1
      /\ \A i \in 1 .. Len(queue[n]) : queue'[n][i] = queue[n][i]
      /\ queue'[n][Len(queue[n]) + 1] = p
  BY <1>1
<1>3. Members(n)' = Members(n) \cup {p}
  BY <1>1, <1>2 DEF Members
<1>4. \A k \in Names : k # n => Members(k)' = Members(k)
  BY <1>1 DEF Members
<1>5. ASSUME NEW q \in Procs, NEW k \in Names, Holds(q, k)
      PROVE  Holds(q, k)'
  <2>1. CASE k = n
    <3>1. Len(queue[n]) >= 1 /\ queue[n][1] = q
      BY <1>1, <1>5, <2>1 DEF Holds
    <3> QED
      BY <1>1, <1>2, <2>1, <3>1 DEF Holds
  <2>2. CASE k # n
    BY <1>1, <1>5, <2>2 DEF Holds
  <2> QED
    BY <2>1, <2>2
<1>6. LockTypeOK'
  <2>1. ASSUME NEW k \in Names
        PROVE  /\ \A i, j \in 1 .. Len(queue'[k]) : queue'[k][i] = queue'[k][j] => i = j
               /\ \A q \in Members(k)' : k \in wants'[q]
    <3>1. CASE k # n
      <4>1. queue'[k] = queue[k] /\ Members(k)' = Members(k) /\ Members(k) \subseteq Procs
        BY <1>1, <1>4, <3>1 DEF Members
      <4>2. \A q \in Members(k) : q \in Procs /\ k \in wants[q]
        BY <4>1 DEF LockTypeOK
      <4> QED
        BY <4>1, <4>2 DEF LockTypeOK
    <3>2. CASE k = n
      <4>1. \A i \in 1 .. Len(queue[n]) : queue[n][i] # p
        BY DEF Members
      <4>2. \A i, j \in 1 .. Len(queue'[n]) : queue'[n][i] = queue'[n][j] => i = j
        <5> SUFFICES ASSUME NEW i \in 1 .. Len(queue'[n]), NEW j \in 1 .. Len(queue'[n]),
                            queue'[n][i] = queue'[n][j]
                     PROVE  i = j
          OBVIOUS
        <5>1. /\ i \in 1 .. Len(queue[n]) \/ i = Len(queue[n]) + 1
              /\ j \in 1 .. Len(queue[n]) \/ j = Len(queue[n]) + 1
          BY <1>1, <1>2
        <5> QED
          BY <1>2, <4>1, <5>1 DEF LockTypeOK
      <4>3. \A q \in Members(n)' : n \in wants'[q]
        BY <1>1, <1>3 DEF LockTypeOK, Members
      <4> QED
        BY <3>2, <4>2, <4>3
    <3> QED
      BY <3>1, <3>2
  <2> QED
    BY <1>1, <2>1 DEF LockTypeOK
<1>7. SmallerHeld'
  <2> SUFFICES ASSUME NEW q \in Procs, NEW m \in wants'[q], NEW k \in wants'[q],
                      q \in Members(m)', k < m
               PROVE  Holds(q, k)'
    BY DEF SmallerHeld
  <2>0. m \in Names /\ k \in Names
    OBVIOUS
  <2>1. CASE q # p
    <3>1. q \in Members(m) /\ m \in wants[q] /\ k \in wants[q]
      BY <1>3, <1>4, <2>0, <2>1
    <3> QED
      BY <1>5, <2>0, <3>1 DEF SmallerHeld
  <2>2. CASE q = p /\ m = n
    BY <1>5, <2>0, <2>2
  <2>3. CASE q = p /\ m # n
    <3>1. p \in Members(m) /\ m \in wants[p]
      BY <1>4, <2>0, <2>3 DEF LockTypeOK
    <3>2. k \in wants[p]
      BY <2>3, <3>1
    <3>3. Holds(p, k)
      BY <3>1, <3>2 DEF SmallerHeld
    <3> QED
      BY <1>5, <2>0, <2>3, <3>3
  <2> QED
    BY <2>1, <2>2, <2>3
<1> QED
  BY <1>6, <1>7

LEMMA WithLocksPreserves ==
  ASSUME LockInv, NEW p \in Procs, NEW a \in Names, NEW b \in Names,
         WithLocks(p, {a, b})
  PROVE  LockInv'
<1> DEFINE n == First({a, b})
<1>1. n \in {a, b} /\ \A k \in {a, b} : n <= k
  <2>1. \E m \in {a, b} : \A k \in {a, b} : m <= k
    BY NamesAssumption
  <2> QED
    BY <2>1 DEF First
<1>2. /\ wants[p] = {} /\ wants' = [wants EXCEPT ![p] = {a, b}]
      /\ queue' = [queue EXCEPT ![n] = Append(@, p)]
      /\ wants \in [Procs -> SUBSET Names]
  BY DEF WithLocks, LockInv, LockTypeOK
<1>3. \A k \in Names : p \notin Members(k)
  BY <1>2 DEF LockInv, LockTypeOK
<1>4. wants'[p] = {a, b} /\ wants' \in [Procs -> SUBSET Names]
  BY <1>2
<1>5. \A k \in wants'[p] : ~(k < n)
  BY <1>1, <1>4, NamesAssumption
<1> HIDE DEF n
<1>6. LockTypeOK' /\ SmallerHeld'
  BY <1>1, <1>2, <1>3, <1>4, <1>5, ChainingPreserves DEF LockInv
<1>7. OneOrTwo'
  BY <1>2 DEF LockInv, OneOrTwo
<1> QED
  BY <1>6, <1>7 DEF LockInv

LEMMA NestedLockPreserves ==
  ASSUME LockInv, NEW p \in Procs, NestedLock(p)
  PROVE  LockInv'
<1>1. PICK k \in wants[p], n \in wants[p] :
        /\ Holds(p, k) /\ p \notin Members(n)
        /\ queue' = [queue EXCEPT ![n] = Append(@, p)]
  BY DEF NestedLock
<1>2. wants' = wants /\ wants \in [Procs -> SUBSET Names] /\ k \in Names /\ n \in Names
  BY DEF NestedLock, LockInv, LockTypeOK
<1>3. p \in Members(k)
  BY <1>1, <1>2, HolderIsMember DEF LockInv
<1>4. wants[p] = {k, n} /\ k # n
  BY <1>1, <1>3 DEF LockInv, OneOrTwo
<1>5. ~(n < k)
  <2> SUFFICES ASSUME n < k PROVE FALSE
    OBVIOUS
  <2>1. Holds(p, n)
    BY <1>3 DEF LockInv, SmallerHeld
  <2> QED
    BY <1>1, <1>2, <2>1, HolderIsMember DEF LockInv
<1>6. LockTypeOK' /\ SmallerHeld'
  <2>1. \A m \in wants'[p] : /\ m < n => Holds(p, m)
                             /\ n < m => p \notin Members(m)
    <3>1. \A m \in wants'[p] : m = k \/ m = n
      BY <1>2, <1>4
    <3>2. ~(n < n)
      BY <1>2, NamesAssumption
    <3> QED
      BY <1>1, <1>5, <3>1, <3>2
  <2>2. wants' \in [Procs -> SUBSET Names] /\ n \in wants'[p]
    BY <1>2
  <2> QED
    BY <1>1, <1>2, <2>1, <2>2, ChainingPreserves DEF LockInv
<1>7. OneOrTwo'
  BY <1>2 DEF LockInv, OneOrTwo
<1> QED
  BY <1>6, <1>7 DEF LockInv

LEMMA ReleasePreserves ==
  ASSUME LockInv, NEW p \in Procs, Release(p)
  PROVE  LockInv'
<1>1. /\ queue \in [Names -> Seq(Procs)] /\ wants \in [Procs -> SUBSET Names]
      /\ Inside(p) /\ wants' = [wants EXCEPT ![p] = {}]
      /\ \A n \in Names : queue'[n] = IF n \in wants[p] THEN Tail(queue[n]) ELSE queue[n]
      /\ queue' = [n \in Names |-> queue'[n]]
  BY DEF Release, LockInv, LockTypeOK
<1>2. ASSUME NEW n \in wants[p]
      PROVE  /\ queue[n] # <<>> /\ queue[n][1] = p
             /\ queue'[n] \in Seq(Procs)
             /\ Len(queue'[n]) = Len(queue[n]) - 1
             /\ \A i \in 1 .. Len(queue'[n]) : queue'[n][i] = queue[n][i + 1]
  <2>1. queue[n] \in Seq(Procs) /\ queue[n] # <<>> /\ Head(queue[n]) = p
    BY <1>1 DEF Inside, Holds
  <2>2. queue'[n] = Tail(queue[n])
    BY <1>1
  <2>3. queue[n][1] = p
    BY <2>1
  <2> QED
    BY <2>1, <2>2, <2>3
<1>3. \A n \in Names : queue'[n] \in Seq(Procs)
  BY <1>1, <1>2
<1>4. ASSUME NEW n \in Names
      PROVE  Members(n)' \subseteq Members(n) \ {p}
  <2>1. CASE n \in wants[p]
    <3> SUFFICES ASSUME NEW i \in 1 .. Len(queue'[n])
                 PROVE  queue'[n][i] \in Members(n) \ {p}
      BY DEF Members
    <3>1. queue[n] \in Seq(Procs) /\ Len(queue[n]) \in Nat
      BY <1>1
    <3>2. i + 1 \in 1 .. Len(queue[n]) /\ 1 \in 1 .. Len(queue[n]) /\ i + 1 # 1
      BY <1>2, <2>1, <3>1
    <3>3. queue[n][i + 1] # queue[n][1]
      BY <3>2 DEF LockInv, LockTypeOK
    <3> QED
      BY <1>2, <2>1, <3>2, <3>3 DEF Members
  <2>2. CASE n \notin wants[p]
    BY <1>1, <2>2 DEF LockInv, LockTypeOK, Members
  <2> QED
    BY <2>1, <2>2
<1>5. LockTypeOK'
  <2>1. queue' \in [Names -> Seq(Procs)] /\ wants' \in [Procs -> SUBSET Names]
    BY <1>1, <1>3
  <2>2. ASSUME NEW n \in Names, NEW i \in 1 .. Len(queue'[n]), NEW j \in 1 .. Len(queue'[n]),
               queue'[n][i] = queue'[n][j]
        PROVE  i = j
    <3>1. CASE n \in wants[p]
      <4>1. Len(queue[n]) \in Nat
        BY <1>1
      <4>2. i + 1 \in 1 .. Len(queue[n]) /\ j + 1 \in 1 .. Len(queue[n])
        BY <1>2, <3>1, <4>1
      <4>3. queue[n][i + 1] = queue[n][j + 1]
        BY <1>2, <2>2, <3>1
      <4>4. i + 1 = j + 1
        BY <4>2, <4>3 DEF LockInv, LockTypeOK
      <4> QED
        BY <4>4
    <3>2. CASE n \notin wants[p]
      BY <1>1, <2>2, <3>2 DEF LockInv, LockTypeOK
    <3> QED
      BY <3>1, <3>2
  <2>3. ASSUME NEW n \in Names, NEW q \in Members(n)'
        PROVE  n \in wants'[q]
    <3>1. q \in Members(n) /\ q # p
      BY <1>4
    <3>2. n \in wants[q] /\ q \in Procs
      BY <1>1, <3>1 DEF LockInv, LockTypeOK, Members
    <3> QED
      BY <1>1, <3>1, <3>2
  <2> QED
    BY <2>1, <2>2, <2>3 DEF LockTypeOK
<1>6. OneOrTwo'
  BY <1>1 DEF LockInv, OneOrTwo
<1>7. SmallerHeld'
  <2> SUFFICES ASSUME NEW q \in Procs, NEW n \in wants'[q], NEW k \in wants'[q],
                      q \in Members(n)', k < n
               PROVE  Holds(q, k)'
    BY DEF SmallerHeld
  <2>1. q # p /\ n \in wants[q] /\ k \in wants[q] /\ n \in Names /\ k \in Names
    BY <1>1
  <2>2. Holds(q, k)
    BY <1>4, <2>1 DEF LockInv, SmallerHeld
  <2>3. k \notin wants[p]
    BY <1>1, <2>1, <2>2, OneHolder DEF Inside
  <2> QED
    BY <1>1, <2>1, <2>2, <2>3 DEF Holds
<1> QED
  BY <1>5, <1>6, <1>7 DEF LockInv

LEMMA LockUnchanged == LockInv /\ UNCHANGED lockVars => LockInv'
  BY DEF lockVars, LockInv, LockTypeOK, OneOrTwo, SmallerHeld, Members, Holds

-----------------------------------------------------------------------------
LEMMA LockPreserved == LockInv /\ [LockNext]_lockVars => LockInv'
  BY WithLocksPreserves, NestedLockPreserves, ReleasePreserves, LockUnchanged DEF LockNext

(* The queues always hold calls that are running, each at most once.       *)
THEOREM LockTypeCorrect == LockSafety => []LockTypeOK
<1>1. LockInv => LockTypeOK
  BY DEF LockInv
<1> QED
  BY LockInitially, LockPreserved, <1>1, PTL DEF LockSafety

(* A waiting call waits for a greater name than those it holds, so no      *)
(* cycle of calls waiting for each other can form.                         *)
THEOREM LocksOrdered == LockSafety => []OrderedWaiting
  BY LockInitially, LockPreserved, LockInvOrders, PTL DEF LockSafety

-----------------------------------------------------------------------------
(* There is no deadlock.  A call in a lock call is queued on some name, so *)
(* one that cannot go on waits for the holder of a name; the holder of the *)
(* greatest name waited for cannot itself wait.  There is a greatest, as   *)
(* no more than finitely many names are in use.                            *)
InUse == {n \in Names : queue[n] # <<>>}

Queued ==
  /\ IsFiniteSet(InUse)
  /\ \A p \in Procs : wants[p] # {} => \E n \in wants[p] : p \in Members(n)

LEMMA NoneStuckIfQueued ==
  ASSUME LockInv, Queued
  PROVE  NoneStuck
<1> SUFFICES ASSUME NEW D \in SUBSET {p \in Procs : wants[p] # {}}, D # {},
                    \A p \in D : ~CanGoOn(p) /\ \A q \in Procs \ D : ~WaitsFor(p, q)
             PROVE  FALSE
  BY DEF NoneStuck
<1> DEFINE Awaited == {n \in InUse : \E p, q \in D : p \in Members(n) /\ ~Holds(p, n) /\ Holds(q, n)}
<1>1. LockTypeOK /\ OrderedWaiting
  BY LockInvOrders DEF LockInv
<1>2. ASSUME NEW p \in D
      PROVE  \E n \in Awaited : p \in Members(n) /\ ~Holds(p, n)
  <2>1. p \in Procs /\ wants[p] # {} /\ wants[p] \subseteq Names
    BY <1>1 DEF LockTypeOK
  <2>2. PICK k \in wants[p] : p \in Members(k)
    BY <2>1 DEF Queued
  <2>3. PICK n \in wants[p] : ~Holds(p, n)
    BY <2>1 DEF CanGoOn, Inside
  <2>4. \E h \in wants[p] : p \in Members(h) /\ ~Holds(p, h)
    BY <2>2, <2>3 DEF CanGoOn
  <2>5. PICK h \in wants[p] : p \in Members(h) /\ ~Holds(p, h)
    BY <2>4
  <2>6. h \in Names /\ queue[h] \in Seq(Procs) /\ queue[h] # <<>>
    BY <1>1, <2>1, <2>5 DEF LockTypeOK, Members
  <2>7. Head(queue[h]) \in Procs /\ Holds(Head(queue[h]), h)
    BY <2>6 DEF Holds
  <2>8. WaitsFor(p, Head(queue[h]))
    BY <2>5, <2>7 DEF WaitsFor
  <2>9. Head(queue[h]) \in D
    BY <2>7, <2>8
  <2> QED
    BY <2>5, <2>6, <2>7, <2>9 DEF InUse
<1>3. Numbers(Awaited)
  <2>1. Awaited \subseteq InUse /\ IsFiniteSet(InUse)
    BY DEF Queued
  <2>2. IsFiniteSet(Awaited)
    BY <2>1, FS_Subset
  <2>3. Awaited \subseteq Nat
    BY NamesAssumption DEF InUse
  <2> QED
    BY <2>2, <2>3 DEF Numbers
<1>4. Awaited # {}
  BY <1>2
<1>5. PICK m \in Awaited : \A n \in Awaited : n <= m
  BY <1>3, <1>4, Greatest
<1>6. PICK q \in D : Holds(q, m)
  OBVIOUS
<1>7. PICK n \in Awaited : q \in Members(n) /\ ~Holds(q, n)
  BY <1>2
<1>8. m < n
  <2>1. m \in Names /\ n \in Names /\ q \in Procs
    BY DEF InUse
  <2> QED
    BY <1>1, <1>6, <1>7, <2>1 DEF OrderedWaiting
<1>9. n <= m /\ m \in Nat /\ n \in Nat
  BY <1>3, <1>5 DEF Numbers
<1> QED
  BY <1>8, <1>9

LEMMA QueuedInitially == LockInit => Queued
<1> SUFFICES ASSUME LockInit PROVE Queued
  OBVIOUS
<1>1. InUse = {}
  BY DEF LockInit, InUse
<1> QED
  BY <1>1, FS_EmptySet DEF LockInit, Queued

\* One call more on one queue.
LEMMA ChainingQueues ==
  ASSUME LockTypeOK, Queued, NEW p \in Procs, NEW n \in Names,
         queue' = [queue EXCEPT ![n] = Append(@, p)], n \in wants'[p],
         \A q \in Procs \ {p} : wants'[q] = wants[q]
  PROVE  Queued'
<1>1. queue \in [Names -> Seq(Procs)] /\ queue[n] \in Seq(Procs)
  BY DEF LockTypeOK
<1>2. InUse' \subseteq InUse \cup {n}
  BY <1>1 DEF InUse
<1>3. IsFiniteSet(InUse)'
  BY <1>2, FS_AddElement, FS_Subset DEF Queued
<1>4. p \in Members(n)'
  <2>1. queue'[n] = Append(queue[n], p)
    BY <1>1
  <2>2. Len(queue'[n]) \in 1 .. Len(queue'[n]) /\ queue'[n][Len(queue'[n])] = p
    BY <1>1, <2>1
  <2> QED
    BY <2>2 DEF Members
<1>5. ASSUME NEW k \in Names
      PROVE  Members(k) \subseteq Members(k)'
  <2>1. CASE k = n
    <3>1. queue'[k] = Append(queue[n], p)
      BY <1>1, <2>1
    <3>2. \A i \in 1 .. Len(queue[n]) : i \in 1 .. Len(queue'[k]) /\ queue'[k][i] = queue[n][i]
      BY <1>1, <3>1
    <3> QED
      BY <2>1, <3>2 DEF Members
  <2>2. CASE k # n
    <3>1. queue'[k] = queue[k]
      BY <1>1, <2>2
    <3> QED
      BY <3>1 DEF Members
  <2> QED
    BY <2>1, <2>2
<1>6. ASSUME NEW q \in Procs, wants'[q] # {}
      PROVE  \E k \in wants'[q] : q \in Members(k)'
  <2>1. CASE q = p
    BY <1>4, <2>1
  <2>2. CASE q # p
    <3>1. wants'[q] = wants[q] /\ wants[q] \subseteq Names
      BY <2>2 DEF LockTypeOK
    <3>2. PICK k \in wants[q] : q \in Members(k)
      BY <1>6, <3>1 DEF Queued
    <3> QED
      BY <1>5, <3>1, <3>2
  <2> QED
    BY <2>1, <2>2
<1> QED
  BY <1>3, <1>6 DEF Queued

LEMMA WithLocksQueues ==
  ASSUME LockInv, Queued, NEW p \in Procs, NEW a \in Names, NEW b \in Names,
         WithLocks(p, {a, b})
  PROVE  Queued'
<1>1. a \in Nat /\ b \in Nat
  BY NamesAssumption
<1>2. First({a, b}) \in {a, b}
  <2>1. \E n \in {a, b} : \A k \in {a, b} : n <= k
    BY <1>1
  <2> QED
    BY <2>1 DEF First
<1> DEFINE n == First({a, b})
<1> HIDE DEF n
<1>3. /\ n \in Names /\ n \in {a, b}
      /\ queue' = [queue EXCEPT ![n] = Append(@, p)]
      /\ wants' = [wants EXCEPT ![p] = {a, b}] /\ wants \in [Procs -> SUBSET Names]
  BY <1>2 DEF WithLocks, LockInv, LockTypeOK, n
<1>4. n \in wants'[p] /\ \A q \in Procs \ {p} : wants'[q] = wants[q]
  BY <1>3
<1> QED
  BY <1>3, <1>4, ChainingQueues DEF LockInv

LEMMA NestedLockQueues ==
  ASSUME LockInv, Queued, NEW p \in Procs, NestedLock(p)
  PROVE  Queued'
<1>1. PICK n \in wants[p] : queue' = [queue EXCEPT ![n] = Append(@, p)]
  BY DEF NestedLock
<1>2. n \in Names /\ n \in wants'[p] /\ \A q \in Procs \ {p} : wants'[q] = wants[q]
  BY DEF NestedLock, LockInv, LockTypeOK
<1> QED
  BY <1>1, <1>2, ChainingQueues DEF LockInv

LEMMA ReleaseQueues ==
  ASSUME LockInv, Queued, NEW p \in Procs, Release(p)
  PROVE  Queued'
<1>1. /\ LockTypeOK /\ Inside(p)
      /\ queue' = [n \in Names |-> IF n \in wants[p] THEN Tail(queue[n]) ELSE queue[n]]
      /\ wants' = [wants EXCEPT ![p] = {}]
  BY DEF Release, LockInv
<1>2. InUse' \subseteq InUse
  <2> SUFFICES ASSUME NEW n \in Names, queue[n] = <<>>
               PROVE  queue'[n] = <<>>
    BY DEF InUse
  <2>1. n \notin wants[p]
    BY <1>1 DEF Inside, Holds
  <2> QED
    BY <1>1, <2>1
<1>3. IsFiniteSet(InUse)'
  BY <1>2, FS_Subset DEF Queued
<1>4. ASSUME NEW q \in Procs, wants'[q] # {}
      PROVE  \E k \in wants'[q] : q \in Members(k)'
  <2>1. q # p /\ wants'[q] = wants[q] /\ wants[q] \subseteq Names
    BY <1>1, <1>4 DEF LockTypeOK
  <2>2. PICK k \in wants[q] : q \in Members(k)
    BY <1>4, <2>1 DEF Queued
  <2>3. queue[k] \in Seq(Procs) /\ k \in Names
    BY <1>1, <2>1 DEF LockTypeOK
  <2>4. CASE k \in wants[p]
    <3>1. queue[k] # <<>> /\ queue[k][1] = p /\ queue'[k] = Tail(queue[k])
      BY <1>1, <2>3, <2>4 DEF Inside, Holds
    <3>2. PICK i \in 1 .. Len(queue[k]) : queue[k][i] = q
      BY <2>2 DEF Members
    <3>3. i # 1
      BY <2>1, <3>1, <3>2
    <3>4. i - 1 \in 1 .. Len(queue'[k]) /\ queue'[k][i - 1] = q
      BY <2>3, <3>1, <3>2, <3>3
    <3> QED
      BY <2>1, <3>4 DEF Members
  <2>5. CASE k \notin wants[p]
    <3>1. queue'[k] = queue[k]
      BY <1>1, <2>3, <2>5
    <3> QED
      BY <2>1, <2>2, <3>1 DEF Members
  <2> QED
    BY <2>4, <2>5
<1> QED
  BY <1>3, <1>4 DEF Queued

LEMMA QueuedUnchanged == Queued /\ UNCHANGED lockVars => Queued'
  BY DEF lockVars, Queued, InUse, Members

(* Of any calls that are in withLock or withLocks, one can go on or waits  *)
(* for a call that is not among them: whatever the numbers of names and of *)
(* calls, they never all wait for each other.                              *)
THEOREM LocksNeverStuck == LockSafety => []NoneStuck
<1>1. LockInit => LockInv /\ Queued
  BY LockInitially, QueuedInitially
<1>2. LockInv /\ Queued /\ [LockNext]_lockVars => (LockInv /\ Queued)'
  BY LockPreserved, WithLocksQueues, NestedLockQueues, ReleaseQueues, QueuedUnchanged DEF LockNext
<1>3. LockInv /\ Queued => NoneStuck
  BY NoneStuckIfQueued
<1> QED
  BY <1>1, <1>2, <1>3, PTL DEF LockSafety

-----------------------------------------------------------------------------
(* What each file operation of persist() leaves: the files hold an image   *)
(* of the given set or none, whatever the interleaving of the calls.       *)

LEMMA FullIsOK == \A I, i : i \in I => FileOK(Full(i), I)
  BY DEF FileOK, Full

LEMMA OverwriteIsOK ==
  ASSUME NEW I, NEW f, NEW i \in I, NEW g \in Overwrite(f, i)
  PROVE  FileOK(g, I)
  BY FullIsOK DEF Overwrite, FileOK

LEMMA FileInitially == ASSUME NEW I, FileInit PROVE FileTypeOK(I)
  BY DEF FileInit, FileTypeOK, FileOK

LEMMA StartPersistTyped ==
  ASSUME NEW I, FileTypeOK(I), NEW p \in Procs, NEW i \in I,
         StartPersist(p, i), faults' \in Nat
  PROVE  FileTypeOK(I)'
  BY DEF FileTypeOK, StartPersist, FileOK, Full, Absent, Empty, Mixed

LEMMA EndPersistTyped ==
  ASSUME NEW I, FileTypeOK(I), NEW p \in Procs, EndPersist(p)
  PROVE  FileTypeOK(I)'
  BY DEF FileTypeOK, EndPersist, FileOK, Full, Absent, Empty, Mixed

LEMMA LoseProcessesTyped ==
  ASSUME NEW I, FileTypeOK(I), LoseProcesses
  PROVE  FileTypeOK(I)'
  BY DEF FileTypeOK, LoseProcesses, FileOK, Full, Absent, Empty, Mixed

LEMMA FilesUnchangedTyped ==
  ASSUME NEW I, FileTypeOK(I), UNCHANGED <<live, tmp, stage, fd, img>>, faults' \in Nat
  PROVE  FileTypeOK(I)'
  BY DEF FileTypeOK, FileOK, Full, Absent, Empty, Mixed

(* A file operation of p moves p's persist() on, and no other's.           *)
LEMMA PersistStepTyped ==
  ASSUME NEW I, FileTypeOK(I), NEW p \in Procs, PersistStep(p)
  PROVE  /\ FileTypeOK(I)'
         /\ \A q \in Procs : stage'[q] = "none" <=> stage[q] = "none"
         /\ \A q \in Procs : q # p => stage'[q] = stage[q]
<1> USE DEF FileTypeOK
<1>1. CASE OpenTmp(p)
  BY <1>1 DEF OpenTmp, FileOK, Full, Absent, Empty, Mixed
<1>2. CASE WriteTmp(p)
  <2>1. img[p] \in I
    BY <1>2 DEF WriteTmp
  <2>2. FileOK(tmp', I) /\ FileOK(live', I)
    BY <1>2, <2>1, OverwriteIsOK DEF WriteTmp
  <2>3. /\ stage' \in [Procs -> {"none", "open", "write", "rename", "chmod", "ok", "failed"}]
        /\ fd' \in [Procs -> {"none", "tmp", "live", "unlinked"}]
        /\ \A q \in Procs : stage'[q] # "none" => stage[q] # "none"
        /\ UNCHANGED <<img, faults>>
    BY <1>2 DEF WriteTmp
  <2> QED
    BY <1>2, <2>2, <2>3 DEF WriteTmp, FileOK, Full, Absent, Empty, Mixed
<1>3. CASE RenameTmp(p)
  <2>1. fd' \in [Procs -> {"none", "tmp", "live", "unlinked"}]
    BY <1>3 DEF RenameTmp, Followed
  <2> QED
    BY <1>3, <2>1 DEF RenameTmp, FileOK, Full, Absent, Empty, Mixed
<1>4. CASE RenameMissing(p)
  BY <1>4 DEF RenameMissing, FileOK, Full, Absent, Empty, Mixed
<1>5. CASE ChmodLive(p)
  BY <1>5 DEF ChmodLive, FileOK, Full, Absent, Empty, Mixed
<1>6. CASE PersistFault(p)
  <2>1. FileOK(tmp', I) /\ FileOK(live', I)
    BY <1>6 DEF PersistFault, FileOK
  <2> QED
    BY <1>6, <2>1 DEF PersistFault, FileOK, Full, Absent, Empty, Mixed
<1> QED
  BY <1>1, <1>2, <1>3, <1>4, <1>5, <1>6 DEF PersistStep

-----------------------------------------------------------------------------
(* Entries within the cap, and what the file holds of one.                 *)
Kept == {e \in Entry : Cardinality(e.unread) <= MaxUnread}
DiskEntry == {e \in Kept : e.tok = NoToken /\ e.idle = FALSE}
DiskImage == [Names -> DiskEntry]

KeptCall == {c \in Call : c.snap \in Kept}

BusTyped ==
  /\ LockInv
  /\ FileTypeOK(DiskImage)
  /\ LogTypeOK
  /\ reg \in [Names -> Kept]
  /\ call \in [Procs -> KeptCall]
  /\ up \in BOOLEAN
  /\ LocksFollowCalls

-----------------------------------------------------------------------------
LEMMA ConstantFacts ==
  /\ MaxUnread \in Nat /\ NoToken \in Nat /\ NoName \notin Names /\ IsFiniteSet(Msgs)
  /\ \A S \in SUBSET Msgs : IsFiniteSet(S) /\ Cardinality(S) \in Nat
<1>1. IsFiniteSet(Msgs)
  BY BoundsAssumption, FS_Interval DEF Msgs
<1> QED
  BY <1>1, BoundsAssumption, NamesAssumption, FS_Subset, FS_CardinalityType
     DEF NoToken, NoName

LEMMA KeptFields ==
  ASSUME NEW e \in Kept
  PROVE  /\ e \in Entry
         /\ e.on \in BOOLEAN /\ e.tok \in Nat /\ e.pane \in Panes \cup {NoPane}
         /\ e.idle \in BOOLEAN /\ e.unread \in SUBSET Msgs
         /\ Cardinality(e.unread) <= MaxUnread
  BY DEF Kept, Entry

LEMMA NoEntryKept == NoEntry \in Kept /\ NoEntry \in DiskEntry
<1>1. NoEntry \in Entry
  BY DEF NoEntry, Entry, NoToken
<1>2. Cardinality(NoEntry.unread) <= MaxUnread
  BY FS_EmptySet, ConstantFacts DEF NoEntry
<1> QED
  BY <1>1, <1>2 DEF Kept, DiskEntry, NoEntry

(* Any subset of a kept mailbox is within the cap.                         *)
LEMMA FewerUnread ==
  ASSUME NEW e \in Kept, NEW U \in SUBSET e.unread
  PROVE  /\ U \in SUBSET Msgs
         /\ Cardinality(U) <= MaxUnread
         /\ [e EXCEPT !.unread = U] \in Kept
<1>1. U \in SUBSET Msgs /\ IsFiniteSet(e.unread) /\ Cardinality(e.unread) \in Nat
  BY KeptFields, ConstantFacts
<1>2. Cardinality(U) <= Cardinality(e.unread) /\ Cardinality(U) \in Nat
  BY <1>1, FS_Subset, ConstantFacts
<1>3. Cardinality(U) <= MaxUnread
  BY <1>1, <1>2, KeptFields, ConstantFacts
<1>4. [e EXCEPT !.unread = U] \in Entry /\ [e EXCEPT !.unread = U].unread = U
  BY <1>1, KeptFields DEF Entry
<1> QED
  BY <1>1, <1>3, <1>4 DEF Kept

LEMMA SameUnread ==
  ASSUME NEW e \in Kept, NEW f \in Entry, f.unread \subseteq e.unread
  PROVE  f \in Kept
  BY FewerUnread DEF Kept, Entry

LEMMA TouchedKept ==
  ASSUME NEW r \in [Names -> Kept], NEW n \in Names
  PROVE  /\ Touched(r, n) \in [Names -> Kept]
         /\ \A k \in Names : /\ Touched(r, n)[k].tok = r[k].tok
                             /\ Touched(r, n)[k].on = r[k].on
                             /\ Touched(r, n)[k].pane = r[k].pane
                             /\ Touched(r, n)[k].unread = r[k].unread
                             /\ ~r[k].idle => ~Touched(r, n)[k].idle
         /\ ~Touched(r, n)[n].idle
<1>1. r[n] \in Kept
  OBVIOUS
<1>2. [r[n] EXCEPT !.idle = FALSE] \in Entry
  BY <1>1, KeptFields DEF Entry
<1>3. /\ [r[n] EXCEPT !.idle = FALSE].unread = r[n].unread
      /\ [r[n] EXCEPT !.idle = FALSE].tok = r[n].tok
      /\ [r[n] EXCEPT !.idle = FALSE].on = r[n].on
      /\ [r[n] EXCEPT !.idle = FALSE].pane = r[n].pane
      /\ [r[n] EXCEPT !.idle = FALSE].idle = FALSE
  BY <1>1, KeptFields DEF Entry
<1>4. [r[n] EXCEPT !.idle = FALSE] \in Kept
  BY <1>1, <1>2, <1>3, SameUnread
<1>5. Touched(r, n) = [r EXCEPT ![n] = [r[n] EXCEPT !.idle = FALSE]]
  BY DEF Touched
<1> QED
  BY <1>3, <1>4, <1>5

LEMMA OnDiskImage ==
  ASSUME NEW r \in [Names -> Kept]
  PROVE  OnDisk(r) \in DiskImage
<1>1. ASSUME NEW n \in Names
      PROVE  [r[n] EXCEPT !.tok = NoToken, !.idle = FALSE] \in DiskEntry
  <2>1. r[n] \in Kept
    OBVIOUS
  <2>2. [r[n] EXCEPT !.tok = NoToken, !.idle = FALSE] \in Entry
    BY <2>1, KeptFields, ConstantFacts DEF Entry
  <2>3. /\ [r[n] EXCEPT !.tok = NoToken, !.idle = FALSE].unread = r[n].unread
        /\ [r[n] EXCEPT !.tok = NoToken, !.idle = FALSE].tok = NoToken
        /\ [r[n] EXCEPT !.tok = NoToken, !.idle = FALSE].idle = FALSE
    BY <2>1, KeptFields DEF Entry
  <2> QED
    BY <2>1, <2>2, <2>3, SameUnread DEF DiskEntry
<1> QED
  BY <1>1, NoEntryKept DEF OnDisk, DiskImage

-----------------------------------------------------------------------------
(* The parts that tool calls have in common.                               *)

LEMMA NoCallKept == NoCall \in KeptCall
  BY NoEntryKept DEF KeptCall, Call, NoCall, Started

LEMMA KeptCallFields ==
  ASSUME NEW c \in KeptCall
  PROVE  /\ c.op \in {"none", "register", "send", "read"}
         /\ c.me \in Names \cup {NoName} /\ c.to \in Names \cup {NoName}
         /\ c.op = "none" <=> c = NoCall
         /\ c.op # "none" => c.me \in Names
         /\ c.op = "send" => c.to \in Names /\ c.msg \in Msgs /\ c.out = {}
         /\ c.op \in {"register", "read"} => c.to = NoName /\ c.msg = NoMsg
         /\ c.snap \in Kept
         /\ c.pane \in Panes \cup {NoPane} /\ c.out \in SUBSET Msgs
  BY NoEntryKept DEF KeptCall, Call, NoCall, Started

(* A lock action of q leaves p inside its locks.                           *)
LEMMA OthersStayInside ==
  ASSUME LockInv, NEW p \in Procs, NEW q \in Procs, p # q, Inside(p),
         \/ \E a, b \in Names : WithLocks(q, {a, b})
         \/ NestedLock(q)
         \/ Release(q)
  PROVE  Inside(p)'
<1>1. queue \in [Names -> Seq(Procs)] /\ wants \in [Procs -> SUBSET Names]
  BY DEF LockInv, LockTypeOK
<1>2. ASSUME NEW n \in Names, queue' = [queue EXCEPT ![n] = Append(@, q)],
             wants'[p] = wants[p]
      PROVE  Inside(p)'
  <2> SUFFICES ASSUME NEW k \in wants[p] PROVE Holds(p, k)'
    BY <1>2 DEF Inside
  <2>1. k \in Names /\ queue[k] \in Seq(Procs) /\ queue[k] # <<>> /\ Head(queue[k]) = p
    BY <1>1 DEF Inside, Holds
  <2>2. CASE k # n
    BY <1>1, <1>2, <2>1, <2>2 DEF Holds
  <2>3. CASE k = n
    <3>1. queue'[k] = Append(queue[k], q)
      BY <1>1, <1>2, <2>3
    <3>2. Append(queue[k], q) # <<>> /\ Head(Append(queue[k], q)) = Head(queue[k])
      BY <2>1
    <3> QED
      BY <2>1, <3>1, <3>2 DEF Holds
  <2> QED
    BY <2>2, <2>3
<1>3. CASE \E a, b \in Names : WithLocks(q, {a, b})
  <2>1. PICK a \in Names, b \in Names : WithLocks(q, {a, b})
    BY <1>3
  <2>2. First({a, b}) \in Names
    <3>1. \E m \in {a, b} : \A k \in {a, b} : m <= k
      BY NamesAssumption
    <3> QED
      BY <3>1 DEF First
  <2>3. /\ queue' = [queue EXCEPT ![First({a, b})] = Append(@, q)]
        /\ wants'[p] = wants[p]
    BY <1>1, <2>1 DEF WithLocks
  <2> QED
    BY <1>2, <2>2, <2>3
<1>4. CASE NestedLock(q)
  <2>1. PICK k \in wants[q], n \in wants[q] : queue' = [queue EXCEPT ![n] = Append(@, q)]
    BY <1>4 DEF NestedLock
  <2>2. n \in Names /\ wants'[p] = wants[p]
    BY <1>1, <1>4 DEF NestedLock
  <2> QED
    BY <1>2, <2>1, <2>2
<1>5. CASE Release(q)
  <2>1. wants'[p] = wants[p]
    BY <1>1, <1>5 DEF Release
  <2>2. ASSUME NEW k \in wants[p] PROVE Holds(p, k)' /\ k \in Names
    <3>1. k \in Names /\ Holds(p, k)
      BY <1>1 DEF Inside
    <3>2. k \notin wants[q]
      BY <1>5, <3>1, OneHolder DEF Inside, Release
    <3> QED
      BY <1>1, <1>5, <3>1, <3>2 DEF Release, Holds
  <2> QED
    BY <2>1, <2>2 DEF Inside
<1> QED
  BY <1>3, <1>4, <1>5

(* A call in progress has taken its locks; one that persists is inside.    *)
LEMMA CallLocks ==
  ASSUME BusTyped, NEW p \in Procs
  PROVE  /\ call[p] \in KeptCall
         /\ call[p] = NoCall => wants[p] = {} /\ stage[p] = "none"
         /\ call[p].op # "none" => call[p].me \in wants[p] /\ Target(p) \in wants[p]
         /\ stage[p] # "none" => Inside(p) /\ call[p].op # "none"
<1>1. call[p] \in KeptCall /\ wants[p] = {call[p].me, call[p].to} \ {NoName}
  BY DEF BusTyped, LocksFollowCalls
<1>2. call[p] = NoCall => wants[p] = {} /\ stage[p] = "none"
  BY <1>1 DEF BusTyped, LocksFollowCalls, NoCall, Started, Inside
<1>3. call[p].op # "none" => call[p].me \in wants[p] /\ Target(p) \in wants[p]
  BY <1>1, KeptCallFields, ConstantFacts DEF Target
<1> QED
  BY <1>1, <1>2, <1>3, KeptCallFields DEF BusTyped, LocksFollowCalls

(* A new call that asks for its locks.                                     *)
LEMMA NewCallTyped ==
  ASSUME BusTyped, NEW p \in Procs, NEW c \in KeptCall, NEW a \in Names, NEW b \in Names,
         call[p] = NoCall, WithLocks(p, {a, b}), call' = [call EXCEPT ![p] = c],
         {c.me, c.to} \ {NoName} = {a, b}, UNCHANGED stage
  PROVE  LockInv' /\ call' \in [Procs -> KeptCall] /\ LocksFollowCalls'
<1>1. LockInv' /\ call' \in [Procs -> KeptCall]
  BY WithLocksPreserves DEF BusTyped
<1>2. ASSUME NEW q \in Procs
      PROVE  /\ wants'[q] = {call'[q].me, call'[q].to} \ {NoName}
             /\ stage'[q] # "none" => Inside(q)'
  <2>1. CASE q = p
    BY <2>1, CallLocks DEF BusTyped, LockInv, LockTypeOK, WithLocks
  <2>2. CASE q # p
    BY <2>2, OthersStayInside DEF BusTyped, LocksFollowCalls, LockInv, LockTypeOK, WithLocks
  <2> QED
    BY <2>1, <2>2
<1> QED
  BY <1>1, <1>2 DEF LocksFollowCalls

(* A call inside its locks that changes the registry and starts persist(). *)
LEMMA CommitTyped ==
  ASSUME BusTyped, NEW p \in Procs, NEW c \in KeptCall, NEW r \in [Names -> Kept],
         Inside(p), call' = [call EXCEPT ![p] = c],
         c.me = call[p].me, c.to = call[p].to,
         StartPersist(p, OnDisk(r)), faults' \in Nat, UNCHANGED lockVars
  PROVE  /\ LockInv' /\ call' \in [Procs -> KeptCall] /\ LocksFollowCalls'
         /\ FileTypeOK(DiskImage)'
<1>1. LockInv' /\ call' \in [Procs -> KeptCall]
  BY LockUnchanged DEF BusTyped
<1>2. \A q \in Procs : Inside(q)' = Inside(q)
  BY DEF lockVars, Inside, Holds
<1>3. \A q \in Procs : q # p => stage'[q] = stage[q]
  BY DEF StartPersist, BusTyped, FileTypeOK
<1>4. LocksFollowCalls'
  BY <1>2, <1>3 DEF BusTyped, LocksFollowCalls, lockVars
<1>5. FileTypeOK(DiskImage)'
  BY OnDiskImage, StartPersistTyped DEF BusTyped
<1> QED
  BY <1>1, <1>4, <1>5

(* A call that answers.                                                    *)
LEMMA AnswerTyped ==
  ASSUME BusTyped, NEW p \in Procs, Answer(p), stage'[p] = "none",
         \A q \in Procs : q # p => stage'[q] = stage[q]
  PROVE  LockInv' /\ call' \in [Procs -> KeptCall] /\ LocksFollowCalls'
<1>1. LockInv' /\ call' \in [Procs -> KeptCall]
  BY ReleasePreserves, NoCallKept DEF BusTyped, Answer
<1>2. ASSUME NEW q \in Procs
      PROVE  /\ wants'[q] = {call'[q].me, call'[q].to} \ {NoName}
             /\ stage'[q] # "none" => Inside(q)'
  <2>1. CASE q = p
    BY <2>1 DEF BusTyped, LockInv, LockTypeOK, Answer, Release, NoCall, Started
  <2>2. CASE q # p
    BY <2>2, OthersStayInside DEF BusTyped, LocksFollowCalls, LockInv, LockTypeOK,
                                  Answer, Release
  <2> QED
    BY <2>1, <2>2
<1> QED
  BY <1>1, <1>2 DEF LocksFollowCalls

-----------------------------------------------------------------------------
(* The types, action by action.                                            *)

LEMMA TypedInitially == Init => BusTyped
<1> SUFFICES ASSUME Init PROVE BusTyped
  OBVIOUS
<1>1. LockInv /\ FileTypeOK(DiskImage)
  BY LockInitially, FileInitially DEF Init
<1>2. LogTypeOK /\ up \in BOOLEAN
  BY DEF Init, LogTypeOK, NoName
<1>3. reg \in [Names -> Kept] /\ call \in [Procs -> KeptCall]
  BY NoEntryKept, NoCallKept DEF Init
<1>4. LocksFollowCalls
  BY DEF Init, LockInit, FileInit, LocksFollowCalls, NoCall, Started
<1> QED
  BY <1>1, <1>2, <1>3, <1>4 DEF BusTyped

LEMMA LogStaysTyped ==
  ASSUME LogTypeOK, NEW m \in Msgs, UNCHANGED addr,
         \/ UNCHANGED <<pos, readable, torn>>
         \/ AppendLine(m)
         \/ AppendPart(m)
  PROVE  LogTypeOK'
<1>1. NextPos \in Nat
  BY ConstantFacts DEF NextPos
<1> QED
  BY <1>1 DEF LogTypeOK, AppendLine, AppendPart

LEMMA RegisteredKept ==
  ASSUME BusTyped, nextToken \in Nat, NEW n \in Names, NEW pane \in Panes \cup {NoPane}
  PROVE  Registered(reg[n], pane) \in Kept
<1>1. reg[n] \in Kept
  BY DEF BusTyped
<1>2. Registered(reg[n], pane) \in Entry
  BY <1>1, KeptFields DEF Registered, Entry
<1>3. Registered(reg[n], pane).unread \subseteq reg[n].unread
  BY DEF Registered
<1> QED
  BY <1>1, <1>2, <1>3, SameUnread

LEMMA RegisterTyped ==
  ASSUME BusTyped, nextToken \in Nat, NEW p \in Procs,
         \/ \E n \in Names, pane \in Panes \cup {NoPane} : RegisterCall(p, n, pane)
         \/ RegisterReject(p) \/ RegisterCommit(p) \/ RegisterReturn(p)
  PROVE  BusTyped'
<1>0. call[p] \in KeptCall /\ reg \in [Names -> Kept]
  BY DEF BusTyped
<1>1. ASSUME NEW n \in Names, NEW pane \in Panes \cup {NoPane}, RegisterCall(p, n, pane)
      PROVE  BusTyped'
  <2> DEFINE c == Started("register", n, NoName, NoMsg, pane)
  <2>1. c \in KeptCall /\ {c.me, c.to} \ {NoName} = {n, n}
    <3>1. NoEntry \in Entry
      BY NoEntryKept DEF Kept
    <3>2. c \in Call
      BY <3>1 DEF Call, Started
    <3> QED
      BY <3>2, NoEntryKept, ConstantFacts DEF KeptCall, Started
  <2>2. /\ call[p] = NoCall /\ WithLocks(p, {n, n})
        /\ call' = [call EXCEPT ![p] = c]
        /\ UNCHANGED <<fileVars, reg, up, logVars>>
    BY <1>1 DEF RegisterCall
  <2> HIDE DEF c
  <2>3. LockInv' /\ call' \in [Procs -> KeptCall] /\ LocksFollowCalls'
    BY <2>1, <2>2, NewCallTyped DEF fileVars
  <2>4. FileTypeOK(DiskImage)'
    BY <2>2, FilesUnchangedTyped DEF BusTyped, FileTypeOK, fileVars
  <2> QED
    BY <2>2, <2>3, <2>4 DEF BusTyped, logVars, LogTypeOK
<1>2. CASE RegisterReject(p)
  <2>1. LockInv' /\ call' \in [Procs -> KeptCall] /\ LocksFollowCalls'
    BY <1>2, AnswerTyped DEF RegisterReject, fileVars
  <2>2. FileTypeOK(DiskImage)'
    BY <1>2, FilesUnchangedTyped DEF RegisterReject, BusTyped, FileTypeOK, fileVars
  <2> QED
    BY <1>2, <2>1, <2>2 DEF RegisterReject, BusTyped, logVars, LogTypeOK
<1>3. CASE RegisterCommit(p)
  <2> DEFINE n == call[p].me
             c == [call[p] EXCEPT !.snap = reg[n]]
  <2>1. n \in Names /\ call[p].pane \in Panes \cup {NoPane}
    BY <1>0, <1>3, KeptCallFields DEF RegisterCommit
  <2>2. reg' \in [Names -> Kept]
    BY <1>0, <1>3, <2>1, RegisteredKept DEF RegisterCommit
  <2>3. c \in KeptCall /\ c.me = call[p].me /\ c.to = call[p].to
    BY <1>0, <1>3, <2>1 DEF KeptCall, Call, Kept, NoCall, Started, RegisterCommit
  <2>4. /\ Inside(p) /\ call' = [call EXCEPT ![p] = c]
        /\ StartPersist(p, OnDisk(reg')) /\ faults' = faults
        /\ UNCHANGED <<lockVars, up, logVars>>
    BY <1>3 DEF RegisterCommit, BusTyped
  <2> HIDE DEF c
  <2>5. /\ LockInv' /\ call' \in [Procs -> KeptCall] /\ LocksFollowCalls'
        /\ FileTypeOK(DiskImage)'
    BY <2>2, <2>3, <2>4, CommitTyped DEF BusTyped, FileTypeOK
  <2> QED
    BY <2>2, <2>4, <2>5 DEF BusTyped, logVars, LogTypeOK
<1>4. CASE RegisterReturn(p)
  <2>1. FileTypeOK(DiskImage)'
    BY <1>4, EndPersistTyped DEF RegisterReturn, BusTyped
  <2>2. LockInv' /\ call' \in [Procs -> KeptCall] /\ LocksFollowCalls'
    BY <1>4, AnswerTyped DEF RegisterReturn, EndPersist, BusTyped, FileTypeOK
  <2>3. reg' \in [Names -> Kept]
    BY <1>0, <1>4, KeptCallFields DEF RegisterReturn
  <2> QED
    BY <1>4, <2>1, <2>2, <2>3 DEF RegisterReturn, BusTyped, logVars, LogTypeOK
<1> QED
  BY <1>1, <1>2, <1>3, <1>4

LEMMA UnreadRestored ==
  ASSUME NEW r \in [Names -> Kept], NEW n \in Names, NEW e \in Kept
  PROVE  /\ [r EXCEPT ![n].unread = e.unread] \in [Names -> Kept]
         /\ \A k \in Names : LET f == [r EXCEPT ![n].unread = e.unread][k] IN
              f.tok = r[k].tok /\ f.on = r[k].on /\ f.pane = r[k].pane /\ f.idle = r[k].idle
<1>1. r[n] \in Kept
  OBVIOUS
<1>2. /\ [r[n] EXCEPT !.unread = e.unread] \in Entry
      /\ [r[n] EXCEPT !.unread = e.unread].unread = e.unread
      /\ [r[n] EXCEPT !.unread = e.unread].tok = r[n].tok
      /\ [r[n] EXCEPT !.unread = e.unread].on = r[n].on
      /\ [r[n] EXCEPT !.unread = e.unread].pane = r[n].pane
      /\ [r[n] EXCEPT !.unread = e.unread].idle = r[n].idle
  BY <1>1, KeptFields DEF Entry
<1>3. [r[n] EXCEPT !.unread = e.unread] \in Kept
  BY <1>2, SameUnread
<1> QED
  BY <1>2, <1>3

(* One more message, when there is room for it.                            *)
LEMMA UnreadAdded ==
  ASSUME NEW r \in [Names -> Kept], NEW n \in Names, NEW m \in Msgs,
         Cardinality(r[n].unread) < MaxUnread
  PROVE  /\ [r EXCEPT ![n].unread = @ \cup {m}] \in [Names -> Kept]
         /\ \A k \in Names : LET f == [r EXCEPT ![n].unread = @ \cup {m}][k] IN
              f.tok = r[k].tok /\ f.on = r[k].on /\ f.pane = r[k].pane /\ f.idle = r[k].idle
<1> DEFINE U == r[n].unread \cup {m}
<1>1. /\ r[n] \in Kept /\ IsFiniteSet(r[n].unread) /\ U \in SUBSET Msgs
      /\ Cardinality(r[n].unread) \in Nat /\ Cardinality(U) \in Nat
  BY KeptFields, ConstantFacts
<1>2. Cardinality(U) <= MaxUnread
  <2>1. \/ Cardinality(U) = Cardinality(r[n].unread)
        \/ Cardinality(U) = Cardinality(r[n].unread) + 1
    BY <1>1, FS_AddElement
  <2> HIDE DEF U
  <2> QED
    BY <1>1, <2>1, ConstantFacts
<1> HIDE DEF U
<1>3. /\ [r[n] EXCEPT !.unread = U] \in Entry
      /\ [r[n] EXCEPT !.unread = U].unread = U
      /\ [r[n] EXCEPT !.unread = U].tok = r[n].tok
      /\ [r[n] EXCEPT !.unread = U].on = r[n].on
      /\ [r[n] EXCEPT !.unread = U].pane = r[n].pane
      /\ [r[n] EXCEPT !.unread = U].idle = r[n].idle
  BY <1>1, KeptFields DEF Entry
<1>4. [r[n] EXCEPT !.unread = U] \in Kept
  BY <1>2, <1>3 DEF Kept
<1>5. [r EXCEPT ![n].unread = @ \cup {m}] = [r EXCEPT ![n] = [r[n] EXCEPT !.unread = U]]
  BY DEF U
<1> QED
  BY <1>3, <1>4, <1>5

LEMMA SendTyped ==
  ASSUME BusTyped, nextMsg \in Nat \ {0}, NEW p \in Procs,
         \/ \E n, to \in Names : SendCall(p, n, to)
         \/ SendRefuse(p) \/ SendCommit(p) \/ SendReturn(p)
  PROVE  BusTyped'
<1>0. call[p] \in KeptCall /\ reg \in [Names -> Kept] /\ faults \in Nat /\ LogTypeOK
  BY DEF BusTyped, FileTypeOK
<1>1. ASSUME NEW n \in Names, NEW to \in Names, SendCall(p, n, to)
      PROVE  BusTyped'
  <2> DEFINE c == Started("send", n, to, nextMsg, reg[n].pane)
  <2>1. nextMsg \in Msgs
    BY <1>1, BoundsAssumption DEF SendCall, Msgs
  <2>2. c \in KeptCall /\ {c.me, c.to} \ {NoName} = {n, to}
    <3>1. NoEntry \in Entry /\ reg[n].pane \in Panes \cup {NoPane}
      BY <1>0, NoEntryKept, KeptFields DEF Kept
    <3>2. c \in Call
      BY <2>1, <3>1 DEF Call, Started
    <3> QED
      BY <3>2, NoEntryKept, ConstantFacts DEF KeptCall, Started
  <2>3. /\ call[p] = NoCall /\ WithLocks(p, {n, to})
        /\ call' = [call EXCEPT ![p] = c]
        /\ reg' = Touched(reg, n)
        /\ addr' = [addr EXCEPT ![nextMsg] = to]
        /\ UNCHANGED <<fileVars, up, pos, readable, torn>>
    BY <1>1 DEF SendCall
  <2> HIDE DEF c
  <2>4. LockInv' /\ call' \in [Procs -> KeptCall] /\ LocksFollowCalls'
    BY <2>2, <2>3, NewCallTyped DEF fileVars
  <2>5. FileTypeOK(DiskImage)'
    BY <2>3, FilesUnchangedTyped DEF BusTyped, FileTypeOK, fileVars
  <2>6. LogTypeOK'
    BY <1>0, <2>3 DEF LogTypeOK
  <2>7. reg' \in [Names -> Kept]
    BY <1>0, <2>3, TouchedKept
  <2> QED
    BY <2>3, <2>4, <2>5, <2>6, <2>7 DEF BusTyped
<1>2. CASE SendRefuse(p)
  <2>1. call[p].msg \in Msgs
    BY <1>0, <1>2, KeptCallFields DEF SendRefuse
  <2>2. LockInv' /\ call' \in [Procs -> KeptCall] /\ LocksFollowCalls'
    BY <1>2, AnswerTyped DEF SendRefuse
  <2>3. faults' \in Nat
    BY <1>0, <1>2 DEF SendRefuse, CanFail
  <2>4. FileTypeOK(DiskImage)'
    BY <1>2, <2>3, FilesUnchangedTyped DEF SendRefuse, BusTyped
  <2>5. LogTypeOK'
    BY <1>0, <1>2, <2>1, LogStaysTyped DEF SendRefuse
  <2> QED
    BY <1>2, <2>2, <2>4, <2>5 DEF SendRefuse, BusTyped
<1>3. CASE SendCommit(p)
  <2> DEFINE n  == call[p].me
             to == call[p].to
             c  == [call[p] EXCEPT !.snap = reg[to]]
             r  == [reg EXCEPT ![to].unread = @ \cup {call[p].msg}]
  <2>1. n \in Names /\ to \in Names /\ call[p].msg \in Msgs
    BY <1>0, <1>3, KeptCallFields DEF SendCommit
  <2>2. Cardinality(reg[to].unread) < MaxUnread
    BY <1>3 DEF SendCommit, CanAddUnread
  <2>3. r \in [Names -> Kept]
    BY <1>0, <2>1, <2>2, UnreadAdded
  <2>4. reg' = Touched(Touched(r, n), to)
    BY <1>3 DEF SendCommit
  <2>5. reg' \in [Names -> Kept]
    <3> HIDE DEF r
    <3> QED
      BY <2>1, <2>3, <2>4, TouchedKept
  <2>6. c \in KeptCall /\ c.me = call[p].me /\ c.to = call[p].to
    BY <1>0, <1>3, <2>1 DEF KeptCall, Call, Kept, NoCall, Started, SendCommit
  <2>7. /\ Inside(p) /\ call' = [call EXCEPT ![p] = c]
        /\ StartPersist(p, OnDisk(reg')) /\ faults' \in Nat
        /\ UNCHANGED <<lockVars, up>>
    BY <1>0, <1>3 DEF SendCommit, BusTyped, CanFail
  <2> HIDE DEF c, r
  <2>8. /\ LockInv' /\ call' \in [Procs -> KeptCall] /\ LocksFollowCalls'
        /\ FileTypeOK(DiskImage)'
    BY <2>5, <2>6, <2>7, CommitTyped
  <2>9. LogTypeOK'
    BY <1>0, <1>3, <2>1, LogStaysTyped DEF SendCommit
  <2> QED
    BY <2>5, <2>7, <2>8, <2>9 DEF BusTyped
<1>4. CASE SendReturn(p)
  <2>1. FileTypeOK(DiskImage)'
    BY <1>4, EndPersistTyped DEF SendReturn, BusTyped
  <2>2. LockInv' /\ call' \in [Procs -> KeptCall] /\ LocksFollowCalls'
    BY <1>4, AnswerTyped DEF SendReturn, EndPersist, BusTyped, FileTypeOK
  <2>3. reg' \in [Names -> Kept]
    BY <1>0, <1>4, KeptCallFields, UnreadRestored DEF SendReturn
  <2> QED
    BY <1>4, <2>1, <2>2, <2>3 DEF SendReturn, BusTyped, logVars, LogTypeOK
<1> QED
  BY <1>1, <1>2, <1>3, <1>4

LEMMA ReadTyped ==
  ASSUME BusTyped, NEW p \in Procs,
         \/ \E n \in Names : ReadCall(p, n)
         \/ ReadFail(p) \/ ReadCommit(p) \/ ReadReturn(p)
  PROVE  BusTyped'
<1>0. call[p] \in KeptCall /\ reg \in [Names -> Kept] /\ faults \in Nat /\ LogTypeOK
  BY DEF BusTyped, FileTypeOK
<1>1. ASSUME NEW n \in Names, ReadCall(p, n)
      PROVE  BusTyped'
  <2> DEFINE c == Started("read", n, NoName, NoMsg, reg[n].pane)
  <2>1. c \in KeptCall /\ {c.me, c.to} \ {NoName} = {n, n}
    <3>1. NoEntry \in Entry /\ reg[n].pane \in Panes \cup {NoPane}
      BY <1>0, NoEntryKept, KeptFields DEF Kept
    <3>2. c \in Call
      BY <3>1 DEF Call, Started
    <3> QED
      BY <3>2, NoEntryKept, ConstantFacts DEF KeptCall, Started
  <2>2. /\ call[p] = NoCall /\ WithLocks(p, {n, n})
        /\ call' = [call EXCEPT ![p] = c]
        /\ reg' = Touched(reg, n)
        /\ UNCHANGED <<fileVars, up, logVars>>
    BY <1>1 DEF ReadCall
  <2> HIDE DEF c
  <2>3. LockInv' /\ call' \in [Procs -> KeptCall] /\ LocksFollowCalls'
    BY <2>1, <2>2, NewCallTyped DEF fileVars
  <2>4. FileTypeOK(DiskImage)'
    BY <2>2, FilesUnchangedTyped DEF BusTyped, FileTypeOK, fileVars
  <2>5. reg' \in [Names -> Kept]
    BY <1>0, <2>2, TouchedKept
  <2> QED
    BY <2>2, <2>3, <2>4, <2>5 DEF BusTyped, logVars, LogTypeOK
<1>2. CASE ReadFail(p)
  <2>1. LockInv' /\ call' \in [Procs -> KeptCall] /\ LocksFollowCalls'
    BY <1>2, AnswerTyped DEF ReadFail
  <2>2. FileTypeOK(DiskImage)'
    BY <1>0, <1>2, FilesUnchangedTyped DEF ReadFail, CanFail, BusTyped
  <2> QED
    BY <1>2, <2>1, <2>2 DEF ReadFail, BusTyped, logVars, LogTypeOK
<1>3. CASE ReadCommit(p)
  <2> DEFINE n == call[p].me
             found == reg[n].unread \cap readable
             c == [call[p] EXCEPT !.snap = reg[n], !.out = Drained(found)]
             U == found \ Drained(found)
             r == [reg EXCEPT ![n].unread = U]
  <2>1. n \in Names
    BY <1>0, <1>3, KeptCallFields DEF ReadCommit
  <2>2. U \in SUBSET reg[n].unread /\ Drained(found) \in SUBSET Msgs
    BY <1>0, <2>1, KeptFields DEF Drained
  <2>3. reg' = Touched(r, n) /\ call' = [call EXCEPT ![p] = c]
    BY <1>3 DEF ReadCommit
  <2> HIDE DEF U
  <2>4. r \in [Names -> Kept]
    BY <1>0, <2>1, <2>2, FewerUnread
  <2>5. reg' \in [Names -> Kept]
    <3> HIDE DEF r
    <3> QED
      BY <2>1, <2>3, <2>4, TouchedKept
  <2>6. c \in KeptCall /\ c.me = call[p].me /\ c.to = call[p].to
    <3> HIDE DEF found
    <3> DEFINE R == [op : {"register", "read"}, me : Names, to : {NoName}, msg : {NoMsg},
                     pane : Panes \cup {NoPane}, snap : Entry, out : SUBSET Msgs]
               d == [call[p] EXCEPT !.snap = reg[n]]
    <3>1. call[p] \in R /\ reg[n] \in Kept /\ reg[n] \in Entry
      BY <1>0, <1>3, <2>1 DEF KeptCall, Call, Kept, NoCall, Started, ReadCommit
    <3>2. d \in R /\ d.snap = reg[n] /\ d.me = call[p].me /\ d.to = call[p].to
      BY <3>1
    <3>3. c = [d EXCEPT !.out = Drained(found)]
      OBVIOUS
    <3> HIDE DEF c, d
    <3>4. c \in R /\ c.snap = reg[n] /\ c.me = call[p].me /\ c.to = call[p].to
      BY <2>2, <3>2, <3>3
    <3> QED
      BY <3>1, <3>4 DEF KeptCall, Call
  <2>7. /\ Inside(p)
        /\ StartPersist(p, OnDisk(reg')) /\ faults' \in Nat
        /\ UNCHANGED <<lockVars, up, logVars>>
    BY <1>0, <1>3 DEF ReadCommit, BusTyped
  <2> HIDE DEF c, r
  <2>8. /\ LockInv' /\ call' \in [Procs -> KeptCall] /\ LocksFollowCalls'
        /\ FileTypeOK(DiskImage)'
    BY <2>3, <2>5, <2>6, <2>7, CommitTyped
  <2> QED
    BY <2>5, <2>7, <2>8 DEF BusTyped, logVars, LogTypeOK
<1>4. CASE ReadReturn(p)
  <2>1. FileTypeOK(DiskImage)'
    BY <1>4, EndPersistTyped DEF ReadReturn, BusTyped
  <2>2. LockInv' /\ call' \in [Procs -> KeptCall] /\ LocksFollowCalls'
    BY <1>4, AnswerTyped DEF ReadReturn, EndPersist, BusTyped, FileTypeOK
  <2>3. reg' \in [Names -> Kept]
    BY <1>0, <1>4, KeptCallFields, UnreadRestored DEF ReadReturn
  <2> QED
    BY <1>4, <2>1, <2>2, <2>3 DEF ReadReturn, BusTyped, logVars, LogTypeOK
<1> QED
  BY <1>1, <1>2, <1>3, <1>4

LEMMA LoadedKept ==
  ASSUME BusTyped, NEW n \in Names
  PROVE  Loaded(n) \in DiskEntry
<1>1. CASE live.st = "full"
  <2>1. live.img \in DiskImage
    BY <1>1 DEF BusTyped, FileTypeOK, FileOK, Full, Absent, Empty, Mixed
  <2>2. live.img[n] \in Kept /\ live.img[n].tok = NoToken /\ live.img[n].idle = FALSE
    BY <2>1 DEF DiskImage, DiskEntry
  <2> DEFINE e == live.img[n]
             U == {m \in e.unread : m \in readable /\ addr[m] = n}
  <2>3. Loaded(n) = [e EXCEPT !.unread = U]
    BY <1>1 DEF Loaded
  <2>4. [e EXCEPT !.unread = U] \in Kept
    <3> HIDE DEF e
    <3> QED
      BY <2>2, FewerUnread DEF e
  <2>5. [e EXCEPT !.unread = U].tok = NoToken /\ [e EXCEPT !.unread = U].idle = FALSE
    <3> HIDE DEF U
    <3> QED
      BY <2>2, KeptFields DEF Entry
  <2> QED
    BY <2>3, <2>4, <2>5 DEF DiskEntry
<1>2. CASE live.st # "full"
  BY <1>2, NoEntryKept DEF Loaded
<1> QED
  BY <1>1, <1>2

LEMMA CrashTyped ==
  ASSUME BusTyped, Crash
  PROVE  BusTyped'
<1>1. FileTypeOK(DiskImage)'
  BY LoseProcessesTyped DEF Crash, BusTyped
<1>2. LockInv'
  BY DEF Crash, LockInv, LockTypeOK, OneOrTwo, SmallerHeld, Members
<1>3. reg' \in [Names -> Kept] /\ call' \in [Procs -> KeptCall] /\ up' \in BOOLEAN
  BY NoEntryKept, NoCallKept DEF Crash
<1>4. LogTypeOK'
  BY DEF Crash, BusTyped, LogTypeOK
<1>5. LocksFollowCalls'
  BY DEF Crash, LoseProcesses, LocksFollowCalls, NoCall, Started
<1> QED
  BY <1>1, <1>2, <1>3, <1>4, <1>5 DEF BusTyped

(* While the coordinator is down no call runs.                             *)
LEMMA RestartTyped ==
  ASSUME BusTyped, Restart
  PROVE  BusTyped'
<1>1. reg' \in DiskImage
  BY LoadedKept DEF Restart, DiskImage
<1>2. reg' \in [Names -> Kept]
  BY <1>1 DEF DiskImage, DiskEntry
<1>3. FileTypeOK(DiskImage)'
  BY <1>1, FullIsOK DEF Restart, BusTyped, FileTypeOK, FileOK, Full, Absent, Empty, Mixed
<1>4. LockInv'
  BY LockUnchanged DEF Restart, BusTyped
<1>5. LogTypeOK' /\ call' \in [Procs -> KeptCall] /\ up' \in BOOLEAN
  BY DEF Restart, BusTyped, LogTypeOK, logVars
<1>6. LocksFollowCalls'
  BY DEF Restart, BusTyped, LocksFollowCalls, lockVars, Inside, Holds
<1> QED
  BY <1>2, <1>3, <1>4, <1>5, <1>6 DEF BusTyped

LEMMA StepTyped ==
  ASSUME BusTyped, NEW p \in Procs, LockStep(p) \/ FileStep(p)
  PROVE  BusTyped'
<1>1. CASE LockStep(p)
  <2>1. LockInv'
    BY <1>1, NestedLockPreserves DEF LockStep, BusTyped
  <2>2. \A q \in Procs : q # p /\ Inside(q) => Inside(q)'
    BY <1>1, OthersStayInside DEF LockStep, BusTyped
  <2>3. Inside(p) => Inside(p)'
    <3> SUFFICES ASSUME Inside(p) PROVE FALSE
      OBVIOUS
    <3>1. PICK n \in wants[p] : p \notin Members(n)
      BY <1>1 DEF LockStep, NestedLock
    <3> QED
      BY <3>1, HolderIsMember DEF Inside, BusTyped, LockInv, LockTypeOK
  <2>4. LocksFollowCalls'
    BY <1>1, <2>2, <2>3 DEF LockStep, NestedLock, BusTyped, LocksFollowCalls, fileVars, busVars
  <2>5. FileTypeOK(DiskImage)'
    BY <1>1, FilesUnchangedTyped DEF LockStep, fileVars, BusTyped, FileTypeOK
  <2> QED
    BY <1>1, <2>1, <2>4, <2>5 DEF LockStep, BusTyped, busVars, logVars, LogTypeOK
<1>2. CASE FileStep(p)
  <2>1. /\ FileTypeOK(DiskImage)'
        /\ \A q \in Procs : stage'[q] = "none" <=> stage[q] = "none"
    BY <1>2, PersistStepTyped DEF FileStep, BusTyped
  <2>2. LockInv'
    BY <1>2, LockUnchanged DEF FileStep, BusTyped
  <2>3. LocksFollowCalls'
    BY <1>2, <2>1 DEF FileStep, BusTyped, LocksFollowCalls, lockVars, busVars, Inside, Holds
  <2> QED
    BY <1>2, <2>1, <2>2, <2>3 DEF FileStep, BusTyped, busVars, logVars, LogTypeOK
<1> QED
  BY <1>1, <1>2

LEMMA IdleKept ==
  ASSUME NEW r \in [Names -> Kept], NEW n \in Names
  PROVE  /\ [r EXCEPT ![n].idle = TRUE] \in [Names -> Kept]
         /\ \A k \in Names : LET f == [r EXCEPT ![n].idle = TRUE][k] IN
              /\ f.tok = r[k].tok /\ f.on = r[k].on /\ f.pane = r[k].pane
              /\ k # n => f.idle = r[k].idle
<1>1. r[n] \in Kept
  OBVIOUS
<1>2. /\ [r[n] EXCEPT !.idle = TRUE] \in Entry
      /\ [r[n] EXCEPT !.idle = TRUE].unread = r[n].unread
      /\ [r[n] EXCEPT !.idle = TRUE].tok = r[n].tok
      /\ [r[n] EXCEPT !.idle = TRUE].on = r[n].on
      /\ [r[n] EXCEPT !.idle = TRUE].pane = r[n].pane
  BY <1>1, KeptFields DEF Entry
<1>3. [r[n] EXCEPT !.idle = TRUE] \in Kept
  BY <1>1, <1>2, SameUnread
<1> QED
  BY <1>2, <1>3

LEMMA RegistryOnlyTyped ==
  ASSUME BusTyped, NEW n \in Names, SendInvalid(n) \/ GoIdle(n)
  PROVE  BusTyped'
<1>1. reg' \in [Names -> Kept]
  <2>1. reg \in [Names -> Kept]
    BY DEF BusTyped
  <2>2. CASE SendInvalid(n)
    BY <2>1, <2>2, TouchedKept DEF SendInvalid
  <2>3. CASE GoIdle(n)
    BY <2>1, <2>3, IdleKept DEF GoIdle
  <2> QED
    BY <2>2, <2>3
<1>2. LockInv' /\ FileTypeOK(DiskImage)'
  BY LockUnchanged, FilesUnchangedTyped
     DEF SendInvalid, GoIdle, BusTyped, fileVars, FileTypeOK
<1> QED
  BY <1>1, <1>2 DEF SendInvalid, GoIdle, BusTyped, LocksFollowCalls, lockVars, fileVars,
                    Inside, Holds, logVars, LogTypeOK

(* The counters, and the messages a client has seen something of.          *)
LogsTyped ==
  /\ nextMsg \in Nat \ {0} /\ nextToken \in Nat \ {0} /\ crashes \in Nat
  /\ acked \subseteq Msgs /\ delivered \subseteq Msgs
  /\ redelivered \subseteq Msgs /\ discarded \subseteq Msgs

LEMMA TypesPreserved ==
  ASSUME BusTyped, LogsTyped, [Next]_vars
  PROVE  BusTyped' /\ LogsTyped'
<1> USE DEF LogsTyped
<1>0. /\ reg \in [Names -> Kept] /\ call \in [Procs -> KeptCall]
      /\ \A n \in Names : reg[n].unread \subseteq Msgs
  BY KeptFields DEF BusTyped
<1>1. ASSUME NEW p \in Procs, NewCall(p)
      PROVE  BusTyped' /\ LogsTyped'
  <2>1. ASSUME NEW n \in Names, NEW pane \in Panes \cup {NoPane}, RegisterCall(p, n, pane)
        PROVE  BusTyped' /\ LogsTyped'
    BY <2>1, RegisterTyped DEF RegisterCall, history
  <2>2. ASSUME NEW n \in Names, NEW to \in Names, SendCall(p, n, to)
        PROVE  BusTyped' /\ LogsTyped'
    <3>1. BusTyped'
      BY <2>2, SendTyped
    <3>2. LogsTyped'
      BY <2>2 DEF SendCall, history
    <3> QED
      BY <3>1, <3>2
  <2>3. ASSUME NEW n \in Names, ReadCall(p, n)
        PROVE  BusTyped' /\ LogsTyped'
    BY <2>3, ReadTyped DEF ReadCall, history
  <2> QED
    BY <1>1, <2>1, <2>2, <2>3 DEF NewCall
<1>2. ASSUME NEW p \in Procs, LockStep(p) \/ FileStep(p)
      PROVE  BusTyped' /\ LogsTyped'
  BY <1>2, StepTyped DEF LockStep, FileStep, busVars, history
<1>3. ASSUME NEW p \in Procs, CallStep(p)
      PROVE  BusTyped' /\ LogsTyped'
  <2>0. call[p] \in KeptCall /\ call[p].snap.unread \subseteq Msgs /\ call[p].out \subseteq Msgs
        /\ (call[p].op = "send" => call[p].msg \in Msgs)
    BY <1>0, KeptCallFields, KeptFields
  <2>1. CASE RegisterReject(p)
    BY <2>1, RegisterTyped DEF RegisterReject, history
  <2>2. CASE RegisterCommit(p)
    <3>1. BusTyped'
      BY <2>2, RegisterTyped
    <3>2. LogsTyped'
      BY <2>2 DEF RegisterCommit, history
    <3> QED
      BY <3>1, <3>2
  <2>3. CASE RegisterReturn(p)
    BY <2>0, <2>3, RegisterTyped DEF RegisterReturn
  <2>4. CASE SendRefuse(p)
    BY <2>4, SendTyped DEF SendRefuse, history
  <2>5. CASE SendCommit(p)
    BY <2>5, SendTyped DEF SendCommit, history
  <2>6. CASE SendReturn(p)
    BY <2>0, <2>6, SendTyped DEF SendReturn
  <2>7. CASE ReadFail(p)
    BY <2>7, ReadTyped DEF ReadFail, history
  <2>8. CASE ReadCommit(p)
    BY <2>8, ReadTyped DEF ReadCommit, history
  <2>9. CASE ReadReturn(p)
    BY <2>0, <2>9, ReadTyped DEF ReadReturn
  <2> QED
    BY <1>3, <2>1, <2>2, <2>3, <2>4, <2>5, <2>6, <2>7, <2>8, <2>9 DEF CallStep
<1>4. ASSUME NEW n \in Names, SendInvalid(n) \/ GoIdle(n)
      PROVE  BusTyped' /\ LogsTyped'
  BY <1>4, RegistryOnlyTyped DEF SendInvalid, GoIdle, history
<1>5. CASE Crash
  <2>1. UNION {Taken(p) : p \in Procs} \subseteq Msgs
    <3> SUFFICES ASSUME NEW p \in Procs PROVE Taken(p) \subseteq Msgs
      OBVIOUS
    <3>1. call[p].snap.unread \subseteq Msgs /\ call[p].out \subseteq Msgs
      BY <1>0, KeptCallFields, KeptFields
    <3> QED
      BY <3>1 DEF Taken
  <2>2. BusTyped'
    BY <1>5, CrashTyped
  <2>3. LogsTyped'
    BY <1>5, <2>1 DEF Crash
  <2> QED
    BY <2>2, <2>3
<1>6. CASE Restart
  BY <1>6, RestartTyped DEF Restart, history
<1>7. CASE UNCHANGED vars
  <2>1. LockInv' /\ FileTypeOK(DiskImage)'
    BY <1>7, LockUnchanged, FilesUnchangedTyped DEF vars, fileVars, BusTyped, FileTypeOK
  <2> QED
    BY <1>7, <2>1 DEF vars, BusTyped, LocksFollowCalls, lockVars, fileVars, busVars, history,
                      Inside, Holds, logVars, LogTypeOK
<1> QED
  BY <1>1, <1>2, <1>3, <1>4, <1>5, <1>6, <1>7 DEF Next

-----------------------------------------------------------------------------
(* Tokens and owners.                                                      *)

(* p has registered its session and not answered yet.                      *)
Registering(p) == stage[p] # "none" /\ call[p].op = "register"

(* p runs a call authenticated for a session that call[p].pane owns.       *)
Acting(p) == LongTtl /\ call[p].op \in {"send", "read"} /\ call[p].pane # NoPane

Owned(e, pane) == e.on /\ e.pane = pane /\ ~e.idle

(* Every token has been drawn; a token just registered is no client's and  *)
(* no other session's yet; the token a rollback brings back was answered.  *)
TokensInv ==
  /\ issued \subseteq 1 .. nextToken - 1
  /\ \A n \in Names : reg[n].tok < nextToken
  /\ \A p \in Procs : Registering(p) =>
       /\ reg[call[p].me].tok \notin issued \cup {NoToken}
       /\ call[p].snap.tok \in issued \cup {NoToken}
  /\ \A p, q \in Procs : p # q /\ Registering(p) /\ Registering(q) =>
       reg[call[p].me].tok # reg[call[q].me].tok
  /\ AnsweredTokenLive

(* The session of an authenticated call is its pane's and not idle, and    *)
(* stays so if a registration under way is rolled back.                    *)
OwnersInv ==
  /\ \A p \in Procs : Acting(p) => Owned(reg[call[p].me], call[p].pane)
  /\ \A p, q \in Procs :
       Acting(p) /\ Registering(q) /\ call[q].me = call[p].me =>
         Owned(call[q].snap, call[p].pane)

(* What every step but a registration's, a crash or a restart leaves alone. *)
SessionsKept ==
  \A n \in Names : /\ reg'[n].tok = reg[n].tok
                   /\ reg'[n].on = reg[n].on
                   /\ reg'[n].pane = reg[n].pane

RegisteringKept ==
  /\ UNCHANGED <<nextToken, issued>>
  /\ \A q \in Procs : Registering(q)' <=> Registering(q)
  /\ \A q \in Procs : Registering(q) => call'[q].me = call[q].me /\ call'[q].snap = call[q].snap

(* An authenticated call of q goes on, or is a new one.                    *)
Continues(q) == Acting(q) /\ call'[q].me = call[q].me /\ call'[q].pane = call[q].pane

Begins(q) ==
  /\ call'[q].me \in Authenticated
  /\ call'[q].pane = reg[call'[q].me].pane
  /\ ~reg'[call'[q].me].idle

ActingKept ==
  /\ \A n \in Names : ~reg[n].idle => ~reg'[n].idle
  /\ \A q \in Procs : Acting(q)' => Continues(q) \/ Begins(q)

LEMMA TokensKept ==
  ASSUME BusTyped, TokensInv, SessionsKept, RegisteringKept
  PROVE  TokensInv'
<1>1. \A q \in Procs : Registering(q) => call[q].me \in Names /\ call'[q].me = call[q].me
  BY KeptCallFields DEF BusTyped, Registering, RegisteringKept
<1>2. AnsweredTokenLive'
  BY <1>1 DEF AnsweredTokenLive, TokensInv, SessionsKept, RegisteringKept, Registering, Persisting
<1>3. \A p \in Procs : Registering(p)' =>
        /\ reg'[call'[p].me].tok \notin issued' \cup {NoToken}
        /\ call'[p].snap.tok \in issued' \cup {NoToken}
  BY <1>1 DEF TokensInv, SessionsKept, RegisteringKept
<1>4. \A p, q \in Procs : p # q /\ Registering(p)' /\ Registering(q)' =>
        reg'[call'[p].me].tok # reg'[call'[q].me].tok
  BY <1>1 DEF TokensInv, SessionsKept, RegisteringKept
<1> QED
  BY <1>2, <1>3, <1>4 DEF TokensInv, SessionsKept, RegisteringKept

LEMMA OwnersKept ==
  ASSUME BusTyped, TokensInv, OwnersInv, SessionsKept, RegisteringKept, ActingKept
  PROVE  OwnersInv'
<1>1. ASSUME NEW q \in Procs, Acting(q)'
      PROVE  Owned(reg'[call'[q].me], call'[q].pane)
  <2>1. CASE Continues(q)
    <3>1. call[q].me \in Names
      BY <2>1, KeptCallFields DEF BusTyped, Continues, Acting
    <3> QED
      BY <2>1, <3>1 DEF OwnersInv, SessionsKept, ActingKept, Continues, Owned
  <2>2. CASE Begins(q)
    BY <2>2 DEF Begins, Authenticated, SessionsKept, Owned
  <2> QED
    BY <1>1, <2>1, <2>2 DEF ActingKept
<1>2. ASSUME NEW p \in Procs, NEW q \in Procs, Acting(p)', Registering(q)',
             call'[q].me = call'[p].me
      PROVE  Owned(call'[q].snap, call'[p].pane)
  <2>1. Registering(q) /\ call'[q].me = call[q].me /\ call'[q].snap = call[q].snap
    BY <1>2 DEF RegisteringKept
  <2>2. CASE Continues(p)
    BY <1>2, <2>1, <2>2 DEF Continues, OwnersInv
  <2>3. CASE Begins(p)
    BY <1>2, <2>1, <2>3 DEF Begins, Authenticated, TokensInv
  <2> QED
    BY <1>2, <2>2, <2>3 DEF ActingKept
<1> QED
  BY <1>1, <1>2 DEF OwnersInv

(* Steps of p that neither register nor roll back.                         *)
LEMMA QuietCall ==
  ASSUME BusTyped, NEW p \in Procs,
         ~Registering(p), ~Registering(p)',
         UNCHANGED <<nextToken, issued>>,
         \A q \in Procs : q # p => call'[q] = call[q] /\ (stage'[q] = "none" <=> stage[q] = "none"),
         Acting(p)' => Continues(p) \/ Begins(p)
  PROVE  /\ RegisteringKept
         /\ \A q \in Procs : Acting(q)' => Continues(q) \/ Begins(q)
<1>1. ASSUME NEW q \in Procs, q # p
      PROVE  /\ Registering(q)' <=> Registering(q)
             /\ Registering(q) => call'[q].me = call[q].me /\ call'[q].snap = call[q].snap
             /\ Acting(q)' => Continues(q)
  BY <1>1 DEF Registering, Acting, Continues
<1> QED
  BY <1>1 DEF RegisteringKept

LEMMA QuietSteps ==
  ASSUME BusTyped, NEW p \in Procs,
         \/ NewCall(p) \/ RegisterReject(p)
         \/ SendRefuse(p) \/ SendCommit(p) \/ SendReturn(p)
         \/ ReadFail(p) \/ ReadCommit(p) \/ ReadReturn(p)
         \/ LockStep(p) \/ FileStep(p)
  PROVE  SessionsKept /\ RegisteringKept /\ ActingKept
<1>0. /\ reg \in [Names -> Kept] /\ call[p] \in KeptCall
      /\ call \in [Procs -> KeptCall]
      /\ stage \in [Procs -> {"none", "open", "write", "rename", "chmod", "ok", "failed"}]
      /\ call[p] = NoCall => stage[p] = "none"
  BY CallLocks DEF BusTyped, FileTypeOK
<1>1. ASSUME NEW n \in Names, NEW pane \in Panes \cup {NoPane}, RegisterCall(p, n, pane)
      PROVE  SessionsKept /\ RegisteringKept /\ ActingKept
  <2>1. ~Registering(p) /\ ~Registering(p)' /\ ~Acting(p)'
    BY <1>0, <1>1 DEF RegisterCall, Registering, Acting, Started, fileVars
  <2>2. \A q \in Procs : q # p => call'[q] = call[q] /\ stage'[q] = stage[q]
    BY <1>1 DEF RegisterCall, fileVars
  <2> QED
    BY <1>1, <2>1, <2>2, QuietCall DEF RegisterCall, history, SessionsKept, ActingKept
<1>2. ASSUME NEW n \in Names, NEW to \in Names, SendCall(p, n, to)
      PROVE  SessionsKept /\ RegisteringKept /\ ActingKept
  <2>1. ~Registering(p) /\ ~Registering(p)'
    BY <1>0, <1>2 DEF SendCall, Registering, fileVars
  <2>2. \A q \in Procs : q # p => call'[q] = call[q] /\ stage'[q] = stage[q]
    BY <1>2 DEF SendCall, fileVars
  <2>3. SessionsKept /\ ~reg'[n].idle /\ \A k \in Names : ~reg[k].idle => ~reg'[k].idle
    BY <1>0, <1>2, TouchedKept DEF SendCall, SessionsKept
  <2>4. Begins(p)
    BY <1>0, <1>2, <2>3 DEF SendCall, Begins, Started
  <2> QED
    BY <1>2, <2>1, <2>2, <2>3, <2>4, QuietCall DEF SendCall, history, ActingKept
<1>3. ASSUME NEW n \in Names, ReadCall(p, n)
      PROVE  SessionsKept /\ RegisteringKept /\ ActingKept
  <2>1. ~Registering(p) /\ ~Registering(p)'
    BY <1>0, <1>3 DEF ReadCall, Registering, fileVars
  <2>2. \A q \in Procs : q # p => call'[q] = call[q] /\ stage'[q] = stage[q]
    BY <1>3 DEF ReadCall, fileVars
  <2>3. SessionsKept /\ ~reg'[n].idle /\ \A k \in Names : ~reg[k].idle => ~reg'[k].idle
    BY <1>0, <1>3, TouchedKept DEF ReadCall, SessionsKept
  <2>4. Begins(p)
    BY <1>0, <1>3, <2>3 DEF ReadCall, Begins, Started
  <2> QED
    BY <1>3, <2>1, <2>2, <2>3, <2>4, QuietCall DEF ReadCall, history, ActingKept
<1>4. CASE RegisterReject(p) \/ SendRefuse(p) \/ ReadFail(p)
  <2>1. /\ UNCHANGED <<stage, reg, nextToken, issued>> /\ stage[p] = "none"
        /\ call' = [call EXCEPT ![p] = NoCall]
    BY <1>4 DEF RegisterReject, SendRefuse, ReadFail, Answer, fileVars, history
  <2>2. ~Registering(p) /\ ~Registering(p)' /\ ~Acting(p)'
    BY <1>0, <2>1 DEF Registering, Acting, NoCall, Started
  <2>3. \A q \in Procs : q # p => call'[q] = call[q]
    BY <2>1
  <2> QED
    BY <2>1, <2>2, <2>3, QuietCall DEF SessionsKept, ActingKept
<1>5. CASE SendCommit(p)
  <2> DEFINE n  == call[p].me
             to == call[p].to
             r  == [reg EXCEPT ![to].unread = @ \cup {call[p].msg}]
  <2>1. n \in Names /\ to \in Names /\ call[p].msg \in Msgs
    BY <1>0, <1>5, KeptCallFields DEF SendCommit
  <2>2. Cardinality(reg[to].unread) < MaxUnread
    BY <1>5 DEF SendCommit, CanAddUnread
  <2>3. /\ r \in [Names -> Kept]
        /\ \A k \in Names : /\ r[k].tok = reg[k].tok /\ r[k].on = reg[k].on
                            /\ r[k].pane = reg[k].pane /\ r[k].idle = reg[k].idle
    BY <1>0, <2>1, <2>2, UnreadAdded
  <2>4. reg' = Touched(Touched(r, n), to)
    BY <1>5 DEF SendCommit
  <2>5. SessionsKept /\ \A k \in Names : ~reg[k].idle => ~reg'[k].idle
    <3> DEFINE t == Touched(r, n)
    <3> HIDE DEF r
    <3>1. /\ t \in [Names -> Kept]
          /\ \A k \in Names : /\ t[k].tok = r[k].tok /\ t[k].on = r[k].on
                              /\ t[k].pane = r[k].pane /\ (~r[k].idle => ~t[k].idle)
      BY <2>1, <2>3, TouchedKept
    <3>2. reg' = Touched(t, to)
      BY <2>4
    <3> HIDE DEF t, n, to
    <3>3. \A k \in Names : /\ reg'[k].tok = t[k].tok /\ reg'[k].on = t[k].on
                          /\ reg'[k].pane = t[k].pane /\ (~t[k].idle => ~reg'[k].idle)
      BY <2>1, <3>1, <3>2, TouchedKept
    <3> QED
      BY <2>3, <3>1, <3>3 DEF SessionsKept
  <2>6. /\ call[p].op = "send" /\ call' = [call EXCEPT ![p].snap = reg[to]]
        /\ stage' = [stage EXCEPT ![p] = "open"] /\ UNCHANGED <<nextToken, issued>>
    BY <1>5 DEF SendCommit, StartPersist, history
  <2>7. call'[p].op = call[p].op /\ call'[p].me = call[p].me /\ call'[p].pane = call[p].pane
    BY <1>0, <2>6 DEF KeptCall, Call, NoCall, Started
  <2>8. \A q \in Procs : q # p => call'[q] = call[q] /\ stage'[q] = stage[q]
    BY <1>0, <2>6
  <2>9. ~Registering(p) /\ ~Registering(p)' /\ (Acting(p)' => Continues(p))
    BY <2>6, <2>7 DEF Registering, Acting, Continues
  <2> HIDE DEF r
  <2> QED
    BY <2>5, <2>6, <2>8, <2>9, QuietCall DEF ActingKept
<1>6. CASE ReadCommit(p)
  <2> DEFINE n == call[p].me
             U == (reg[n].unread \cap readable) \ Drained(reg[n].unread \cap readable)
             r == [reg EXCEPT ![n].unread = U]
  <2>1. n \in Names /\ U \in SUBSET reg[n].unread /\ reg[n] \in Kept
    BY <1>0, <1>6, KeptCallFields DEF ReadCommit
  <2>2. reg' = Touched(r, n)
    BY <1>6 DEF ReadCommit
  <2> HIDE DEF U
  <2>3. /\ r \in [Names -> Kept]
        /\ \A k \in Names : /\ r[k].tok = reg[k].tok /\ r[k].on = reg[k].on
                            /\ r[k].pane = reg[k].pane /\ r[k].idle = reg[k].idle
    <3>1. /\ [reg[n] EXCEPT !.unread = U] \in Kept
          /\ [reg[n] EXCEPT !.unread = U].tok = reg[n].tok
          /\ [reg[n] EXCEPT !.unread = U].on = reg[n].on
          /\ [reg[n] EXCEPT !.unread = U].pane = reg[n].pane
          /\ [reg[n] EXCEPT !.unread = U].idle = reg[n].idle
      BY <2>1, FewerUnread, KeptFields DEF Entry
    <3> QED
      BY <1>0, <2>1, <3>1
  <2>4. SessionsKept /\ \A k \in Names : ~reg[k].idle => ~reg'[k].idle
    <3> HIDE DEF r
    <3> QED
      BY <2>1, <2>2, <2>3, TouchedKept DEF SessionsKept
  <2>5. /\ call[p].op = "read"
        /\ call' = [call EXCEPT ![p].snap = reg[n],
                                ![p].out = Drained(reg[n].unread \cap readable)]
        /\ stage' = [stage EXCEPT ![p] = "open"] /\ UNCHANGED <<nextToken, issued>>
    BY <1>6 DEF ReadCommit, StartPersist, history
  <2>6. call'[p].op = call[p].op /\ call'[p].me = call[p].me /\ call'[p].pane = call[p].pane
    BY <1>0, <2>5 DEF KeptCall, Call, NoCall, Started
  <2>7. \A q \in Procs : q # p => call'[q] = call[q] /\ stage'[q] = stage[q]
    BY <1>0, <2>5
  <2>8. ~Registering(p) /\ ~Registering(p)' /\ (Acting(p)' => Continues(p))
    BY <2>5, <2>6 DEF Registering, Acting, Continues
  <2> QED
    BY <2>4, <2>5, <2>7, <2>8, QuietCall DEF ActingKept
<1>7. CASE SendReturn(p) \/ ReadReturn(p)
  <2>1. /\ call[p].op # "register" /\ UNCHANGED <<nextToken, issued>>
        /\ call' = [call EXCEPT ![p] = NoCall] /\ stage' = [stage EXCEPT ![p] = "none"]
    BY <1>7 DEF SendReturn, ReadReturn, Answer, EndPersist
  <2>2. ~Registering(p) /\ ~Registering(p)' /\ ~Acting(p)'
    BY <1>0, <2>1 DEF Registering, Acting, NoCall, Started
  <2>3. \A q \in Procs : q # p => call'[q] = call[q] /\ stage'[q] = stage[q]
    BY <1>0, <2>1
  <2>4. call[p].snap \in Kept /\ Target(p) \in Names
    BY <1>0, <1>7, KeptCallFields DEF Target, SendReturn, ReadReturn
  <2>5. reg' = reg \/ reg' = [reg EXCEPT ![Target(p)].unread = call[p].snap.unread]
    BY <1>7 DEF SendReturn, ReadReturn, Target
  <2>6. SessionsKept /\ \A k \in Names : ~reg[k].idle => ~reg'[k].idle
    <3>1. CASE reg' = reg
      BY <3>1 DEF SessionsKept
    <3>2. CASE reg' = [reg EXCEPT ![Target(p)].unread = call[p].snap.unread]
      BY <1>0, <2>4, <3>2, UnreadRestored DEF SessionsKept
    <3> QED
      BY <2>5, <3>1, <3>2
  <2> QED
    BY <2>1, <2>2, <2>3, <2>6, QuietCall DEF ActingKept
<1>8. CASE LockStep(p) \/ FileStep(p)
  <2>1. UNCHANGED <<reg, call, nextToken, issued>>
    BY <1>8 DEF LockStep, FileStep, busVars, history
  <2>2. \A q \in Procs : stage'[q] = "none" <=> stage[q] = "none"
    BY <1>8, PersistStepTyped DEF LockStep, FileStep, fileVars, BusTyped
  <2> QED
    BY <2>1, <2>2 DEF SessionsKept, RegisteringKept, ActingKept, Registering, Acting, Continues
<1> QED
  BY <1>1, <1>2, <1>3, <1>4, <1>5, <1>6, <1>7, <1>8 DEF NewCall

(* Two calls inside their locks change different sessions.                 *)
LEMMA DifferentTargets ==
  ASSUME BusTyped, NEW p \in Procs, NEW q \in Procs, p # q, Inside(p), Inside(q),
         call[p].op # "none", call[q].op # "none"
  PROVE  call[p].me # call[q].me /\ Target(p) # Target(q)
<1>1. wants[p] \cap wants[q] = {}
  BY LockInvExcludes DEF BusTyped
<1> QED
  BY <1>1, CallLocks

LEMMA RegisterCommitKeeps ==
  ASSUME BusTyped, LogsTyped, TokensInv, OwnersInv, NEW p \in Procs, RegisterCommit(p)
  PROVE  TokensInv' /\ OwnersInv'
<1> DEFINE n == call[p].me
           e == reg[n]
           pane == call[p].pane
<1>0. /\ reg \in [Names -> Kept] /\ call \in [Procs -> KeptCall] /\ n \in Names
      /\ stage \in [Procs -> {"none", "open", "write", "rename", "chmod", "ok", "failed"}]
      /\ call[p] \in KeptCall /\ nextToken \in Nat \ {0}
      /\ call[p].op = "register" /\ Inside(p) /\ stage[p] = "none"
      /\ Registers(e, pane)
      /\ \A k \in Names : reg[k].tok \in Nat
      /\ \A q \in Procs : call[q].op # "none" => call[q].me \in Names
  BY KeptCallFields, KeptFields DEF RegisterCommit, BusTyped, FileTypeOK, LogsTyped
<1>1. /\ reg' = [reg EXCEPT ![n] = Registered(e, pane)]
      /\ nextToken' = nextToken + 1 /\ issued' = issued
      /\ call' = [call EXCEPT ![p].snap = e]
      /\ stage' = [stage EXCEPT ![p] = "open"]
  BY DEF RegisterCommit, StartPersist, history
<1>2. /\ call'[p].op = "register" /\ call'[p].me = n /\ call'[p].snap = e
      /\ \A q \in Procs : q # p => call'[q] = call[q] /\ stage'[q] = stage[q]
      /\ stage'[p] = "open"
  BY <1>0, <1>1 DEF KeptCall, Call, NoCall, Started
<1>3. /\ Registering(p)' /\ ~Registering(p)
      /\ \A q \in Procs : q # p => (Registering(q)' <=> Registering(q))
  BY <1>0, <1>2 DEF Registering
<1>4. \A q \in Procs : Registering(q) => call[q].me # n /\ call[q].me \in Names
  BY <1>0, <1>3, CallLocks, DifferentTargets DEF Registering
<1>5. /\ reg'[n] = Registered(e, pane) /\ reg'[n].tok = nextToken
      /\ \A k \in Names : k # n => reg'[k] = reg[k]
  BY <1>0, <1>1 DEF Registered
<1> HIDE DEF n, e, pane
<1>6. e.tok \in issued \cup {NoToken}
  BY <1>0, <1>3, <1>4 DEF TokensInv, AnsweredTokenLive, Registering, Persisting, e
<1>7. TokensInv'
  <2>1. issued' \subseteq 1 .. nextToken' - 1
    BY <1>0, <1>1 DEF TokensInv
  <2>2. \A k \in Names : reg'[k].tok < nextToken'
    BY <1>0, <1>1, <1>5 DEF TokensInv
  <2>3. nextToken \notin issued' \cup {NoToken}
    BY <1>0, <1>1 DEF TokensInv, NoToken
  <2>4. \A q \in Procs : Registering(q)' =>
          /\ reg'[call'[q].me].tok \notin issued' \cup {NoToken}
          /\ call'[q].snap.tok \in issued' \cup {NoToken}
    BY <1>0, <1>1, <1>2, <1>3, <1>4, <1>5, <1>6, <2>3 DEF TokensInv
  <2>5. \A q \in Procs : q # p /\ Registering(q)' =>
          call'[q].me = call[q].me /\ call[q].me \in Names /\ call[q].me # n
          /\ reg'[call[q].me] = reg[call[q].me] /\ reg'[call[q].me].tok # nextToken
    <3> SUFFICES ASSUME NEW q \in Procs, q # p, Registering(q)'
                 PROVE  call'[q].me = call[q].me /\ call[q].me \in Names /\ call[q].me # n
                        /\ reg'[call[q].me] = reg[call[q].me]
                        /\ reg'[call[q].me].tok # nextToken
      OBVIOUS
    <3>1. call'[q].me = call[q].me /\ call[q].me \in Names /\ call[q].me # n
      BY <1>2, <1>3, <1>4
    <3>2. reg'[call[q].me] = reg[call[q].me] /\ reg[call[q].me].tok < nextToken
      BY <1>5, <3>1 DEF TokensInv
    <3> QED
      BY <1>0, <3>1, <3>2
  <2>6. \A a, q \in Procs : a # q /\ Registering(a)' /\ Registering(q)' =>
          reg'[call'[a].me].tok # reg'[call'[q].me].tok
    BY <1>2, <1>3, <1>5, <2>5 DEF TokensInv
  <2>7. AnsweredTokenLive'
    <3> SUFFICES ASSUME NEW k \in Names
                 PROVE  \/ reg'[k].tok \in issued' \cup {NoToken}
                        \/ \E q \in Procs : Registering(q)' /\ call'[q].me = k
      BY DEF AnsweredTokenLive, Registering, Persisting
    <3>1. CASE k = n
      BY <1>2, <1>3, <3>1
    <3>2. CASE k # n
      <4>1. \/ reg[k].tok \in issued \cup {NoToken}
            \/ \E q \in Procs : Registering(q) /\ call[q].me = k
        BY DEF TokensInv, AnsweredTokenLive, Registering, Persisting
      <4> QED
        BY <1>1, <1>2, <1>3, <1>5, <3>2, <4>1
    <3> QED
      BY <3>1, <3>2
  <2> QED
    BY <2>1, <2>2, <2>4, <2>6, <2>7 DEF TokensInv
<1>8. \A q \in Procs : Acting(q)' => q # p /\ Acting(q) /\ call'[q] = call[q]
                                  /\ call[q].me \in Names
  BY <1>0, <1>2 DEF Acting
<1>9. ASSUME NEW q \in Procs, Acting(q)'
      PROVE  Owned(reg'[call'[q].me], call'[q].pane)
  <2>1. Owned(reg[call[q].me], call[q].pane) /\ call[q].pane # NoPane
    BY <1>8, <1>9 DEF OwnersInv, Acting
  <2>2. CASE call[q].me = n
    <3>1. Owned(e, call[q].pane)
      BY <2>1, <2>2 DEF e
    <3>2. e.pane = pane /\ pane = call[q].pane
      BY <1>0, <2>1, <3>1 DEF Owned, Registers, KeepsIdentity, Evicts
    <3> QED
      BY <1>5, <1>8, <1>9, <2>1, <2>2, <3>2 DEF Registered, Owned
  <2>3. CASE call[q].me # n
    BY <1>5, <1>8, <1>9, <2>1, <2>3
  <2> QED
    BY <2>2, <2>3
<1>10. ASSUME NEW a \in Procs, NEW q \in Procs, Acting(a)', Registering(q)',
              call'[q].me = call'[a].me
       PROVE  Owned(call'[q].snap, call'[a].pane)
  <2>1. Acting(a) /\ call'[a] = call[a]
    BY <1>8, <1>10
  <2>2. CASE q = p
    BY <1>2, <1>10, <2>1, <2>2 DEF OwnersInv, e, n
  <2>3. CASE q # p
    BY <1>2, <1>3, <1>10, <2>1, <2>3 DEF OwnersInv
  <2> QED
    BY <2>2, <2>3
<1>11. OwnersInv'
  BY <1>9, <1>10 DEF OwnersInv
<1> QED
  BY <1>7, <1>11

LEMMA RegisterReturnKeeps ==
  ASSUME BusTyped, LogsTyped, TokensInv, OwnersInv, NEW p \in Procs, RegisterReturn(p)
  PROVE  TokensInv' /\ OwnersInv'
<1> DEFINE n == call[p].me
           e == call[p].snap
<1>0. /\ reg \in [Names -> Kept] /\ call \in [Procs -> KeptCall] /\ n \in Names
      /\ stage \in [Procs -> {"none", "open", "write", "rename", "chmod", "ok", "failed"}]
      /\ nextToken \in Nat \ {0} /\ Registering(p) /\ Inside(p)
      /\ \A k \in Names : reg[k].tok \in Nat
      /\ \A q \in Procs : call[q].op # "none" => call[q].me \in Names
  BY KeptCallFields, KeptFields
     DEF RegisterReturn, EndPersist, Release, Answer, BusTyped, FileTypeOK, LogsTyped, Registering
<1>1. /\ call' = [call EXCEPT ![p] = NoCall] /\ stage' = [stage EXCEPT ![p] = "none"]
      /\ nextToken' = nextToken
      /\ \/ reg' = reg /\ issued' = issued \cup {reg[n].tok}
         \/ reg' = [reg EXCEPT ![n] = e] /\ issued' = issued
  BY DEF RegisterReturn, EndPersist, Answer
<1>2. /\ ~Registering(p)' /\ ~Acting(p)'
      /\ \A q \in Procs : q # p => call'[q] = call[q] /\ (Registering(q)' <=> Registering(q))
  BY <1>0, <1>1 DEF Registering, Acting, NoCall, Started
<1>3. \A q \in Procs : q # p /\ Registering(q) => call[q].me # n /\ call[q].me \in Names
  BY <1>0, CallLocks, DifferentTargets DEF Registering
<1>4. \A k \in Names : k # n => reg'[k] = reg[k]
  BY <1>0, <1>1
<1>5. \/ reg'[n] = reg[n] /\ issued' = issued \cup {reg[n].tok}
      \/ reg'[n] = e /\ issued' = issued
  BY <1>0, <1>1
<1>6. /\ reg[n].tok \notin issued \cup {NoToken} /\ reg[n].tok < nextToken
      /\ e.tok \in issued \cup {NoToken}
  BY <1>0 DEF TokensInv
<1> HIDE DEF n, e
<1>7. TokensInv'
  <2>1. issued' \subseteq 1 .. nextToken' - 1
    <3>1. reg[n].tok \in 1 .. nextToken - 1
      BY <1>0, <1>6 DEF NoToken
    <3> QED
      BY <1>1, <1>5, <3>1 DEF TokensInv
  <2>2. \A k \in Names : reg'[k].tok < nextToken'
    <3>1. e.tok < nextToken
      BY <1>0, <1>6 DEF TokensInv, NoToken
    <3> QED
      BY <1>0, <1>1, <1>4, <1>5, <3>1 DEF TokensInv
  <2>3. ASSUME NEW q \in Procs, Registering(q)'
        PROVE  /\ reg'[call'[q].me].tok \notin issued' \cup {NoToken}
               /\ call'[q].snap.tok \in issued' \cup {NoToken}
               /\ call'[q] = call[q] /\ reg'[call[q].me] = reg[call[q].me]
    <3>1. q # p /\ Registering(q) /\ call'[q] = call[q] /\ call[q].me # n
          /\ reg'[call[q].me] = reg[call[q].me]
      BY <1>2, <1>3, <1>4, <2>3
    <3>2. reg[call[q].me].tok # reg[n].tok
      BY <1>0, <3>1 DEF TokensInv, n
    <3>3. /\ reg[call[q].me].tok \notin issued \cup {NoToken}
          /\ call[q].snap.tok \in issued \cup {NoToken}
      BY <3>1 DEF TokensInv
    <3> QED
      BY <1>5, <3>1, <3>2, <3>3
  <2>4. \A a, q \in Procs : a # q /\ Registering(a)' /\ Registering(q)' =>
          reg'[call'[a].me].tok # reg'[call'[q].me].tok
    BY <1>2, <2>3 DEF TokensInv
  <2>5. AnsweredTokenLive'
    <3> SUFFICES ASSUME NEW k \in Names
                 PROVE  \/ reg'[k].tok \in issued' \cup {NoToken}
                        \/ \E q \in Procs : Registering(q)' /\ call'[q].me = k
      BY DEF AnsweredTokenLive, Registering, Persisting
    <3>1. CASE k = n
      BY <1>5, <1>6, <3>1
    <3>2. CASE k # n
      <4>1. \/ reg[k].tok \in issued \cup {NoToken}
            \/ \E q \in Procs : Registering(q) /\ call[q].me = k
        BY DEF TokensInv, AnsweredTokenLive, Registering, Persisting
      <4>2. \A q \in Procs : call[q].me = k => q # p
        BY <3>2 DEF n
      <4> QED
        BY <1>2, <1>4, <1>5, <3>2, <4>1, <4>2
    <3> QED
      BY <3>1, <3>2
  <2> QED
    BY <2>1, <2>2, <2>3, <2>4, <2>5 DEF TokensInv
<1>8. \A q \in Procs : Acting(q)' => Acting(q) /\ call'[q] = call[q] /\ call[q].me \in Names
  <2> SUFFICES ASSUME NEW q \in Procs, Acting(q)'
               PROVE  Acting(q) /\ call'[q] = call[q] /\ call[q].me \in Names
    OBVIOUS
  <2>1. call'[q] = call[q]
    BY <1>2
  <2> QED
    BY <1>0, <2>1 DEF Acting
<1>9. OwnersInv'
  <2>1. ASSUME NEW q \in Procs, Acting(q)'
        PROVE  Owned(reg'[call'[q].me], call'[q].pane)
    <3>1. Owned(reg[call[q].me], call[q].pane)
      BY <1>8, <2>1 DEF OwnersInv
    <3>2. call[q].me = n => Owned(e, call[q].pane)
      BY <1>0, <1>8, <2>1 DEF OwnersInv, n, e
    <3> QED
      BY <1>4, <1>5, <1>8, <2>1, <3>1, <3>2
  <2>2. \A a, q \in Procs :
          Acting(a)' /\ Registering(q)' /\ call'[q].me = call'[a].me =>
            Owned(call'[q].snap, call'[a].pane)
    BY <1>2, <1>8 DEF OwnersInv
  <2> QED
    BY <2>1, <2>2 DEF OwnersInv
<1> QED
  BY <1>7, <1>9

(* With no call running and no token in the entries, nothing is at stake.  *)
LEMMA NothingRuns ==
  ASSUME LogsTyped, TokensInv, UNCHANGED <<nextToken, issued>>,
         \A n \in Names : reg'[n].tok = NoToken,
         \A p \in Procs : call'[p] = NoCall
  PROVE  TokensInv' /\ OwnersInv'
  BY DEF LogsTyped, TokensInv, OwnersInv, AnsweredTokenLive, Registering, Acting, NoCall, Started,
         NoToken

(* While the coordinator is down, no call runs.                            *)
DownIdle == ~up => \A p \in Procs : call[p] = NoCall

LEMMA InvariantsInitially == Init => BusTyped /\ LogsTyped /\ TokensInv /\ OwnersInv /\ DownIdle
<1> SUFFICES ASSUME Init PROVE BusTyped /\ LogsTyped /\ TokensInv /\ OwnersInv /\ DownIdle
  OBVIOUS
<1>1. BusTyped
  BY TypedInitially
<1>2. LogsTyped /\ DownIdle
  BY DEF Init, LogsTyped, DownIdle
<1>3. TokensInv /\ OwnersInv
  BY DEF Init, TokensInv, OwnersInv, AnsweredTokenLive, Registering, Acting, NoCall, Started,
         NoEntry, NoToken
<1> QED
  BY <1>1, <1>2, <1>3

BusInv == BusTyped /\ LogsTyped /\ TokensInv /\ OwnersInv /\ DownIdle

LEMMA BusInvPreserved == BusInv /\ [Next]_vars => BusInv'
<1> SUFFICES ASSUME BusInv, [Next]_vars PROVE BusInv'
  OBVIOUS
<1> USE DEF BusInv
<1>1. BusTyped' /\ LogsTyped'
  BY TypesPreserved
<1>2. ASSUME NEW p \in Procs, NewCall(p) \/ LockStep(p) \/ CallStep(p) \/ FileStep(p)
      PROVE  TokensInv' /\ OwnersInv'
  <2>1. CASE RegisterCommit(p)
    BY <2>1, RegisterCommitKeeps
  <2>2. CASE RegisterReturn(p)
    BY <2>2, RegisterReturnKeeps
  <2>3. CASE ~RegisterCommit(p) /\ ~RegisterReturn(p)
    BY <1>2, <2>3, QuietSteps, TokensKept, OwnersKept DEF CallStep
  <2> QED
    BY <2>1, <2>2, <2>3
<1>3. ASSUME NEW p \in Procs, NewCall(p) \/ LockStep(p) \/ CallStep(p) \/ FileStep(p)
      PROVE  DownIdle'
  <2>1. up' = up
    BY <1>3 DEF NewCall, LockStep, CallStep, FileStep, busVars, RegisterCall, SendCall, ReadCall,
                RegisterReject, RegisterCommit, RegisterReturn, SendRefuse, SendCommit, SendReturn,
                ReadFail, ReadCommit, ReadReturn
  <2>2. CASE up
    BY <2>1, <2>2 DEF DownIdle
  <2>3. CASE ~up
    <3>1. call[p].op = "none"
      BY <2>3 DEF DownIdle, NoCall, Started
    <3>2. call' = call
      BY <1>3, <2>3, <3>1
         DEF NewCall, LockStep, CallStep, FileStep, busVars, RegisterCall, SendCall, ReadCall,
             RegisterReject, RegisterCommit, RegisterReturn, SendRefuse, SendCommit, SendReturn,
             ReadFail, ReadCommit, ReadReturn
    <3> QED
      BY <2>1, <3>2 DEF DownIdle
  <2> QED
    BY <2>2, <2>3
<1>4. ASSUME NEW n \in Names, SendInvalid(n)
      PROVE  TokensInv' /\ OwnersInv' /\ DownIdle'
  <2>1. SessionsKept /\ \A k \in Names : ~reg[k].idle => ~reg'[k].idle
    BY <1>4, TouchedKept DEF SendInvalid, BusTyped, SessionsKept
  <2>2. UNCHANGED <<call, up, stage, nextToken, issued>>
    BY <1>4 DEF SendInvalid, fileVars, history
  <2>3. RegisteringKept /\ ActingKept
    BY <2>1, <2>2 DEF RegisteringKept, ActingKept, Registering, Acting, Continues
  <2> QED
    BY <2>1, <2>2, <2>3, TokensKept, OwnersKept DEF DownIdle
<1>5. ASSUME NEW n \in Names, GoIdle(n)
      PROVE  TokensInv' /\ OwnersInv' /\ DownIdle'
  <2>1. SessionsKept /\ \A k \in Names : k # n => reg'[k].idle = reg[k].idle
    BY <1>5, IdleKept DEF GoIdle, BusTyped, SessionsKept
  <2>2. UNCHANGED <<call, up, stage, nextToken, issued>>
    BY <1>5 DEF GoIdle, fileVars, history
  <2>3. RegisteringKept
    BY <2>2 DEF RegisteringKept, Registering
  <2>4. ASSUME NEW q \in Procs, Acting(q)
        PROVE  Owned(reg'[call[q].me], call[q].pane)
    <3>1. call[q].me \in Names /\ call[q].me # n
      BY <1>5, <2>4, KeptCallFields DEF GoIdle, Acting, BusTyped
    <3> QED
      BY <2>1, <2>4, <3>1 DEF OwnersInv, SessionsKept, Owned
  <2>5. OwnersInv'
    BY <2>2, <2>4 DEF OwnersInv, Acting, Registering
  <2> QED
    BY <2>1, <2>2, <2>3, <2>5, TokensKept DEF DownIdle
<1>6. CASE Crash
  <2>1. /\ UNCHANGED <<nextToken, issued>>
        /\ \A n \in Names : reg'[n].tok = NoToken
        /\ \A p \in Procs : call'[p] = NoCall
    BY <1>6 DEF Crash, NoEntry
  <2>2. TokensInv' /\ OwnersInv'
    BY <2>1, NothingRuns
  <2>3. DownIdle'
    BY <2>1 DEF DownIdle
  <2> QED
    BY <1>1, <2>2, <2>3
<1>7. CASE Restart
  <2>1. /\ UNCHANGED <<nextToken, issued>> /\ up'
        /\ \A n \in Names : reg'[n].tok = NoToken
        /\ \A p \in Procs : call'[p] = NoCall
    BY <1>7, LoadedKept DEF Restart, history, DownIdle, DiskEntry
  <2>2. TokensInv' /\ OwnersInv'
    BY <2>1, NothingRuns
  <2>3. DownIdle'
    BY <2>1 DEF DownIdle
  <2> QED
    BY <1>1, <2>2, <2>3
<1>8. CASE UNCHANGED vars
  <2>1. SessionsKept /\ UNCHANGED <<reg, call, up, stage, nextToken, issued>>
    BY <1>8 DEF vars, fileVars, busVars, history, SessionsKept
  <2>2. RegisteringKept /\ ActingKept
    BY <2>1 DEF RegisteringKept, ActingKept, Registering, Acting, Continues
  <2>3. TokensInv' /\ OwnersInv'
    BY <2>1, <2>2, TokensKept, OwnersKept
  <2>4. DownIdle'
    BY <2>1 DEF DownIdle
  <2> QED
    BY <1>1, <2>3, <2>4
<1> QED
  BY <1>1, <1>2, <1>3, <1>4, <1>5, <1>6, <1>7, <1>8 DEF Next

LEMMA BusInvAlways == Spec => []BusInv
<1>1. Init => BusInv
  BY InvariantsInitially DEF BusInv
<1> QED
  BY <1>1, BusInvPreserved, PTL DEF Spec

\* The locks of the tools, over crashes that drop them all.
LEMMA QueuedPreserved == BusInv /\ Queued /\ [Next]_vars => Queued'
<1> SUFFICES ASSUME BusInv, Queued, [Next]_vars PROVE Queued'
  OBVIOUS
<1>1. LockInv
  BY DEF BusInv, BusTyped
<1>2. CASE UNCHANGED lockVars
  BY <1>2, QueuedUnchanged
<1>3. ASSUME NEW p \in Procs, NEW a \in Names, NEW b \in Names, WithLocks(p, {a, b})
      PROVE  Queued'
  BY <1>1, <1>3, WithLocksQueues
<1>4. ASSUME NEW p \in Procs, NestedLock(p)
      PROVE  Queued'
  BY <1>1, <1>4, NestedLockQueues
<1>5. ASSUME NEW p \in Procs, Release(p)
      PROVE  Queued'
  BY <1>1, <1>5, ReleaseQueues
<1>6. ASSUME NEW p \in Procs, NEW n \in Names, WithLocks(p, {n})
      PROVE  Queued'
  <2>1. {n} = {n, n}
    OBVIOUS
  <2> QED
    BY <1>3, <1>6, <2>1
<1>7. CASE Crash
  <2>1. queue' = [n \in Names |-> <<>>] /\ wants' = [p \in Procs |-> {}]
    BY <1>7 DEF Crash
  <2>2. InUse' = {}
    BY <2>1 DEF InUse
  <2> QED
    BY <2>1, <2>2, FS_EmptySet DEF Queued
<1>8. ASSUME NEW p \in Procs, NewCall(p)
      PROVE  Queued'
  <2>1. CASE \E n \in Names : WithLocks(p, {n})
    BY <1>6, <2>1
  <2>2. CASE \E a, b \in Names : WithLocks(p, {a, b})
    BY <1>3, <2>2
  <2> QED
    BY <1>8, <2>1, <2>2 DEF NewCall, RegisterCall, SendCall, ReadCall
<1>9. ASSUME NEW p \in Procs, CallStep(p)
      PROVE  Queued'
  <2>1. Release(p) \/ UNCHANGED lockVars
    BY <1>9 DEF CallStep, RegisterReject, RegisterCommit, RegisterReturn, SendRefuse, SendCommit,
                SendReturn, ReadFail, ReadCommit, ReadReturn, Answer
  <2> QED
    BY <1>2, <1>5, <2>1
<1>10. ASSUME NEW p \in Procs, LockStep(p) \/ FileStep(p)
       PROVE  Queued'
  BY <1>2, <1>4, <1>10 DEF LockStep, FileStep
<1>11. ASSUME NEW n \in Names, SendInvalid(n) \/ GoIdle(n)
       PROVE  Queued'
  BY <1>2, <1>11 DEF SendInvalid, GoIdle
<1>12. CASE Restart
  BY <1>2, <1>12 DEF Restart
<1>13. CASE UNCHANGED vars
  BY <1>2, <1>13 DEF vars
<1> QED
  BY <1>7, <1>8, <1>9, <1>10, <1>11, <1>12, <1>13 DEF Next

(* The calls of the three tools never all wait for each other's names,     *)
(* whatever fails and wherever the coordinator dies.                       *)
THEOREM BusNeverStuck == Spec => []NoneStuck
<1>1. Init => Queued
  BY QueuedInitially DEF Init
<1>2. BusInv /\ Queued => NoneStuck
  BY NoneStuckIfQueued DEF BusInv, BusTyped
<1> QED
  BY <1>1, <1>2, BusInvAlways, QueuedPreserved, PTL DEF Spec

-----------------------------------------------------------------------------
(* Types, and how calls, locks and persists go together: a call that has   *)
(* changed the registry and not answered is inside all its locks.          *)
THEOREM BusTypeCorrect == Spec => []BusTypeOK
<1>1. BusInv => BusTypeOK
  <2> SUFFICES ASSUME BusInv PROVE BusTypeOK
    OBVIOUS
  <2>1. DiskImage \subseteq Image
    BY DEF DiskImage, DiskEntry, Kept, Image
  <2>2. FileTypeOK(Image)
    BY <2>1 DEF BusInv, BusTyped, FileTypeOK, FileOK
  <2>3. StateTypeOK
    BY DEF BusInv, BusTyped, StateTypeOK, Image, Kept, KeptCall
  <2>4. HistoryTypeOK
    BY DEF BusInv, LogsTyped, TokensInv, HistoryTypeOK
  <2> QED
    BY <2>2, <2>3, <2>4 DEF BusInv, BusTyped, LockInv, BusTypeOK
<1> QED
  BY <1>1, BusInvAlways, PTL

(* Snapshots and rollbacks of different calls never overlap.               *)
THEOREM OneWriterAlways == Spec => []OneWriter
<1>1. BusInv => OneWriter
  BY CallLocks, DifferentTargets DEF BusInv, OneWriter, Persisting
<1> QED
  BY <1>1, BusInvAlways, PTL

(* The unread cap holds in memory, in every pending rollback and on disk,  *)
(* for any cap, and across failures, crashes and restarts.                 *)
THEOREM MailboxBoundAlways == Spec => []MailboxBound
<1>1. BusInv => MailboxBound
  <2> SUFFICES ASSUME BusInv PROVE MailboxBound
    OBVIOUS
  <2>1. ASSUME NEW n \in Names
        PROVE  /\ Cardinality(reg[n].unread) <= MaxUnread
               /\ live.st = "full" => Cardinality(live.img[n].unread) <= MaxUnread
    <3>1. live.st = "full" => live.img \in DiskImage
      BY DEF BusInv, BusTyped, FileTypeOK, FileOK, Full, Absent, Empty, Mixed
    <3> QED
      BY <3>1 DEF BusInv, BusTyped, DiskImage, DiskEntry, Kept
  <2>2. \A p \in Procs : Cardinality(call[p].snap.unread) <= MaxUnread
    BY DEF BusInv, BusTyped, KeptCall, Kept
  <2> QED
    BY <2>1, <2>2 DEF MailboxBound
<1> QED
  BY <1>1, BusInvAlways, PTL

(* No pane takes a session over while a call authenticated for its owner   *)
(* waits for the lock or runs, given a TTL no call outlasts.               *)
THEOREM OwnerOnlyAlways == LongTtl => (Spec => []OwnerOnly)
<1> SUFFICES ASSUME LongTtl PROVE Spec => []OwnerOnly
  OBVIOUS
<1>1. BusInv => OwnerOnly
  BY DEF BusInv, OwnersInv, OwnerOnly, Acting, Owned
<1> QED
  BY <1>1, BusInvAlways, PTL

(* A registration that fails leaves the token its client already has.      *)
THEOREM AnsweredTokenAlways == Spec => []AnsweredTokenLive
<1>1. BusInv => AnsweredTokenLive
  BY DEF BusInv, TokensInv
<1> QED
  BY <1>1, BusInvAlways, PTL

-----------------------------------------------------------------------------
(* The log.                                                                *)

Unreadable == {m \in Msgs : pos[m] # 0} \ readable
Tear == IF torn THEN 1 ELSE 0

LEMMA LogGrows ==
  ASSUME LogTypeOK, NEW m \in Msgs, AppendLine(m) \/ AppendPart(m)
  PROVE  /\ AppendLine(m) => Cardinality(Unreadable') + Tear' <= Cardinality(Unreadable) + Tear
         /\ AppendPart(m) => Cardinality(Unreadable') + Tear' <= Cardinality(Unreadable) + Tear + 2
<1>1. /\ Unreadable \in SUBSET Msgs /\ IsFiniteSet(Unreadable)
      /\ Cardinality(Unreadable) \in Nat
      /\ Unreadable \cup {m} \in SUBSET Msgs /\ IsFiniteSet(Unreadable \cup {m})
      /\ Cardinality(Unreadable \cup {m}) \in Nat
  BY ConstantFacts DEF Unreadable
<1>2. Cardinality(Unreadable \cup {m}) <= Cardinality(Unreadable) + 1
  <2>1. \/ Cardinality(Unreadable \cup {m}) = Cardinality(Unreadable)
        \/ Cardinality(Unreadable \cup {m}) = Cardinality(Unreadable) + 1
    BY <1>1, FS_AddElement
  <2> QED
    BY <1>1, <2>1
<1>3. NextPos \in Nat /\ NextPos # 0
  BY ConstantFacts DEF NextPos
<1>4. /\ Unreadable' \subseteq Unreadable \cup {m}
      /\ AppendLine(m) /\ ~torn => Unreadable' \subseteq Unreadable
      /\ AppendLine(m) => torn' = FALSE
      /\ AppendPart(m) => torn' = TRUE
  BY <1>3 DEF Unreadable, LogTypeOK, AppendLine, AppendPart
<1>5. /\ Cardinality(Unreadable') \in Nat
      /\ Cardinality(Unreadable') <= Cardinality(Unreadable \cup {m})
      /\ Unreadable' \subseteq Unreadable => Cardinality(Unreadable') <= Cardinality(Unreadable)
  BY <1>1, <1>4, FS_Subset, FS_CardinalityType
<1> HIDE DEF Unreadable
<1>6. ASSUME AppendLine(m)
      PROVE  Cardinality(Unreadable') + Tear' <= Cardinality(Unreadable) + Tear
  <2>1. CASE torn
    BY <1>1, <1>2, <1>4, <1>5, <1>6, <2>1 DEF Tear
  <2>2. CASE ~torn
    BY <1>1, <1>4, <1>5, <1>6, <2>2 DEF Tear
  <2> QED
    BY <2>1, <2>2
<1>7. ASSUME AppendPart(m)
      PROVE  Cardinality(Unreadable') + Tear' <= Cardinality(Unreadable) + Tear + 2
  BY <1>1, <1>2, <1>4, <1>5, <1>7 DEF Tear
<1> QED
  BY <1>6, <1>7

(* Tears and faults are counted alike by every step.                       *)
LEMMA TearsCounted ==
  ASSUME BusInv, [Next]_vars
  PROVE  /\ crashes' \in Nat /\ faults' \in Nat
         /\ \/ UNCHANGED <<pos, readable, torn, crashes>> /\ faults' >= faults
            \/ \E m \in Msgs : AppendLine(m) /\ crashes' = crashes /\ faults' >= faults
            \/ \E m \in Msgs : AppendPart(m) /\ crashes' = crashes /\ faults' = faults + 1
            \/ UNCHANGED <<pos, readable, faults>> /\ crashes' = crashes + 1
<1>0. faults \in Nat /\ crashes \in Nat
  BY DEF BusInv, BusTyped, LogsTyped, FileTypeOK
<1>1. ASSUME NEW p \in Procs, NewCall(p) \/ LockStep(p)
      PROVE  UNCHANGED <<pos, readable, torn, crashes, faults>>
  BY <1>1 DEF NewCall, LockStep, RegisterCall, SendCall, ReadCall, fileVars, busVars, logVars
<1>2. ASSUME NEW p \in Procs, FileStep(p)
      PROVE  UNCHANGED <<pos, readable, torn, crashes>> /\ faults' \in Nat /\ faults' >= faults
  BY <1>0, <1>2 DEF FileStep, busVars, logVars, PersistStep, OpenTmp, WriteTmp, RenameTmp,
                    RenameMissing, ChmodLive, PersistFault
<1>3. ASSUME NEW p \in Procs, CallStep(p), ~SendRefuse(p), ~SendCommit(p)
      PROVE  UNCHANGED <<pos, readable, torn, crashes>> /\ faults' \in Nat /\ faults' >= faults
  <2>1. CASE RegisterReject(p) \/ RegisterCommit(p) \/ ReadFail(p) \/ ReadCommit(p)
    BY <1>0, <2>1 DEF RegisterReject, RegisterCommit, ReadFail, ReadCommit, fileVars, logVars,
                      CanFail
  <2>2. CASE RegisterReturn(p)
    BY <1>0, <2>2 DEF RegisterReturn, fileVars, logVars, EndPersist
  <2>3. CASE SendReturn(p)
    BY <1>0, <2>3 DEF SendReturn, fileVars, logVars, EndPersist
  <2>4. CASE ReadReturn(p)
    BY <1>0, <2>4 DEF ReadReturn, fileVars, logVars, EndPersist
  <2> QED
    BY <1>3, <2>1, <2>2, <2>3, <2>4 DEF CallStep
<1>4. ASSUME NEW p \in Procs, SendRefuse(p) \/ SendCommit(p)
      PROVE  /\ call[p].msg \in Msgs /\ crashes' = crashes
             /\ \/ UNCHANGED <<pos, readable, torn>> /\ (faults' = faults \/ faults' = faults + 1)
                \/ AppendLine(call[p].msg) /\ (faults' = faults \/ faults' = faults + 1)
                \/ AppendPart(call[p].msg) /\ faults' = faults + 1
  <2>1. call[p].op = "send" /\ call[p] \in KeptCall
    BY <1>4 DEF SendRefuse, SendCommit, BusInv, BusTyped
  <2>2. call[p].msg \in Msgs
    BY <2>1, KeptCallFields
  <2> QED
    BY <1>4, <2>2 DEF SendRefuse, SendCommit, CanFail
<1>5. ASSUME NEW n \in Names, SendInvalid(n) \/ GoIdle(n)
      PROVE  UNCHANGED <<pos, readable, torn, crashes, faults>>
  BY <1>5 DEF SendInvalid, GoIdle, fileVars, logVars
<1>6. Crash => UNCHANGED <<pos, readable, faults>> /\ crashes' = crashes + 1
  BY DEF Crash, LoseProcesses
<1>7. Restart \/ UNCHANGED vars => UNCHANGED <<pos, readable, torn, crashes, faults>>
  BY DEF Restart, vars, fileVars, busVars, logVars
<1> QED
  BY <1>0, <1>1, <1>2, <1>3, <1>4, <1>5, <1>6, <1>7 DEF Next

(* A torn line costs what it tore and the line glued to it, no more.       *)
THEOREM TearsStayLocalAlways == Spec => []TearsStayLocal
<1>1. Init => TearsStayLocal
  <2> SUFFICES ASSUME Init PROVE TearsStayLocal
    OBVIOUS
  <2>1. {m \in Msgs : pos[m] # 0} \ readable = {} /\ ~torn /\ crashes = 0 /\ faults = 0
    BY DEF Init, FileInit
  <2> QED
    BY <2>1, FS_EmptySet DEF TearsStayLocal
<1>2. BusInv /\ TearsStayLocal /\ [Next]_vars => TearsStayLocal'
  <2> SUFFICES ASSUME BusInv, TearsStayLocal, [Next]_vars PROVE TearsStayLocal'
    OBVIOUS
  <2>1. Cardinality(Unreadable) + Tear <= crashes + 2 * faults
    BY DEF TearsStayLocal, Unreadable, Tear
  <2>2. LogTypeOK /\ faults \in Nat /\ crashes \in Nat
    BY DEF BusInv, BusTyped, LogsTyped, FileTypeOK
  <2>3. Cardinality(Unreadable) \in Nat /\ Tear \in {0, 1} /\ Tear' \in {0, 1}
    BY ConstantFacts DEF Unreadable, Tear
  <2>4. Cardinality(Unreadable') \in Nat
    BY ConstantFacts DEF Unreadable
  <2>5. crashes' \in Nat /\ faults' \in Nat
    BY TearsCounted
  <2>6. Cardinality(Unreadable') + Tear' <= crashes' + 2 * faults'
    <3>1. CASE UNCHANGED <<pos, readable, torn, crashes>> /\ faults' >= faults
      <4>1. Unreadable' = Unreadable /\ Tear' = Tear
        BY <3>1 DEF Unreadable, Tear
      <4> QED
        BY <2>1, <2>2, <2>3, <2>5, <3>1, <4>1
    <3>2. ASSUME NEW m \in Msgs, AppendLine(m), crashes' = crashes, faults' >= faults
          PROVE  Cardinality(Unreadable') + Tear' <= crashes' + 2 * faults'
      BY <2>1, <2>2, <2>3, <2>4, <2>5, <3>2, LogGrows
    <3>3. ASSUME NEW m \in Msgs, AppendPart(m), crashes' = crashes, faults' = faults + 1
          PROVE  Cardinality(Unreadable') + Tear' <= crashes' + 2 * faults'
      BY <2>1, <2>2, <2>3, <2>4, <2>5, <3>3, LogGrows
    <3>4. CASE UNCHANGED <<pos, readable, faults>> /\ crashes' = crashes + 1
      <4>1. Unreadable' = Unreadable
        BY <3>4 DEF Unreadable
      <4> QED
        BY <2>1, <2>2, <2>3, <2>5, <3>4, <4>1
    <3> QED
      BY <3>1, <3>2, <3>3, <3>4, TearsCounted
  <2> QED
    BY <2>6 DEF TearsStayLocal, Unreadable, Tear
<1> QED
  BY <1>1, <1>2, BusInvAlways, PTL DEF Spec

-----------------------------------------------------------------------------
(* What one read drains of a mailbox.                                      *)

(* The messages of S can be told apart by their place in the log.          *)
Placed(S) == \A m, k \in S : pos[m] = pos[k] => m = k

LEMMA EarlierIsOrder ==
  ASSUME LogTypeOK, NEW S \in SUBSET Msgs, Placed(S)
  PROVE  /\ \A m \in S : ~Earlier(m, m)
         /\ \A m, k \in S : Earlier(m, k) => ~Earlier(k, m)
         /\ \A m, k \in S : m = k \/ Earlier(m, k) \/ Earlier(k, m)
         /\ \A m, k, l \in S : Earlier(m, k) /\ Earlier(k, l) => Earlier(m, l)
<1>1. \A m \in S : Stamp(m) \in Nat /\ pos[m] \in Nat
  BY BoundsAssumption DEF LogTypeOK
<1> QED
  BY <1>1 DEF Earlier, Placed

(* The first and the last message of a mailbox.                            *)
LEMMA FirstMessage ==
  ASSUME LogTypeOK, NEW S \in SUBSET Msgs, Placed(S), S # {}
  PROVE  \E m \in S : UpTo(S, m) = {m}
<1> DEFINE T == {UpTo(S, m) : m \in S}
<1>1. T \subseteq FiniteSubsetsOf(Msgs) /\ T # {}
  BY ConstantFacts DEF FiniteSubsetsOf, UpTo
<1>2. PICK x \in T : \A y \in T : ~(<<y, x>> \in StrictSubsetOrdering(Msgs))
  <2> HIDE DEF T
  <2> QED
    BY <1>1, FS_StrictSubsetOrderingWellFounded, WFMin
<1>3. PICK m \in S : x = UpTo(S, m)
  OBVIOUS
<1>4. ASSUME NEW k \in S, Earlier(k, m) PROVE FALSE
  <2>1. UpTo(S, k) \subseteq UpTo(S, m) /\ m \notin UpTo(S, k) /\ m \in UpTo(S, m)
    BY <1>4, EarlierIsOrder DEF UpTo
  <2>2. UpTo(S, k) \in T /\ UpTo(S, k) \in SUBSET Msgs /\ UpTo(S, m) \in SUBSET Msgs
    BY DEF UpTo
  <2> QED
    BY <1>2, <1>3, <2>1, <2>2 DEF StrictSubsetOrdering
<1> QED
  BY <1>4 DEF UpTo

LEMMA LastMessage ==
  ASSUME LogTypeOK, NEW S \in SUBSET Msgs, Placed(S), S # {}
  PROVE  \E m \in S : UpTo(S, m) = S
<1> DEFINE From(m) == {k \in S : k = m \/ Earlier(m, k)}
           T == {From(m) : m \in S}
<1>1. T \subseteq FiniteSubsetsOf(Msgs) /\ T # {}
  BY ConstantFacts DEF FiniteSubsetsOf
<1>2. PICK x \in T : \A y \in T : ~(<<y, x>> \in StrictSubsetOrdering(Msgs))
  <2> HIDE DEF T
  <2> QED
    BY <1>1, FS_StrictSubsetOrderingWellFounded, WFMin
<1>3. PICK m \in S : x = From(m)
  OBVIOUS
<1>4. ASSUME NEW k \in S, Earlier(m, k) PROVE FALSE
  <2>1. From(k) \subseteq From(m) /\ m \notin From(k) /\ m \in From(m)
    BY <1>4, EarlierIsOrder
  <2>2. From(k) \in T /\ From(k) \in SUBSET Msgs /\ From(m) \in SUBSET Msgs
    OBVIOUS
  <2> QED
    BY <1>2, <1>3, <2>1, <2>2 DEF StrictSubsetOrdering
<1>5. \A k \in S : k = m \/ Earlier(k, m)
  BY <1>4, EarlierIsOrder
<1> QED
  BY <1>5 DEF UpTo

LEMMA BytesFinite ==
  ASSUME NEW S \in SUBSET Msgs
  PROVE  IsFiniteSet(UNION {{m} \X (1 .. Size(m)) : m \in S})
<1> DEFINE f == [m \in S |-> {m} \X (1 .. Size(m))]
           T == {{m} \X (1 .. Size(m)) : m \in S}
<1>1. f \in Surjection(S, T)
  BY DEF Surjection
<1>2. IsFiniteSet(T)
  <2> HIDE DEF f, T
  <2> QED
    BY <1>1, ConstantFacts, FS_Surjection
<1>3. ASSUME NEW m \in S PROVE IsFiniteSet({m} \X (1 .. Size(m)))
  <2>1. Size(m) \in Nat
    BY BoundsAssumption
  <2>2. IsFiniteSet({m})
    BY FS_Singleton
  <2>3. IsFiniteSet(1 .. Size(m))
    BY <2>1, FS_Interval
  <2> QED
    BY <2>2, <2>3, FS_Product
<1> QED
  BY <1>2, <1>3, FS_UNION

LEMMA BytesGrow ==
  ASSUME NEW S \in SUBSET Msgs, NEW R \in SUBSET S
  PROVE  Bytes(R) \in Nat /\ Bytes(S) \in Nat /\ Bytes(R) <= Bytes(S)
<1>1. UNION {{m} \X (1 .. Size(m)) : m \in R} \subseteq UNION {{m} \X (1 .. Size(m)) : m \in S}
  OBVIOUS
<1> QED
  BY <1>1, BytesFinite, FS_Subset, FS_CardinalityType DEF Bytes

(* A read returns the oldest messages that fit, and at least one.          *)
LEMMA DrainedBatch ==
  ASSUME LogTypeOK, NEW S \in SUBSET Msgs, Placed(S)
  PROVE  /\ Drained(S) \subseteq S
         /\ M!LeavesNoOlder(Drained(S), S)
         /\ S # {} => Drained(S) # {} /\ M!Fits(Drained(S))
<1> DEFINE B == Drained(S)
<1>1. B \in SUBSET Msgs /\ B \subseteq S
  BY DEF Drained
<1>2. ASSUME NEW m \in B, NEW k \in S, Earlier(k, m)
      PROVE  k \in B
  <2>1. UpTo(S, k) \subseteq UpTo(S, m) /\ UpTo(S, m) \in SUBSET Msgs /\ k \in UpTo(S, m) /\ k # m
    BY <1>1, <1>2, EarlierIsOrder DEF UpTo
  <2>2. Bytes(UpTo(S, m)) <= MaxBytes
    BY <2>1 DEF Drained
  <2>3. Bytes(UpTo(S, k)) <= MaxBytes
    BY <2>1, <2>2, BytesGrow, BoundsAssumption
  <2> QED
    BY <2>3 DEF Drained
<1>3. M!LeavesNoOlder(B, S)
  <2> SUFFICES ASSUME NEW m \in B, NEW k \in S \ B PROVE Stamp(m) <= Stamp(k)
    BY DEF M!LeavesNoOlder
  <2>1. Earlier(m, k)
    BY <1>1, <1>2, EarlierIsOrder
  <2> QED
    BY <1>1, <2>1, BoundsAssumption DEF Earlier
<1>4. ASSUME S # {} PROVE B # {}
  BY <1>4, FirstMessage DEF Drained
<1>5. ASSUME S # {} PROVE M!Fits(B)
  <2>1. PICK m \in B : UpTo(B, m) = B
    BY <1>1, <1>4, <1>5, LastMessage DEF Placed
  <2>2. B \subseteq UpTo(S, m)
    BY <1>1, <2>1 DEF UpTo
  <2>3. CASE UpTo(S, m) = {m}
    BY <2>2, <2>3 DEF M!Fits
  <2>4. CASE Bytes(UpTo(S, m)) <= MaxBytes
    <3>1. Bytes(B) <= MaxBytes
      BY <1>1, <2>2, <2>4, BytesGrow, BoundsAssumption DEF UpTo
    <3> QED
      BY <3>1 DEF M!Fits
  <2> QED
    BY <2>3, <2>4 DEF Drained
<1> QED
  BY <1>1, <1>3, <1>4, <1>5

-----------------------------------------------------------------------------
(* The log and the sends: a message is appended once, acknowledged once,   *)
(* and takes a place of its own.                                           *)

Sending(p) == call[p].op = "send"

MsgsInv ==
  /\ \A m \in Msgs : pos[m] < NextPos /\ (pos[m] # 0 => m < nextMsg)
  /\ \A m, k \in Msgs : pos[m] = pos[k] /\ pos[m] # 0 => m = k
  /\ \A m \in acked : m < nextMsg
  /\ \A p \in Procs : Sending(p) =>
       /\ call[p].msg < nextMsg
       /\ call[p].msg \notin acked
       /\ ~Persisting(p) => pos[call[p].msg] = 0
  /\ \A p, q \in Procs : p # q /\ Sending(p) /\ Sending(q) => call[p].msg # call[q].msg

(* What a step may do to the sends of the calls in P.                      *)
SendsGoOn(P) ==
  \A q \in P : Sending(q)' =>
    /\ Sending(q) /\ call'[q].msg = call[q].msg /\ call'[q].to = call[q].to
    /\ Persisting(q) => Persisting(q)'

NoSend == SendsGoOn(Procs) /\ UNCHANGED <<addr, pos, acked, nextMsg>>

Draws(p) ==
  /\ SendsGoOn(Procs \ {p})
  /\ call'[p].msg = nextMsg /\ call'[p].to \in Names
  /\ addr' = [addr EXCEPT ![nextMsg] = call'[p].to]
  /\ nextMsg' = nextMsg + 1
  /\ UNCHANGED <<pos, acked>>

Appends(p) ==
  /\ Sending(p) /\ ~Persisting(p)
  /\ SendsGoOn(Procs \ {p})
  /\ Sending(p)' => call'[p].msg = call[p].msg /\ call'[p].to = call[p].to /\ Persisting(p)'
  /\ pos' = [pos EXCEPT ![call[p].msg] = NextPos]
  /\ UNCHANGED <<addr, acked, nextMsg>>

Acknowledges(p) ==
  /\ Sending(p) /\ ~Sending(p)'
  /\ SendsGoOn(Procs \ {p})
  /\ acked' = acked \cup {call[p].msg}
  /\ UNCHANGED <<addr, pos, nextMsg>>

LEMMA LogStep ==
  ASSUME BusInv, [Next]_vars
  PROVE  NoSend \/ \E p \in Procs : Draws(p) \/ Appends(p) \/ Acknowledges(p)
<1> USE DEF BusInv
<1>0. /\ call \in [Procs -> KeptCall]
      /\ stage \in [Procs -> {"none", "open", "write", "rename", "chmod", "ok", "failed"}]
      /\ \A p \in Procs : call[p] = NoCall => stage[p] = "none"
  BY CallLocks DEF BusTyped, FileTypeOK
<1>1. ASSUME NEW p \in Procs, NEW c, call' = [call EXCEPT ![p] = c], UNCHANGED stage
      PROVE  SendsGoOn(Procs \ {p})
  BY <1>0, <1>1 DEF SendsGoOn, Sending, Persisting
<1>2. ASSUME NEW p \in Procs, call'[p].op # "send",
             \A q \in Procs : q # p => call'[q] = call[q] /\ stage'[q] = stage[q]
      PROVE  SendsGoOn(Procs) /\ ~Sending(p)'
  BY <1>0, <1>2 DEF SendsGoOn, Sending, Persisting
<1>3. ASSUME NEW p \in Procs, NewCall(p)
      PROVE  NoSend \/ Draws(p)
  <2>1. ASSUME NEW n \in Names, NEW pane \in Panes \cup {NoPane}, RegisterCall(p, n, pane)
        PROVE  NoSend
    <3>1. call'[p].op # "send" /\ \A q \in Procs : q # p => call'[q] = call[q] /\ stage'[q] = stage[q]
      BY <1>0, <2>1 DEF RegisterCall, Started, fileVars
    <3>2. SendsGoOn(Procs)
      BY <1>2, <3>1
    <3> QED
      BY <2>1, <3>2 DEF RegisterCall, logVars, history, NoSend
  <2>2. ASSUME NEW n \in Names, NEW to \in Names, SendCall(p, n, to)
        PROVE  Draws(p)
    <3>1. SendsGoOn(Procs \ {p})
      BY <1>1, <2>2 DEF SendCall, fileVars
    <3>2. call'[p].msg = nextMsg /\ call'[p].to = to
      BY <1>0, <2>2 DEF SendCall, Started
    <3> QED
      BY <2>2, <3>1, <3>2 DEF SendCall, history, Draws
  <2>3. ASSUME NEW n \in Names, ReadCall(p, n)
        PROVE  NoSend
    <3>1. call'[p].op # "send" /\ \A q \in Procs : q # p => call'[q] = call[q] /\ stage'[q] = stage[q]
      BY <1>0, <2>3 DEF ReadCall, Started, fileVars
    <3>2. SendsGoOn(Procs)
      BY <1>2, <3>1
    <3> QED
      BY <2>3, <3>2 DEF ReadCall, logVars, history, NoSend
  <2> QED
    BY <1>3, <2>1, <2>2, <2>3 DEF NewCall
<1>4. ASSUME NEW p \in Procs, RegisterReject(p) \/ ReadFail(p)
      PROVE  NoSend
  <2>1. call'[p].op # "send" /\ \A q \in Procs : q # p => call'[q] = call[q] /\ stage'[q] = stage[q]
    BY <1>0, <1>4 DEF RegisterReject, ReadFail, Answer, fileVars, NoCall, Started
  <2>2. SendsGoOn(Procs)
    BY <1>2, <2>1
  <2> QED
    BY <1>4, <2>2 DEF RegisterReject, ReadFail, logVars, history, NoSend
<1>5. ASSUME NEW p \in Procs, RegisterCommit(p) \/ ReadCommit(p)
      PROVE  NoSend
  <2>1. ~Sending(p) /\ ~Sending(p)' /\ UNCHANGED <<addr, pos, acked, nextMsg>>
        /\ \A q \in Procs : q # p => call'[q] = call[q] /\ stage'[q] = stage[q]
    BY <1>0, <1>5 DEF RegisterCommit, ReadCommit, Sending, StartPersist, logVars, history,
                      KeptCall, Call, NoCall, Started
  <2> QED
    BY <2>1 DEF NoSend, SendsGoOn, Sending, Persisting
<1>6. ASSUME NEW p \in Procs, RegisterReturn(p) \/ ReadReturn(p)
      PROVE  NoSend
  <2>1. call'[p].op # "send" /\ \A q \in Procs : q # p => call'[q] = call[q] /\ stage'[q] = stage[q]
    BY <1>0, <1>6 DEF RegisterReturn, ReadReturn, EndPersist, Answer, NoCall, Started
  <2>2. SendsGoOn(Procs)
    BY <1>2, <2>1
  <2> QED
    BY <1>6, <2>2 DEF RegisterReturn, ReadReturn, logVars, NoSend
<1>7. ASSUME NEW p \in Procs, SendRefuse(p)
      PROVE  NoSend \/ Appends(p)
  <2>1. /\ Sending(p) /\ ~Persisting(p) /\ call'[p].op # "send"
        /\ \A q \in Procs : q # p => call'[q] = call[q] /\ stage'[q] = stage[q]
    BY <1>0, <1>7 DEF SendRefuse, Answer, NoCall, Started, Sending, Persisting
  <2>2. SendsGoOn(Procs) /\ ~Sending(p)'
    BY <1>2, <2>1
  <2>3. SendsGoOn(Procs \ {p})
    BY <2>2 DEF SendsGoOn
  <2> QED
    BY <1>7, <2>1, <2>2, <2>3 DEF SendRefuse, AppendLine, history, NoSend, Appends
<1>8. ASSUME NEW p \in Procs, SendCommit(p)
      PROVE  Appends(p)
  <2>1. Sending(p) /\ ~Persisting(p)
    BY <1>8 DEF SendCommit, Sending, Persisting
  <2>2. call'[p].msg = call[p].msg /\ call'[p].to = call[p].to /\ Persisting(p)'
    BY <1>0, <1>8 DEF SendCommit, StartPersist, Persisting, KeptCall, Call, NoCall, Started
  <2>3. SendsGoOn(Procs \ {p})
    BY <1>0, <1>8 DEF SendCommit, StartPersist, SendsGoOn, Sending, Persisting
  <2> QED
    BY <1>8, <2>1, <2>2, <2>3 DEF SendCommit, AppendLine, AppendPart, history, Appends
<1>9. ASSUME NEW p \in Procs, SendReturn(p)
      PROVE  NoSend \/ Acknowledges(p)
  <2>1. /\ Sending(p) /\ call'[p].op # "send"
        /\ \A q \in Procs : q # p => call'[q] = call[q] /\ stage'[q] = stage[q]
    BY <1>0, <1>9 DEF SendReturn, EndPersist, Answer, NoCall, Started, Sending
  <2>2. SendsGoOn(Procs) /\ ~Sending(p)'
    BY <1>2, <2>1
  <2>3. SendsGoOn(Procs \ {p})
    BY <2>2 DEF SendsGoOn
  <2> QED
    BY <1>9, <2>1, <2>2, <2>3 DEF SendReturn, logVars, NoSend, Acknowledges
<1>10. ASSUME NEW p \in Procs, LockStep(p) \/ FileStep(p)
       PROVE  NoSend
  <2>1. UNCHANGED <<call, addr, pos, acked, nextMsg>>
    BY <1>10 DEF LockStep, FileStep, busVars, logVars, history
  <2>2. \A q \in Procs : Persisting(q)' <=> Persisting(q)
    BY <1>10, PersistStepTyped DEF LockStep, FileStep, fileVars, Persisting, BusTyped
  <2> QED
    BY <2>1, <2>2 DEF NoSend, SendsGoOn, Sending
<1>11. (\E n \in Names : SendInvalid(n) \/ GoIdle(n)) \/ Restart \/ UNCHANGED vars => NoSend
  BY DEF SendInvalid, GoIdle, Restart, vars, fileVars, busVars, logVars, history, NoSend,
         SendsGoOn, Sending, Persisting
<1>12. Crash => NoSend
  BY DEF Crash, NoSend, SendsGoOn, Sending, NoCall, Started
<1> QED
  BY <1>3, <1>4, <1>5, <1>6, <1>7, <1>8, <1>9, <1>10, <1>11, <1>12 DEF Next, CallStep

LEMMA PlaceTaken ==
  ASSUME LogTypeOK, NEW m \in Msgs, pos[m] = 0, pos' = [pos EXCEPT ![m] = NextPos]
  PROVE  NextPos \in Nat \ {0} /\ NextPos' = NextPos + 1
<1> DEFINE L == {k \in Msgs : pos[k] # 0}
<1>1. IsFiniteSet(L) /\ Cardinality(L) \in Nat
  BY ConstantFacts
<1>2. NextPos \in Nat \ {0} /\ {k \in Msgs : pos'[k] # 0} = L \cup {m}
  <2>1. NextPos \in Nat \ {0}
    BY <1>1 DEF NextPos
  <2> QED
    BY <2>1 DEF LogTypeOK
<1>3. Cardinality(L \cup {m}) = Cardinality(L) + 1
  BY <1>1, FS_AddElement
<1> QED
  BY <1>1, <1>2, <1>3 DEF NextPos

LEMMA MsgsPreserved ==
  ASSUME BusInv, BusInv', MsgsInv, [Next]_vars
  PROVE  MsgsInv'
<1>0. /\ LogTypeOK /\ nextMsg \in Nat /\ acked \subseteq Msgs
      /\ \A p \in Procs : Sending(p) => call[p].msg \in Msgs /\ call[p].msg \in Nat
      /\ \A m \in Msgs : m \in Nat /\ pos[m] \in Nat
  BY KeptCallFields DEF BusInv, BusTyped, LogsTyped, LogTypeOK, Sending, Msgs
<1>1. CASE NoSend
  <2>1. NextPos' = NextPos
    BY <1>1 DEF NoSend, NextPos
  <2> QED
    BY <1>1, <2>1 DEF NoSend, SendsGoOn, MsgsInv
<1>2. ASSUME NEW p \in Procs, Draws(p)
      PROVE  MsgsInv'
  <2>1. NextPos' = NextPos
    BY <1>2 DEF Draws, NextPos
  <2>2. \A m \in Msgs : pos'[m] < NextPos' /\ (pos'[m] # 0 => m < nextMsg')
    BY <1>0, <1>2, <2>1 DEF Draws, MsgsInv
  <2>3. \A m \in acked' : m < nextMsg'
    BY <1>0, <1>2 DEF Draws, MsgsInv
  <2>4. ASSUME NEW q \in Procs, Sending(q)'
        PROVE  /\ call'[q].msg < nextMsg' /\ call'[q].msg \notin acked'
               /\ ~Persisting(q)' => pos'[call'[q].msg] = 0
    <3>1. CASE q = p
      <4>1. call'[p].msg = nextMsg /\ call'[p].msg \in Msgs
        BY <1>2, <2>4, <3>1, KeptCallFields DEF Draws, BusInv, BusTyped, Sending
      <4>2. nextMsg \notin acked /\ pos[nextMsg] = 0
        BY <1>0, <4>1 DEF MsgsInv
      <4> QED
        BY <1>0, <1>2, <3>1, <4>1, <4>2 DEF Draws
    <3>2. CASE q # p
      BY <1>0, <1>2, <2>4, <3>2 DEF Draws, SendsGoOn, MsgsInv
    <3> QED
      BY <3>1, <3>2
  <2>5. ASSUME NEW q \in Procs, NEW r \in Procs, q # r, Sending(q)', Sending(r)'
        PROVE  call'[q].msg # call'[r].msg
    BY <1>0, <1>2, <2>5 DEF Draws, SendsGoOn, MsgsInv
  <2>6. \A m, k \in Msgs : pos'[m] = pos'[k] /\ pos'[m] # 0 => m = k
    BY <1>2 DEF Draws, MsgsInv
  <2> QED
    BY <2>2, <2>3, <2>4, <2>5, <2>6 DEF MsgsInv
<1>3. ASSUME NEW p \in Procs, Appends(p)
      PROVE  MsgsInv'
  <2> DEFINE m0 == call[p].msg
  <2>1. /\ m0 \in Msgs /\ pos[m0] = 0 /\ m0 < nextMsg /\ m0 \notin acked
        /\ pos' = [pos EXCEPT ![m0] = NextPos]
        /\ \A q \in Procs : q # p /\ Sending(q) => call[q].msg # m0
    BY <1>0, <1>3 DEF Appends, MsgsInv
  <2> HIDE DEF m0
  <2>2. NextPos \in Nat \ {0} /\ NextPos' = NextPos + 1
    BY <1>0, <2>1, PlaceTaken
  <2>3. \A m \in Msgs : pos'[m] = IF m = m0 THEN NextPos ELSE pos[m]
    BY <1>0, <2>1 DEF LogTypeOK
  <2>4. \A m \in Msgs : pos'[m] < NextPos' /\ (pos'[m] # 0 => m < nextMsg')
    BY <1>0, <1>3, <2>1, <2>2, <2>3 DEF Appends, MsgsInv
  <2>5. \A m, k \in Msgs : pos'[m] = pos'[k] /\ pos'[m] # 0 => m = k
    BY <1>0, <2>1, <2>2, <2>3 DEF MsgsInv
  <2>6. \A m \in acked' : m < nextMsg'
    BY <1>3 DEF Appends, MsgsInv
  <2>7. ASSUME NEW q \in Procs, Sending(q)'
        PROVE  /\ call'[q].msg < nextMsg' /\ call'[q].msg \notin acked'
               /\ ~Persisting(q)' => pos'[call'[q].msg] = 0
    <3>1. CASE q = p
      BY <1>3, <2>1, <2>7, <3>1 DEF Appends, m0
    <3>2. CASE q # p
      BY <1>0, <1>3, <2>1, <2>3, <2>7, <3>2 DEF Appends, SendsGoOn, MsgsInv
    <3> QED
      BY <3>1, <3>2
  <2>8. ASSUME NEW q \in Procs, NEW r \in Procs, q # r, Sending(q)', Sending(r)'
        PROVE  call'[q].msg # call'[r].msg
    BY <1>3, <2>8 DEF Appends, SendsGoOn, MsgsInv
  <2> QED
    BY <2>4, <2>5, <2>6, <2>7, <2>8 DEF MsgsInv
<1>4. ASSUME NEW p \in Procs, Acknowledges(p)
      PROVE  MsgsInv'
  <2>1. NextPos' = NextPos
    BY <1>4 DEF Acknowledges, NextPos
  <2>2. \A m \in acked' : m < nextMsg'
    BY <1>4 DEF Acknowledges, MsgsInv
  <2>3. ASSUME NEW q \in Procs, Sending(q)'
        PROVE  q # p /\ Sending(q) /\ call'[q].msg = call[q].msg /\ (Persisting(q) => Persisting(q)')
    BY <1>4, <2>3 DEF Acknowledges, SendsGoOn
  <2>4. \A q \in Procs : Sending(q)' => call'[q].msg \notin acked'
    BY <1>4, <2>3 DEF Acknowledges, MsgsInv
  <2> QED
    BY <1>4, <2>1, <2>2, <2>3, <2>4 DEF Acknowledges, MsgsInv
<1> QED
  BY <1>1, <1>2, <1>3, <1>4, LogStep

-----------------------------------------------------------------------------
(* Mailboxes.                                                              *)

Logged == {m \in Msgs : pos[m] # 0}

(* What p has made of its target's mailbox, and will answer or roll back.  *)
Pending(p) ==
  LET old == call[p].snap.unread
      new == reg[Target(p)].unread
      out == call[p].out
  IN
  /\ old \subseteq Logged
  /\ call[p].op = "register" => new = old \/ new = {}
  /\ call[p].op = "send" => new = old \cup {call[p].msg}
  /\ call[p].op = "read" =>
       /\ out \subseteq old /\ new = old \ out
       /\ old # {} => out # {} /\ M!Fits(out)
       /\ M!LeavesNoOlder(out, old)

Boxes ==
  /\ up
  /\ \A n \in Names : reg[n].unread \subseteq Logged
  /\ \A p \in Procs : Persisting(p) => Pending(p)

BoxInv == Undamaged => Boxes

(* The steps as the mailboxes see them.                                    *)
Others(p) ==
  \A q \in Procs : q # p => call'[q] = call[q] /\ (Persisting(q)' <=> Persisting(q))

OtherBoxes(t) == \A n \in Names : n # t => reg'[n].unread = reg[n].unread

Silent == UNCHANGED <<acked, delivered, discarded>>

Quiet ==
  /\ \A q \in Procs : /\ Persisting(q)' <=> Persisting(q)
                      /\ Persisting(q) => call'[q] = call[q]
  /\ \A n \in Names : reg'[n].unread = reg[n].unread
  /\ Silent

Starts(p) ==
  /\ ~Persisting(p) /\ Persisting(p)'
  /\ Target(p) \in Names /\ Target(p)' = Target(p)
  /\ call'[p].snap = reg[Target(p)]
  /\ Others(p) /\ OtherBoxes(Target(p)) /\ Silent

Commits(p) ==
  /\ Starts(p)
  /\ reg'[Target(p)].unread \subseteq Logged'
  /\ Pending(p)'

(* p answers: a rollback, or the outcome of the call.                      *)
Returns(p) ==
  LET t   == Target(p)
      old == call[p].snap.unread
  IN
  /\ Persisting(p) /\ ~Persisting(p)'
  /\ t \in Names
  /\ Others(p) /\ OtherBoxes(t)
  /\ \/ reg'[t].unread = old /\ Silent
     \/ /\ reg'[t].unread = reg[t].unread
        /\ \/ /\ call[p].op = "register"
              /\ discarded' = discarded \cup (old \ reg[t].unread)
              /\ UNCHANGED <<acked, delivered>>
           \/ /\ call[p].op = "send"
              /\ acked' = acked \cup {call[p].msg}
              /\ UNCHANGED <<delivered, discarded>>
           \/ /\ call[p].op = "read"
              /\ delivered' = delivered \cup call[p].out
              /\ UNCHANGED <<acked, discarded>>

(* The log can give back every message of a mailbox.                       *)
LEMMA UndamagedBox ==
  ASSUME Undamaged, Boxes, NEW n \in Names
  PROVE  reg[n].unread \cap readable = reg[n].unread
  BY DEF Undamaged, Boxes, Logged

(* Only a send appends, and only its own message, once.                    *)
LEMMA LogWrite ==
  ASSUME BusInv, MsgsInv, [Next]_vars
  PROVE  \/ UNCHANGED <<pos, readable>>
         \/ \E m \in Msgs : /\ pos[m] = 0 /\ m \notin acked
                            /\ AppendLine(m) \/ AppendPart(m)
<1>1. LogTypeOK /\ \A m \in Msgs : pos[m] \in Nat
  BY DEF BusInv, BusTyped, LogTypeOK
<1> SUFFICES ASSUME NEW m \in Msgs, AppendLine(m) \/ AppendPart(m)
             PROVE  pos[m] = 0 /\ m \notin acked
  BY TearsCounted
<1>2. PICK p \in Procs : Appends(p)
  <2>1. pos'[m] = NextPos /\ NextPos \in Nat \ {0}
    <3>1. NextPos \in Nat \ {0}
      BY ConstantFacts DEF NextPos
    <3> QED
      BY <1>1, <3>1 DEF AppendLine, AppendPart, LogTypeOK
  <2>2. pos' # pos
    <3>1. pos[m] < NextPos
      BY DEF MsgsInv
    <3> QED
      BY <1>1, <2>1, <3>1
  <2> QED
    BY <2>2, LogStep DEF NoSend, Draws, Acknowledges
<1>3. call[p].msg \in Msgs /\ pos[call[p].msg] = 0 /\ call[p].msg \notin acked
  BY <1>2, KeptCallFields DEF Appends, MsgsInv, BusInv, BusTyped, Sending
<1>4. NextPos \in Nat \ {0} /\ pos[m] < NextPos
  BY <1>1, <1>2, <1>3, PlaceTaken DEF Appends, MsgsInv
<1>5. pos'[m] = NextPos /\ pos'[call[p].msg] = NextPos
      /\ \A k \in Msgs : k # call[p].msg => pos'[k] = pos[k]
  BY <1>1, <1>2, <1>3 DEF AppendLine, AppendPart, LogTypeOK, Appends
<1>6. m = call[p].msg
  BY <1>1, <1>4, <1>5
<1> QED
  BY <1>3, <1>6

(* What the log holds of a message it keeps, readable or not.              *)
LEMMA LogKept ==
  ASSUME BusInv, MsgsInv, [Next]_vars
  PROVE  /\ \A m \in Msgs : pos[m] # 0 => pos'[m] = pos[m] /\ (m \in readable' <=> m \in readable)
         /\ \A m \in acked : m \in readable' <=> m \in readable
<1>1. LogTypeOK /\ acked \subseteq Msgs
  BY DEF BusInv, BusTyped, LogsTyped
<1>2. ASSUME NEW m \in Msgs, pos[m] = 0, m \notin acked, AppendLine(m) \/ AppendPart(m)
      PROVE  \A k \in Msgs : k # m => pos'[k] = pos[k] /\ (k \in readable' <=> k \in readable)
  BY <1>1, <1>2 DEF AppendLine, AppendPart, LogTypeOK
<1> QED
  BY <1>1, <1>2, LogWrite

LEMMA UndamagedBefore ==
  ASSUME BusInv, MsgsInv, [Next]_vars, Undamaged'
  PROVE  Undamaged /\ crashes' = crashes /\ Logged \subseteq Logged'
<1>1. crashes \in Nat /\ crashes' = 0 /\ \A m \in Msgs : pos'[m] # 0 => m \in readable'
  BY DEF BusInv, LogsTyped, Undamaged
<1>2. crashes' = crashes /\ crashes = 0
  BY <1>1, TearsCounted
<1>3. \A m \in Msgs : pos[m] # 0 => pos'[m] # 0 /\ m \in readable
  BY <1>1, LogKept
<1> QED
  BY <1>2, <1>3 DEF Undamaged, Logged

(* What the tools do to the mailboxes of the map.                          *)
LEMMA UnreadSet ==
  ASSUME NEW r \in [Names -> Entry], NEW n \in Names, NEW U \in SUBSET Msgs
  PROVE  /\ [r EXCEPT ![n].unread = U] \in [Names -> Entry]
         /\ [r EXCEPT ![n].unread = U][n].unread = U
         /\ \A k \in Names : k # n => [r EXCEPT ![n].unread = U][k] = r[k]
<1>1. r[n] \in Entry
  OBVIOUS
<1>2. [r[n] EXCEPT !.unread = U] \in Entry /\ [r[n] EXCEPT !.unread = U].unread = U
  BY <1>1 DEF Entry
<1> QED
  BY <1>2

LEMMA IdleSet ==
  ASSUME NEW r \in [Names -> Entry], NEW n \in Names, NEW b \in BOOLEAN
  PROVE  /\ [r EXCEPT ![n].idle = b] \in [Names -> Entry]
         /\ \A k \in Names : [r EXCEPT ![n].idle = b][k].unread = r[k].unread
<1>1. r[n] \in Entry
  OBVIOUS
<1>2. [r[n] EXCEPT !.idle = b] \in Entry /\ [r[n] EXCEPT !.idle = b].unread = r[n].unread
  BY <1>1 DEF Entry
<1> QED
  BY <1>2

LEMMA TouchedSet ==
  ASSUME NEW r \in [Names -> Entry], NEW n \in Names
  PROVE  /\ Touched(r, n) \in [Names -> Entry]
         /\ \A k \in Names : Touched(r, n)[k].unread = r[k].unread
  BY IdleSet DEF Touched

LEMMA BoxFacts ==
  ASSUME BusInv
  PROVE  /\ reg \in [Names -> Entry] /\ call \in [Procs -> KeptCall]
         /\ stage \in [Procs -> {"none", "open", "write", "rename", "chmod", "ok", "failed"}]
         /\ \A p \in Procs : call[p] = NoCall => ~Persisting(p)
         /\ \A p \in Procs : call[p].op # "none" => Target(p) \in Names
         /\ \A p \in Procs : Target(p) = IF call[p].op = "send" THEN call[p].to ELSE call[p].me
<1>1. ASSUME NEW p \in Procs, call[p].op # "none"
      PROVE  Target(p) \in Names
  BY <1>1, KeptCallFields DEF BusInv, BusTyped, Target
<1> QED
  BY <1>1, CallLocks DEF BusInv, BusTyped, FileTypeOK, Kept, Persisting, Target

(* Steps that leave what is pending, and every mailbox, alone.             *)
LEMMA QuietStep ==
  ASSUME BusInv,
         \/ \E p \in Procs : \/ NewCall(p) \/ LockStep(p) \/ FileStep(p)
                             \/ RegisterReject(p) \/ SendRefuse(p) \/ ReadFail(p)
         \/ \E n \in Names : SendInvalid(n) \/ GoIdle(n)
         \/ UNCHANGED vars
  PROVE  Quiet /\ up' = up
<1>0. reg \in [Names -> Entry] /\ call \in [Procs -> KeptCall]
      /\ \A p \in Procs : call[p] = NoCall => ~Persisting(p)
  BY BoxFacts
<1>1. ASSUME NEW p \in Procs, UNCHANGED stage, ~Persisting(p),
             \A q \in Procs : q # p => call'[q] = call[q]
      PROVE  \A q \in Procs : /\ Persisting(q)' <=> Persisting(q)
                              /\ Persisting(q) => call'[q] = call[q]
  BY <1>1 DEF Persisting
<1>2. ASSUME NEW p \in Procs, NewCall(p) PROVE Quiet /\ up' = up
  <2>1. UNCHANGED <<stage, up, acked, delivered, discarded>> /\ call[p] = NoCall
    BY <1>2 DEF NewCall, RegisterCall, SendCall, ReadCall, fileVars, history
  <2>2. \A q \in Procs : q # p => call'[q] = call[q]
    BY <1>0, <1>2 DEF NewCall, RegisterCall, SendCall, ReadCall
  <2>3. reg' = reg \/ \E n \in Names : reg' = Touched(reg, n)
    BY <1>2 DEF NewCall, RegisterCall, SendCall, ReadCall
  <2>4. \A n \in Names : reg'[n].unread = reg[n].unread
    BY <1>0, <2>3, TouchedSet
  <2>5. ~Persisting(p) /\ UNCHANGED stage
    BY <1>0, <2>1
  <2>6. \A q \in Procs : /\ Persisting(q)' <=> Persisting(q)
                         /\ Persisting(q) => call'[q] = call[q]
    BY <1>1, <2>2, <2>5
  <2>7. Silent /\ up' = up
    BY <2>1 DEF Silent
  <2> QED
    BY <2>4, <2>6, <2>7 DEF Quiet, Persisting
<1>3. ASSUME NEW p \in Procs, RegisterReject(p) \/ SendRefuse(p) \/ ReadFail(p)
      PROVE  Quiet /\ up' = up
  <2>1. /\ UNCHANGED <<stage, reg, up, acked, delivered, discarded>> /\ ~Persisting(p)
        /\ call' = [call EXCEPT ![p] = NoCall]
    BY <1>3 DEF RegisterReject, SendRefuse, ReadFail, Answer, fileVars, history, Persisting
  <2>2. ~Persisting(p) /\ UNCHANGED stage /\ \A q \in Procs : q # p => call'[q] = call[q]
    BY <1>0, <2>1
  <2>3. \A q \in Procs : /\ Persisting(q)' <=> Persisting(q)
                         /\ Persisting(q) => call'[q] = call[q]
    BY <1>1, <2>2
  <2>4. Silent /\ up' = up /\ reg' = reg
    BY <2>1 DEF Silent
  <2> QED
    BY <2>3, <2>4 DEF Quiet, Persisting
<1>4. ASSUME NEW p \in Procs, LockStep(p) \/ FileStep(p) PROVE Quiet /\ up' = up
  <2>1. UNCHANGED <<call, reg, up, acked, delivered, discarded>>
    BY <1>4 DEF LockStep, FileStep, busVars, history
  <2>2. \A q \in Procs : Persisting(q)' <=> Persisting(q)
    BY <1>4, PersistStepTyped DEF LockStep, FileStep, fileVars, Persisting, BusInv, BusTyped
  <2> QED
    BY <2>1, <2>2 DEF Quiet, Silent
<1>5. ASSUME NEW n \in Names, SendInvalid(n) \/ GoIdle(n) PROVE Quiet /\ up' = up
  <2>1. UNCHANGED <<call, stage, up, acked, delivered, discarded>>
    BY <1>5 DEF SendInvalid, GoIdle, fileVars, history
  <2>2. reg' = Touched(reg, n) \/ reg' = [reg EXCEPT ![n].idle = TRUE]
    BY <1>5 DEF SendInvalid, GoIdle
  <2>3. \A k \in Names : /\ Touched(reg, n)[k].unread = reg[k].unread
                         /\ [reg EXCEPT ![n].idle = TRUE][k].unread = reg[k].unread
    <3>1. TRUE \in BOOLEAN
      OBVIOUS
    <3> QED
      BY <1>0, <3>1, TouchedSet, IdleSet
  <2> QED
    BY <2>1, <2>2, <2>3 DEF Quiet, Silent, Persisting
<1>6. CASE UNCHANGED vars
  BY <1>6 DEF vars, fileVars, busVars, history, Quiet, Silent, Persisting
<1> QED
  BY <1>2, <1>3, <1>4, <1>5, <1>6

(* p commits: what it takes out of its target's mailbox, or adds to it.    *)
Takes(p) ==
  LET t   == Target(p)
      old == reg[t].unread
  IN
  /\ ~Persisting(p) /\ Persisting(p)' /\ Inside(p) /\ call[p].op # "none"
  /\ t \in Names /\ Target(p)' = t
  /\ call'[p].op = call[p].op /\ call'[p].msg = call[p].msg
  /\ call'[p].snap = reg[t]
  /\ Others(p) /\ OtherBoxes(t) /\ Silent
  /\ \/ /\ call[p].op = "register"
        /\ reg'[t].unread = old \/ reg'[t].unread = {}
        /\ UNCHANGED <<pos, readable>>
     \/ /\ call[p].op = "send"
        /\ reg'[t].unread = old \cup {call[p].msg}
        /\ call[p].msg \in Logged'
     \/ /\ call[p].op = "read"
        /\ call'[p].out = Drained(old \cap readable)
        /\ reg'[t].unread = (old \cap readable) \ Drained(old \cap readable)
        /\ UNCHANGED <<pos, readable>>

LEMMA CommitTakes ==
  ASSUME BusInv, NEW p \in Procs,
         RegisterCommit(p) \/ SendCommit(p) \/ ReadCommit(p)
  PROVE  Takes(p) /\ up' = up
<1> DEFINE t == Target(p)
           old == reg[t].unread
<1>0. /\ reg \in [Names -> Entry] /\ call \in [Procs -> KeptCall] /\ call[p] \in KeptCall
      /\ stage \in [Procs -> {"none", "open", "write", "rename", "chmod", "ok", "failed"}]
      /\ t = (IF call[p].op = "send" THEN call[p].to ELSE call[p].me)
  BY BoxFacts
<1>1. call[p].op # "none" /\ ~Persisting(p) /\ Inside(p) /\ t \in Names
      /\ old \in SUBSET Msgs /\ call[p].me \in Names
  <2>1. call[p].op # "none" /\ ~Persisting(p) /\ Inside(p)
    BY DEF RegisterCommit, SendCommit, ReadCommit, Persisting
  <2>2. t \in Names /\ call[p].me \in Names
    BY <1>0, <2>1, BoxFacts, KeptCallFields
  <2>3. reg[t] \in Entry
    BY <1>0, <2>2
  <2> QED
    BY <2>1, <2>2, <2>3 DEF Entry
<1>2. stage' = [stage EXCEPT ![p] = "open"] /\ Silent /\ up' = up
  BY DEF RegisterCommit, SendCommit, ReadCommit, StartPersist, history, Silent
<1>3. CASE RegisterCommit(p)
  <2>1. /\ call' = [call EXCEPT ![p].snap = reg[t]] /\ call[p].op = "register"
        /\ reg' = [reg EXCEPT ![t] = Registered(@, call[p].pane)]
        /\ UNCHANGED <<pos, readable>>
    BY <1>0, <1>3 DEF RegisterCommit, logVars
  <2>2. /\ call'[p].op = "register" /\ call'[p].me = t /\ call'[p].snap = reg[t]
        /\ call'[p].msg = call[p].msg
        /\ \A q \in Procs : q # p => call'[q] = call[q] /\ stage'[q] = stage[q]
        /\ stage'[p] = "open"
    BY <1>0, <1>2, <2>1 DEF KeptCall, Call, NoCall, Started
  <2>3. /\ \A k \in Names : k # t => reg'[k] = reg[k]
        /\ reg'[t].unread = old \/ reg'[t].unread = {}
    BY <1>0, <1>1, <2>1 DEF Registered
  <2>4. Target(p)' = t
    BY <2>2 DEF Target
  <2> QED
    BY <1>1, <1>2, <2>1, <2>2, <2>3, <2>4 DEF Takes, Others, OtherBoxes, Persisting
<1>4. CASE SendCommit(p)
  <2> DEFINE m == call[p].msg
             n == call[p].me
             r == [reg EXCEPT ![t].unread = old \cup {m}]
  <2>1. /\ call' = [call EXCEPT ![p].snap = reg[t]] /\ call[p].op = "send" /\ t = call[p].to
        /\ reg' = Touched(Touched(r, n), t)
        /\ m \in Msgs
    BY <1>0, <1>4, KeptCallFields DEF SendCommit
  <2>2. /\ call'[p].op = "send" /\ call'[p].to = t /\ call'[p].snap = reg[t] /\ call'[p].msg = m
        /\ \A q \in Procs : q # p => call'[q] = call[q] /\ stage'[q] = stage[q]
        /\ stage'[p] = "open"
    BY <1>0, <1>2, <2>1 DEF KeptCall, Call, NoCall, Started
  <2>3. /\ r \in [Names -> Entry] /\ r[t].unread = old \cup {m}
        /\ \A k \in Names : k # t => r[k] = reg[k]
    <3> DEFINE U == old \cup {m}
    <3>1. U \in SUBSET Msgs /\ t \in Names /\ reg \in [Names -> Entry]
      BY <1>0, <1>1, <2>1
    <3> HIDE DEF t, U
    <3>2. /\ [reg EXCEPT ![t].unread = U] \in [Names -> Entry]
          /\ [reg EXCEPT ![t].unread = U][t].unread = U
          /\ \A k \in Names : k # t => [reg EXCEPT ![t].unread = U][k] = reg[k]
      BY <3>1, UnreadSet
    <3> QED
      BY <3>2 DEF U
  <2>4. \A k \in Names : reg'[k].unread = r[k].unread
    <3> HIDE DEF r, t, n
    <3>1. Touched(r, n) \in [Names -> Entry]
          /\ \A k \in Names : Touched(r, n)[k].unread = r[k].unread
      BY <1>1, <2>3, TouchedSet DEF n
    <3> QED
      BY <1>1, <2>1, <3>1, TouchedSet
  <2>5. m \in Logged'
    <3>1. NextPos \in Nat \ {0}
      BY ConstantFacts DEF NextPos
    <3>2. pos'[m] = NextPos
      BY <1>4, <2>1 DEF SendCommit, AppendLine, AppendPart, BusInv, BusTyped, LogTypeOK
    <3> QED
      BY <2>1, <3>1, <3>2 DEF Logged
  <2> HIDE DEF r, m
  <2>6. Target(p)' = t
    BY <2>2 DEF Target
  <2>7. reg'[t].unread = old \cup {m}
    BY <1>1, <2>3, <2>4
  <2> QED
    BY <1>1, <1>2, <2>1, <2>2, <2>3, <2>4, <2>5, <2>6, <2>7
       DEF Takes, Others, OtherBoxes, Persisting, m
<1>5. CASE ReadCommit(p)
  <2> DEFINE B == Drained(old \cap readable)
             U == (old \cap readable) \ B
             r == [reg EXCEPT ![t].unread = U]
  <2>1. /\ call[p].op = "read" /\ t = call[p].me
        /\ call' = [call EXCEPT ![p].snap = reg[t], ![p].out = B]
        /\ reg' = Touched(r, t) /\ UNCHANGED <<pos, readable>>
    BY <1>0, <1>5 DEF ReadCommit, logVars
  <2>2. U \in SUBSET Msgs
    BY <1>1
  <2>3. /\ r \in [Names -> Entry] /\ r[t].unread = U
        /\ \A k \in Names : k # t => r[k] = reg[k]
    <3> HIDE DEF t, U
    <3> QED
      BY <1>0, <1>1, <2>2, UnreadSet
  <2> HIDE DEF B
  <2>4. /\ call'[p].op = "read" /\ call'[p].me = t /\ call'[p].snap = reg[t] /\ call'[p].out = B
        /\ call'[p].msg = call[p].msg
        /\ \A q \in Procs : q # p => call'[q] = call[q] /\ stage'[q] = stage[q]
        /\ stage'[p] = "open"
    BY <1>0, <1>2, <2>1 DEF KeptCall, Call, NoCall, Started
  <2>5. \A k \in Names : reg'[k].unread = r[k].unread
    <3> HIDE DEF r, t
    <3> QED
      BY <1>1, <2>1, <2>3, TouchedSet
  <2> HIDE DEF r
  <2>6. Target(p)' = t
    BY <2>4 DEF Target
  <2>7. reg'[t].unread = U
    BY <1>1, <2>3, <2>5
  <2> QED
    BY <1>1, <1>2, <2>1, <2>3, <2>4, <2>5, <2>6, <2>7
       DEF Takes, Others, OtherBoxes, Persisting, B
<1> QED
  BY <1>2, <1>3, <1>4, <1>5

LEMMA CommitStep ==
  ASSUME BusInv, Undamaged, Boxes, MsgsInv, Logged \subseteq Logged', NEW p \in Procs,
         RegisterCommit(p) \/ SendCommit(p) \/ ReadCommit(p)
  PROVE  Commits(p) /\ up' = up
<1> DEFINE t == Target(p)
           old == reg[t].unread
           B == Drained(old)
<1>1. Takes(p) /\ up' = up
  BY CommitTakes
<1>2. t \in Names /\ old \subseteq Logged /\ Logged \subseteq Msgs /\ old \cap readable = old
  BY <1>1, UndamagedBox DEF Takes, Boxes, Logged
<1>3. /\ B \subseteq old /\ M!LeavesNoOlder(B, old)
      /\ old # {} => B # {} /\ M!Fits(B)
  <2>1. Placed(old) /\ old \in SUBSET Msgs
    BY <1>2 DEF Placed, MsgsInv, Logged
  <2> HIDE DEF old
  <2> QED
    BY <2>1, DrainedBatch DEF BusInv, BusTyped
<1>4. /\ Target(p)' = t /\ call'[p].op = call[p].op /\ call'[p].msg = call[p].msg
      /\ call'[p].snap = reg[t]
      /\ \/ call[p].op = "register" /\ (reg'[t].unread = old \/ reg'[t].unread = {})
         \/ call[p].op = "send" /\ reg'[t].unread = old \cup {call[p].msg}
                                /\ call[p].msg \in Logged'
         \/ call[p].op = "read" /\ call'[p].out = B /\ reg'[t].unread = old \ B
  BY <1>1, <1>2 DEF Takes
<1> HIDE DEF B, old, t
<1>5. Pending(p)' /\ reg'[t].unread \subseteq Logged'
  BY <1>2, <1>3, <1>4 DEF Pending, old
<1> QED
  BY <1>1, <1>5 DEF Commits, Starts, Takes, t

LEMMA ReturnStep ==
  ASSUME BusInv, NEW p \in Procs,
         RegisterReturn(p) \/ SendReturn(p) \/ ReadReturn(p)
  PROVE  Returns(p) /\ up' = up
<1> DEFINE t == Target(p)
           old == call[p].snap.unread
<1>0. /\ reg \in [Names -> Entry] /\ call \in [Procs -> KeptCall] /\ call[p] \in KeptCall
      /\ stage \in [Procs -> {"none", "open", "write", "rename", "chmod", "ok", "failed"}]
      /\ t = (IF call[p].op = "send" THEN call[p].to ELSE call[p].me)
  BY BoxFacts
<1>1. call[p].op # "none" /\ t \in Names
  <2>1. call[p].op # "none"
    BY DEF RegisterReturn, SendReturn, ReadReturn
  <2> QED
    BY <2>1, BoxFacts
<1>2. /\ Persisting(p) /\ up' = up
      /\ stage' = [stage EXCEPT ![p] = "none"] /\ call' = [call EXCEPT ![p] = NoCall]
  BY DEF RegisterReturn, SendReturn, ReadReturn, EndPersist, Answer, Persisting
<1>3. ~Persisting(p)' /\ Others(p)
  BY <1>0, <1>2 DEF Persisting, Others
<1>4. call[p].snap \in Entry /\ old \in SUBSET Msgs
  BY <1>0, KeptCallFields, KeptFields
<1>5. CASE RegisterReturn(p)
  <2>1. call[p].op = "register" /\ t = call[p].me
    BY <1>0, <1>5 DEF RegisterReturn
  <2>2. CASE stage[p] = "ok"
    <3>1. reg' = reg /\ discarded' = discarded \cup (old \ reg[t].unread)
          /\ UNCHANGED <<acked, delivered>>
      BY <1>5, <2>1, <2>2 DEF RegisterReturn
    <3> QED
      BY <1>1, <1>2, <1>3, <2>1, <3>1 DEF Returns, OtherBoxes
  <2>3. CASE stage[p] # "ok"
    <3>1. reg' = [reg EXCEPT ![t] = call[p].snap] /\ UNCHANGED <<acked, delivered, discarded>>
      BY <1>5, <2>1, <2>3 DEF RegisterReturn
    <3>2. reg'[t].unread = old /\ OtherBoxes(t)
      BY <1>0, <1>1, <3>1 DEF OtherBoxes
    <3> QED
      BY <1>1, <1>2, <1>3, <3>1, <3>2 DEF Returns, Silent
  <2> QED
    BY <2>2, <2>3
<1>6. CASE SendReturn(p) \/ ReadReturn(p)
  <2>1. call[p].op \in {"send", "read"}
    BY <1>6 DEF SendReturn, ReadReturn
  <2>2. CASE stage[p] = "ok"
    <3>1. /\ reg' = reg /\ discarded' = discarded
          /\ \/ call[p].op = "send" /\ acked' = acked \cup {call[p].msg} /\ UNCHANGED delivered
             \/ call[p].op = "read" /\ delivered' = delivered \cup call[p].out /\ UNCHANGED acked
      BY <1>6, <2>2 DEF SendReturn, ReadReturn
    <3> QED
      BY <1>1, <1>2, <1>3, <3>1 DEF Returns, OtherBoxes
  <2>3. CASE stage[p] # "ok"
    <3>1. reg' = [reg EXCEPT ![t].unread = old] /\ UNCHANGED <<acked, delivered, discarded>>
      BY <1>0, <1>6, <2>3 DEF SendReturn, ReadReturn
    <3>2. reg'[t].unread = old /\ OtherBoxes(t)
      <4> HIDE DEF t, old
      <4> QED
        BY <1>0, <1>1, <1>4, <3>1, UnreadSet DEF OtherBoxes
    <3> QED
      BY <1>1, <1>2, <1>3, <3>1, <3>2 DEF Returns, Silent
  <2> QED
    BY <2>2, <2>3
<1> QED
  BY <1>2, <1>5, <1>6

LEMMA BoxStep ==
  ASSUME BusInv, BusInv', MsgsInv, BoxInv, [Next]_vars, Undamaged'
  PROVE  /\ Undamaged /\ Boxes /\ up' /\ Logged \subseteq Logged'
         /\ Quiet \/ \E p \in Procs : Commits(p) \/ Returns(p)
<1>1. Undamaged /\ crashes' = crashes /\ crashes \in Nat /\ Logged \subseteq Logged'
  BY UndamagedBefore DEF BusInv, LogsTyped
<1>2. Boxes /\ up
  BY <1>1 DEF BoxInv, Boxes
<1>3. ~Crash /\ ~Restart
  BY <1>1, <1>2 DEF Crash, Restart
<1>4. ASSUME NEW p \in Procs, RegisterCommit(p) \/ SendCommit(p) \/ ReadCommit(p)
      PROVE  Commits(p) /\ up' = up
  BY <1>1, <1>2, <1>4, CommitStep
<1> QED
  BY <1>1, <1>2, <1>3, <1>4, ReturnStep, QuietStep DEF Next, CallStep

(* The calls that are pending next, and what they wait to answer.          *)
LEMMA BoxesPreserved ==
  ASSUME BusInv, BusInv', MsgsInv, BoxInv, OneWriter, OneWriter', [Next]_vars
  PROVE  BoxInv'
<1> SUFFICES ASSUME Undamaged' PROVE Boxes'
  BY DEF BoxInv
<1>1. /\ Boxes /\ up' /\ Logged \subseteq Logged'
      /\ Quiet \/ \E p \in Procs : Commits(p) \/ Returns(p)
  BY BoxStep
<1>2. ASSUME NEW q \in Procs, Persisting(q)
      PROVE  Pending(q) /\ Target(q) \in Names /\ call[q].snap.unread \subseteq Logged
             /\ reg[Target(q)].unread \subseteq Logged
  <2>1. Target(q) \in Names
    BY <1>2, CallLocks, BoxFacts DEF BusInv, Persisting
  <2> QED
    BY <1>1, <1>2, <2>1 DEF Boxes, Pending
<1>3. ASSUME NEW q \in Procs, Persisting(q), call'[q] = call[q],
             reg'[Target(q)].unread = reg[Target(q)].unread
      PROVE  Pending(q)'
  <2>1. Target(q)' = Target(q)
    BY <1>3 DEF Target
  <2> QED
    BY <1>1, <1>2, <1>3, <2>1 DEF Pending
<1>4. CASE Quiet
  <2>1. \A n \in Names : reg'[n].unread \subseteq Logged'
    BY <1>1, <1>4 DEF Quiet, Boxes
  <2>2. ASSUME NEW q \in Procs, Persisting(q)' PROVE Pending(q)'
    <3>1. Persisting(q) /\ call'[q] = call[q]
      BY <1>4, <2>2 DEF Quiet, Persisting
    <3> QED
      BY <1>2, <1>3, <1>4, <3>1 DEF Quiet
  <2> QED
    BY <1>1, <2>1, <2>2 DEF Boxes
<1>5. ASSUME NEW p \in Procs, Commits(p)
      PROVE  Boxes'
  <2>1. \A n \in Names : reg'[n].unread \subseteq Logged'
    BY <1>1, <1>5 DEF Commits, Starts, OtherBoxes, Boxes
  <2>2. ASSUME NEW q \in Procs, q # p, Persisting(q)' PROVE Pending(q)'
    <3>1. Persisting(q) /\ call'[q] = call[q] /\ Target(q)' = Target(q)
      BY <1>5, <2>2 DEF Commits, Starts, Others, Persisting, Target
    <3>2. Target(q) # Target(p)
      BY <1>5, <2>2, <3>1 DEF Commits, Starts, OneWriter
    <3> QED
      BY <1>2, <1>3, <1>5, <3>1, <3>2 DEF Commits, Starts, OtherBoxes
  <2> QED
    BY <1>1, <1>5, <2>1, <2>2 DEF Boxes, Commits, Starts
<1>6. ASSUME NEW p \in Procs, Returns(p)
      PROVE  Boxes'
  <2>1. \A n \in Names : reg'[n].unread \subseteq Logged'
    BY <1>1, <1>2, <1>6 DEF Returns, OtherBoxes, Boxes
  <2>2. ASSUME NEW q \in Procs, Persisting(q)' PROVE Pending(q)'
    <3>1. q # p /\ Persisting(q) /\ call'[q] = call[q]
      BY <1>6, <2>2 DEF Returns, Others, Persisting
    <3>2. Target(q) # Target(p)
      BY <1>6, <3>1 DEF Returns, OneWriter
    <3> QED
      BY <1>2, <1>3, <1>6, <3>1, <3>2 DEF Returns, OtherBoxes
  <2> QED
    BY <1>1, <2>1, <2>2 DEF Boxes
<1> QED
  BY <1>1, <1>4, <1>5, <1>6

-----------------------------------------------------------------------------
(* The refinement.                                                         *)

ShownRight ==
  \A n \in Names :
    /\ \A p \in Procs : Persisting(p) /\ Target(p) = n => Mailbox(n) = call[p].snap.unread
    /\ (\A p \in Procs : Persisting(p) => Target(p) # n) => Mailbox(n) = reg[n].unread

LEMMA MailboxShown == OneWriter => ShownRight
<1> SUFFICES ASSUME OneWriter, NEW n \in Names
             PROVE  /\ \A p \in Procs : Persisting(p) /\ Target(p) = n =>
                         Mailbox(n) = call[p].snap.unread
                    /\ (\A p \in Procs : Persisting(p) => Target(p) # n) =>
                         Mailbox(n) = reg[n].unread
  BY DEF ShownRight
<1>1. ASSUME NEW p \in Procs, Persisting(p), Target(p) = n
      PROVE  Mailbox(n) = call[p].snap.unread
  <2> DEFINE c == CHOOSE q \in Procs : Persisting(q) /\ Target(q) = n
  <2>1. c \in Procs /\ Persisting(c) /\ Target(c) = n
    BY <1>1
  <2>2. c = p
    <3> HIDE DEF c
    <3> QED
      BY <1>1, <2>1 DEF OneWriter
  <2> QED
    BY <1>1, <2>2 DEF Mailbox
<1>2. ASSUME \A p \in Procs : Persisting(p) => Target(p) # n
      PROVE  Mailbox(n) = reg[n].unread
  BY <1>2 DEF Mailbox
<1> QED
  BY <1>1, <1>2

LEMMA MailboxShownNext == OneWriter' => ShownRight'
  BY MailboxShown, PTL

(* A call that commits does not show; one that answers shows in its        *)
(* target's mailbox only.                                                  *)
LEMMA QuietBoxes ==
  ASSUME OneWriter, OneWriter', Quiet, NEW n \in Names
  PROVE  Mailbox(n)' = Mailbox(n)
<1>0. ShownRight /\ ShownRight'
  BY MailboxShown, MailboxShownNext
<1>1. \A p \in Procs : Persisting(p) => Target(p)' = Target(p) /\ call'[p] = call[p]
  BY DEF Quiet, Target
<1>2. \A p \in Procs : Persisting(p)' <=> Persisting(p)
  BY DEF Quiet
<1>3. CASE \E p \in Procs : Persisting(p) /\ Target(p) = n
  <2>1. PICK p \in Procs : Persisting(p) /\ Target(p) = n
    BY <1>3
  <2> QED
    BY <1>1, <1>2, <2>1, <1>0 DEF ShownRight
<1>4. CASE \A p \in Procs : Persisting(p) => Target(p) # n
  BY <1>1, <1>2, <1>4, <1>0 DEF ShownRight, Quiet
<1> QED
  BY <1>3, <1>4

LEMMA CommitBoxes ==
  ASSUME OneWriter, OneWriter', NEW p \in Procs, Starts(p), NEW n \in Names
  PROVE  Mailbox(n)' = Mailbox(n)
<1>0. ShownRight /\ ShownRight'
  BY MailboxShown, MailboxShownNext
<1>1. ASSUME NEW q \in Procs, q # p
      PROVE  call'[q] = call[q] /\ Target(q)' = Target(q) /\ (Persisting(q)' <=> Persisting(q))
  BY <1>1 DEF Starts, Others, Target
<1>2. ASSUME NEW q \in Procs, Persisting(q)
      PROVE  q # p /\ Target(q) # Target(p)
  <2>1. q # p
    BY <1>2 DEF Starts
  <2> QED
    BY <1>1, <1>2, <2>1 DEF Starts, OneWriter
<1>3. CASE n = Target(p)
  <2>1. Mailbox(n) = reg[n].unread
    BY <1>2, <1>3, <1>0 DEF ShownRight
  <2>2. Mailbox(n)' = call'[p].snap.unread
    BY <1>3, <1>0 DEF ShownRight, Starts
  <2> QED
    BY <1>3, <2>1, <2>2 DEF Starts
<1>4. CASE n # Target(p) /\ \E q \in Procs : Persisting(q) /\ Target(q) = n
  <2>1. PICK q \in Procs : Persisting(q) /\ Target(q) = n
    BY <1>4
  <2> QED
    BY <1>1, <1>2, <2>1, <1>0 DEF ShownRight
<1>5. CASE n # Target(p) /\ \A q \in Procs : Persisting(q) => Target(q) # n
  <2>1. \A q \in Procs : Persisting(q)' => Target(q)' # n
    BY <1>1, <1>5 DEF Starts
  <2> QED
    BY <1>5, <2>1, <1>0 DEF ShownRight, Starts, OtherBoxes
<1> QED
  BY <1>3, <1>4, <1>5

LEMMA ReturnBoxes ==
  ASSUME OneWriter, OneWriter', NEW p \in Procs, Returns(p), NEW n \in Names
  PROVE  /\ n # Target(p) => Mailbox(n)' = Mailbox(n)
         /\ n = Target(p) => /\ Mailbox(n) = call[p].snap.unread
                             /\ Mailbox(n)' = reg'[n].unread
<1>0. ShownRight /\ ShownRight'
  BY MailboxShown, MailboxShownNext
<1>1. ASSUME NEW q \in Procs, q # p
      PROVE  call'[q] = call[q] /\ Target(q)' = Target(q) /\ (Persisting(q)' <=> Persisting(q))
  BY <1>1 DEF Returns, Others, Target
<1>2. ASSUME NEW q \in Procs, Persisting(q)'
      PROVE  q # p /\ Target(q) # Target(p)
  <2>1. q # p
    BY <1>2 DEF Returns
  <2> QED
    BY <1>1, <1>2, <2>1 DEF Returns, OneWriter
<1>3. CASE n = Target(p)
  <2>1. Mailbox(n) = call[p].snap.unread
    BY <1>3, <1>0 DEF ShownRight, Returns
  <2>2. \A q \in Procs : Persisting(q)' => Target(q)' # n
    BY <1>1, <1>2, <1>3
  <2> QED
    BY <1>3, <2>1, <2>2, <1>0 DEF ShownRight
<1>4. CASE n # Target(p) /\ \E q \in Procs : Persisting(q) /\ Target(q) = n
  <2>1. PICK q \in Procs : Persisting(q) /\ Target(q) = n
    BY <1>4
  <2>2. q # p
    BY <1>4, <2>1
  <2> QED
    BY <1>1, <1>4, <2>1, <2>2, <1>0 DEF ShownRight
<1>5. CASE n # Target(p) /\ \A q \in Procs : Persisting(q) => Target(q) # n
  <2>1. \A q \in Procs : Persisting(q)' => Target(q)' # n
    BY <1>1, <1>2, <1>5
  <2> QED
    BY <1>5, <2>1, <1>0 DEF ShownRight, Returns, OtherBoxes
<1> QED
  BY <1>3, <1>4, <1>5

(* Every step of the tools is a step of the mailboxes, or shows nothing.   *)
LEMMA StepShows ==
  ASSUME BusInv, BusInv', MsgsInv, BoxInv, OneWriter, OneWriter', [Next]_vars, Undamaged'
  PROVE  M!Next \/ UNCHANGED M!mailVars
<1> DEFINE box == [n \in Names |-> Mailbox(n)]
           nextBox == [n \in Names |-> Mailbox(n)']
<1>1. Boxes /\ (Quiet \/ \E p \in Procs : Commits(p) \/ Returns(p))
  BY BoxStep
<1>2. ASSUME Quiet \/ \E p \in Procs : Commits(p)
      PROVE  UNCHANGED M!mailVars
  <2>1. nextBox = box
    BY <1>2, QuietBoxes, CommitBoxes DEF Commits
  <2>2. Silent
    BY <1>2 DEF Quiet, Commits, Starts
  <2> QED
    BY <2>1, <2>2 DEF M!mailVars, Silent
<1>3. ASSUME NEW p \in Procs, Returns(p)
      PROVE  M!Next \/ UNCHANGED M!mailVars
  <2> DEFINE t == Target(p)
             old == call[p].snap.unread
             new == reg[t].unread
  <2>1. /\ t \in Names /\ box[t] = old /\ nextBox = [box EXCEPT ![t] = reg'[t].unread]
        /\ Pending(p)
    BY <1>1, <1>3, ReturnBoxes DEF Returns, Boxes
  <2>2. CASE reg'[t].unread = old /\ Silent
    <3>1. nextBox = box
      BY <2>1, <2>2
    <3> QED
      BY <2>2, <3>1 DEF M!mailVars, Silent
  <2>3. CASE /\ call[p].op = "register" /\ reg'[t].unread = new
             /\ discarded' = discarded \cup (old \ new) /\ UNCHANGED <<acked, delivered>>
    <3>1. CASE new = old
      <4>1. nextBox = box /\ discarded' = discarded
        BY <2>1, <2>3, <3>1
      <4> QED
        BY <2>3, <4>1 DEF M!mailVars
    <3>2. CASE new = {}
      <4>1. nextBox = [box EXCEPT ![t] = {}] /\ discarded' = discarded \cup box[t]
        BY <2>1, <2>3, <3>2
      <4>2. M!Evict(t)
        BY <2>3, <4>1 DEF M!Evict
      <4> QED
        BY <2>1, <4>2 DEF M!Next
    <3> QED
      BY <2>1, <2>3, <3>1, <3>2 DEF Pending
  <2>4. CASE /\ call[p].op = "send" /\ reg'[t].unread = new
             /\ acked' = acked \cup {call[p].msg} /\ UNCHANGED <<delivered, discarded>>
    <3>1. call[p].msg \in Msgs /\ call[p].msg \notin acked
      BY <2>4, KeptCallFields DEF BusInv, BusTyped, MsgsInv, Sending
    <3>2. nextBox = [box EXCEPT ![t] = box[t] \cup {call[p].msg}]
      BY <2>1, <2>4 DEF Pending
    <3>3. M!Post(t, call[p].msg)
      BY <2>4, <3>1, <3>2 DEF M!Post
    <3> QED
      BY <2>1, <3>1, <3>3 DEF M!Next
  <2>5. CASE /\ call[p].op = "read" /\ reg'[t].unread = new
             /\ delivered' = delivered \cup call[p].out /\ UNCHANGED <<acked, discarded>>
    <3> DEFINE B == call[p].out
    <3>1. /\ B \in SUBSET box[t] /\ nextBox = [box EXCEPT ![t] = box[t] \ B]
          /\ box[t] # {} => B # {} /\ M!Fits(B)
          /\ M!LeavesNoOlder(B, box[t])
      BY <2>1, <2>5 DEF Pending
    <3>2. M!Collect(t)
      <4> HIDE DEF B
      <4> QED
        BY <2>5, <3>1 DEF M!Collect, B
    <3> QED
      BY <2>1, <3>2 DEF M!Next
  <2> QED
    BY <1>3, <2>2, <2>3, <2>4, <2>5 DEF Returns
<1> QED
  BY <1>1, <1>2, <1>3

MailInv == BusInv /\ MsgsInv /\ BoxInv

LEMMA MailInitially == Init => MailInv /\ M!Init
<1> SUFFICES ASSUME Init PROVE MailInv /\ M!Init
  OBVIOUS
<1>1. BusInv
  BY InvariantsInitially DEF BusInv
<1>2. NextPos = 1
  <2>1. {m \in Msgs : pos[m] # 0} = {}
    BY DEF Init
  <2> QED
    BY <2>1, FS_EmptySet DEF NextPos
<1>3. MsgsInv
  BY <1>2 DEF Init, MsgsInv, Sending, NoCall, Started
<1>4. BoxInv
  BY DEF Init, FileInit, BoxInv, Boxes, Persisting, NoEntry
<1>5. \A n \in Names : Mailbox(n) = {}
  BY DEF Init, FileInit, Mailbox, Persisting, NoEntry
<1> QED
  BY <1>1, <1>3, <1>4, <1>5 DEF MailInv, Init, M!Init

LEMMA MailInvAlways == Spec => [](MailInv /\ OneWriter)
<1>1. Init => MailInv
  BY MailInitially
<1>2. MailInv /\ OneWriter /\ OneWriter' /\ [Next]_vars => MailInv'
  BY BusInvPreserved, MsgsPreserved, BoxesPreserved DEF MailInv
<1> QED
  BY <1>1, <1>2, OneWriterAlways, PTL DEF Spec

(* Whatever the interleaving of calls, the faults and the evictions, until *)
(* a crash or a short write damages what the log holds, clients see the    *)
(* mailboxes of Mail: an acknowledged message waits until one read takes   *)
(* it, and a read takes a non-empty, bounded batch of the oldest.          *)
THEOREM MailUntilDamaged == Spec => MailWhileUndamaged
<1>1. Init => M!Init
  BY MailInitially
<1>2. /\ MailInv /\ OneWriter /\ MailInv' /\ OneWriter' /\ [Next]_vars
      => (Undamaged' => M!Next \/ UNCHANGED M!mailVars)
  BY StepShows DEF MailInv
<1> QED
  BY <1>1, <1>2, MailInvAlways, PTL DEF Spec, MailWhileUndamaged

LEMMA NothingDamages ==
  ASSUME MaxCrashes = 0, TornWrites = FALSE
  PROVE  Spec => []Undamaged
<1> DEFINE Intact == Undamaged /\ torn = FALSE
<1>1. Init => Intact
  BY DEF Init, Undamaged
<1>2. BusInv /\ Intact /\ [Next]_vars => Intact'
  <2> SUFFICES ASSUME BusInv, Intact, [Next]_vars PROVE Intact'
    OBVIOUS
  <2>1. /\ crashes = 0 /\ torn = FALSE /\ \A m \in Msgs : pos[m] # 0 => m \in readable
        /\ LogTypeOK
    BY DEF Undamaged, BusInv, BusTyped
  <2>2. ~Crash
    BY <2>1 DEF Crash
  <2>3. crashes' = crashes
    BY <2>2 DEF Next, NewCall, LockStep, CallStep, FileStep, RegisterCall, SendCall, ReadCall,
                RegisterReject, RegisterCommit, RegisterReturn, SendRefuse, SendCommit, SendReturn,
                ReadFail, ReadCommit, ReadReturn, SendInvalid, GoIdle, Restart, vars, busVars
  <2>4. CASE UNCHANGED <<pos, readable, torn>>
    BY <2>1, <2>3, <2>4 DEF Undamaged
  <2>5. ASSUME NEW m \in Msgs, AppendLine(m) PROVE Intact'
    BY <2>1, <2>3, <2>5 DEF Undamaged, AppendLine, LogTypeOK
  <2>6. ASSUME NEW m \in Msgs PROVE ~AppendPart(m)
    BY DEF AppendPart
  <2>7. crashes' # crashes + 1
    BY <2>1, <2>3
  <2>8. UNCHANGED <<pos, readable, torn>> \/ \E m \in Msgs : AppendLine(m)
    BY <2>6, <2>7, TearsCounted
  <2> HIDE DEF Intact
  <2> QED
    BY <2>4, <2>5, <2>8
<1> QED
  BY <1>1, <1>2, BusInvAlways, PTL DEF Spec

(* While the coordinator runs and its disk writes whole lines, the tools   *)
(* implement Mail.                                                         *)
THEOREM BusImplementsMail ==
  ASSUME MaxCrashes = 0, TornWrites = FALSE
  PROVE  Spec => ImplementsMail
<1>1. Init => M!Init
  BY MailInitially
<1>2. /\ MailInv /\ OneWriter /\ MailInv' /\ OneWriter' /\ Undamaged' /\ [Next]_vars
      => [M!Next]_M!mailVars
  BY StepShows DEF MailInv
<1> QED
  BY <1>1, <1>2, MailInvAlways, NothingDamages, PTL DEF Spec, ImplementsMail, M!Spec

-----------------------------------------------------------------------------
(* Addresses: a send delivers to whom it was addressed, and a message that *)
(* has been drawn keeps its recipient.                                     *)

AddressInv ==
  /\ \A p \in Procs : Sending(p) => addr[call[p].msg] = call[p].to
  /\ \A m \in acked : addr[m] \in Names

LEMMA AddressKept ==
  ASSUME BusInv, BusInv', MsgsInv, AddressInv, [Next]_vars
  PROVE  /\ AddressInv'
         /\ \A m \in Msgs : pos[m] # 0 \/ m \in acked => addr'[m] = addr[m]
<1>0. /\ LogTypeOK /\ nextMsg \in Nat /\ acked \subseteq Msgs
      /\ \A p \in Procs : Sending(p) =>
           call[p].msg \in Msgs /\ call[p].msg \in Nat /\ call[p].to \in Names
      /\ \A m \in Msgs : m \in Nat
  BY KeptCallFields DEF BusInv, BusTyped, LogsTyped, Sending, Msgs
<1>1. ASSUME UNCHANGED <<addr, acked>>, NEW P \in SUBSET Procs, SendsGoOn(P)
      PROVE  \A q \in P : Sending(q)' => addr'[call'[q].msg] = call'[q].to
  BY <1>1 DEF SendsGoOn, AddressInv
<1>2. CASE NoSend
  BY <1>1, <1>2 DEF NoSend, AddressInv
<1>3. ASSUME NEW p \in Procs, Draws(p)
      PROVE  /\ AddressInv'
             /\ \A m \in Msgs : pos[m] # 0 \/ m \in acked => addr'[m] = addr[m]
  <2>1. \A m \in Msgs : m < nextMsg => addr'[m] = addr[m]
    BY <1>0, <1>3 DEF Draws, LogTypeOK
  <2>2. \A m \in Msgs : pos[m] # 0 \/ m \in acked => addr'[m] = addr[m]
    BY <2>1 DEF MsgsInv
  <2>3. \A m \in acked' : addr'[m] \in Names
    BY <1>0, <1>3, <2>2 DEF Draws, AddressInv
  <2>4. ASSUME NEW q \in Procs, Sending(q)'
        PROVE  addr'[call'[q].msg] = call'[q].to
    <3>1. CASE q = p
      <4>1. nextMsg \in Msgs
        BY <1>3, <2>4, <3>1, KeptCallFields DEF Draws, BusInv, BusTyped, Sending
      <4> QED
        BY <1>0, <1>3, <3>1, <4>1 DEF Draws, LogTypeOK
    <3>2. CASE q # p
      <4>1. Sending(q) /\ call'[q].msg = call[q].msg /\ call'[q].to = call[q].to
        BY <1>3, <2>4, <3>2 DEF Draws, SendsGoOn
      <4>2. call[q].msg \in Msgs /\ call[q].msg < nextMsg
        BY <1>0, <4>1 DEF MsgsInv
      <4> QED
        BY <2>1, <4>1, <4>2 DEF AddressInv
    <3> QED
      BY <3>1, <3>2
  <2> QED
    BY <2>2, <2>3, <2>4 DEF AddressInv
<1>4. ASSUME NEW p \in Procs, Appends(p)
      PROVE  AddressInv'
  <2>1. \A q \in Procs : q # p /\ Sending(q)' => addr'[call'[q].msg] = call'[q].to
    BY <1>1, <1>4 DEF Appends
  <2>2. Sending(p)' => addr'[call'[p].msg] = call'[p].to
    BY <1>4 DEF Appends, AddressInv
  <2> QED
    BY <1>4, <2>1, <2>2 DEF Appends, AddressInv
<1>5. ASSUME NEW p \in Procs, Acknowledges(p)
      PROVE  AddressInv'
  <2>1. \A q \in Procs : Sending(q)' =>
          Sending(q) /\ call'[q].msg = call[q].msg /\ call'[q].to = call[q].to
    BY <1>5 DEF Acknowledges, SendsGoOn
  <2>2. addr[call[p].msg] \in Names
    BY <1>0, <1>5 DEF Acknowledges, AddressInv
  <2> QED
    BY <1>5, <2>1, <2>2 DEF Acknowledges, AddressInv
<1>6. NoSend \/ (\E p \in Procs : Appends(p) \/ Acknowledges(p)) => addr' = addr
  BY DEF NoSend, Appends, Acknowledges
<1> QED
  BY <1>2, <1>3, <1>4, <1>5, <1>6, LogStep

-----------------------------------------------------------------------------
(* The registry file.  Two persists under way at once meet in the one      *)
(* registry.json.tmp; where that never happens the file is as it should be.*)

OneAtATime ==
  \A p, q \in Procs : Persisting(p) /\ Persisting(q) => p = q

(* The lock of a single session name serialises its persists.  With two    *)
(* names nothing does: their calls hold different locks.                   *)
THEOREM OneNameOneAtATime ==
  ASSUME \A m, n \in Names : m = n
  PROVE  Spec => []OneAtATime
<1>1. ASSUME BusInv, NEW p \in Procs, NEW q \in Procs, Persisting(p), Persisting(q)
      PROVE  p = q
  <2>1. Inside(p) /\ Inside(q)
    BY <1>1, CallLocks DEF BusInv, Persisting
  <2>2. wants[p] \subseteq Names /\ wants[q] \subseteq Names
    BY <1>1 DEF BusInv, BusTyped, LockInv, LockTypeOK
  <2> QED
    BY <1>1, <2>1, <2>2, OneHolder DEF BusInv, BusTyped, Inside
<1>2. BusInv => OneAtATime
  BY <1>1 DEF OneAtATime
<1> QED
  BY <1>2, BusInvAlways, PTL

(* What load() would get back does not depend on lastSeenAt.               *)
LEMMA IdleOnDisk ==
  ASSUME NEW r \in [Names -> Entry], NEW n \in Names, NEW b
  PROVE  OnDisk([r EXCEPT ![n].idle = b]) = OnDisk(r)
<1>1. r[n] \in Entry
  OBVIOUS
<1>2. [[r[n] EXCEPT !.idle = b] EXCEPT !.tok = NoToken, !.idle = FALSE]
        = [r[n] EXCEPT !.tok = NoToken, !.idle = FALSE]
  BY <1>1 DEF Entry
<1>3. \A k \in Names : k # n => [r EXCEPT ![n].idle = b][k] = r[k]
  OBVIOUS
<1>4. [r EXCEPT ![n].idle = b][n] = [r[n] EXCEPT !.idle = b]
  OBVIOUS
<1>5. ASSUME NEW k \in Names
      PROVE  [[r EXCEPT ![n].idle = b][k] EXCEPT !.tok = NoToken, !.idle = FALSE]
               = [r[k] EXCEPT !.tok = NoToken, !.idle = FALSE]
  BY <1>2, <1>3, <1>4
<1> QED
  BY <1>5 DEF OnDisk

(* How far the one persist() under way has got, and what it has written.   *)
PersistInv ==
  /\ \A p \in Procs :
       /\ fd[p] = (IF stage[p] = "write" THEN "tmp" ELSE "none")
       /\ stage[p] = "write" => tmp = Empty
       /\ stage[p] = "rename" => tmp = Full(img[p])
       /\ stage[p] \in {"chmod", "ok"} => live = Full(img[p])
       /\ Persisting(p) => img[p] = OnDisk(reg)
       /\ stage[p] = "failed" => faults > 0
  /\ NeverPartial

FilesStay ==
  /\ UNCHANGED <<live, tmp, stage, fd, img>>
  /\ OnDisk(reg') = OnDisk(reg)
  /\ faults' = faults \/ faults' = faults + 1

LEMMA QuietFiles ==
  ASSUME BusInv,
         \/ \E p \in Procs : \/ NewCall(p) \/ LockStep(p)
                             \/ RegisterReject(p) \/ SendRefuse(p) \/ ReadFail(p)
         \/ \E n \in Names : SendInvalid(n) \/ GoIdle(n)
         \/ UNCHANGED vars
  PROVE  FilesStay
<1>1. UNCHANGED <<live, tmp, stage, fd, img>> /\ (faults' = faults \/ faults' = faults + 1)
  BY DEF NewCall, RegisterCall, SendCall, ReadCall, LockStep, RegisterReject, SendRefuse, ReadFail,
         SendInvalid, GoIdle, vars, fileVars, CanFail
<1>2. reg' = reg \/ \E n \in Names : reg' = Touched(reg, n) \/ reg' = [reg EXCEPT ![n].idle = TRUE]
  BY DEF NewCall, RegisterCall, SendCall, ReadCall, LockStep, RegisterReject, SendRefuse, ReadFail,
         SendInvalid, GoIdle, vars, busVars
<1>3. reg \in [Names -> Entry]
  BY BoxFacts
<1>4. ASSUME NEW n \in Names, reg' = Touched(reg, n)
      PROVE  OnDisk(reg') = OnDisk(reg)
  BY <1>3, <1>4, IdleOnDisk DEF Touched
<1>5. ASSUME NEW n \in Names, reg' = [reg EXCEPT ![n].idle = TRUE]
      PROVE  OnDisk(reg') = OnDisk(reg)
  BY <1>3, <1>5, IdleOnDisk
<1>6. OnDisk(reg') = OnDisk(reg)
  BY <1>2, <1>4, <1>5
<1> QED
  BY <1>1, <1>6 DEF FilesStay

LEMMA PersistKept ==
  ASSUME BusInv, OneAtATime, OneAtATime', PersistInv, [Next]_vars
  PROVE  PersistInv'
<1>0. /\ stage \in [Procs -> {"none", "open", "write", "rename", "chmod", "ok", "failed"}]
      /\ fd \in [Procs -> {"none", "tmp", "live", "unlinked"}]
      /\ img \in [Procs -> DiskImage \cup {NoImage}]
      /\ faults \in Nat
  BY DEF BusInv, BusTyped, FileTypeOK
<1>1. CASE FilesStay
  BY <1>0, <1>1 DEF FilesStay, PersistInv, NeverPartial, Persisting
<1>2. ASSUME NEW p \in Procs, RegisterCommit(p) \/ SendCommit(p) \/ ReadCommit(p)
      PROVE  PersistInv'
  <2>1. /\ StartPersist(p, OnDisk(reg')) /\ Inside(p)
        /\ faults' = faults \/ faults' = faults + 1
    BY <1>2 DEF RegisterCommit, SendCommit, ReadCommit, CanFail
  <2>2. ASSUME NEW q \in Procs
        PROVE  /\ ~Persisting(q)
               /\ stage'[q] = IF q = p THEN "open" ELSE "none"
               /\ q = p => img'[q] = OnDisk(reg')
    <3>1. stage[p] = "none" /\ ~Persisting(p) /\ Persisting(p)'
      BY <1>0, <2>1 DEF StartPersist, Persisting
    <3>2. ~Persisting(q)
      <4>1. q # p /\ Persisting(q) => Persisting(q)'
        BY <1>0, <2>1 DEF StartPersist, Persisting
      <4> QED
        BY <3>1, <4>1 DEF OneAtATime
    <3> QED
      BY <1>0, <2>1, <3>2 DEF StartPersist, Persisting
  <2> QED
    BY <1>0, <2>1, <2>2 DEF PersistInv, NeverPartial, StartPersist, Persisting
<1>3. ASSUME NEW p \in Procs, RegisterReturn(p) \/ SendReturn(p) \/ ReadReturn(p)
      PROVE  PersistInv'
  <2>1. EndPersist(p)
    BY <1>3 DEF RegisterReturn, SendReturn, ReadReturn
  <2>2. ASSUME NEW q \in Procs PROVE stage'[q] = "none" /\ fd'[q] = "none"
    <3>1. stage'[q] = "none"
      BY <1>0, <2>1 DEF EndPersist, Persisting, OneAtATime
    <3>2. fd[q] = "none"
      BY <1>0, <2>1 DEF EndPersist, Persisting, PersistInv, OneAtATime
    <3> QED
      BY <2>1, <3>1, <3>2 DEF EndPersist
  <2> QED
    BY <2>1, <2>2 DEF PersistInv, NeverPartial, EndPersist, Persisting
<1>4. ASSUME NEW p \in Procs, FileStep(p)
      PROVE  PersistInv'
  <2>1. PersistStep(p) /\ reg' = reg
    BY <1>4 DEF FileStep, busVars
  <2>2. Persisting(p) /\ \A q \in Procs : q # p => stage[q] = "none" /\ fd[q] = "none"
    <3>1. Persisting(p)
      BY <2>1 DEF PersistStep, OpenTmp, WriteTmp, RenameTmp, RenameMissing, ChmodLive, PersistFault,
                  Persisting
    <3> QED
      BY <3>1 DEF Persisting, PersistInv, OneAtATime
  <2>3. img[p] = OnDisk(reg) /\ img' = img /\ OnDisk(reg') = OnDisk(reg)
    BY <2>1, <2>2 DEF PersistStep, OpenTmp, WriteTmp, RenameTmp, RenameMissing, ChmodLive,
                      PersistFault, PersistInv
  <2>4. CASE OpenTmp(p)
    BY <1>0, <2>2, <2>3, <2>4 DEF OpenTmp, PersistInv, NeverPartial, Persisting
  <2>5. CASE WriteTmp(p)
    <3>1. stage[p] = "write" /\ fd[p] = "tmp" /\ tmp = Empty
      BY <2>5 DEF WriteTmp, PersistInv
    <3>2. tmp' = Full(img[p]) /\ live' = live
      BY <2>5, <3>1 DEF WriteTmp, Overwrite
    <3> QED
      BY <1>0, <2>2, <2>3, <2>5, <3>2 DEF WriteTmp, PersistInv, NeverPartial, Persisting
  <2>6. CASE RenameTmp(p)
    <3>1. live' = Full(img[p]) /\ stage' = [stage EXCEPT ![p] = "chmod"]
      BY <2>6 DEF RenameTmp, PersistInv
    <3>2. \A q \in Procs : fd[q] = "none" /\ fd'[q] = "none"
      BY <2>2, <2>6 DEF RenameTmp, PersistInv, Followed
    <3> QED
      BY <1>0, <2>2, <2>3, <2>6, <3>1, <3>2
         DEF RenameTmp, PersistInv, NeverPartial, Persisting, Full
  <2>7. CASE RenameMissing(p)
    BY <2>7 DEF RenameMissing, PersistInv, Full, Absent
  <2>8. CASE ChmodLive(p)
    BY <1>0, <2>2, <2>3, <2>8 DEF ChmodLive, PersistInv, NeverPartial, Persisting
  <2>9. CASE PersistFault(p)
    <3>1. live' = live /\ faults' > 0
      BY <1>0, <2>9 DEF PersistFault, PersistInv
    <3> QED
      BY <1>0, <2>2, <2>3, <2>9, <3>1 DEF PersistFault, PersistInv, NeverPartial, Persisting
  <2> QED
    BY <2>1, <2>4, <2>5, <2>6, <2>7, <2>8, <2>9 DEF PersistStep
<1>5. CASE Crash
  BY <1>5 DEF Crash, LoseProcesses, PersistInv, NeverPartial, Persisting
<1>6. CASE Restart
  <2>1. \A p \in Procs : stage[p] = "none" /\ fd[p] = "none"
    BY <1>6, CallLocks DEF Restart, BusInv, DownIdle, PersistInv
  <2> QED
    BY <1>6, <2>1 DEF Restart, PersistInv, NeverPartial, Persisting, Full
<1> QED
  BY <1>1, <1>2, <1>3, <1>4, <1>5, <1>6, QuietFiles DEF Next, CallStep

-----------------------------------------------------------------------------
(* What registry.json holds of the sessions in memory.                     *)

Saved(e) == IF ReadsBack THEN [e EXCEPT !.tok = NoToken, !.idle = FALSE] ELSE NoEntry

LEMMA SavedOnDisk == \A r : OnDisk(r) = [n \in Names |-> Saved(r[n])]
  BY DEF OnDisk, Saved

(* What a rollback of p would leave to be saved.                           *)
RolledBack(p) == [OnDisk(reg) EXCEPT ![Target(p)] = Saved(call[p].snap)]

SavedInv ==
  up /\ faults = 0 /\ live # Absent =>
    /\ (\A p \in Procs : ~Persisting(p)) => live = Full(OnDisk(reg))
    /\ \A p \in Procs :
         stage[p] \in {"open", "write", "rename"} => live = Full(RolledBack(p))

(* A restart has happened only in a run that looks at the file.            *)
DownInv ==
  /\ ~up => crashes > 0
  /\ crashes <= MaxCrashes

LEMMA DownKept ==
  ASSUME BusInv, DownInv, [Next]_vars
  PROVE  DownInv'
<1>0. crashes \in Nat /\ MaxCrashes \in Nat
  BY BoundsAssumption DEF BusInv, LogsTyped
<1>1. CASE Crash
  BY <1>0, <1>1 DEF Crash, DownInv
<1>2. CASE Restart
  BY <1>0, <1>2 DEF Restart, DownInv
<1>3. CASE ~Crash /\ ~Restart
  <2>1. UNCHANGED <<up, crashes>>
    BY <1>3 DEF Next, NewCall, LockStep, CallStep, FileStep, RegisterCall, SendCall, ReadCall,
                RegisterReject, RegisterCommit, RegisterReturn, SendRefuse, SendCommit, SendReturn,
                ReadFail, ReadCommit, ReadReturn, SendInvalid, GoIdle, vars, busVars
  <2> QED
    BY <2>1 DEF DownInv
<1> QED
  BY <1>1, <1>2, <1>3

LEMMA SavedUnchanged ==
  ASSUME NEW e \in DiskEntry, ReadsBack
  PROVE  Saved(e) = e
<1>1. e \in Entry /\ e.tok = NoToken /\ e.idle = FALSE
  BY KeptFields DEF DiskEntry
<1> QED
  BY <1>1 DEF Saved, Entry

(* A commit changes, of what would be saved, its target only.              *)
LEMMA CommitSaves ==
  ASSUME BusInv, NEW p \in Procs,
         RegisterCommit(p) \/ SendCommit(p) \/ ReadCommit(p)
  PROVE  RolledBack(p)' = OnDisk(reg)
<1> DEFINE t == Target(p)
<1>0. /\ reg \in [Names -> Entry] /\ t \in Names /\ call[p].me \in Names
      /\ t = (IF call[p].op = "send" THEN call[p].to ELSE call[p].me)
      /\ Target(p)' = t /\ call'[p].snap = reg[t]
  <2>1. Takes(p)
    BY CommitTakes
  <2>2. call[p].op # "none" /\ call[p] \in KeptCall
    BY <2>1, BoxFacts DEF Takes
  <2> QED
    BY <2>1, <2>2, BoxFacts, KeptCallFields DEF Takes
<1>1. \A k \in Names : k # t => Saved(reg'[k]) = Saved(reg[k])
  <2>1. CASE RegisterCommit(p)
    BY <1>0, <2>1 DEF RegisterCommit
  <2>2. CASE ReadCommit(p)
    BY <1>0, <2>2 DEF ReadCommit, Touched
  <2>3. CASE SendCommit(p)
    <3> DEFINE n == call[p].me
               s == [reg EXCEPT ![t].unread = @ \cup {call[p].msg}]
    <3>1. t = call[p].to /\ reg' = Touched(Touched(s, n), t)
      BY <1>0, <2>3 DEF SendCommit
    <3>2. s \in [Names -> Entry] /\ \A k \in Names : k # t => s[k] = reg[k]
      <4> DEFINE U == reg[t].unread \cup {call[p].msg}
      <4>1. U \in SUBSET Msgs
        BY <1>0, <2>3, KeptCallFields, BoxFacts DEF Entry, SendCommit
      <4>2. s = [reg EXCEPT ![t].unread = U]
        OBVIOUS
      <4> HIDE DEF U, t, s
      <4> QED
        BY <1>0, <4>1, <4>2, UnreadSet
    <3>3. OnDisk(Touched(s, n)) = OnDisk(s)
      <4> HIDE DEF s
      <4> QED
        BY <1>0, <3>2, IdleOnDisk DEF Touched
    <3>4. \A k \in Names : k # t => reg'[k] = Touched(s, n)[k]
      <4> HIDE DEF s, t
      <4> QED
        BY <1>0, <3>1, <3>2, TouchedSet DEF Touched
    <3>5. \A k \in Names : Saved(Touched(s, n)[k]) = Saved(s[k])
      <4> HIDE DEF s
      <4> QED
        BY <3>3, SavedOnDisk
    <3> QED
      BY <3>2, <3>4, <3>5
  <2> QED
    BY <2>1, <2>2, <2>3
<1>2. RolledBack(p)' = [k \in Names |-> IF k = t THEN Saved(reg[t]) ELSE Saved(reg'[k])]
  BY <1>0, SavedOnDisk DEF RolledBack
<1> HIDE DEF t
<1> QED
  BY <1>0, <1>1, <1>2, SavedOnDisk

(* What a file operation does to the file, and which call it is of.        *)
LEMMA FileStepSaves ==
  ASSUME BusInv, OneAtATime, PersistInv, NEW p \in Procs, FileStep(p)
  PROVE  /\ Persisting(p) /\ Persisting(p)'
         /\ \A q \in Procs : q # p => ~Persisting(q) /\ ~Persisting(q)'
         /\ UNCHANGED <<reg, call, up, img>>
         /\ faults' = faults \/ faults' = faults + 1
         /\ \/ live' = live /\ stage'[p] \in {"write", "rename"}
                            /\ stage[p] \in {"open", "write"}
            \/ live' = Full(OnDisk(reg)) /\ stage'[p] = "chmod"
            \/ live' = live /\ stage'[p] = "ok" /\ stage[p] = "chmod"
            \/ live' = live /\ faults' = faults + 1 /\ stage'[p] = "failed"
<1>0. stage \in [Procs -> {"none", "open", "write", "rename", "chmod", "ok", "failed"}]
  BY BoxFacts
<1>1. PersistStep(p) /\ UNCHANGED <<reg, call, up>>
  BY DEF FileStep, busVars
<1>2. Persisting(p) /\ \A q \in Procs : q # p => ~Persisting(q)
  <2>1. Persisting(p)
    BY <1>1 DEF PersistStep, OpenTmp, WriteTmp, RenameTmp, RenameMissing, ChmodLive, PersistFault,
                Persisting
  <2> QED
    BY <2>1 DEF OneAtATime
<1>3. /\ \E s \in {"write", "rename", "chmod", "ok", "failed"} : stage' = [stage EXCEPT ![p] = s]
      /\ faults' = faults \/ faults' = faults + 1
      /\ img' = img
  BY <1>1 DEF PersistStep, OpenTmp, WriteTmp, RenameTmp, RenameMissing, ChmodLive, PersistFault
<1>4. Persisting(p)' /\ \A q \in Procs : q # p => ~Persisting(q)'
  BY <1>0, <1>2, <1>3 DEF Persisting
<1>5. /\ fd[p] = "live" => FALSE
      /\ stage[p] = "rename" => tmp = Full(img[p])
      /\ img[p] = OnDisk(reg)
  BY <1>2 DEF PersistInv
<1>6. \/ live' = live /\ stage'[p] \in {"write", "rename"} /\ stage[p] \in {"open", "write"}
      \/ live' = Full(OnDisk(reg)) /\ stage'[p] = "chmod"
      \/ live' = live /\ stage'[p] = "ok" /\ stage[p] = "chmod"
      \/ live' = live /\ faults' = faults + 1 /\ stage'[p] = "failed"
  <2>1. CASE OpenTmp(p)
    BY <1>0, <2>1 DEF OpenTmp
  <2>2. CASE WriteTmp(p)
    BY <1>0, <1>5, <2>2 DEF WriteTmp
  <2>3. CASE RenameTmp(p)
    BY <1>0, <1>5, <2>3 DEF RenameTmp
  <2>4. CASE RenameMissing(p)
    BY <1>5, <2>4 DEF RenameMissing, Full, Absent
  <2>5. CASE ChmodLive(p)
    BY <1>0, <2>5 DEF ChmodLive
  <2>6. CASE PersistFault(p)
    BY <1>0, <1>5, <2>6 DEF PersistFault
  <2> QED
    BY <1>1, <2>1, <2>2, <2>3, <2>4, <2>5, <2>6 DEF PersistStep
<1> QED
  BY <1>1, <1>2, <1>3, <1>4, <1>6

(* Every step, as the registry file sees it.                               *)
LEMMA FilesQuiet ==
  ASSUME BusInv,
         \/ \E p \in Procs : \/ NewCall(p) \/ LockStep(p)
                             \/ RegisterReject(p) \/ SendRefuse(p) \/ ReadFail(p)
         \/ \E n \in Names : SendInvalid(n) \/ GoIdle(n)
         \/ UNCHANGED vars
  PROVE  /\ UNCHANGED <<live, stage, img, up>>
         /\ OnDisk(reg') = OnDisk(reg)
         /\ faults' = faults \/ faults' = faults + 1
         /\ \A p \in Procs : Persisting(p) => RolledBack(p)' = RolledBack(p)
<1>1. FilesStay /\ Quiet /\ up' = up
  BY QuietFiles, QuietStep
<1>2. ASSUME NEW p \in Procs, Persisting(p)
      PROVE  RolledBack(p)' = RolledBack(p)
  <2>1. call'[p] = call[p] /\ Target(p)' = Target(p)
    BY <1>1, <1>2 DEF Quiet, Target
  <2> QED
    BY <1>1, <2>1 DEF RolledBack, FilesStay
<1> QED
  BY <1>1, <1>2 DEF FilesStay

LEMMA SavedKept ==
  ASSUME BusInv, BusInv', OneAtATime, OneAtATime', PersistInv, DownInv, SavedInv, [Next]_vars
  PROVE  SavedInv'
<1> SUFFICES ASSUME up', faults' = 0, live' # Absent
             PROVE  /\ (\A p \in Procs : ~Persisting(p)') => live' = Full(OnDisk(reg'))
                    /\ \A p \in Procs : stage'[p] \in {"open", "write", "rename"} =>
                         live' = Full(RolledBack(p)')
  BY DEF SavedInv
<1>0. /\ faults \in Nat
      /\ stage \in [Procs -> {"none", "open", "write", "rename", "chmod", "ok", "failed"}]
  BY BoxFacts DEF BusInv, BusTyped, FileTypeOK
<1>1. CASE \/ \E p \in Procs : \/ NewCall(p) \/ LockStep(p)
                               \/ RegisterReject(p) \/ SendRefuse(p) \/ ReadFail(p)
           \/ \E n \in Names : SendInvalid(n) \/ GoIdle(n)
           \/ UNCHANGED vars
  <2>1. /\ UNCHANGED <<live, stage, img, up>> /\ OnDisk(reg') = OnDisk(reg)
        /\ faults' = faults \/ faults' = faults + 1
        /\ \A p \in Procs : Persisting(p) => RolledBack(p)' = RolledBack(p)
    BY <1>1, FilesQuiet
  <2> QED
    BY <1>0, <2>1 DEF SavedInv, Persisting
<1>2. ASSUME NEW p \in Procs, RegisterCommit(p) \/ SendCommit(p) \/ ReadCommit(p)
      PROVE  /\ (\A q \in Procs : ~Persisting(q)') => live' = Full(OnDisk(reg'))
             /\ \A q \in Procs : stage'[q] \in {"open", "write", "rename"} =>
                  live' = Full(RolledBack(q)')
  <2>1. /\ StartPersist(p, OnDisk(reg')) /\ up' = up
        /\ faults' = faults \/ faults' = faults + 1
    BY <1>2 DEF RegisterCommit, SendCommit, ReadCommit, CanFail
  <2>2. stage'[p] = "open" /\ live' = live /\ \A q \in Procs : q # p => stage'[q] = stage[q]
    BY <1>0, <2>1 DEF StartPersist
  <2>3. ~Persisting(p) /\ \A q \in Procs : q # p => ~Persisting(q)
    BY <2>1, <2>2 DEF StartPersist, Persisting, OneAtATime
  <2>4. live = Full(OnDisk(reg))
    BY <1>0, <2>1, <2>2, <2>3 DEF SavedInv
  <2> QED
    BY <1>2, <2>2, <2>3, <2>4, CommitSaves DEF Persisting
<1>3. ASSUME NEW p \in Procs, RegisterReturn(p) \/ SendReturn(p) \/ ReadReturn(p)
      PROVE  /\ (\A q \in Procs : ~Persisting(q)') => live' = Full(OnDisk(reg'))
             /\ \A q \in Procs : stage'[q] \in {"open", "write", "rename"} =>
                  live' = Full(RolledBack(q)')
  <2>1. EndPersist(p)
    BY <1>3 DEF RegisterReturn, SendReturn, ReadReturn
  <2>2. faults = 0 /\ live' = live /\ stage[p] = "ok" /\ Persisting(p)
    BY <2>1 DEF EndPersist, PersistInv, Persisting
  <2>3. reg' = reg
    BY <1>3, <2>2 DEF RegisterReturn, SendReturn, ReadReturn
  <2>4. live = Full(OnDisk(reg))
    BY <2>2 DEF PersistInv
  <2>5. \A q \in Procs : stage'[q] = "none"
    BY <1>0, <2>1, <2>2 DEF EndPersist, OneAtATime, Persisting
  <2> QED
    BY <2>2, <2>3, <2>4, <2>5
<1>4. ASSUME NEW p \in Procs, FileStep(p)
      PROVE  /\ (\A q \in Procs : ~Persisting(q)') => live' = Full(OnDisk(reg'))
             /\ \A q \in Procs : stage'[q] \in {"open", "write", "rename"} =>
                  live' = Full(RolledBack(q)')
  <2>1. /\ Persisting(p) /\ Persisting(p)'
        /\ \A q \in Procs : q # p => ~Persisting(q)'
        /\ UNCHANGED <<reg, call, up>>
        /\ faults' = faults \/ faults' = faults + 1
        /\ \/ live' = live /\ stage'[p] \in {"write", "rename"} /\ stage[p] \in {"open", "write"}
           \/ live' = Full(OnDisk(reg)) /\ stage'[p] = "chmod"
           \/ live' = live /\ stage'[p] = "ok" /\ stage[p] = "chmod"
           \/ live' = live /\ faults' = faults + 1 /\ stage'[p] = "failed"
    BY <1>4, FileStepSaves
  <2>2. faults = 0 /\ up
    BY <1>0, <2>1
  <2>3. RolledBack(p)' = RolledBack(p)
    BY <2>1 DEF RolledBack, OnDisk, Target
  <2>4. stage'[p] \in {"open", "write", "rename"} => live' = Full(RolledBack(p)')
    BY <2>1, <2>2, <2>3 DEF SavedInv
  <2> QED
    BY <2>1, <2>4 DEF Persisting
<1>5. CASE Crash
  BY <1>5 DEF Crash
<1>6. CASE Restart
  <2>1. \A p \in Procs : stage'[p] = "none"
    BY <1>6, CallLocks DEF Restart, BusInv, DownIdle
  <2>2. reg' \in DiskImage
    BY <1>6, LoadedKept DEF Restart, DiskImage, BusInv
  <2>3. ReadsBack
    <3>1. crashes \in Nat /\ MaxCrashes \in Nat /\ crashes > 0 /\ crashes <= MaxCrashes
      BY <1>6, BoundsAssumption DEF Restart, DownInv, BusInv, LogsTyped
    <3> QED
      BY <3>1, BoundsAssumption
  <2>4. OnDisk(reg') = reg'
    BY <2>2, <2>3, SavedUnchanged, SavedOnDisk DEF DiskImage
  <2> QED
    BY <1>6, <2>1, <2>4 DEF Restart
<1> QED
  BY <1>1, <1>2, <1>3, <1>4, <1>5, <1>6 DEF Next, CallStep

FileInv == PersistInv /\ DownInv /\ SavedInv

LEMMA FileInvAlways == Spec /\ []OneAtATime => []FileInv
<1>1. Init => FileInv
  <2>1. Init => PersistInv
    BY DEF Init, FileInit, PersistInv, NeverPartial, Persisting, Absent
  <2>2. Init => DownInv /\ SavedInv
    BY BoundsAssumption DEF Init, FileInit, DownInv, SavedInv
  <2> QED
    BY <2>1, <2>2 DEF FileInv
<1>2. /\ BusInv /\ BusInv' /\ OneAtATime /\ OneAtATime' /\ FileInv /\ [Next]_vars
      => FileInv'
  BY PersistKept, DownKept, SavedKept DEF FileInv
<1> QED
  BY <1>1, <1>2, BusInvAlways, PTL DEF Spec

(* registry.json is never left partially written, whatever fails and       *)
(* wherever the process dies, if no two persists are under way at once: a  *)
(* race for registry.json.tmp is the only way to tear it.                  *)
THEOREM TornOnlyByRace == Spec /\ []OneAtATime => []NeverPartial
<1>1. FileInv => NeverPartial
  BY DEF FileInv, PersistInv
<1> QED
  BY <1>1, FileInvAlways, PTL

(* And between calls it holds the sessions in memory, as long as no        *)
(* operation on a file has failed: nothing a client was told is only in    *)
(* memory.                                                                 *)
THEOREM MemoryOnDisk == Spec /\ []OneAtATime => []QuietDisk
<1>1. FileInv => QuietDisk
  BY DEF FileInv, SavedInv, QuietDisk
<1> QED
  BY <1>1, FileInvAlways, PTL

-----------------------------------------------------------------------------
(* At-most-once delivery.  A message that may still be read, from a        *)
(* mailbox, a pending rollback or the file, is in the log, addressed to    *)
(* that mailbox, and no read has returned it.                              *)

Mine(n, S) == \A m \in S : m \in Msgs /\ pos[m] # 0 /\ m \notin delivered /\ addr[m] = n

OnceInv ==
  /\ redelivered = {}
  /\ \A m \in delivered : pos[m] # 0
  /\ \A n \in Names : Mine(n, reg[n].unread)
  /\ \A p \in Procs : Persisting(p) =>
       /\ Mine(Target(p), call[p].snap.unread)
       /\ call[p].op = "read" => /\ call[p].out \subseteq call[p].snap.unread
                                 /\ call[p].out \cap reg[Target(p)].unread = {}

SavedOnce == live.st = "full" => \A n \in Names : Mine(n, live.img[n].unread)

(* Only a read that answers delivers.                                      *)
LEMMA DeliversOnly ==
  ASSUME BusInv, [Next]_vars
  PROVE  \/ UNCHANGED <<delivered, redelivered>>
         \/ \E p \in Procs : /\ ReadReturn(p) /\ stage[p] = "ok" /\ Persisting(p)
                             /\ call[p].op = "read" /\ reg' = reg
                             /\ delivered' = delivered \cup call[p].out
                             /\ redelivered' = redelivered \cup (call[p].out \cap delivered)
<1>1. ASSUME NEW p \in Procs, ReadReturn(p)
      PROVE  \/ UNCHANGED <<delivered, redelivered>>
             \/ /\ stage[p] = "ok" /\ Persisting(p) /\ call[p].op = "read" /\ reg' = reg
                /\ delivered' = delivered \cup call[p].out
                /\ redelivered' = redelivered \cup (call[p].out \cap delivered)
  BY <1>1 DEF ReadReturn, Persisting
<1>2. ASSUME \A p \in Procs : ~ReadReturn(p)
      PROVE  UNCHANGED <<delivered, redelivered>>
  BY <1>2 DEF Next, NewCall, LockStep, CallStep, FileStep, RegisterCall, SendCall, ReadCall,
              RegisterReject, RegisterCommit, RegisterReturn, SendRefuse, SendCommit, SendReturn,
              ReadFail, ReadCommit, SendInvalid, GoIdle, Crash, Restart, vars, history
<1> QED
  BY <1>1, <1>2

(* A set keeps being undelivered while no read delivers of it.             *)
MineNext(n, S) ==
  \A m \in S : m \in Msgs /\ pos'[m] # 0 /\ m \notin delivered' /\ addr'[m] = n

LEMMA MineKept ==
  ASSUME BusInv, BusInv', MsgsInv, AddressInv, [Next]_vars
  PROVE  \A n, S : Mine(n, S) /\ delivered' \cap S = {} => MineNext(n, S)
<1>1. \A m \in Msgs : pos[m] # 0 => pos'[m] = pos[m] /\ addr'[m] = addr[m]
  BY LogKept, AddressKept
<1> QED
  BY <1>1 DEF Mine, MineNext

LEMMA MineAfterRead ==
  ASSUME BusInv, OnceInv, OneWriter, NEW p \in Procs, Persisting(p), call[p].op = "read"
  PROVE  /\ call[p].out \cap delivered = {}
         /\ \A m \in call[p].out : m \in Msgs /\ pos[m] # 0 /\ addr[m] = Target(p)
         /\ \A n \in Names : call[p].out \cap reg[n].unread = {}
         /\ \A q \in Procs : q # p /\ Persisting(q) => call[p].out \cap call[q].snap.unread = {}
<1>1. call[p].out \cap delivered = {}
      /\ \A m \in call[p].out : m \in Msgs /\ pos[m] # 0 /\ addr[m] = Target(p)
  BY DEF OnceInv, Mine
<1>2. ASSUME NEW n \in Names PROVE call[p].out \cap reg[n].unread = {}
  BY <1>1 DEF OnceInv, Mine
<1>3. ASSUME NEW q \in Procs, q # p, Persisting(q)
      PROVE  call[p].out \cap call[q].snap.unread = {}
  <2>1. Target(q) # Target(p)
    BY <1>3 DEF OneWriter
  <2> QED
    BY <1>1, <1>3, <2>1 DEF OnceInv, Mine
<1> QED
  BY <1>1, <1>2, <1>3

(* The commit of a send puts its own, undelivered message into the box of  *)
(* its recipient.                                                          *)
LEMMA CommitMine ==
  ASSUME BusInv, BusInv', MsgsInv, AddressInv, OnceInv, [Next]_vars, NEW p \in Procs, Takes(p),
         UNCHANGED delivered
  PROVE  LET t == Target(p) IN
         /\ MineNext(t, reg'[t].unread)
         /\ MineNext(t, call'[p].snap.unread)
         /\ call'[p].op = "read" => /\ call'[p].out \subseteq call'[p].snap.unread
                                    /\ call'[p].out \cap reg'[t].unread = {}
<1> DEFINE t == Target(p)
           old == reg[t].unread
           new == reg'[t].unread
<1>1. /\ t \in Names /\ call'[p].snap = reg[t] /\ call'[p].op = call[p].op
      /\ ~Persisting(p)
      /\ \/ new \subseteq old /\ call[p].op # "read"
         \/ /\ call[p].op = "send" /\ t = call[p].to /\ new = old \cup {call[p].msg}
            /\ pos'[call[p].msg] # 0
         \/ /\ new = (old \cap readable) \ Drained(old \cap readable)
            /\ call'[p].out = Drained(old \cap readable)
  BY DEF Takes, Logged, Target
<1>2. MineNext(t, old)
  <2>1. Mine(t, old) /\ delivered' \cap old = {}
    BY <1>1 DEF OnceInv, Mine
  <2> HIDE DEF t, old
  <2> QED
    BY <2>1, MineKept
<1>3. Drained(old \cap readable) \subseteq old
  BY DEF Drained
<1>4. ASSUME call[p].op = "send", t = call[p].to, pos'[call[p].msg] # 0
      PROVE  MineNext(t, {call[p].msg})
  <2> DEFINE m == call[p].msg
  <2>1. m \in Msgs /\ pos[m] = 0 /\ addr[m] = t
    BY <1>1, <1>4, KeptCallFields DEF Sending, BusInv, BusTyped, MsgsInv, AddressInv
  <2>2. m \notin delivered'
    BY <2>1 DEF OnceInv
  <2>3. addr'[m] = t
    <3>1. call'[p].op = "send" /\ call'[p].msg = m /\ Target(p)' = t
      BY <1>1, <1>4 DEF Takes
    <3>2. call'[p].to = t
      BY <3>1 DEF Target
    <3>3. AddressInv'
      BY AddressKept
    <3> QED
      BY <3>1, <3>2, <3>3 DEF AddressInv, Sending
  <2> QED
    BY <1>4, <2>1, <2>2, <2>3 DEF MineNext
<1>5. MineNext(t, new)
  BY <1>1, <1>2, <1>4 DEF MineNext
<1>6. call'[p].op = "read" => call'[p].out \subseteq old /\ call'[p].out \cap new = {}
  BY <1>1, <1>3
<1> QED
  BY <1>1, <1>2, <1>5, <1>6

(* Every step, as the mailboxes see it.                                    *)
LEMMA StepShape ==
  ASSUME BusInv, [Next]_vars
  PROVE  Quiet \/ (\E p \in Procs : Takes(p) \/ Returns(p)) \/ Crash \/ Restart
  BY QuietStep, CommitTakes, ReturnStep DEF Next, CallStep

LEMMA OnceKept ==
  ASSUME BusInv, BusInv', MsgsInv, AddressInv, OnceInv, OneWriter, OneWriter', [Next]_vars,
         Restart => SavedOnce
  PROVE  OnceInv'
<1>1. /\ \A m \in Msgs : pos[m] # 0 => pos'[m] # 0
      /\ delivered \subseteq Msgs
      /\ \A p \in Procs : Persisting(p) => Target(p) \in Names
  <2>1. \A m \in Msgs : pos[m] # 0 => pos'[m] # 0
    BY LogKept
  <2> QED
    BY <2>1, BoxFacts, CallLocks DEF BusInv, LogsTyped, Persisting
<1>2. /\ redelivered' = {}
      /\ \A m \in delivered' : pos'[m] # 0
  BY <1>1, DeliversOnly, MineAfterRead DEF OnceInv
<1> DEFINE BoxesMine == \A n \in Names : MineNext(n, reg'[n].unread)
           CallMine(q) == LET t == Target(q)' IN
             /\ MineNext(t, call'[q].snap.unread)
             /\ call'[q].op = "read" => /\ call'[q].out \subseteq call'[q].snap.unread
                                        /\ call'[q].out \cap reg'[t].unread = {}
           CallsMine == \A q \in Procs : Persisting(q)' => CallMine(q)
<1>3. SUFFICES BoxesMine /\ CallsMine
  BY <1>2 DEF OnceInv, Mine, MineNext, Target
<1>4. ASSUME NEW q \in Procs, Persisting(q), call'[q] = call[q],
             reg'[Target(q)].unread = reg[Target(q)].unread,
             MineNext(Target(q), call[q].snap.unread)
      PROVE  CallMine(q)
  <2>1. Target(q)' = Target(q)
    BY <1>4 DEF Target
  <2>2. call[q].op = "read" => /\ call[q].out \subseteq call[q].snap.unread
                               /\ call[q].out \cap reg[Target(q)].unread = {}
    BY <1>4 DEF OnceInv
  <2> QED
    BY <1>4, <2>1, <2>2
<1> HIDE DEF CallMine
<1>5. ASSUME NEW p \in Procs, ReadReturn(p), Persisting(p), call[p].op = "read", reg' = reg,
             delivered' = delivered \cup call[p].out
      PROVE  BoxesMine /\ CallsMine
  <2>1. BoxesMine
    <3>1. \A n \in Names : Mine(n, reg[n].unread) /\ delivered' \cap reg[n].unread = {}
      BY <1>5, MineAfterRead DEF OnceInv, Mine
    <3> QED
      BY <1>5, <3>1, MineKept
  <2>2. ASSUME NEW q \in Procs, Persisting(q)' PROVE CallMine(q)
    <3>1. q # p /\ Persisting(q) /\ call'[q] = call[q]
      BY <1>5, <2>2, ReturnStep DEF Returns, Others
    <3>2. Mine(Target(q), call[q].snap.unread) /\ delivered' \cap call[q].snap.unread = {}
      BY <1>5, <3>1, MineAfterRead DEF OnceInv, Mine
    <3>3. MineNext(Target(q), call[q].snap.unread)
      BY <3>2, MineKept
    <3> QED
      BY <1>4, <1>5, <3>1, <3>3
  <2> QED
    BY <2>1, <2>2
<1>6. CASE UNCHANGED delivered
  <2>1. \A n, S : Mine(n, S) => MineNext(n, S)
    <3>1. \A n, S : Mine(n, S) => delivered' \cap S = {}
      BY <1>6 DEF Mine
    <3> QED
      BY <3>1, MineKept
  <2>2. /\ \A n \in Names : MineNext(n, reg[n].unread)
        /\ \A q \in Procs : Persisting(q) => MineNext(Target(q), call[q].snap.unread)
    BY <2>1 DEF OnceInv
  <2>3. CASE Quiet
    <3>1. BoxesMine
      BY <2>2, <2>3 DEF Quiet
    <3> QED
      BY <1>1, <1>4, <2>2, <2>3, <3>1 DEF Quiet
  <2>4. ASSUME NEW p \in Procs, Takes(p)
        PROVE  BoxesMine /\ CallsMine
    <3> DEFINE t == Target(p)
    <3>1. /\ t \in Names /\ Target(p)' = t /\ Persisting(p)'
          /\ MineNext(t, reg'[t].unread) /\ MineNext(t, call'[p].snap.unread)
          /\ call'[p].op = "read" => /\ call'[p].out \subseteq call'[p].snap.unread
                                     /\ call'[p].out \cap reg'[t].unread = {}
      BY <1>6, <2>4, CommitMine DEF Takes
    <3>2. BoxesMine
      BY <2>2, <2>4, <3>1 DEF Takes, OtherBoxes
    <3>3. ASSUME NEW q \in Procs, Persisting(q)' PROVE CallMine(q)
      <4>1. CASE q = p
        BY <3>1, <4>1 DEF CallMine
      <4>2. CASE q # p
        <5>1. Persisting(q) /\ call'[q] = call[q]
          BY <2>4, <3>3, <4>2 DEF Takes, Others
        <5>2. Target(q) # t
          <6>1. Target(q)' = Target(q)
            BY <5>1 DEF Target
          <6> QED
            BY <3>1, <3>3, <4>2, <6>1 DEF OneWriter
        <5> QED
          BY <1>1, <1>4, <2>2, <2>4, <5>1, <5>2 DEF Takes, OtherBoxes
      <4> QED
        BY <4>1, <4>2
    <3> QED
      BY <3>2, <3>3
  <2>5. ASSUME NEW p \in Procs, Returns(p)
        PROVE  BoxesMine /\ CallsMine
    <3> DEFINE t == Target(p)
    <3>1. t \in Names /\ Persisting(p) /\ ~Persisting(p)'
          /\ reg'[t].unread \in {call[p].snap.unread, reg[t].unread}
      BY <2>5 DEF Returns
    <3>2. BoxesMine
      BY <2>2, <2>5, <3>1 DEF Returns, OtherBoxes
    <3>3. ASSUME NEW q \in Procs, Persisting(q)' PROVE CallMine(q)
      <4>1. q # p /\ Persisting(q) /\ call'[q] = call[q]
        BY <2>5, <3>1, <3>3 DEF Returns, Others
      <4>2. Target(q) # t
        BY <3>1, <4>1 DEF OneWriter
      <4> QED
        BY <1>1, <1>4, <2>2, <2>5, <4>1, <4>2 DEF Returns, OtherBoxes
    <3> QED
      BY <3>2, <3>3
  <2>6. CASE Crash
    <3>1. \A n \in Names : reg'[n].unread = {}
      BY <2>6 DEF Crash, NoEntry
    <3>2. \A q \in Procs : ~Persisting(q)'
      BY <2>6 DEF Crash, LoseProcesses, Persisting
    <3> QED
      BY <3>1, <3>2 DEF MineNext
  <2>7. CASE Restart
    <3>1. \A q \in Procs : ~Persisting(q)'
      BY <2>7, CallLocks DEF Restart, BusInv, DownIdle, Persisting
    <3>2. ASSUME NEW n \in Names PROVE MineNext(n, reg'[n].unread)
      <4>1. CASE live.st = "full"
        <5>1. MineNext(n, live.img[n].unread)
          BY <2>1, <2>7, <4>1 DEF SavedOnce
        <5>2. live.img[n] \in Entry
          BY <4>1, KeptFields DEF BusInv, BusTyped, FileTypeOK, FileOK, Full, Absent, Empty, Mixed,
                                  DiskImage, DiskEntry
        <5>3. Loaded(n).unread \subseteq live.img[n].unread
          BY <4>1, <5>2 DEF Loaded, Entry
        <5> QED
          BY <2>7, <5>1, <5>3 DEF Restart, MineNext
      <4>2. CASE live.st # "full"
        BY <2>7, <4>2 DEF Restart, Loaded, NoEntry, MineNext
      <4> QED
        BY <4>1, <4>2
    <3> QED
      BY <3>1, <3>2
  <2> QED
    BY <2>3, <2>4, <2>5, <2>6, <2>7, StepShape
<1> QED
  BY <1>5, <1>6, DeliversOnly

LEMMA SavedUnread ==
  ASSUME NEW r \in [Names -> Entry], NEW n \in Names
  PROVE  /\ OnDisk(r)[n].unread \subseteq r[n].unread
         /\ ReadsBack => OnDisk(r)[n].unread = r[n].unread
<1>1. r[n] \in Entry
  OBVIOUS
<1>2. [r[n] EXCEPT !.tok = NoToken, !.idle = FALSE].unread = r[n].unread
  BY <1>1 DEF Entry
<1>3. CASE ReadsBack
  <2>1. OnDisk(r)[n] = [r[n] EXCEPT !.tok = NoToken, !.idle = FALSE]
    BY <1>3 DEF OnDisk
  <2> QED
    BY <1>2, <2>1
<1>4. CASE ~ReadsBack
  <2>1. OnDisk(r)[n] = NoEntry
    BY <1>4 DEF OnDisk
  <2> QED
    BY <1>4, <2>1 DEF NoEntry
<1> QED
  BY <1>3, <1>4

(* The file changes to what memory holds.                                  *)
LEMMA FileChanges ==
  ASSUME BusInv, OneAtATime, PersistInv, [Next]_vars
  PROVE  live' = live \/ live' = Full(OnDisk(reg')) \/ live' = Full(reg')
<1>1. ASSUME NEW p \in Procs, FileStep(p)
      PROVE  live' = live \/ live' = Full(OnDisk(reg'))
  <2>1. reg' = reg /\ (live' = live \/ live' = Full(OnDisk(reg)))
    BY <1>1, FileStepSaves
  <2> QED
    BY <2>1 DEF OnDisk
<1>2. ASSUME NEW p \in Procs, CallStep(p)
      PROVE  live' = live
  BY <1>2 DEF CallStep, RegisterReject, RegisterCommit, RegisterReturn, SendRefuse, SendCommit,
              SendReturn, ReadFail, ReadCommit, ReadReturn, StartPersist, EndPersist, fileVars
<1> QED
  BY <1>1, <1>2, FilesQuiet DEF Next, Crash, LoseProcesses, Restart

LEMMA SavedOnceKept ==
  ASSUME BusInv, BusInv', MsgsInv, AddressInv, OnceInv', OneAtATime, PersistInv,
         SavedOnce, [Next]_vars
  PROVE  SavedOnce'
<1>0. reg' \in [Names -> Entry]
  BY KeptFields DEF BusInv, BusTyped
<1>1. \A n \in Names : MineNext(n, reg'[n].unread)
  BY DEF OnceInv, Mine, MineNext
<1>2. CASE live' = Full(reg')
  BY <1>1, <1>2 DEF SavedOnce, Full, Mine, MineNext
<1>3. CASE live' = Full(OnDisk(reg'))
  <2>1. \A n \in Names : OnDisk(reg')[n].unread \subseteq reg'[n].unread
    BY <1>0, SavedUnread
  <2>2. \A n \in Names : MineNext(n, OnDisk(reg')[n].unread)
    BY <1>1, <2>1 DEF MineNext
  <2>3. live'.img = OnDisk(reg')
    BY <1>3 DEF Full
  <2>4. \A n \in Names : MineNext(n, live'.img[n].unread)
    BY <2>2, <2>3
  <2> QED
    BY <2>4 DEF SavedOnce, Mine, MineNext
<1>4. CASE live' = live /\ UNCHANGED delivered
  <2>1. live.st = "full" => \A n \in Names : MineNext(n, live.img[n].unread)
    <3>1. live.st = "full" => \A n \in Names :
            Mine(n, live.img[n].unread) /\ delivered' \cap live.img[n].unread = {}
      BY <1>4 DEF SavedOnce, Mine
    <3> QED
      BY <3>1, MineKept
  <2> QED
    BY <1>4, <2>1 DEF SavedOnce, Mine, MineNext
<1>5. ASSUME NEW p \in Procs, stage[p] = "ok", Persisting(p), reg' = reg, live' = live
      PROVE  live' = Full(OnDisk(reg'))
  BY <1>5 DEF PersistInv, OnDisk
<1> QED
  BY <1>2, <1>3, <1>4, <1>5, DeliversOnly, FileChanges

LEMMA OnceInitially == Init => MsgsInv /\ AddressInv /\ OnceInv /\ SavedOnce
<1>1. Init => MsgsInv
  BY MailInitially DEF MailInv
<1>2. Init => AddressInv /\ OnceInv /\ SavedOnce
  BY DEF Init, FileInit, AddressInv, Sending, NoCall, Started, OnceInv, SavedOnce, Mine, NoEntry,
         Persisting, Absent
<1> QED
  BY <1>1, <1>2

(* No message is returned by two reads, whatever crashes and failing file  *)
(* operations come between them, if no two persists are under way at once: *)
(* with two, a stale image of registry.json may bring a message back.      *)
THEOREM DeliveredOnce == Spec /\ []OneAtATime => []AtMostOnce
<1>1. /\ MailInv /\ OneWriter /\ MailInv' /\ OneWriter' /\ OneAtATime /\ FileInv
      /\ AddressInv /\ OnceInv /\ SavedOnce /\ [Next]_vars
      => AddressInv' /\ OnceInv' /\ SavedOnce'
  BY AddressKept, OnceKept, SavedOnceKept DEF MailInv, FileInv
<1>2. OnceInv => AtMostOnce
  BY DEF OnceInv, AtMostOnce
<1> QED
  BY <1>1, <1>2, OnceInitially, MailInvAlways, FileInvAlways, PTL DEF Spec

(* Nor do any interleaving of persists, any failing file operation and any *)
(* torn append make a running coordinator return one twice.                *)
THEOREM DeliveredOnceWhileUp ==
  ASSUME MaxCrashes = 0
  PROVE  Spec => []AtMostOnce
<1>1. Init => DownInv
  BY BoundsAssumption DEF Init, DownInv
<1>2. /\ MailInv /\ OneWriter /\ MailInv' /\ OneWriter' /\ DownInv
      /\ AddressInv /\ OnceInv /\ [Next]_vars
      => DownInv' /\ AddressInv' /\ OnceInv'
  <2>1. BusInv /\ DownInv => ~Restart
    BY DEF Restart, DownInv, BusInv, LogsTyped
  <2> QED
    BY <2>1, DownKept, AddressKept, OnceKept DEF MailInv
<1>3. OnceInv => AtMostOnce
  BY DEF OnceInv, AtMostOnce
<1> QED
  BY <1>1, <1>2, <1>3, OnceInitially, MailInvAlways, PTL DEF Spec

-----------------------------------------------------------------------------
(* Acknowledged messages.  What a pending call may still lose of its       *)
(* target's mailbox, by its rollback or its outcome, is accounted for.     *)

AckPending(p) ==
  LET old == call[p].snap.unread
      new == reg[Target(p)].unread
  IN
  /\ call[p].op = "register" => new \subseteq old
  /\ call[p].op = "send" => old \subseteq new /\ call[p].msg \in new
  /\ call[p].op = "read" => old \cap readable \subseteq new \cup call[p].out

AckInv == \A p \in Procs : Persisting(p) => AckPending(p)

LEMMA AckKept ==
  ASSUME BusInv, BusInv', MsgsInv, OnceInv, AckInv, OneWriter, OneWriter', [Next]_vars
  PROVE  AckInv'
<1>1. ASSUME NEW q \in Procs, Persisting(q), call'[q] = call[q],
             reg'[Target(q)].unread = reg[Target(q)].unread
      PROVE  AckPending(q)'
  <2>1. Target(q)' = Target(q)
    BY <1>1 DEF Target
  <2>2. \A m \in call[q].snap.unread : m \in readable' => m \in readable
    BY <1>1, LogKept DEF OnceInv, Mine
  <2> QED
    BY <1>1, <2>1, <2>2 DEF AckInv, AckPending
<1>2. \A q \in Procs : Persisting(q) => Target(q) \in Names
  BY BoxFacts, CallLocks DEF BusInv, Persisting
<1>3. CASE Quiet
  BY <1>1, <1>2, <1>3 DEF Quiet, AckInv, Persisting
<1>4. ASSUME NEW p \in Procs, Takes(p) PROVE AckInv'
  <2>1. AckPending(p)'
    <3> DEFINE old == reg[Target(p)].unread
               new == reg'[Target(p)].unread
    <3>1. /\ Target(p)' = Target(p) /\ call'[p].op = call[p].op /\ call'[p].msg = call[p].msg
          /\ call'[p].snap.unread = old
          /\ \/ call[p].op = "register" /\ new \subseteq old
             \/ call[p].op = "send" /\ new = old \cup {call[p].msg}
             \/ call[p].op = "read" /\ new = (old \cap readable) \ call'[p].out
                                    /\ readable' = readable
      BY <1>4 DEF Takes
    <3> HIDE DEF old
    <3>2. new = reg'[Target(p)'].unread
      BY <3>1
    <3> QED
      BY <3>1, <3>2 DEF AckPending
  <2>2. ASSUME NEW q \in Procs, q # p, Persisting(q)' PROVE AckPending(q)'
    <3>1. Persisting(q) /\ call'[q] = call[q]
      BY <1>4, <2>2 DEF Takes, Others
    <3>2. Target(q) # Target(p)
      <4>1. Target(q)' = Target(q) /\ Target(p)' = Target(p) /\ Persisting(p)'
        BY <1>4, <3>1 DEF Target, Takes
      <4> QED
        BY <2>2, <4>1 DEF OneWriter
    <3> QED
      BY <1>1, <1>2, <1>4, <3>1, <3>2 DEF Takes, OtherBoxes
  <2> QED
    BY <2>1, <2>2 DEF AckInv
<1>5. ASSUME NEW p \in Procs, Returns(p) PROVE AckInv'
  <2>1. ASSUME NEW q \in Procs, Persisting(q)' PROVE AckPending(q)'
    <3>1. q # p /\ Persisting(q) /\ call'[q] = call[q]
      BY <1>5, <2>1 DEF Returns, Others
    <3>2. Target(q) # Target(p)
      BY <1>5, <3>1 DEF Returns, OneWriter
    <3> QED
      BY <1>1, <1>2, <1>5, <3>1, <3>2 DEF Returns, OtherBoxes
  <2> QED
    BY <2>1 DEF AckInv
<1>6. CASE Crash \/ Restart
  BY <1>6, CallLocks DEF Crash, LoseProcesses, Restart, BusInv, DownIdle, AckInv, Persisting
<1> QED
  BY <1>3, <1>4, <1>5, <1>6, StepShape

(* An acknowledged message that no read has taken waits in its mailbox.    *)
Reached == delivered \cup discarded

AckedWait ==
  \A n \in Names : \A m \in acked \cap readable :
    addr[m] = n => m \in Reached \/ m \in Mailbox(n)

(* While the coordinator runs, whatever fails.                             *)
LEMMA UpKeepsAcked ==
  ASSUME BusInv, BusInv', MsgsInv, AddressInv, OnceInv, AckInv, OneWriter, OneWriter', [Next]_vars,
         AckedWait, Quiet \/ \E p \in Procs : Takes(p) \/ Returns(p)
  PROVE  AckedWait'
<1>1. ASSUME NEW m \in acked
      PROVE  m \in Msgs /\ addr'[m] = addr[m] /\ (m \in readable' <=> m \in readable)
  <2>1. m \in Msgs
    BY <1>1 DEF BusInv, LogsTyped
  <2> QED
    BY <1>1, <2>1, LogKept, AddressKept
<1>2. CASE Quiet \/ \E p \in Procs : Takes(p)
  <2>1. ASSUME NEW n \in Names PROVE Mailbox(n)' = Mailbox(n)
    <3>1. \A p \in Procs : Takes(p) => Starts(p)
      BY DEF Takes, Starts
    <3> QED
      BY <1>2, <3>1, QuietBoxes, CommitBoxes
  <2>2. UNCHANGED <<acked, delivered, discarded>>
    BY <1>2 DEF Quiet, Takes, Silent
  <2> QED
    BY <1>1, <2>1, <2>2 DEF AckedWait, Reached
<1>3. ASSUME NEW p \in Procs, Returns(p) PROVE AckedWait'
  <2> DEFINE t   == Target(p)
             old == call[p].snap.unread
             new == reg[t].unread
  <2>1. t \in Names /\ AckPending(p) /\ Persisting(p)
        /\ \A m \in new : m \in Msgs /\ addr[m] = t /\ addr'[m] = t
    <3>1. t \in Names /\ AckPending(p) /\ Persisting(p)
      BY <1>3 DEF Returns, AckInv
    <3>2. \A m \in new : m \in Msgs /\ pos[m] # 0 /\ addr[m] = t
      BY <3>1 DEF OnceInv, Mine
    <3> QED
      BY <3>1, <3>2, AddressKept
  <2> DEFINE box == [n \in Names |-> Mailbox(n)]
             nextBox == [n \in Names |-> Mailbox(n)']
  <2>2. box[t] = old /\ nextBox = [box EXCEPT ![t] = reg'[t].unread]
    BY <1>3, <2>1, ReturnBoxes
  <2>3. \A m \in acked' : m \in acked \/ (call[p].op = "send" /\ m = call[p].msg /\ reg'[t].unread = new)
    BY <1>3 DEF Returns, Silent
  <2>4. \A m \in acked \cap readable : addr[m] \in Names => m \in Reached \/ m \in box[addr[m]]
    BY DEF AckedWait
  <2>5. Reached \subseteq Reached'
    BY <1>3 DEF Returns, Silent, Reached
  <2>6. ASSUME NEW m \in acked' \cap readable', addr'[m] \in Names, addr'[m] # t
        PROVE  m \in Reached' \/ m \in nextBox[addr'[m]]
    <3>1. m \in acked
      BY <2>1, <2>3, <2>6 DEF AckPending
    <3> HIDE DEF box, t
    <3> QED
      BY <1>1, <2>2, <2>4, <2>5, <2>6, <3>1
  <2>7. ASSUME NEW m \in acked' \cap readable', addr'[m] = t
        PROVE  m \in Reached' \/ m \in reg'[t].unread
    <3>1. CASE m \in acked
      <4>1. m \in readable /\ (m \in Reached \/ m \in old)
        <5>1. m \in readable /\ addr[m] = t
          BY <1>1, <2>7, <3>1
        <5> HIDE DEF box, old, t
        <5> QED
          BY <2>1, <2>2, <2>4, <3>1, <5>1
      <4>2. m \in Reached' \/ m \in old
        BY <2>5, <4>1
      <4>3. m \in old => m \in Reached' \/ m \in reg'[t].unread
        BY <1>3, <2>1, <4>1 DEF Returns, Reached, AckPending
      <4> QED
        BY <4>2, <4>3
    <3>2. CASE m \notin acked
      BY <2>1, <2>3, <3>2 DEF AckPending
    <3> QED
      BY <3>1, <3>2
  <2>8. \A m \in acked' \cap readable' : addr'[m] \in Names =>
          m \in Reached' \/ m \in nextBox[addr'[m]]
    BY <2>1, <2>2, <2>6, <2>7
  <2> QED
    BY <2>8 DEF AckedWait
<1> QED
  BY <1>2, <1>3

(* The message is in the file when the coordinator dies, and is in the     *)
(* mailbox that a restart loads.                                           *)
AckedSaved ==
  \A n \in Names : \A m \in acked \cap readable :
    addr[m] = n => m \in Reached \/ (live.st = "full" /\ m \in live.img[n].unread)

LEMMA CrashKeepsAcked ==
  ASSUME BusInv, OneAtATime, OneWriter, AckInv, FileInv, AckedWait, faults = 0,
         live = Absent => acked = {}, Crash
  PROVE  AckedSaved'
<1>0. reg \in [Names -> Entry] /\ call \in [Procs -> KeptCall]
      /\ stage \in [Procs -> {"none", "open", "write", "rename", "chmod", "ok", "failed"}]
  BY BoxFacts
<1>1. ReadsBack /\ up
  <2>1. MaxCrashes > 0
    BY BoundsAssumption DEF Crash, BusInv, LogsTyped
  <2> QED
    BY <2>1, BoundsAssumption DEF Crash
<1>2. /\ UNCHANGED <<acked, readable, addr, live, delivered>>
      /\ discarded' = discarded \cup UNION {Taken(p) : p \in Procs}
  BY DEF Crash, LoseProcesses
<1>3. Reached' = Reached \cup UNION {Taken(p) : p \in Procs}
  BY <1>2 DEF Reached
<1>4. ASSUME NEW n \in Names, NEW m \in acked \cap readable, addr[m] = n, m \in Mailbox(n)
      PROVE  (\E p \in Procs : m \in Taken(p)) \/ (live.st = "full" /\ m \in live.img[n].unread)
  <2>1. live # Absent
    BY <1>4
  <2>2. CASE \A p \in Procs : ~Persisting(p)
    <3>1. live = Full(OnDisk(reg)) /\ Mailbox(n) = reg[n].unread
      BY <1>1, <2>1, <2>2, MailboxShown DEF FileInv, SavedInv, ShownRight
    <3> QED
      BY <1>0, <1>1, <1>4, <3>1, SavedUnread DEF Full
  <2>3. ASSUME NEW p \in Procs, Persisting(p)
        PROVE  /\ Target(p) \in Names /\ call[p].op \in {"register", "send", "read"}
               /\ n = Target(p) => m \in call[p].snap.unread
               /\ n # Target(p) => m \in reg[n].unread
    <3>1. call[p] # NoCall
      BY <2>3, CallLocks DEF BusInv, Persisting
    <3>2. call[p].op \in {"register", "send", "read"} /\ Target(p) \in Names
      BY <1>0, <3>1, BoxFacts DEF KeptCall, Call
    <3>3. ShownRight
      BY MailboxShown
    <3>4. \A q \in Procs : Persisting(q) => q = p
      BY <2>3 DEF OneAtATime
    <3> QED
      BY <1>4, <2>3, <3>2, <3>3, <3>4 DEF ShownRight
  <2>4. ASSUME NEW p \in Procs, Persisting(p), stage[p] \in {"open", "write", "rename"}
        PROVE  live.st = "full" /\ m \in live.img[n].unread
    <3>1. live = Full(RolledBack(p))
      BY <1>1, <2>1, <2>4 DEF FileInv, SavedInv
    <3>2. RolledBack(p)[n] = IF n = Target(p) THEN Saved(call[p].snap) ELSE OnDisk(reg)[n]
      BY <2>3, <2>4, SavedOnDisk DEF RolledBack
    <3>3. call[p].snap \in Entry
      BY <1>0, KeptCallFields, KeptFields
    <3>4. Saved(call[p].snap).unread = call[p].snap.unread
      BY <1>1, <3>3 DEF Saved, Entry
    <3>5. m \in RolledBack(p)[n].unread
      BY <1>0, <1>1, <2>3, <2>4, <3>2, <3>4, SavedUnread
    <3> QED
      BY <3>1, <3>5 DEF Full
  <2>5. ASSUME NEW p \in Procs, Persisting(p), stage[p] \in {"chmod", "ok"}
        PROVE  m \in Taken(p) \/ (live.st = "full" /\ m \in live.img[n].unread)
    <3>1. live = Full(OnDisk(reg)) /\ stage[p] # "none"
      BY <2>5 DEF FileInv, PersistInv
    <3>2. m \in reg[n].unread => live.st = "full" /\ m \in live.img[n].unread
      BY <1>0, <1>1, <3>1, SavedUnread DEF Full
    <3>3. CASE n = Target(p)
      <4>1. AckPending(p)
        BY <2>5 DEF AckInv
      <4>2. m \in call[p].snap.unread
        BY <2>3, <2>5, <3>3
      <4>3. CASE call[p].op = "register"
        <5>1. Taken(p) = call[p].snap.unread \ reg[n].unread
          BY <1>0, <3>1, <3>3, <4>3, BoxFacts DEF Taken
        <5> QED
          BY <3>2, <4>2, <5>1
      <4>4. CASE call[p].op = "send"
        BY <3>2, <3>3, <4>1, <4>2, <4>4 DEF AckPending
      <4>5. CASE call[p].op = "read"
        <5>1. Taken(p) = call[p].out
          BY <3>1, <4>5 DEF Taken
        <5> QED
          BY <1>4, <3>2, <3>3, <4>1, <4>2, <4>5, <5>1 DEF AckPending
      <4> QED
        BY <2>3, <2>5, <4>3, <4>4, <4>5
    <3> QED
      BY <2>3, <2>5, <3>2, <3>3
  <2>6. \A p \in Procs : Persisting(p) => stage[p] \in {"open", "write", "rename", "chmod", "ok"}
    BY <1>0 DEF FileInv, PersistInv, Persisting
  <2> QED
    BY <2>2, <2>4, <2>5, <2>6
<1> QED
  BY <1>2, <1>3, <1>4 DEF AckedSaved, AckedWait

LEMMA RestartKeepsAcked ==
  ASSUME BusInv, BusInv', OneWriter', AckedSaved, Restart
  PROVE  AckedWait'
<1>1. /\ UNCHANGED <<acked, readable, addr, delivered, discarded>>
      /\ \A p \in Procs : ~Persisting(p)'
      /\ \A n \in Names : reg'[n] = Loaded(n)
  BY CallLocks DEF Restart, BusInv, DownIdle, Persisting, history, logVars
<1>2. \A n \in Names : Mailbox(n)' = Loaded(n).unread
  BY <1>1, MailboxShownNext DEF ShownRight
<1>3. ASSUME NEW n \in Names, live.st = "full"
      PROVE  Loaded(n).unread = {m \in live.img[n].unread : m \in readable /\ addr[m] = n}
  <2>1. live.img[n] \in Entry
    BY <1>3, KeptFields DEF BusInv, BusTyped, FileTypeOK, FileOK, Full, Absent, Empty, Mixed,
                            DiskImage, DiskEntry
  <2> QED
    BY <1>3, <2>1 DEF Loaded, Entry
<1> QED
  BY <1>1, <1>2, <1>3 DEF AckedSaved, AckedWait, Reached

DurableInv == faults = 0 => IF up THEN AckedWait ELSE AckedSaved

LEMMA DurableNow ==
  ASSUME BusInv, AddressInv, DurableInv
  PROVE  DurableAcks
<1>1. \A m \in acked : addr[m] \in Names
  BY DEF AddressInv
<1> QED
  BY <1>1 DEF DurableInv, DurableAcks, AckedWait, AckedSaved, Reached, Waiting

(* Steps other than a crash and a restart keep the coordinator up; while   *)
(* it is down they change nothing.                                         *)
LEMMA UpOrIdle ==
  ASSUME BusInv, [Next]_vars, ~Crash, ~Restart
  PROVE  /\ up' = up
         /\ Quiet \/ \E p \in Procs : Takes(p) \/ Returns(p)
         /\ ~up => UNCHANGED <<live, acked, readable, addr, delivered, discarded>>
<1>1. up' = up
  BY CommitTakes, ReturnStep, QuietStep DEF Next, CallStep
<1>2. Quiet \/ \E p \in Procs : Takes(p) \/ Returns(p)
  BY StepShape
<1>3. ASSUME ~up
      PROVE  UNCHANGED <<live, acked, readable, addr, delivered, discarded>>
  <2>1. \A p \in Procs : call[p].op = "none" /\ stage[p] = "none"
    BY <1>3, CallLocks DEF BusInv, DownIdle, NoCall, Started
  <2>2. ASSUME NEW p \in Procs
        PROVE  ~NewCall(p) /\ ~CallStep(p) /\ ~FileStep(p)
    <3>1. ~NewCall(p)
      BY <1>3 DEF NewCall, RegisterCall, SendCall, ReadCall
    <3>2. ~CallStep(p)
      BY <2>1 DEF CallStep, RegisterReject, RegisterCommit, RegisterReturn, SendRefuse, SendCommit,
                  SendReturn, ReadFail, ReadCommit, ReadReturn
    <3>3. ~FileStep(p)
      BY <2>1 DEF FileStep, PersistStep, OpenTmp, WriteTmp, RenameTmp, RenameMissing, ChmodLive,
                  PersistFault
    <3> QED
      BY <3>1, <3>2, <3>3
  <2>3. ASSUME NEW p \in Procs, LockStep(p)
        PROVE  UNCHANGED <<live, acked, readable, addr, delivered, discarded>>
    BY <2>3 DEF LockStep, fileVars, busVars, logVars, history
  <2>4. \A n \in Names : ~SendInvalid(n) /\ ~GoIdle(n)
    BY <1>3 DEF SendInvalid, GoIdle
  <2>5. CASE UNCHANGED vars
    BY <2>5 DEF vars, fileVars, busVars, logVars, history
  <2> QED
    BY <2>2, <2>3, <2>4, <2>5 DEF Next
<1> QED
  BY <1>1, <1>2, <1>3

(* Nothing is acknowledged before there is a file.                         *)
AbsentInv == live = Absent => acked = {}

LEMMA AbsentKept ==
  ASSUME BusInv, OneAtATime, PersistInv, AbsentInv, [Next]_vars
  PROVE  AbsentInv'
<1>1. ASSUME NEW p \in Procs, SendReturn(p)
      PROVE  AbsentInv'
  <2>1. live' = live /\ (acked' = acked \/ live = Full(img[p]))
    BY <1>1 DEF SendReturn, EndPersist, PersistInv
  <2> QED
    BY <2>1 DEF AbsentInv, Full, Absent
<1>2. CASE \A p \in Procs : ~SendReturn(p)
  <2>1. acked' = acked
    BY <1>2 DEF Next, NewCall, LockStep, CallStep, FileStep, RegisterCall, SendCall, ReadCall,
                RegisterReject, RegisterCommit, RegisterReturn, SendRefuse, SendCommit,
                ReadFail, ReadCommit, ReadReturn, SendInvalid, GoIdle, Crash, Restart, vars, history
  <2>2. live' = live \/ live' # Absent
    BY FileChanges DEF Full, Absent
  <2> QED
    BY <2>1, <2>2 DEF AbsentInv
<1> QED
  BY <1>1, <1>2

LEMMA DurableKept ==
  ASSUME BusInv, BusInv', MsgsInv, AddressInv, OnceInv, AckInv, OneWriter, OneWriter',
         OneAtATime, FileInv, AbsentInv, DurableInv, [Next]_vars
  PROVE  DurableInv'
<1> SUFFICES ASSUME faults' = 0
             PROVE  IF up' THEN AckedWait' ELSE AckedSaved'
  BY DEF DurableInv
<1>1. faults = 0
  <2>1. faults \in Nat
    BY DEF BusInv, BusTyped, FileTypeOK
  <2>2. faults' >= faults \/ faults' = faults + 1 \/ faults' = faults
    BY TearsCounted
  <2> QED
    BY <2>1, <2>2
<1>2. IF up THEN AckedWait ELSE AckedSaved
  BY <1>1 DEF DurableInv
<1>3. CASE Crash
  <2>1. up /\ ~up'
    BY <1>3 DEF Crash
  <2>2. AckedSaved'
    BY <1>1, <1>2, <1>3, <2>1, CrashKeepsAcked DEF AbsentInv
  <2> QED
    BY <2>1, <2>2
<1>4. CASE Restart
  <2>1. ~up /\ up'
    BY <1>4 DEF Restart
  <2>2. AckedWait'
    BY <1>2, <1>4, <2>1, RestartKeepsAcked
  <2> QED
    BY <2>1, <2>2
<1>5. CASE ~Crash /\ ~Restart
  <2>1. /\ up' = up
        /\ Quiet \/ \E p \in Procs : Takes(p) \/ Returns(p)
        /\ ~up => UNCHANGED <<live, acked, readable, addr, delivered, discarded>>
    BY <1>5, UpOrIdle
  <2>2. CASE up
    <3>1. AckedWait'
      BY <1>2, <2>1, <2>2, UpKeepsAcked
    <3> QED
      BY <2>1, <2>2, <3>1
  <2>3. CASE ~up
    <3>1. AckedSaved'
      BY <1>2, <2>1, <2>3 DEF AckedSaved, Reached
    <3> QED
      BY <2>1, <2>3, <3>1
  <2> QED
    BY <2>2, <2>3
<1> QED
  BY <1>3, <1>4, <1>5

LEMMA DurableInitially == Init => AckInv /\ AbsentInv /\ AckedWait /\ DurableInv
  BY DEF Init, FileInit, AckInv, AbsentInv, AckedWait, DurableInv, Persisting

(* As long as no operation on a file fails, an acknowledged message the    *)
(* log can give back waits in its mailbox until a read takes it, its owner *)
(* is evicted, or a crash cuts off a call that had taken it out, wherever  *)
(* the process dies and however often, if no two persists are under way at *)
(* once.                                                                   *)
THEOREM AckedSurviveCrashes == Spec /\ []OneAtATime => []DurableAcks
<1>1. /\ MailInv /\ OneWriter /\ MailInv' /\ OneWriter' /\ OneAtATime /\ FileInv
      /\ AddressInv /\ OnceInv /\ SavedOnce /\ AckInv /\ AbsentInv /\ DurableInv /\ [Next]_vars
      => AddressInv' /\ OnceInv' /\ SavedOnce' /\ AckInv' /\ AbsentInv' /\ DurableInv'
  BY AddressKept, OnceKept, SavedOnceKept, AckKept, AbsentKept, DurableKept DEF MailInv, FileInv
<1>2. MailInv /\ AddressInv /\ DurableInv => DurableAcks
  BY DurableNow DEF MailInv
<1> QED
  BY <1>1, <1>2, OnceInitially, DurableInitially, MailInvAlways, FileInvAlways, PTL DEF Spec

(* And a running coordinator loses none to persists that meet in           *)
(* registry.json.tmp: their failures are rolled back, or answered.         *)
THEOREM AckedWhileUp ==
  ASSUME MaxCrashes = 0
  PROVE  Spec => []DurableAcks
<1>1. Init => DownInv /\ up
  BY BoundsAssumption DEF Init, DownInv
<1>2. BusInv /\ DownInv => ~Crash /\ ~Restart /\ up
  BY DEF Crash, Restart, DownInv, BusInv, LogsTyped
<1>3. /\ MailInv /\ OneWriter /\ MailInv' /\ OneWriter' /\ DownInv
      /\ AddressInv /\ OnceInv /\ AckInv /\ AckedWait /\ [Next]_vars
      => DownInv' /\ AddressInv' /\ OnceInv' /\ AckInv' /\ AckedWait'
  BY <1>2, DownKept, AddressKept, OnceKept, AckKept, UpKeepsAcked, UpOrIdle DEF MailInv
<1>4. MailInv /\ DownInv /\ AddressInv /\ AckedWait => DurableAcks
  <2>1. up /\ AckedWait => DurableInv
    BY DEF DurableInv
  <2> QED
    BY <1>2, <2>1, DurableNow DEF MailInv
<1> QED
  BY <1>1, <1>3, <1>4, OnceInitially, DurableInitially, MailInvAlways, PTL DEF Spec
=============================================================================
