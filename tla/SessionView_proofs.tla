------------------------- MODULE SessionView_proofs -------------------------
(***************************************************************************)
(* The audit log and the view of it, for any sessions, calls of log(),     *)
(* failures, ends of processes and switches of the user.                   *)
(*                                                                         *)
(* Part 1, the file: it has the lines in the order of the calls, and each  *)
(* line's pieces in theirs; what is in it stays.                           *)
(*                                                                         *)
(* Part 2, the reader: what was shown is what the read part of the file    *)
(* tells.  A line that a read has ended in is decided by that read when    *)
(* only its newline was missing, and is lost otherwise: Told says so for   *)
(* the last line of a read too, which ShownAsLogged leaves open.           *)
(***************************************************************************)
EXTENDS SessionView, Ranks_proofs, SequenceTheorems

Piece == [entry : Nat, piece : 1 .. 3]

\* A session after n calls: its queue q is in the order of the calls, and the
\* file f in that order, ahead of the queue, up to piece k of its head.
Lined(q, k, f, n) ==
  /\ q \in Seq(Nat) /\ k \in 0 .. 3 /\ f \in Seq(Piece)
  /\ k > 0 => q # <<>>
  /\ \A i \in 1 .. Len(q) : q[i] \in 1 .. n
  /\ \A i, j \in 1 .. Len(q) : i < j => q[i] < q[j]
  /\ \A p \in 1 .. Len(f) :
       /\ f[p].entry <= n
       /\ q # <<>> => Precedes(f[p], q[1], k)
  /\ InOrder(f)

TrailTypeOK ==
  /\ up \subseteq Sessions /\ dirs \subseteq Sessions /\ made \subseteq Sessions
  /\ entries \in Nat
  /\ queue \in [Sessions -> Seq(Nat)]
  /\ part \in [Sessions -> 0 .. 3]
  /\ log \in [Sessions -> Seq(Piece)]

TrailInv ==
  /\ TrailTypeOK
  /\ \A s \in Sessions : Lined(queue[s], part[s], log[s], entries)

-----------------------------------------------------------------------------
(* Part 1: the file                                                        *)

LEMMA PieceTyped ==
  ASSUME NEW f \in Seq(Piece), NEW p \in 1 .. Len(f)
  PROVE  f[p] \in Piece /\ f[p].entry \in Nat /\ f[p].piece \in 1 .. 3
<1>1. f[p] \in Piece
  OBVIOUS
<1> QED
  BY <1>1 DEF Piece

LEMMA PrecedesNext ==
  ASSUME NEW a, a.piece \in 1 .. 3, NEW e, NEW k \in 1 .. 3, Precedes(a, e, k)
  PROVE  Precedes(a, e, k + 1)
  BY DEF Precedes

\* A call queues behind the others, and leaves the other sessions alone.
LEMMA CallLined ==
  ASSUME NEW q, NEW k, NEW f, NEW n \in Nat, Lined(q, k, f, n)
  PROVE  Lined(q, k, f, n + 1) /\ Lined(Append(q, n + 1), k, f, n + 1)
<1>1. /\ q \in Seq(Nat) /\ Len(q) \in Nat /\ f \in Seq(Piece)
      /\ \A i \in 1 .. Len(q) : q[i] \in 1 .. n
      /\ \A p \in 1 .. Len(f) : f[p].entry <= n
  BY DEF Lined
<1>a. \A p \in 1 .. Len(f) : f[p].entry \in Nat
  BY <1>1, PieceTyped
<1>b. /\ \A i \in 1 .. Len(q) : q[i] \in 1 .. n + 1
      /\ \A p \in 1 .. Len(f) : f[p].entry <= n + 1
  BY <1>1, <1>a
<1>2. Lined(q, k, f, n + 1)
  BY <1>b DEF Lined
<1> DEFINE r == Append(q, n + 1)
<1>3. /\ r \in Seq(Nat) /\ Len(r) = Len(q) + 1
      /\ \A i \in 1 .. Len(q) : r[i] = q[i]
      /\ r[Len(q) + 1] = n + 1
  BY <1>1
<1> HIDE DEF r
<1>c. r # <<>>
  BY <1>1, <1>3
<1>d. \A i \in 1 .. Len(r) : i = Len(q) + 1 \/ i \in 1 .. Len(q)
  BY <1>1, <1>3
<1>4. \A i \in 1 .. Len(r) : r[i] \in 1 .. n + 1
  <2> TAKE i \in 1 .. Len(r)
  <2>1. n + 1 \in 1 .. n + 1
    OBVIOUS
  <2> QED
    BY <1>3, <1>b, <1>d, <2>1
<1>5. \A i, j \in 1 .. Len(r) : i < j => r[i] < r[j]
  <2> SUFFICES ASSUME NEW i \in 1 .. Len(r), NEW j \in 1 .. Len(r), i < j
               PROVE  r[i] < r[j]
    OBVIOUS
  <2>1. i \in 1 .. Len(q) /\ r[i] = q[i] /\ q[i] \in 1 .. n
    BY <1>1, <1>3
  <2>2. CASE j = Len(q) + 1
    BY <1>3, <2>1, <2>2
  <2>3. CASE j \in 1 .. Len(q)
    BY <1>3, <2>1, <2>3 DEF Lined
  <2> QED
    BY <1>d, <2>2, <2>3
<1>6. \A p \in 1 .. Len(f) : Precedes(f[p], r[1], k)
  <2> TAKE p \in 1 .. Len(f)
  <2>1. CASE q = <<>>
    <3>1. r[1] = n + 1
      BY <1>3, <2>1
    <3> QED
      BY <1>1, <1>a, <3>1 DEF Precedes
  <2>2. CASE q # <<>>
    <3>1. 1 \in 1 .. Len(q)
      BY <1>1, <2>2
    <3>2. r[1] = q[1]
      BY <1>3, <3>1
    <3>3. Precedes(f[p], q[1], k)
      BY <2>2 DEF Lined
    <3> QED
      BY <3>2, <3>3
  <2> QED
    BY <2>1, <2>2
<1>7. Lined(r, k, f, n + 1)
  BY <1>3, <1>b, <1>c, <1>4, <1>5, <1>6 DEF Lined
<1> QED
  BY <1>2, <1>7 DEF r

\* Opening the file, and the end of the process, write nothing.
LEMMA OpenLined ==
  ASSUME NEW q, NEW f, NEW n \in Nat, Lined(q, 0, f, n), q # <<>>
  PROVE  Lined(q, 1, f, n)
<1>1. \A p \in 1 .. Len(f) : Precedes(f[p], q[1], 1)
  BY PieceTyped DEF Lined, Precedes
<1> QED
  BY <1>1 DEF Lined

LEMMA ExitLined ==
  ASSUME NEW q, NEW k, NEW f, NEW n \in Nat, Lined(q, k, f, n)
  PROVE  Lined(<<>>, 0, f, n)
  BY DEF Lined

\* The head of the queue settles, whether all of its line is written or not.
LEMMA SettleLined ==
  ASSUME NEW q, NEW k, NEW f, NEW n \in Nat, Lined(q, k, f, n), q # <<>>
  PROVE  Lined(Tail(q), 0, f, n)
<1> DEFINE r == Tail(q)
<1>1. q \in Seq(Nat) /\ Len(q) \in Nat \ {0} /\ \A i \in 1 .. Len(q) : q[i] \in Nat
  BY DEF Lined
<1>2. /\ r \in Seq(Nat) /\ Len(r) = Len(q) - 1
      /\ \A i \in 1 .. Len(r) : r[i] = q[i + 1]
  BY <1>1
<1>3. r # <<>> => Len(r) >= 1
  BY <1>2
<1> HIDE DEF r
<1>a. /\ \A i \in 1 .. Len(q) : q[i] \in 1 .. n
      /\ \A i, j \in 1 .. Len(q) : i < j => q[i] < q[j]
  BY DEF Lined
<1>b. 1 \in 1 .. Len(q) /\ \A i \in 1 .. Len(r) : i \in Nat /\ i + 1 \in 1 .. Len(q) /\ 1 < i + 1
  BY <1>1, <1>2
<1>4. \A i \in 1 .. Len(r) : r[i] \in 1 .. n /\ q[1] < r[i]
  <2> TAKE i \in 1 .. Len(r)
  <2>1. r[i] = q[i + 1] /\ i + 1 \in 1 .. Len(q) /\ 1 < i + 1 /\ 1 \in 1 .. Len(q)
    BY <1>2, <1>b
  <2> QED
    BY <1>a, <2>1
<1>5. \A i, j \in 1 .. Len(r) : i < j => r[i] < r[j]
  <2> SUFFICES ASSUME NEW i \in 1 .. Len(r), NEW j \in 1 .. Len(r), i < j
               PROVE  r[i] < r[j]
    OBVIOUS
  <2>1. /\ r[i] = q[i + 1] /\ i + 1 \in 1 .. Len(q)
        /\ r[j] = q[j + 1] /\ j + 1 \in 1 .. Len(q) /\ i + 1 < j + 1
    BY <1>2, <1>b
  <2> QED
    BY <1>a, <2>1
<1>6. \A p \in 1 .. Len(f) : r # <<>> => Precedes(f[p], r[1], 0)
  <2> SUFFICES ASSUME NEW p \in 1 .. Len(f), r # <<>>
               PROVE  f[p].entry < r[1]
    BY DEF Precedes
  <2>1. Precedes(f[p], q[1], k) /\ f[p].entry \in Nat
    BY PieceTyped DEF Lined
  <2>2. q[1] < r[1] /\ r[1] \in Nat /\ q[1] \in Nat
    BY <1>1, <1>2, <1>3, <1>4
  <2> QED
    BY <2>1, <2>2 DEF Precedes
<1>7. Lined(r, 0, f, n)
  BY <1>2, <1>4, <1>5, <1>6 DEF Lined
<1> QED
  BY <1>7 DEF r

\* The next piece comes after all that is in the file.
LEMMA WriteLined ==
  ASSUME NEW q, NEW k, NEW f, NEW n \in Nat, Lined(q, k, f, n), k > 0
  PROVE  LET g == Append(f, [entry |-> Head(q), piece |-> k])
         IN  /\ k # 3 => Lined(q, k + 1, g, n)
             /\ k = 3 => Lined(Tail(q), 0, g, n)
<1> DEFINE a == [entry |-> Head(q), piece |-> k]
           g == Append(f, a)
           m == IF k = 3 THEN 3 ELSE k + 1
<1>1. /\ q \in Seq(Nat) /\ Len(q) \in Nat \ {0} /\ Head(q) = q[1] /\ q # <<>>
      /\ q[1] \in 1 .. n /\ k \in 1 .. 3 /\ f \in Seq(Piece) /\ Len(f) \in Nat
  BY DEF Lined
<1>2. a \in Piece /\ a.entry = q[1] /\ a.piece = k
  BY <1>1 DEF Piece
<1> HIDE DEF a
<1>3. /\ g \in Seq(Piece) /\ Len(g) = Len(f) + 1 /\ g[Len(f) + 1] = a
      /\ \A p \in 1 .. Len(f) : g[p] = f[p]
  BY <1>1, <1>2
<1> HIDE DEF g
<1>4. \A p \in 1 .. Len(f) : Precedes(f[p], q[1], k) /\ f[p].entry <= n /\ f[p].piece \in 1 .. 3
  BY <1>1, PieceTyped DEF Lined
<1>5. InOrder(g)
  <2> SUFFICES ASSUME NEW p \in 1 .. Len(g), NEW r \in 1 .. Len(g), p < r
               PROVE  Precedes(g[p], g[r].entry, g[r].piece)
    BY DEF InOrder
  <2>1. p \in 1 .. Len(f) /\ g[p] = f[p]
    BY <1>1, <1>3
  <2>2. CASE r = Len(f) + 1
    BY <1>2, <1>3, <1>4, <2>1, <2>2
  <2>3. CASE r # Len(f) + 1
    <3>1. r \in 1 .. Len(f) /\ g[r] = f[r]
      BY <1>1, <1>3, <2>3
    <3> QED
      BY <2>1, <3>1 DEF Lined, InOrder
  <2> QED
    BY <2>2, <2>3
<1>6. \A p \in 1 .. Len(g) : g[p].entry <= n /\ (k # 3 => Precedes(g[p], q[1], k + 1))
  <2> TAKE p \in 1 .. Len(g)
  <2>1. CASE p = Len(f) + 1
    BY <1>1, <1>2, <1>3, <2>1 DEF Precedes
  <2>2. CASE p # Len(f) + 1
    <3>1. p \in 1 .. Len(f) /\ g[p] = f[p]
      BY <1>1, <1>3, <2>2
    <3>2. Precedes(f[p], q[1], k) /\ f[p].piece \in 1 .. 3 /\ f[p].entry <= n
      BY <1>4, <3>1
    <3>3. Precedes(f[p], q[1], k + 1)
      BY <1>1, <3>2, PrecedesNext
    <3> QED
      BY <3>1, <3>2, <3>3
  <2> QED
    BY <2>1, <2>2
<1>7. ASSUME k # 3
      PROVE  Lined(q, k + 1, g, n)
  BY <1>1, <1>3, <1>5, <1>6, <1>7 DEF Lined
<1>8. ASSUME k = 3
      PROVE  Lined(Tail(q), 0, g, n)
  <2> DEFINE r == Tail(q)
  <2>1. Lined(r, 0, f, n)
    BY <1>1, SettleLined
  <2>2. r \in Seq(Nat) /\ Len(r) = Len(q) - 1 /\ \A i \in 1 .. Len(r) : r[i] = q[i + 1]
    BY <1>1
  <2>3. r # <<>> => Len(r) >= 1
    BY <2>2
  <2> HIDE DEF r
  <2>4. r # <<>> => q[1] < r[1]
    <3>1. \A i, j \in 1 .. Len(q) : i < j => q[i] < q[j]
      BY DEF Lined
    <3> QED
      BY <1>1, <2>2, <2>3, <3>1
  <2>5. \A p \in 1 .. Len(g) : r # <<>> => Precedes(g[p], r[1], 0)
    <3> SUFFICES ASSUME NEW p \in 1 .. Len(g), r # <<>>
                 PROVE  Precedes(g[p], r[1], 0)
      OBVIOUS
    <3>1. CASE p = Len(f) + 1
      BY <1>2, <1>3, <2>4, <3>1 DEF Precedes
    <3>2. CASE p # Len(f) + 1
      <4>1. p \in 1 .. Len(f) /\ g[p] = f[p]
        BY <1>1, <1>3, <3>2
      <4> QED
        BY <2>1, <4>1 DEF Lined
    <3> QED
      BY <3>1, <3>2
  <2>6. /\ r \in Seq(Nat)
        /\ \A i \in 1 .. Len(r) : r[i] \in 1 .. n
        /\ \A i, j \in 1 .. Len(r) : i < j => r[i] < r[j]
    BY <2>1 DEF Lined
  <2>7. Lined(r, 0, g, n)
    BY <1>3, <1>5, <1>6, <2>5, <2>6 DEF Lined
  <2> QED
    BY <2>7 DEF r
<1> QED
  BY <1>7, <1>8 DEF g, a

LEMMA TrailInitially == Init => TrailInv
<1> SUFFICES ASSUME Init PROVE TrailInv
  OBVIOUS
<1>1. Lined(<<>>, 0, <<>>, 0)
  BY DEF Lined, InOrder
<1> QED
  BY <1>1 DEF Init, TrailInit, TrailInv, TrailTypeOK

\* One session is at q, k and f now, the others are where they were.
Moves(s, q, k, f) ==
  /\ queue' \in [Sessions -> Seq(Nat)] /\ part' \in [Sessions -> 0 .. 3]
  /\ log' \in [Sessions -> Seq(Piece)]
  /\ queue'[s] = q /\ part'[s] = k /\ log'[s] = f
  /\ \A x \in Sessions \ {s} : queue'[x] = queue[x] /\ part'[x] = part[x] /\ log'[x] = log[x]

LEMMA MoveKeepsTrail ==
  ASSUME TrailInv, NEW s \in Sessions, NEW q, NEW k, NEW f,
         up' \subseteq Sessions, dirs' \subseteq Sessions, made' \subseteq Sessions,
         entries' = entries, Moves(s, q, k, f), Lined(q, k, f, entries)
  PROVE  TrailInv'
<1>1. TrailTypeOK'
  BY DEF TrailInv, TrailTypeOK, Moves
<1>2. \A x \in Sessions : Lined(queue'[x], part'[x], log'[x], entries')
  BY DEF TrailInv, Moves
<1> QED
  BY <1>1, <1>2 DEF TrailInv

\* What is in a file stays there, and a file that exists goes on existing.
Kept ==
  /\ made \subseteq made'
  /\ \A x \in Sessions :
       /\ log[x] \in Seq(Piece) /\ log'[x] \in Seq(Piece)
       /\ Len(log[x]) <= Len(log'[x])
       /\ \A p \in 1 .. Len(log[x]) : log'[x][p] = log[x][p]

LEMMA SameLogKept ==
  ASSUME TrailInv, log' = log, made \subseteq made'
  PROVE  Kept
<1>1. \A x \in Sessions : log[x] \in Seq(Piece) /\ Len(log[x]) \in Nat
  BY DEF TrailInv, TrailTypeOK
<1> QED
  BY <1>1 DEF Kept

LEMMA StartKeepsTrail ==
  ASSUME TrailInv, NEW s \in Sessions, Start(s)
  PROVE  TrailInv' /\ Kept
<1>1. TrailInv'
  BY DEF TrailInv, TrailTypeOK, Start
<1> QED
  BY <1>1, SameLogKept DEF Start

LEMMA LogKeepsTrail ==
  ASSUME TrailInv, NEW s \in Sessions, Log(s)
  PROVE  TrailInv' /\ Kept
<1>1. /\ TrailTypeOK /\ entries \in Nat /\ entries' = entries + 1
      /\ queue' = [queue EXCEPT ![s] = Append(queue[s], entries + 1)]
      /\ UNCHANGED <<up, dirs, part, log, made>>
  BY DEF TrailInv, TrailTypeOK, Log
<1>2. TrailTypeOK'
  <2>1. Append(queue[s], entries + 1) \in Seq(Nat)
    BY <1>1 DEF TrailTypeOK
  <2> QED
    BY <1>1, <2>1 DEF TrailTypeOK
<1>3. \A x \in Sessions : Lined(queue'[x], part'[x], log'[x], entries')
  <2> TAKE x \in Sessions
  <2>1. Lined(queue[x], part[x], log[x], entries)
    BY DEF TrailInv
  <2>2. /\ Lined(queue[x], part[x], log[x], entries')
        /\ Lined(Append(queue[x], entries + 1), part[x], log[x], entries')
    BY <1>1, <2>1, CallLined
  <2>3. queue'[x] = IF x = s THEN Append(queue[x], entries + 1) ELSE queue[x]
    BY <1>1 DEF TrailTypeOK
  <2> QED
    BY <1>1, <2>2, <2>3
<1> QED
  BY <1>1, <1>2, <1>3, SameLogKept DEF TrailInv

LEMMA OpenLogKeepsTrail ==
  ASSUME TrailInv, NEW s \in Sessions, OpenLog(s)
  PROVE  TrailInv' /\ Kept
<1>1. /\ TrailTypeOK /\ Lined(queue[s], 0, log[s], entries) /\ queue[s] # <<>>
      /\ part' = [part EXCEPT ![s] = 1] /\ made' = made \cup {s}
      /\ UNCHANGED <<up, dirs, entries, queue, log>>
  BY DEF TrailInv, OpenLog
<1>2. entries \in Nat /\ Lined(queue[s], 1, log[s], entries)
  BY <1>1, OpenLined DEF TrailTypeOK
<1>3. Moves(s, queue[s], 1, log[s])
  BY <1>1 DEF TrailTypeOK, Moves
<1>4. up' \subseteq Sessions /\ dirs' \subseteq Sessions /\ made' \subseteq Sessions
  BY <1>1 DEF TrailTypeOK
<1> QED
  BY <1>1, <1>2, <1>3, <1>4, MoveKeepsTrail, SameLogKept

LEMMA WritePieceKeepsTrail ==
  ASSUME TrailInv, NEW s \in Sessions, WritePiece(s)
  PROVE  TrailInv' /\ Kept
<1> DEFINE q == IF part[s] = 3 THEN Tail(queue[s]) ELSE queue[s]
           k == IF part[s] = 3 THEN 0 ELSE part[s] + 1
           f == Append(log[s], [entry |-> Head(queue[s]), piece |-> part[s]])
<1>1. /\ TrailTypeOK /\ entries \in Nat /\ part[s] > 0
      /\ Lined(queue[s], part[s], log[s], entries)
      /\ UNCHANGED <<up, dirs, entries, made>>
      /\ log' = [log EXCEPT ![s] = f] /\ part' = [part EXCEPT ![s] = k]
      /\ queue' = IF part[s] = 3 THEN [queue EXCEPT ![s] = q] ELSE queue
  BY DEF TrailInv, TrailTypeOK, WritePiece
<1>2. Lined(q, k, f, entries)
  BY <1>1, WriteLined
<1>3. log[s] \in Seq(Piece) /\ f \in Seq(Piece) /\ k \in 0 .. 3 /\ q \in Seq(Nat)
  BY <1>1, <1>2 DEF Lined
<1>4. Len(f) = Len(log[s]) + 1 /\ \A p \in 1 .. Len(log[s]) : f[p] = log[s][p]
  BY <1>3
<1> HIDE DEF f, k
<1>5. Moves(s, q, k, f)
  BY <1>1, <1>3 DEF TrailTypeOK, Moves
<1>6. up' \subseteq Sessions /\ dirs' \subseteq Sessions /\ made' \subseteq Sessions
  BY <1>1 DEF TrailTypeOK
<1>7. TrailInv'
  BY <1>1, <1>2, <1>5, <1>6, MoveKeepsTrail
<1>8. Kept
  <2>1. \A x \in Sessions : log[x] \in Seq(Piece) /\ Len(log[x]) \in Nat
    BY <1>1 DEF TrailTypeOK
  <2>2. \A x \in Sessions : x = s \/ log'[x] = log[x]
    BY <1>5 DEF Moves
  <2>3. log'[s] = f
    BY <1>5 DEF Moves
  <2>4. Len(log[s]) <= Len(f)
    BY <1>4, <2>1
  <2> QED
    BY <1>1, <1>3, <1>4, <2>1, <2>2, <2>3, <2>4 DEF Kept
<1> QED
  BY <1>7, <1>8

LEMMA AppendFailsKeepsTrail ==
  ASSUME TrailInv, NEW s \in Sessions, AppendFails(s)
  PROVE  TrailInv' /\ Kept
<1>1. /\ TrailTypeOK /\ entries \in Nat /\ queue[s] # <<>>
      /\ Lined(queue[s], part[s], log[s], entries)
      /\ part' = [part EXCEPT ![s] = 0] /\ queue' = [queue EXCEPT ![s] = Tail(queue[s])]
      /\ UNCHANGED <<up, dirs, entries, log, made>>
  BY DEF TrailInv, TrailTypeOK, AppendFails
<1>2. Lined(Tail(queue[s]), 0, log[s], entries)
  BY <1>1, SettleLined
<1>3. Moves(s, Tail(queue[s]), 0, log[s])
  BY <1>1, <1>2 DEF TrailTypeOK, Moves, Lined
<1>4. up' \subseteq Sessions /\ dirs' \subseteq Sessions /\ made' \subseteq Sessions
  BY <1>1 DEF TrailTypeOK
<1> QED
  BY <1>1, <1>2, <1>3, <1>4, MoveKeepsTrail, SameLogKept

LEMMA ExitKeepsTrail ==
  ASSUME TrailInv, NEW s \in Sessions, Exit(s)
  PROVE  TrailInv' /\ Kept
<1>1. /\ TrailTypeOK /\ entries \in Nat /\ Lined(queue[s], part[s], log[s], entries)
      /\ part' = [part EXCEPT ![s] = 0] /\ queue' = [queue EXCEPT ![s] = <<>>]
      /\ up' = up \ {s} /\ UNCHANGED <<dirs, entries, log, made>>
  BY DEF TrailInv, TrailTypeOK, Exit
<1>2. Lined(<<>>, 0, log[s], entries)
  BY <1>1, ExitLined
<1>3. Moves(s, <<>>, 0, log[s])
  BY <1>1 DEF TrailTypeOK, Moves
<1>4. up' \subseteq Sessions /\ dirs' \subseteq Sessions /\ made' \subseteq Sessions
  BY <1>1 DEF TrailTypeOK
<1> QED
  BY <1>1, <1>2, <1>3, <1>4, MoveKeepsTrail, SameLogKept

LEMMA TrailPreserved ==
  ASSUME TrailInv, NEW s \in Sessions, Coordinator(s)
  PROVE  TrailInv' /\ Kept
  BY StartKeepsTrail, LogKeepsTrail, OpenLogKeepsTrail, WritePieceKeepsTrail,
     AppendFailsKeepsTrail, ExitKeepsTrail DEF Coordinator

-----------------------------------------------------------------------------
(* Part 2: the reader                                                      *)

Ascending(q) == \A i, j \in 1 .. Len(q) : i < j => q[i] < q[j]

\* What is shown is of lines whose first piece has been read.
FromLog(q, f, o) ==
  \A i \in 1 .. Len(q) : \E p \in 1 .. o : f[p].piece = 1 /\ f[p].entry = q[i]

\* The two pieces of JSON at p and p + 1 are alone in their line, as far as the
\* first o pieces of f tell, and no read ended between them.
WholeSoFar(p, f, o, c) ==
  /\ f[p].piece = 1 /\ f[p + 1] = [f[p] EXCEPT !.piece = 2]
  /\ p = 1 \/ f[p - 1].piece = 3
  /\ p + 2 <= o => f[p + 2].piece = 3
  /\ p \notin c

Told(q, f, o, c) ==
  \A p \in 1 .. o - 1 :
    WholeSoFar(p, f, o, c) => \E i \in 1 .. Len(q) : q[i] = f[p].entry

\* q is what reads that ended at c, the last at o, have shown of the file f.
ReadOf(f, q, o, c) ==
  /\ q \in Seq(Nat) /\ o \in Nat /\ c \subseteq Nat
  /\ o <= Len(f) /\ \A x \in c : x <= o
  /\ o # 0 => o \in c
  /\ c = {} => q = <<>>
  /\ Ascending(q) /\ FromLog(q, f, o) /\ Told(q, f, o, c)

\* tail() begins with nothing read.
LEMMA NothingRead ==
  ASSUME NEW f \in Seq(Piece)
  PROVE  ReadOf(f, <<>>, 0, {})
<1>1. Len(f) \in Nat
  OBVIOUS
<1> QED
  BY <1>1 DEF ReadOf, Ascending, FromLog, Told

\* What has been read does not depend on what is appended later.
LEMMA ReadOfLonger ==
  ASSUME NEW f \in Seq(Piece), NEW g \in Seq(Piece), Len(f) <= Len(g),
         \A p \in 1 .. Len(f) : g[p] = f[p],
         NEW q, NEW o, NEW c, ReadOf(f, q, o, c)
  PROVE  ReadOf(g, q, o, c)
<1>1. Len(f) \in Nat /\ Len(g) \in Nat /\ o \in Nat /\ o <= Len(f) /\ o <= Len(g)
  BY DEF ReadOf
<1>2. \A p \in 1 .. o : g[p] = f[p]
  BY <1>1
<1>3. FromLog(q, g, o)
  BY <1>2 DEF ReadOf, FromLog
<1>4. Told(q, g, o, c)
  <2> SUFFICES ASSUME NEW p \in 1 .. o - 1, WholeSoFar(p, g, o, c)
               PROVE  \E i \in 1 .. Len(q) : q[i] = g[p].entry
    BY DEF Told
  <2>1. p \in 1 .. o /\ p + 1 \in 1 .. o /\ p \in Nat
    BY <1>1
  <2>2. g[p] = f[p] /\ g[p + 1] = f[p + 1]
    BY <1>2, <2>1
  <2>3. p = 1 \/ (p - 1 \in 1 .. o /\ g[p - 1] = f[p - 1])
    BY <1>1, <1>2, <2>1
  <2>4. p + 2 <= o => p + 2 \in 1 .. o /\ g[p + 2] = f[p + 2]
    BY <1>1, <1>2, <2>1
  <2>5. WholeSoFar(p, f, o, c)
    BY <2>2, <2>3, <2>4 DEF WholeSoFar
  <2> QED
    BY <2>2, <2>5 DEF ReadOf, Told
<1> QED
  BY <1>1, <1>3, <1>4 DEF ReadOf

\* What one read publishes of its text: the whole lines, each once, in order.
LEMMA ParsedTells ==
  ASSUME NEW t \in Seq(Piece), InOrder(t)
  PROVE  /\ Parsed(t) \in Seq(Nat)
         /\ \A k \in 1 .. Len(Parsed(t)) : \E i \in Whole(t) : Parsed(t)[k] = t[i].entry
         /\ \A i \in Whole(t) : \E k \in 1 .. Len(Parsed(t)) : Parsed(t)[k] = t[i].entry
         /\ Ascending(Parsed(t))
<1> DEFINE S == Whole(t)
           n == Cardinality(S)
           r == Parsed(t)
<1>1. Len(t) \in Nat
  OBVIOUS
<1>2. \A i \in S : i \in 1 .. Len(t) /\ i \in Nat /\ t[i].piece = 1
  BY <1>1 DEF Whole
<1>3. IsFiniteSet(S)
  <2> DEFINE T == 1 .. Len(t)
  <2>1. IsFiniteSet(T)
    BY <1>1, FS_Interval
  <2>2. S \subseteq T
    BY <1>2
  <2> HIDE DEF S, T
  <2> QED
    BY <2>1, <2>2, FS_Subset
<1>4. Numbers(S)
  BY <1>2, <1>3 DEF Numbers
<1>5. n \in Nat
  BY <1>3, FS_CardinalityType
<1>6. r = [k \in 1 .. n |-> t[Nth(S, k)].entry]
  BY DEF Parsed
<1> HIDE DEF r, n, S
<1>7. \A k \in 1 .. n : Nth(S, k) \in S /\ Rank(S, Nth(S, k)) = k
  BY <1>4, NthExists DEF n
<1>8. \A i \in S : Rank(S, i) \in 1 .. n /\ Nth(S, Rank(S, i)) = i
  BY <1>4, RankRange, NthIs DEF n
<1>9. \A i \in S : t[i].entry \in Nat
  BY <1>2, PieceTyped
<1>10. r \in Seq(Nat) /\ Len(r) = n /\ \A k \in 1 .. n : r[k] = t[Nth(S, k)].entry
  <2>1. \A k \in 1 .. n : t[Nth(S, k)].entry \in Nat
    BY <1>7, <1>9
  <2> QED
    BY <1>5, <1>6, <2>1
<1>11. \A k \in 1 .. n : \E i \in S : r[k] = t[i].entry
  BY <1>7, <1>10
<1>12. \A i \in S : \E k \in 1 .. n : r[k] = t[i].entry
  BY <1>8, <1>10
<1>13. ASSUME NEW k \in 1 .. n, NEW m \in 1 .. n, k < m
       PROVE  r[k] < r[m]
  <2> DEFINE i == Nth(S, k)
             j == Nth(S, m)
  <2>1. i \in S /\ j \in S /\ Rank(S, i) = k /\ Rank(S, j) = m
    BY <1>7
  <2>2. r[k] = t[i].entry /\ r[m] = t[j].entry
    BY <1>10
  <2> HIDE DEF i, j
  <2>3. i \in Nat /\ j \in Nat /\ i \in 1 .. Len(t) /\ j \in 1 .. Len(t)
    BY <1>2, <2>1
  <2>4. i < j
    <3>1. i # j
      BY <1>13, <2>1
    <3>2. j < i => m < k
      BY <1>4, <2>1, RankGrows
    <3> QED
      BY <1>13, <2>3, <3>1, <3>2
  <2>5. Precedes(t[i], t[j].entry, t[j].piece)
    BY <2>3, <2>4 DEF InOrder
  <2>6. t[i].piece = 1 /\ t[j].piece = 1
    BY <1>2, <2>1
  <2> QED
    BY <2>2, <2>5, <2>6 DEF Precedes
<1> QED
  BY <1>10, <1>11, <1>12, <1>13 DEF Ascending, r, S

LEMMA ParsedOfNothing == Parsed(<<>>) = <<>>
<1>1. Whole(<<>>) = {}
  BY DEF Whole
<1>2. Cardinality(Whole(<<>>)) = 0
  BY <1>1, FS_EmptySet
<1> QED
  BY <1>2 DEF Parsed

\* One read, from the offset to the end of the file.
LEMMA ReadOn ==
  ASSUME NEW f \in Seq(Piece), InOrder(f),
         NEW q, NEW o, NEW c, ReadOf(f, q, o, c)
  PROVE  LET new == Parsed(SubSeq(f, o + 1, Len(f)))
         IN  new \in Seq(Nat) /\ ReadOf(f, q \o new, Len(f), c \cup {Len(f)})
<1> DEFINE t == SubSeq(f, o + 1, Len(f))
           new == Parsed(t)
           n == Len(f)
           m == Len(q)
           r == q \o new
           d == c \cup {n}
<1>1. /\ n \in Nat /\ o \in Nat /\ o <= n /\ q \in Seq(Nat) /\ m \in Nat
      /\ c \subseteq Nat /\ \A x \in c : x <= o
  BY DEF ReadOf
<1>2. /\ t \in Seq(Piece) /\ Len(t) = n - o
      /\ \A i \in 1 .. n - o : t[i] = f[o + i]
  <2>1. \A i \in o + 1 .. n : f[i] \in Piece
    BY <1>1
  <2>2. /\ t \in Seq(Piece) /\ Len(t) = IF o + 1 <= n THEN n - (o + 1) + 1 ELSE 0
        /\ \A i \in 1 .. n - (o + 1) + 1 : t[i] = f[(o + 1) + i - 1]
    BY <1>1, <2>1, SubSeqProperties
  <2>3. \A i \in 1 .. n - o : (o + 1) + i - 1 = o + i
    BY <1>1
  <2> QED
    BY <1>1, <2>2, <2>3
<1> HIDE DEF t
<1>3. InOrder(t)
  <2> SUFFICES ASSUME NEW i \in 1 .. Len(t), NEW j \in 1 .. Len(t), i < j
               PROVE  Precedes(t[i], t[j].entry, t[j].piece)
    BY DEF InOrder
  <2>1. /\ t[i] = f[o + i] /\ t[j] = f[o + j]
        /\ o + i \in 1 .. n /\ o + j \in 1 .. n /\ o + i < o + j
    BY <1>1, <1>2
  <2> QED
    BY <2>1 DEF InOrder
<1>4. /\ new \in Seq(Nat)
      /\ \A k \in 1 .. Len(new) : \E i \in Whole(t) : new[k] = t[i].entry
      /\ \A i \in Whole(t) : \E k \in 1 .. Len(new) : new[k] = t[i].entry
      /\ Ascending(new)
  BY <1>2, <1>3, ParsedTells
<1> HIDE DEF new
<1>5. /\ Len(new) \in Nat
      /\ r \in Seq(Nat) /\ Len(r) = m + Len(new)
      /\ \A i \in 1 .. m : r[i] = q[i]
      /\ \A k \in 1 .. Len(new) : r[m + k] = new[k]
  <2>1. Len(new) \in Nat
    BY <1>4
  <2>2. /\ r \in Seq(Nat) /\ Len(r) = m + Len(new)
        /\ \A i \in 1 .. m + Len(new) : r[i] = IF i <= m THEN q[i] ELSE new[i - m]
    BY <1>1, <1>4, ConcatProperties
  <2>3. \A k \in 1 .. Len(new) : m + k \in 1 .. m + Len(new) /\ ~(m + k <= m) /\ (m + k) - m = k
    BY <1>1, <2>1
  <2>4. \A i \in 1 .. m : i \in 1 .. m + Len(new) /\ i <= m
    BY <1>1, <2>1
  <2> QED
    BY <2>1, <2>2, <2>3, <2>4
<1> HIDE DEF r
<1>6. ASSUME NEW i \in 1 .. Len(r)
      PROVE  i \in 1 .. m \/ \E k \in 1 .. Len(new) : i = m + k
  <2>1. i \in Nat /\ i <= m + Len(new) /\ i >= 1 /\ Len(new) \in Nat /\ m \in Nat
    BY <1>1, <1>5
  <2>2. CASE i <= m
    BY <2>1, <2>2
  <2>3. CASE i > m
    <3> DEFINE k == i - m
    <3>1. k \in 1 .. Len(new) /\ i = m + k
      BY <2>1, <2>3
    <3> QED
      BY <3>1
  <2> QED
    BY <2>1, <2>2, <2>3
<1>7. \A i \in Whole(t) : /\ o + i \in 1 .. n /\ o < o + i /\ t[i] = f[o + i]
                          /\ f[o + i].piece = 1
  <2> TAKE i \in Whole(t)
  <2>1. i \in 1 .. n - o /\ t[i].piece = 1
    BY <1>1, <1>2 DEF Whole
  <2> QED
    BY <1>1, <1>2, <2>1
<1>8. FromLog(r, f, n)
  <2> SUFFICES ASSUME NEW i \in 1 .. Len(r)
               PROVE  \E p \in 1 .. n : f[p].piece = 1 /\ f[p].entry = r[i]
    BY DEF FromLog
  <2>1. CASE i \in 1 .. m
    <3>1. \E p \in 1 .. o : f[p].piece = 1 /\ f[p].entry = q[i]
      BY <2>1 DEF ReadOf, FromLog
    <3> QED
      BY <1>1, <1>5, <2>1, <3>1
  <2>2. ASSUME NEW k \in 1 .. Len(new), i = m + k
        PROVE  \E p \in 1 .. n : f[p].piece = 1 /\ f[p].entry = r[i]
    <3>1. PICK x \in Whole(t) : new[k] = t[x].entry
      BY <1>4
    <3> QED
      BY <1>5, <1>7, <2>2, <3>1
  <2> QED
    BY <1>6, <2>1, <2>2
<1>9. ASSUME NEW i \in 1 .. m, NEW k \in 1 .. Len(new)
      PROVE  q[i] < new[k]
  <2>1. PICK p \in 1 .. o : f[p].piece = 1 /\ f[p].entry = q[i]
    BY DEF ReadOf, FromLog
  <2>2. PICK x \in Whole(t) : new[k] = t[x].entry
    BY <1>4
  <2>3. /\ o + x \in 1 .. n /\ o < o + x /\ new[k] = f[o + x].entry /\ f[o + x].piece = 1
    BY <1>7, <2>2
  <2>4. p \in 1 .. n /\ p < o + x
    BY <1>1, <2>3
  <2>5. Precedes(f[p], f[o + x].entry, f[o + x].piece)
    BY <2>3, <2>4 DEF InOrder
  <2> QED
    BY <2>1, <2>3, <2>5 DEF Precedes
<1>10. Ascending(r)
  <2> SUFFICES ASSUME NEW i \in 1 .. Len(r), NEW j \in 1 .. Len(r), i < j
               PROVE  r[i] < r[j]
    BY DEF Ascending
  <2>1. CASE i \in 1 .. m /\ j \in 1 .. m
    BY <1>5, <2>1 DEF ReadOf, Ascending
  <2>2. ASSUME i \in 1 .. m, NEW k \in 1 .. Len(new), j = m + k
        PROVE  r[i] < r[j]
    BY <1>5, <1>9, <2>2
  <2>3. ASSUME NEW k \in 1 .. Len(new), i = m + k, NEW l \in 1 .. Len(new), j = m + l
        PROVE  r[i] < r[j]
    <3>1. k < l
      BY <1>1, <2>3
    <3> QED
      BY <1>4, <1>5, <2>3, <3>1 DEF Ascending
  <2>4. ASSUME NEW k \in 1 .. Len(new), i = m + k
        PROVE  j \notin 1 .. m
    BY <1>1, <2>4
  <2> QED
    BY <1>6, <2>1, <2>2, <2>3, <2>4
<1>11. Told(r, f, n, d)
  <2> SUFFICES ASSUME NEW p \in 1 .. n - 1, WholeSoFar(p, f, n, d)
               PROVE  \E i \in 1 .. Len(r) : r[i] = f[p].entry
    BY DEF Told
  <2>0. p \in Nat /\ p + 1 <= n /\ p \notin c
    BY <1>1 DEF WholeSoFar
  <2>1. CASE p <= o - 1
    <3>1. p \in 1 .. o - 1
      BY <1>1, <2>1
    <3>2. p + 2 <= o => p + 2 <= n
      BY <1>1, <2>0
    <3>3. WholeSoFar(p, f, o, c)
      BY <2>0, <3>2 DEF WholeSoFar
    <3>4. PICK i \in 1 .. m : q[i] = f[p].entry
      BY <3>1, <3>3 DEF ReadOf, Told
    <3>5. r[i] = q[i]
      BY <1>5
    <3>6. i \in 1 .. Len(r)
      <4>1. Len(new) \in Nat /\ Len(r) = m + Len(new) /\ m \in Nat
        BY <1>1, <1>5
      <4> QED
        BY <4>1
    <3> QED
      BY <3>4, <3>5, <3>6
  <2>2. CASE p = o
    BY <2>0, <2>2 DEF ReadOf
  <2>3. CASE p > o
    <3> DEFINE i == p - o
    <3>1. /\ i \in 1 .. Len(t) - 1 /\ i + 1 \in 1 .. n - o /\ i \in 1 .. n - o
          /\ o + i = p /\ o + (i + 1) = p + 1 /\ i \in Nat
      BY <1>1, <1>2, <2>0, <2>3
    <3>2. i = 1 \/ (i - 1 \in 1 .. n - o /\ o + (i - 1) = p - 1 /\ p # 1)
      BY <1>1, <3>1
    <3>3. i + 1 = Len(t) \/ (i + 2 \in 1 .. n - o /\ o + (i + 2) = p + 2 /\ p + 2 <= n)
      BY <1>1, <1>2, <3>1
    <3> HIDE DEF i
    <3>4. t[i] = f[p] /\ t[i + 1] = f[p + 1]
      BY <1>2, <3>1
    <3>5. i = 1 \/ t[i - 1].piece = 3
      BY <1>2, <3>2 DEF WholeSoFar
    <3>6. i + 1 = Len(t) \/ t[i + 2].piece = 3
      BY <1>2, <3>3 DEF WholeSoFar
    <3>7. i \in Whole(t)
      BY <3>1, <3>4, <3>5, <3>6 DEF Whole, WholeSoFar
    <3>8. PICK k \in 1 .. Len(new) : new[k] = t[i].entry
      BY <1>4, <3>7
    <3>9. m + k \in 1 .. Len(r) /\ r[m + k] = f[p].entry
      BY <1>1, <1>5, <3>4, <3>8
    <3> QED
      BY <3>9
  <2> QED
    BY <1>1, <2>0, <2>1, <2>2, <2>3
<1>12. d \subseteq Nat /\ \A x \in d : x <= n
  <2> SUFFICES ASSUME NEW x \in d
               PROVE  x \in Nat /\ x <= n
    OBVIOUS
  <2>1. CASE x = n
    BY <1>1, <2>1
  <2>2. CASE x \in c
    <3>1. x \in Nat /\ x <= o
      BY <1>1, <2>2
    <3> QED
      BY <1>1, <3>1
  <2> QED
    BY <2>1, <2>2
<1>13. n \in d /\ d # {}
  OBVIOUS
<1>14. ReadOf(f, r, n, d)
  BY <1>1, <1>5, <1>8, <1>10, <1>11, <1>12, <1>13 DEF ReadOf
<1> QED
  BY <1>4, <1>14 DEF r, new, t

-----------------------------------------------------------------------------
(* The reader, its watches and the tree, and the invariant of it all.      *)

Followed == IF tail = NoSession THEN <<>> ELSE log[tail]

ViewTypeOK ==
  /\ step \in {"off", "starting", "idle", "read", "watch", "watchDir", "reset"}
  /\ watching \in BOOLEAN /\ noticed \in BOOLEAN /\ woken \in BOOLEAN /\ changed \in BOOLEAN
  /\ active \in Sessions \cup {NoSession} /\ tail \in Sessions \cup {NoSession}
  /\ watch \in {"none", "file", "dir"}
  /\ tree \in Seq(Nat) /\ since \in Nat \cup {-1}

\* What each step of a callback can rely on.
Control ==
  /\ tail = NoSession =>
       cuts = {} /\ since = -1 /\ step \in {"off", "starting", "idle"}
  /\ step \in {"off", "starting"} => tail = NoSession
  /\ changed => step \in {"read", "watch", "watchDir", "reset"}
  /\ step \in {"read", "reset"} => changed
  /\ step = "read" => cuts = {} /\ since = -1
  /\ step \in {"read", "watch", "watchDir"} => watch = "none"
  /\ step \in {"watch", "watchDir", "reset"} => cuts # {}
  /\ step = "idle" /\ tail # NoSession => cuts # {}

\* A watch is in place when the callbacks are done, and has an event pending
\* whenever there is something to read that is younger than it.
Watched ==
  /\ watch = "none" => ~woken
  /\ watch # "none" => since >= 0
  /\ step \in {"idle", "reset"} /\ since >= 0 => watch # "none"
  /\ watch # "none" /\ Len(Followed) > since /\ Len(Followed) > offset => woken

\* The first read found nothing: nothing was shown before the tree was reset.
TreeTold ==
  0 \in cuts => IF changed THEN shown = <<>> ELSE tree = shown

ViewInv ==
  ViewTypeOK /\ Control /\ ReadOf(Followed, shown, offset, cuts) /\ Watched /\ TreeTold

IInv == TrailInv /\ ViewInv

LEMMA FollowedTyped ==
  ASSUME TrailInv, ViewTypeOK
  PROVE  /\ Followed \in Seq(Piece) /\ Len(Followed) \in Nat /\ InOrder(Followed)
         /\ Size = Len(Followed)
<1>1. CASE tail = NoSession
  BY <1>1 DEF Followed, InOrder, Size
<1>2. CASE tail # NoSession
  <2>1. tail \in Sessions
    BY <1>2 DEF ViewTypeOK
  <2>2. log[tail] \in Seq(Piece) /\ InOrder(log[tail])
    BY <2>1 DEF TrailInv, Lined
  <2> QED
    BY <1>2, <2>2 DEF Followed, Size
<1> QED
  BY <1>1, <1>2

LEMMA ViewInitially == Init => IInv
<1> SUFFICES ASSUME Init PROVE IInv
  OBVIOUS
<1>1. /\ step = "off" /\ watching = FALSE /\ noticed = FALSE /\ active = NoSession
      /\ tail = NoSession /\ offset = 0 /\ watch = "none" /\ woken = FALSE
      /\ changed = FALSE /\ shown = <<>> /\ tree = <<>> /\ cuts = {} /\ since = -1
  BY DEF Init
<1>2. ViewTypeOK
  <2>1. tree \in Seq(Nat)
    BY <1>1
  <2>2. since \in Nat \cup {-1}
    BY <1>1
  <2> QED
    BY <1>1, <2>1, <2>2 DEF ViewTypeOK
<1>3. Control
  BY <1>1 DEF Control
<1>4. ReadOf(Followed, shown, offset, cuts)
  <2>1. Followed = <<>> /\ Followed \in Seq(Piece)
    BY <1>1 DEF Followed
  <2> QED
    BY <1>1, <2>1, NothingRead
<1>5. Watched /\ TreeTold
  BY <1>1 DEF Watched, TreeTold
<1> QED
  BY <1>2, <1>3, <1>4, <1>5, TrailInitially DEF IInv, ViewInv

\* Only the log of the coordinator that moves grows.
LEMMA OthersLogs ==
  ASSUME TrailInv, NEW s \in Sessions, Coordinator(s), NEW x \in Sessions \ {s}
  PROVE  log'[x] = log[x]
<1>1. log \in [Sessions -> Seq(Piece)]
  BY DEF TrailInv, TrailTypeOK
<1>2. CASE WritePiece(s)
  BY <1>1, <1>2 DEF WritePiece
<1>3. CASE ~WritePiece(s)
  <2>1. log' = log
    BY <1>3 DEF Coordinator, Start, Log, OpenLog, AppendFails, Exit
  <2> QED
    BY <2>1
<1> QED
  BY <1>2, <1>3

LEMMA WorkKeepsView ==
  ASSUME IInv, NEW s \in Sessions, Work(s)
  PROVE  IInv'
<1>1. /\ TrailInv /\ ViewTypeOK /\ Control /\ Watched /\ TreeTold
      /\ ReadOf(Followed, shown, offset, cuts)
      /\ Coordinator(s)
      /\ UNCHANGED <<step, watching, active, tail, offset, watch, changed, shown, tree,
                     cuts, since, switches>>
      /\ noticed' = (noticed \/ (watching /\ dirs' # dirs))
      /\ woken' = (woken \/ (s = tail /\ watch # "none" /\ <<log, made>>' # <<log, made>>))
  BY DEF IInv, ViewInv, Work
<1>2. TrailInv' /\ Kept
  BY <1>1, TrailPreserved
<1>3. ViewTypeOK'
  <2>1. noticed' \in BOOLEAN /\ woken' \in BOOLEAN
    BY <1>1 DEF ViewTypeOK
  <2> QED
    BY <1>1, <2>1 DEF ViewTypeOK
<1>4. Control' /\ TreeTold'
  BY <1>1 DEF Control, TreeTold
<1>5. /\ Followed \in Seq(Piece) /\ Followed' \in Seq(Piece)
      /\ Len(Followed) <= Len(Followed')
      /\ \A p \in 1 .. Len(Followed) : Followed'[p] = Followed[p]
  <2>1. CASE tail = NoSession
    BY <1>1, <2>1 DEF Followed
  <2>2. CASE tail # NoSession
    BY <1>1, <1>2, <2>2 DEF Followed, Kept, ViewTypeOK
  <2> QED
    BY <2>1, <2>2
<1>6. ReadOf(Followed, shown, offset, cuts)'
  <2>1. ReadOf(Followed', shown, offset, cuts)
    BY <1>1, <1>5, ReadOfLonger
  <2> QED
    BY <1>1, <2>1
<1>7. watch # "none" => woken' \/ Followed' = Followed
  <2> SUFFICES ASSUME watch # "none", ~woken'
               PROVE  Followed' = Followed
    OBVIOUS
  <2>1. s # tail \/ log' = log
    BY <1>1
  <2>2. CASE tail = NoSession
    BY <1>1, <2>2 DEF Followed
  <2>3. CASE tail # NoSession
    <3>1. tail \in Sessions
      BY <1>1, <2>3 DEF ViewTypeOK
    <3>2. log'[tail] = log[tail]
      BY <1>1, <2>1, <3>1, OthersLogs
    <3> QED
      BY <1>1, <2>3, <3>2 DEF Followed
  <2> QED
    BY <2>2, <2>3
<1>8. Watched'
  <2>1. /\ watch = "none" => ~woken
        /\ watch # "none" => since >= 0
        /\ step \in {"idle", "reset"} /\ since >= 0 => watch # "none"
        /\ watch # "none" /\ Len(Followed) > since /\ Len(Followed) > offset => woken
    BY <1>1 DEF Watched
  <2>2. (watch = "none" => ~woken)'
    BY <1>1, <2>1
  <2>3. woken => woken'
    BY <1>1
  <2>4. (watch # "none" /\ Len(Followed) > since /\ Len(Followed) > offset => woken)'
    BY <1>1, <1>7, <2>1, <2>3
  <2> QED
    BY <1>1, <2>1, <2>2, <2>4 DEF Watched
<1> QED
  BY <1>2, <1>3, <1>4, <1>6, <1>8 DEF IInv, ViewInv

LEMMA TrailStays ==
  ASSUME TrailInv, UNCHANGED trailVars
  PROVE  TrailInv'
  BY DEF TrailInv, TrailTypeOK, trailVars

\* A callback that goes on without a read or another session.
LEMMA SameRead ==
  ASSUME ReadOf(Followed, shown, offset, cuts),
         UNCHANGED <<log, tail, shown, offset, cuts>>
  PROVE  ReadOf(Followed, shown, offset, cuts)' /\ Followed' = Followed
<1>1. Followed' = Followed
  BY DEF Followed
<1> QED
  BY <1>1

LEMMA ActivateKeepsView ==
  ASSUME IInv, Activate
  PROVE  IInv'
<1>1. /\ TrailInv /\ ViewTypeOK /\ Control /\ Watched /\ TreeTold
      /\ ReadOf(Followed, shown, offset, cuts)
      /\ step = "off" /\ step' = "starting"
      /\ UNCHANGED <<trailVars, watching, noticed, tail, offset, watch, woken, changed,
                     shown, tree, cuts, since, switches>>
  BY DEF IInv, ViewInv, Activate
<1>2. active' \in Sessions \cup {NoSession}
  BY <1>1 DEF Activate, TrailInv, TrailTypeOK
<1>3. TrailInv' /\ log' = log
  BY <1>1, TrailStays DEF trailVars
<1>4. ViewTypeOK'
  BY <1>1, <1>2 DEF ViewTypeOK
<1>5. Control' /\ TreeTold'
  BY <1>1 DEF Control, TreeTold
<1>6. ReadOf(Followed, shown, offset, cuts)' /\ Followed' = Followed
  BY <1>1, <1>3, SameRead
<1>7. Watched'
  BY <1>1, <1>6 DEF Watched
<1> QED
  BY <1>3, <1>4, <1>5, <1>6, <1>7 DEF IInv, ViewInv

LEMMA WatchSessionsKeepsView ==
  ASSUME IInv, WatchSessions
  PROVE  IInv'
<1>1. /\ TrailInv /\ ViewTypeOK /\ Control /\ Watched /\ TreeTold
      /\ ReadOf(Followed, shown, offset, cuts)
      /\ step = "starting" /\ step' = "idle" /\ watching' \in BOOLEAN
      /\ UNCHANGED <<trailVars, noticed, active, tail, offset, watch, woken, changed,
                     shown, tree, cuts, since, switches>>
  BY DEF IInv, ViewInv, WatchSessions
<1>2. tail = NoSession /\ cuts = {} /\ since = -1
  BY <1>1 DEF Control
<1>3. TrailInv' /\ log' = log
  BY <1>1, TrailStays DEF trailVars
<1>4. ViewTypeOK'
  BY <1>1 DEF ViewTypeOK
<1>5. Control' /\ TreeTold'
  BY <1>1, <1>2 DEF Control, TreeTold
<1>6. ReadOf(Followed, shown, offset, cuts)' /\ Followed' = Followed
  BY <1>1, <1>3, SameRead
<1>7. Watched'
  BY <1>1, <1>2, <1>6 DEF Watched
<1> QED
  BY <1>3, <1>4, <1>5, <1>6, <1>7 DEF IInv, ViewInv

\* tail() forgets all of the former session.
LEMMA TailKeepsView ==
  ASSUME IInv, NEW s \in Sessions, TailSession(s), noticed' \in BOOLEAN,
         UNCHANGED <<trailVars, watching>>
  PROVE  IInv'
<1>1. /\ TrailInv /\ ViewTypeOK
      /\ active' = s /\ changed' = TRUE /\ tail' = s /\ offset' = 0 /\ watch' = "none"
      /\ woken' = FALSE /\ shown' = <<>> /\ cuts' = {} /\ since' = -1 /\ step' = "read"
      /\ tree' = tree /\ s # NoSession
  BY NoSessionAssumption DEF IInv, ViewInv, TailSession
<1>2. TrailInv' /\ log' = log
  BY <1>1, TrailStays DEF trailVars
<1>3. ViewTypeOK'
  BY <1>1 DEF ViewTypeOK
<1>4. Control' /\ TreeTold' /\ Watched'
  BY <1>1 DEF Control, TreeTold, Watched
<1>5. ReadOf(Followed, shown, offset, cuts)'
  <2>1. Followed' \in Seq(Piece)
    BY <1>1, <1>2 DEF Followed, TrailInv, TrailTypeOK
  <2> QED
    BY <1>1, <2>1, NothingRead
<1> QED
  BY <1>2, <1>3, <1>4, <1>5 DEF IInv, ViewInv

LEMMA SelectMostRecentKeepsView ==
  ASSUME IInv, SelectMostRecent
  PROVE  IInv'
<1>1. PICK s \in dirs :
        IF s # active THEN TailSession(s)
        ELSE UNCHANGED <<step, active, tail, offset, watch, woken, changed, shown,
                         tree, cuts, since>>
  BY DEF SelectMostRecent
<1>2. /\ noticed' = FALSE /\ UNCHANGED <<trailVars, watching, switches>>
      /\ s \in Sessions
  BY DEF SelectMostRecent, IInv, TrailInv, TrailTypeOK
<1>3. CASE s # active
  BY <1>1, <1>2, <1>3, TailKeepsView
<1>4. CASE s = active
  <2>1. /\ TrailInv /\ ViewTypeOK /\ Control /\ Watched /\ TreeTold
        /\ ReadOf(Followed, shown, offset, cuts)
        /\ UNCHANGED <<step, active, tail, offset, watch, woken, changed, shown,
                       tree, cuts, since>>
    BY <1>1, <1>4 DEF IInv, ViewInv
  <2>2. TrailInv' /\ log' = log
    BY <1>2, <2>1, TrailStays DEF trailVars
  <2>3. ViewTypeOK'
    BY <1>2, <2>1 DEF ViewTypeOK
  <2>4. Control' /\ TreeTold'
    BY <2>1 DEF Control, TreeTold
  <2>5. ReadOf(Followed, shown, offset, cuts)' /\ Followed' = Followed
    BY <2>1, <2>2, SameRead
  <2>6. Watched'
    BY <2>1, <2>5 DEF Watched
  <2> QED
    BY <2>2, <2>3, <2>4, <2>5, <2>6 DEF IInv, ViewInv
<1> QED
  BY <1>3, <1>4

LEMMA SetActiveSessionKeepsView ==
  ASSUME IInv, NEW s \in Sessions, SetActiveSession(s)
  PROVE  IInv'
<1>1. noticed \in BOOLEAN
  BY DEF IInv, ViewInv, ViewTypeOK
<1> QED
  BY <1>1, TailKeepsView DEF SetActiveSession

\* What a read leaves, for the first one and for those after an event.
LEMMA PublishReads ==
  ASSUME TrailInv, ViewTypeOK, ReadOf(Followed, shown, offset, cuts),
         tail # NoSession, Publish, UNCHANGED <<log, tail>>
  PROVE  /\ ReadOf(Followed, shown, offset, cuts)' /\ Followed' = Followed
         /\ offset' = Len(Followed) /\ cuts' = cuts \cup {Len(Followed)}
         /\ \E new \in Seq(Nat) :
              /\ shown' = shown \o new /\ tree' = tree \o new
              /\ Len(Followed) = 0 => new = <<>>
<1> DEFINE n == Len(Followed)
           new == Parsed(SubSeq(Followed, offset + 1, n))
<1>1. /\ Followed \in Seq(Piece) /\ n \in Nat /\ InOrder(Followed) /\ Size = n
      /\ Followed = log[tail]
  BY FollowedTyped DEF Followed
<1>2. /\ shown' = shown \o new /\ tree' = tree \o new
      /\ offset' = n /\ cuts' = cuts \cup {n}
  BY <1>1 DEF Publish, OnTree
<1>3. Followed' = Followed
  BY DEF Followed
<1>4. new \in Seq(Nat) /\ ReadOf(Followed, shown \o new, n, cuts \cup {n})
  BY <1>1, ReadOn
<1>5. ASSUME n = 0
      PROVE  new = <<>>
  <2>1. offset \in Nat
    BY DEF ReadOf
  <2>2. SubSeq(Followed, offset + 1, 0) = <<>>
    BY <2>1, SubSeqEmpty
  <2> QED
    BY <1>5, <2>2, ParsedOfNothing
<1> HIDE DEF new
<1>6. ReadOf(Followed, shown, offset, cuts)'
  BY <1>2, <1>3, <1>4
<1> QED
  BY <1>2, <1>3, <1>4, <1>5, <1>6

LEMMA ReadFirstKeepsView ==
  ASSUME IInv, ReadFirst
  PROVE  IInv'
<1>1. /\ TrailInv /\ ViewTypeOK /\ Control /\ Watched /\ TreeTold
      /\ ReadOf(Followed, shown, offset, cuts)
      /\ step = "read" /\ step' = "watch" /\ Publish
      /\ UNCHANGED <<trailVars, selection, tail, watch, woken, changed, since, switches>>
  BY DEF IInv, ViewInv, ReadFirst
<1>2. /\ tail # NoSession /\ changed /\ cuts = {} /\ since = -1 /\ watch = "none"
  BY <1>1 DEF Control
<1>3. TrailInv' /\ log' = log
  BY <1>1, TrailStays DEF trailVars
<1>4. /\ ReadOf(Followed, shown, offset, cuts)' /\ Followed' = Followed
      /\ offset' = Len(Followed) /\ cuts' = {Len(Followed)}
  BY <1>1, <1>2, <1>3, PublishReads
<1>5. PICK new \in Seq(Nat) :
        /\ shown' = shown \o new /\ tree' = tree \o new
        /\ Len(Followed) = 0 => new = <<>>
  BY <1>1, <1>2, <1>3, PublishReads
<1>6. ViewTypeOK'
  <2>1. tree' \in Seq(Nat)
    BY <1>1, <1>5, ConcatProperties DEF ViewTypeOK
  <2> QED
    BY <1>1, <2>1 DEF ViewTypeOK, selection
<1>7. Control'
  BY <1>1, <1>2, <1>4 DEF Control
<1>8. TreeTold'
  <2> SUFFICES ASSUME 0 \in cuts'
               PROVE  shown' = <<>>
    BY <1>1, <1>2 DEF TreeTold
  <2>1. new = <<>>
    BY <1>4, <1>5
  <2>2. shown = <<>>
    BY <1>1, <1>2 DEF ReadOf
  <2>3. shown' = <<>> \o <<>>
    BY <1>5, <2>1, <2>2
  <2> QED
    BY <2>3
<1>9. Watched'
  BY <1>1, <1>2, <1>4 DEF Watched
<1> QED
  BY <1>3, <1>4, <1>6, <1>7, <1>8, <1>9 DEF IInv, ViewInv

\* A watch that is placed now is as young as the log.
LEMMA WatchPlaced ==
  ASSUME IInv, step \in {"watch", "watchDir"}, watch' \in {"file", "dir"}, since' = Size,
         step' = IF changed THEN "reset" ELSE "idle",
         UNCHANGED <<trailVars, selection, tail, offset, woken, changed, shown, tree,
                     cuts, switches>>
  PROVE  IInv'
<1>1. /\ TrailInv /\ ViewTypeOK /\ Control /\ TreeTold
      /\ ReadOf(Followed, shown, offset, cuts)
  BY DEF IInv, ViewInv
<1>2. Size = Len(Followed) /\ Len(Followed) \in Nat
  BY <1>1, FollowedTyped
<1>3. tail # NoSession /\ cuts # {}
  BY <1>1 DEF Control
<1>4. TrailInv' /\ log' = log
  BY <1>1, TrailStays DEF trailVars
<1>5. ViewTypeOK'
  BY <1>1, <1>2 DEF ViewTypeOK, selection
<1>6. Control' /\ TreeTold'
  BY <1>1, <1>3 DEF Control, TreeTold
<1>7. ReadOf(Followed, shown, offset, cuts)' /\ Followed' = Followed
  BY <1>1, <1>4, SameRead
<1>8. Watched'
  BY <1>2, <1>7 DEF Watched
<1> QED
  BY <1>4, <1>5, <1>6, <1>7, <1>8 DEF IInv, ViewInv

LEMMA WatchFileKeepsView ==
  ASSUME IInv, WatchFile
  PROVE  IInv'
<1>1. /\ step = "watch"
      /\ UNCHANGED <<trailVars, selection, tail, offset, woken, changed, shown, tree, cuts,
                     switches>>
  BY DEF WatchFile
<1>2. CASE tail \in made
  <2>1. /\ watch' = "file" /\ since' = Size
        /\ step' = IF changed THEN "reset" ELSE "idle"
    BY <1>2 DEF WatchFile
  <2> QED
    BY <1>1, <2>1, WatchPlaced
<1>3. CASE tail \notin made
  <2>1. /\ TrailInv /\ ViewTypeOK /\ Control /\ Watched /\ TreeTold
        /\ ReadOf(Followed, shown, offset, cuts)
        /\ step' = "watchDir" /\ UNCHANGED <<watch, since>>
    BY <1>3 DEF WatchFile, IInv, ViewInv
  <2>2. TrailInv' /\ log' = log
    BY <1>1, <2>1, TrailStays DEF trailVars
  <2>3. ViewTypeOK'
    BY <1>1, <2>1 DEF ViewTypeOK, selection
  <2>4. Control' /\ TreeTold'
    BY <1>1, <2>1 DEF Control, TreeTold
  <2>5. ReadOf(Followed, shown, offset, cuts)' /\ Followed' = Followed
    BY <1>1, <2>1, <2>2, SameRead
  <2>6. Watched'
    BY <1>1, <2>1, <2>5 DEF Watched
  <2> QED
    BY <2>2, <2>3, <2>4, <2>5, <2>6 DEF IInv, ViewInv
<1> QED
  BY <1>2, <1>3

LEMMA WatchDirKeepsView ==
  ASSUME IInv, WatchDir
  PROVE  IInv'
  BY WatchPlaced DEF WatchDir

LEMMA ResetTreeKeepsView ==
  ASSUME IInv, ResetTree
  PROVE  IInv'
<1>1. /\ TrailInv /\ ViewTypeOK /\ Control /\ Watched /\ TreeTold
      /\ ReadOf(Followed, shown, offset, cuts)
      /\ step = "reset" /\ tree' = <<>> /\ changed' = FALSE /\ step' = "idle"
      /\ UNCHANGED <<trailVars, selection, tail, offset, watch, woken, shown, cuts, since,
                     switches>>
  BY DEF IInv, ViewInv, ResetTree
<1>2. TrailInv' /\ log' = log
  BY <1>1, TrailStays DEF trailVars
<1>3. ViewTypeOK'
  <2>1. tree' \in Seq(Nat)
    BY <1>1
  <2> QED
    BY <1>1, <2>1 DEF ViewTypeOK, selection
<1>4. Control'
  BY <1>1 DEF Control
<1>5. TreeTold'
  BY <1>1 DEF Control, TreeTold
<1>6. ReadOf(Followed, shown, offset, cuts)' /\ Followed' = Followed
  BY <1>1, <1>2, SameRead
<1>7. Watched'
  BY <1>1, <1>6 DEF Watched
<1> QED
  BY <1>2, <1>3, <1>4, <1>5, <1>6, <1>7 DEF IInv, ViewInv

LEMMA NoticeKeepsView ==
  ASSUME IInv, Notice
  PROVE  IInv'
<1>1. /\ TrailInv /\ ViewTypeOK /\ Control /\ Watched /\ TreeTold
      /\ ReadOf(Followed, shown, offset, cuts)
      /\ step = "idle" /\ woken /\ woken' = FALSE /\ Publish
      /\ UNCHANGED <<trailVars, selection, tail, changed, since, switches>>
      /\ IF watch = "dir" THEN watch' = "none" /\ step' = "watch"
         ELSE UNCHANGED <<watch, step>>
  BY DEF IInv, ViewInv, Notice
<1>2. watch # "none" /\ since >= 0
  BY <1>1 DEF Watched
<1>3. tail # NoSession /\ ~changed /\ cuts # {}
  BY <1>1, <1>2 DEF Control, ViewTypeOK
<1>4. TrailInv' /\ log' = log
  BY <1>1, TrailStays DEF trailVars
<1>5. /\ ReadOf(Followed, shown, offset, cuts)' /\ Followed' = Followed
      /\ offset' = Len(Followed) /\ cuts' = cuts \cup {Len(Followed)}
  BY <1>1, <1>3, <1>4, PublishReads
<1>6. PICK new \in Seq(Nat) :
        /\ shown' = shown \o new /\ tree' = tree \o new
        /\ Len(Followed) = 0 => new = <<>>
  BY <1>1, <1>3, <1>4, PublishReads
<1>7. ViewTypeOK'
  <2>1. tree' \in Seq(Nat)
    BY <1>1, <1>6, ConcatProperties DEF ViewTypeOK
  <2> QED
    BY <1>1, <2>1 DEF ViewTypeOK, selection
<1>8. Control'
  BY <1>1, <1>3, <1>5 DEF Control
<1>9. TreeTold'
  <2> SUFFICES ASSUME 0 \in cuts'
               PROVE  tree' = shown'
    BY <1>1, <1>3 DEF TreeTold
  <2>1. 0 \in cuts
    <3>1. CASE Len(Followed) = 0
      <4>1. PICK x \in cuts : x <= offset
        BY <1>1, <1>3 DEF ReadOf
      <4>2. x \in Nat /\ offset \in Nat /\ offset <= 0
        BY <1>1, <3>1 DEF ReadOf
      <4>3. x = 0
        BY <4>1, <4>2
      <4> QED
        BY <4>1, <4>3
    <3>2. CASE Len(Followed) # 0
      BY <1>5, <3>2
    <3> QED
      BY <3>1, <3>2
  <2>2. tree = shown
    BY <1>1, <1>3, <2>1 DEF TreeTold
  <2> QED
    BY <1>6, <2>2
<1>10. Watched'
  <2>1. watch' = "none" => step' = "watch"
    BY <1>1, <1>2
  <2>2. Len(Followed)' = offset'
    BY <1>5
  <2>3. offset' \in Nat
    BY <1>5 DEF ReadOf
  <2> QED
    BY <1>1, <1>2, <2>1, <2>2, <2>3 DEF Watched
<1> QED
  BY <1>4, <1>5, <1>7, <1>8, <1>9, <1>10 DEF IInv, ViewInv

LEMMA ViewPreserved ==
  ASSUME IInv, [Next]_vars
  PROVE  IInv'
<1>1. ASSUME NEW s \in Sessions, Work(s)
      PROVE  IInv'
  BY <1>1, WorkKeepsView
<1>2. ASSUME NEW s \in Sessions, SetActiveSession(s)
      PROVE  IInv'
  BY <1>2, SetActiveSessionKeepsView
<1>3. CASE Activate
  BY <1>3, ActivateKeepsView
<1>4. CASE WatchSessions
  BY <1>4, WatchSessionsKeepsView
<1>5. CASE Callback
  BY <1>5, SelectMostRecentKeepsView, ReadFirstKeepsView, WatchFileKeepsView,
     WatchDirKeepsView, ResetTreeKeepsView, NoticeKeepsView DEF Callback
<1>6. CASE UNCHANGED vars
  <2>1. /\ TrailInv /\ ViewTypeOK /\ Control /\ Watched /\ TreeTold
        /\ ReadOf(Followed, shown, offset, cuts)
        /\ UNCHANGED trailVars /\ UNCHANGED viewVars
    BY <1>6 DEF IInv, ViewInv, vars
  <2>2. TrailInv' /\ log' = log
    BY <2>1, TrailStays DEF trailVars
  <2>3. ViewTypeOK' /\ Control' /\ TreeTold'
    BY <2>1 DEF ViewTypeOK, Control, TreeTold, viewVars
  <2>4. ReadOf(Followed, shown, offset, cuts)' /\ Followed' = Followed
    BY <2>1, <2>2, SameRead DEF viewVars
  <2>5. Watched'
    BY <2>1, <2>4 DEF Watched, viewVars
  <2> QED
    BY <2>2, <2>3, <2>4, <2>5 DEF IInv, ViewInv
<1> QED
  BY <1>1, <1>2, <1>3, <1>4, <1>5, <1>6 DEF Next

LEMMA ViewAlways == Spec => []IInv
<1>1. Init => IInv
  BY ViewInitially
<1>2. IInv /\ [Next]_vars => IInv'
  BY ViewPreserved
<1> QED
  BY <1>1, <1>2, PTL DEF Spec

-----------------------------------------------------------------------------
(* The extension shows the entries of the session it is on as their log()     *)
(* calls were ordered, each once, and all that it has read past and that are  *)
(* whole; an empty beginning makes the sidebar agree.                         *)
THEOREM ShownAsLoggedAlways == Spec => []ShownAsLogged
<1>1. IInv => ShownAsLogged
  <2> SUFFICES ASSUME IInv PROVE ShownAsLogged
    OBVIOUS
  <2>1. /\ TrailInv /\ ViewTypeOK /\ Control /\ TreeTold
        /\ ReadOf(Followed, shown, offset, cuts)
    BY DEF IInv, ViewInv
  <2>2. offset \in Nat /\ Ascending(shown)
        /\ FromLog(shown, Followed, offset) /\ Told(shown, Followed, offset, cuts)
    BY <2>1 DEF ReadOf
  <2>3. tail = NoSession => offset = 0 /\ shown = <<>>
    BY <2>1 DEF ReadOf, Control
  <2>4. \A i, j \in 1 .. Len(shown) : i < j => shown[i] < shown[j]
    BY <2>2 DEF Ascending
  <2>5. \A i \in 1 .. Len(shown) : \E p \in 1 .. offset : log[tail][p].entry = shown[i]
    BY <2>2, <2>3 DEF FromLog, Followed
  <2>6. ASSUME NEW p \in 1 .. offset - 2, Undivided(p)
        PROVE  \E i \in 1 .. Len(shown) : shown[i] = log[tail][p].entry
    <3>1. Followed = log[tail] /\ p \in 1 .. offset - 1
      BY <2>2, <2>3, <2>6 DEF Followed
    <3>2. WholeSoFar(p, Followed, offset, cuts)
      BY <2>6, <3>1 DEF Undivided, WholeSoFar
    <3> QED
      BY <2>2, <3>1, <3>2 DEF Told
  <2>7. step = "idle" /\ 0 \in cuts => tree = shown
    BY <2>1 DEF TreeTold, Control
  <2> QED
    BY <2>4, <2>5, <2>6, <2>7 DEF ShownAsLogged
<1> QED
  BY <1>1, ViewAlways, PTL

(* No append is missed between two callbacks of the tailer: a watch that was  *)
(* placed is in place or has been replaced, and has an event pending for all  *)
(* that was appended since and not read.                                      *)
THEOREM NothingMissedAlways == Spec => []NothingMissed
<1>1. IInv => NothingMissed
  BY FollowedTyped DEF IInv, ViewInv, Watched, NothingMissed
<1> QED
  BY <1>1, ViewAlways, PTL

(* The audit log itself, whoever reads it, whichever appends fail and wherever *)
(* coordinators end: its pieces are in the order of the calls of log().        *)
THEOREM FileInOrderAlways == Spec => []FileInOrder
<1>1. IInv => FileInOrder
  BY DEF IInv, TrailInv, Lined, FileInOrder
<1> QED
  BY <1>1, ViewAlways, PTL

(* Type correctness of the audit log, the reader, its watches and the tree.   *)
THEOREM ViewTypeCorrect == Spec => [](TrailTypeOK /\ ViewTypeOK)
<1>1. IInv => TrailTypeOK /\ ViewTypeOK
  BY DEF IInv, TrailInv, ViewInv
<1> QED
  BY <1>1, ViewAlways, PTL
=============================================================================
