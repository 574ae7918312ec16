-------------------------- MODULE Notifiers_proofs --------------------------
(***************************************************************************)
(* What a delivered message sets off outside the coordinator, for any      *)
(* sessions and messages.                                                  *)
(*                                                                         *)
(* Part 1, the badge: every filling of a mailbox rings once, and the badge *)
(* is right where nothing has gone out of order.                           *)
(*                                                                         *)
(* Part 2, the wake-up, for any keys, debounce period and bounds.          *)
(* WakesSpaced is not inductive: it says nothing of a wake state whose     *)
(* window nobody has taken yet, nor how the takers lie before the window   *)
(* in force.  Takers does.                                                 *)
(***************************************************************************)
EXTENDS Badge, WakeDispatcher, TLAPS

-----------------------------------------------------------------------------
(* Part 1: the badge                                                       *)

(* A message counts 1 when it has filled an empty mailbox, and those only  *)
(* ring.                                                                   *)
SendsInv ==
  \A m \in Msgs : sends[m] # NotSent =>
    /\ sends[m].to \in Sessions
    /\ sends[m].count > 0 /\ sends[m].spell \in 1 .. spell[sends[m].to]
    /\ sends[m].state \in {"pending", "rang", "quiet"}
    /\ sends[m].state = "rang" => First(m)
    /\ sends[m].state = "quiet" => ~First(m)

(* Each filling has one message that counts 1.                             *)
FillsInv ==
  \A s \in Sessions :
    /\ unread[s] > 0 => spell[s] > 0
    /\ \A p \in 1 .. spell[s] :
         \E m \in Msgs : sends[m].to = s /\ sends[m].spell = p /\ First(m)
    /\ \A m, n \in Msgs :
         /\ sends[m].to = s /\ sends[n].to = s
         /\ First(m) /\ First(n) /\ sends[m].spell = sends[n].spell
         => m = n

RingInv == BadgeTypeOK /\ SendsInv /\ FillsInv

LEMMA RingsOnce == RingInv => OneRingPerFill
<1> SUFFICES ASSUME RingInv, NEW s \in Sessions, NEW p \in 1 .. spell[s]
             PROVE  LET those == {m \in Msgs : sends[m].to = s /\ sends[m].spell = p}
                        rung  == {m \in those : sends[m].state = "rang"}
                    IN /\ \A m, n \in rung : m = n
                       /\ rung = {} => \E m \in those : sends[m].state = "pending"
  BY DEF OneRingPerFill
<1> DEFINE those == {m \in Msgs : sends[m].to = s /\ sends[m].spell = p}
           rung  == {m \in those : sends[m].state = "rang"}
<1>1. ASSUME NEW m \in those
      PROVE  sends[m] # NotSent
  BY DEF NotSent, RingInv, BadgeTypeOK
<1>2. \A m, n \in rung : m = n
  BY <1>1 DEF RingInv, SendsInv, FillsInv
<1>3. PICK m \in those : First(m)
  BY DEF RingInv, FillsInv
<1>4. sends[m].state \in {"pending", "rang"}
  BY <1>1, <1>3 DEF RingInv, SendsInv
<1> QED
  BY <1>2, <1>3, <1>4

LEMMA RingInitially == BadgeInit => RingInv
  BY HomeAssumption DEF BadgeInit, RingInv, BadgeTypeOK, SendsInv, FillsInv, NotSent, First, None

(* Under the lock the count tells whether the message fills the mailbox.   *)
LEMMA SendKeepsRings ==
  ASSUME RingInv, NEW m \in Msgs, NEW s \in Sessions, Send(m, s)
  PROVE  SendsInv' /\ FillsInv'
<1> DEFINE n == unread[s] + 1
           p == spell[s] + (IF n = 1 THEN 1 ELSE 0)
           sent == [state |-> "pending", to |-> s, count |-> n, spell |-> p]
<1>1. /\ unread[s] \in Nat /\ unread'[s] = n /\ (\A t \in Sessions : t # s => unread'[t] = unread[t])
      /\ spell \in [Sessions -> Nat]
      /\ \A k \in Msgs : sends'[k] = IF k = m THEN sent ELSE sends[k]
      /\ \A t \in Sessions : spell'[t] = IF t = s THEN p ELSE spell[t]
  BY DEF RingInv, BadgeTypeOK, Send
<1>2. sends[m] = NotSent
  BY DEF Send
<1>3. p \in Nat \ {0} /\ p >= spell[s] /\ (p # spell[s] <=> n = 1) /\ p <= spell[s] + 1
  BY <1>1 DEF RingInv, FillsInv
<1>s. /\ sent.state = "pending" /\ sent.to = s /\ sent.count = n /\ sent.spell = p
      /\ sent # NotSent
  BY DEF NotSent
<1> HIDE DEF sent, p, n
<1>4. SendsInv'
  <2> SUFFICES ASSUME NEW k \in Msgs, sends'[k] # NotSent
               PROVE  /\ sends'[k].to \in Sessions
                      /\ sends'[k].count > 0 /\ sends'[k].spell \in 1 .. spell'[sends'[k].to]
                      /\ sends'[k].state \in {"pending", "rang", "quiet"}
                      /\ sends'[k].state = "rang" => First(k)'
                      /\ sends'[k].state = "quiet" => ~First(k)'
    BY DEF SendsInv
  <2>1. CASE k = m
    <3>1. n > 0
      BY <1>1 DEF n
    <3> QED
      BY <1>1, <1>3, <1>s, <2>1, <3>1
  <2>2. CASE k # m
    <3>1. sends'[k] = sends[k] /\ (First(k)' <=> First(k))
      BY <1>1, <2>2 DEF First
    <3>2. sends[k].to \in Sessions /\ sends[k].spell \in 1 .. spell[sends[k].to]
      BY <2>2, <3>1 DEF RingInv, SendsInv
    <3>3. sends[k].spell \in 1 .. spell'[sends[k].to]
      BY <1>1, <1>3, <3>2
    <3> QED
      BY <3>1, <3>2, <3>3 DEF RingInv, SendsInv
  <2> QED
    BY <2>1, <2>2
<1>5. ASSUME NEW k \in Msgs, k # m
      PROVE  sends'[k] = sends[k] /\ (First(k)' <=> First(k))
  BY <1>1, <1>5 DEF First
<1>6. ~First(m) /\ (First(m)' <=> n = 1) /\ sends'[m] = sent
  BY <1>1, <1>2, <1>s DEF First, NotSent
<1>7. FillsInv'
  <2> SUFFICES ASSUME NEW t \in Sessions
               PROVE  /\ unread'[t] > 0 => spell'[t] > 0
                      /\ \A q \in 1 .. spell'[t] :
                           \E k \in Msgs : sends'[k].to = t /\ sends'[k].spell = q /\ First(k)'
                      /\ \A j, k \in Msgs :
                           /\ sends'[j].to = t /\ sends'[k].to = t
                           /\ First(j)' /\ First(k)' /\ sends'[j].spell = sends'[k].spell
                           => j = k
    BY DEF FillsInv
  <2>1. unread'[t] > 0 => spell'[t] > 0
    BY <1>1, <1>3 DEF RingInv, FillsInv
  <2>2. ASSUME NEW q \in 1 .. spell'[t]
        PROVE  \E k \in Msgs : sends'[k].to = t /\ sends'[k].spell = q /\ First(k)'
    <3>1. CASE q \in 1 .. spell[t]
      <4>1. PICK k \in Msgs : sends[k].to = t /\ sends[k].spell = q /\ First(k)
        BY <3>1 DEF RingInv, FillsInv
      <4> QED
        BY <1>5, <1>6, <4>1
    <3>2. CASE q \notin 1 .. spell[t]
      <4>1. t = s /\ q = p /\ n = 1
        BY <1>1, <1>3, <2>2, <3>2
      <4> QED
        BY <1>6, <1>s, <4>1
    <3> QED
      BY <3>1, <3>2
  <2>3. ASSUME NEW k \in Msgs, k # m, sends'[k].to = s, sends'[k].spell = p, First(k)', n = 1
        PROVE  FALSE
    <3>1. sends[k].count = 1 /\ sends[k].to = s /\ sends[k].spell = p
      BY <1>5, <2>3 DEF First
    <3>2. sends[k].spell \in 1 .. spell[s]
      BY <3>1 DEF RingInv, SendsInv, NotSent
    <3> QED
      BY <1>1, <1>3, <2>3, <3>1, <3>2
  <2>4. ASSUME NEW j \in Msgs, NEW k \in Msgs, sends'[j].to = t, sends'[k].to = t,
               First(j)', First(k)', sends'[j].spell = sends'[k].spell
        PROVE  j = k
    <3>1. CASE j # m /\ k # m
      BY <1>5, <2>4, <3>1 DEF RingInv, FillsInv
    <3>2. CASE j = m /\ k # m
      BY <1>6, <1>s, <2>3, <2>4, <3>2
    <3>3. CASE k = m /\ j # m
      BY <1>6, <1>s, <2>3, <2>4, <3>3
    <3> QED
      BY <3>1, <3>2, <3>3
  <2> QED
    BY <2>1, <2>2, <2>4
<1> QED
  BY <1>4, <1>7

(* Ringing leaves the count and the filling of a message as they are.      *)
LEMMA RingKeepsRings ==
  ASSUME RingInv, NEW m \in Msgs, Ring(m)
  PROVE  SendsInv' /\ FillsInv'
<1>1. /\ spell' = spell /\ unread' = unread /\ sends[m] # NotSent
      /\ \A k \in Msgs : sends'[k] =
           IF k = m THEN [sends[m] EXCEPT !.state = IF First(m) THEN "rang" ELSE "quiet"]
                    ELSE sends[k]
  <2>1. spell' = spell /\ unread' = unread /\ sends[m] # NotSent
    BY DEF Ring, NotSent
  <2>2. sends' = [sends EXCEPT ![m].state = IF First(m) THEN "rang" ELSE "quiet"]
    BY DEF Ring
  <2> QED
    BY <2>1, <2>2 DEF RingInv, BadgeTypeOK
<1>2. ASSUME NEW k \in Msgs
      PROVE  /\ sends'[k].to = sends[k].to /\ sends'[k].count = sends[k].count
             /\ sends'[k].spell = sends[k].spell /\ (First(k)' <=> First(k))
             /\ sends'[k].state = IF k = m THEN (IF First(m) THEN "rang" ELSE "quiet")
                                           ELSE sends[k].state
             /\ sends'[k] # NotSent => sends[k] # NotSent
  BY <1>1 DEF RingInv, BadgeTypeOK, First
<1>3. SendsInv'
  BY <1>1, <1>2 DEF RingInv, SendsInv
<1>4. FillsInv'
  BY <1>1, <1>2 DEF RingInv, FillsInv
<1> QED
  BY <1>3, <1>4

(* Nothing else touches the messages, and a mailbox grows by sends only.   *)
LEMMA OthersKeepRings ==
  ASSUME RingInv, UNCHANGED <<sends, spell>>,
         \A s \in Sessions : unread'[s] > 0 => unread[s] > 0
  PROVE  SendsInv' /\ FillsInv'
<1>1. \A k \in Msgs : First(k)' <=> First(k)
  BY DEF First
<1> QED
  BY <1>1 DEF RingInv, SendsInv, FillsInv

LEMMA RemoveTyped ==
  ASSUME NEW S, ops \in Seq(S), NEW i \in 1 .. Len(ops)
  PROVE  Remove(i) \in Seq(S)
  BY DEF Remove

LEMMA TypesKept ==
  ASSUME RingInv, [BadgeNext]_badgeVars
  PROVE  BadgeTypeOK'
<1> USE DEF RingInv, BadgeTypeOK
<1>1. ASSUME NEW m \in Msgs, NEW s \in Sessions, Send(m, s) PROVE BadgeTypeOK'
  BY <1>1 DEF Send
<1>2. ASSUME NEW m \in Msgs, Ring(m) PROVE BadgeTypeOK'
  <2>1. sends[m].to \in Sessions
    BY <1>2 DEF Ring, SendsInv, NotSent
  <2>2. Op("set", at[sends[m].to]) \in [kind : {"set", "clear"}, ws : Workspaces]
    BY <2>1 DEF Op
  <2>3. ops' \in Seq([kind : {"set", "clear"}, ws : Workspaces])
    <3>1. CASE ops' = ops
      BY <3>1
    <3>2. CASE ops' = Append(ops, Op("set", at[sends[m].to]))
      BY <2>2, <3>2
    <3> QED
      BY <1>2, <3>1, <3>2 DEF Ring
  <2>4. sends' \in [Msgs -> [state : {"new", "pending", "rang", "quiet"},
                             to : Sessions \cup {None}, count : Nat, spell : Nat]]
    <3>1. \E x \in {"rang", "quiet"} : sends' = [sends EXCEPT ![m].state = x]
      BY <1>2 DEF Ring
    <3> QED
      BY <3>1
  <2> QED
    BY <1>2, <2>3, <2>4 DEF Ring
<1>3. ASSUME NEW s \in Sessions, ReadCall(s) PROVE BadgeTypeOK'
  BY <1>3 DEF ReadCall
<1>4. ASSUME NEW s \in Sessions, ReadCommit(s) PROVE BadgeTypeOK'
  <2>1. Op("clear", reading[s]) \in [kind : {"set", "clear"}, ws : Workspaces]
    BY <1>4 DEF ReadCommit, Op
  <2>2. ops' \in Seq([kind : {"set", "clear"}, ws : Workspaces])
    BY <1>4, <2>1 DEF ReadCommit
  <2>3. unread' \in [Sessions -> Nat]
    BY <1>4 DEF ReadCommit, Returned
  <2>4. smooth' \in BOOLEAN
    BY <1>4 DEF ReadCommit
  <2>5. reading' \in [Sessions -> Workspaces \cup {None}]
    BY <1>4 DEF ReadCommit
  <2> QED
    BY <1>4, <2>2, <2>3, <2>4, <2>5 DEF ReadCommit
<1>5. ASSUME NEW s \in Sessions, NEW w \in Workspaces, Move(s, w) PROVE BadgeTypeOK'
  <2>1. unread' \in [Sessions -> Nat]
    BY <1>5 DEF Move
  <2>2. at' \in [Sessions -> Workspaces] /\ moves' \in Nat
    BY <1>5 DEF Move
  <2>3. smooth' \in BOOLEAN
    BY <1>5 DEF Move
  <2> QED
    BY <1>5, <2>1, <2>2, <2>3 DEF Move
<1>6. ASSUME NEW i \in 1 .. Len(ops), Finish(i) PROVE BadgeTypeOK'
  <2>1. ops' \in Seq([kind : {"set", "clear"}, ws : Workspaces])
    BY <1>6, RemoveTyped DEF Finish
  <2>2. badge' \in [Workspaces -> BOOLEAN]
    BY <1>6 DEF Finish
  <2>3. smooth' \in BOOLEAN
    BY <1>6 DEF Finish
  <2> QED
    BY <1>6, <2>1, <2>2, <2>3 DEF Finish
<1>7. CASE UNCHANGED badgeVars
  BY <1>7 DEF badgeVars
<1> QED
  BY <1>1, <1>2, <1>3, <1>4, <1>5, <1>6, <1>7 DEF BadgeNext

LEMMA RingPreserved == RingInv /\ [BadgeNext]_badgeVars => RingInv'
<1> SUFFICES ASSUME RingInv, [BadgeNext]_badgeVars
             PROVE  RingInv'
  OBVIOUS
<1>1. ASSUME NEW s \in Sessions, ReadCommit(s) PROVE SendsInv' /\ FillsInv'
  <2>1. \A t \in Sessions : unread'[t] > 0 => unread[t] > 0
    BY <1>1 DEF ReadCommit, Returned, RingInv, BadgeTypeOK
  <2> QED
    BY <1>1, <2>1, OthersKeepRings DEF ReadCommit
<1>2. ASSUME NEW s \in Sessions, NEW w \in Workspaces, Move(s, w) PROVE SendsInv' /\ FillsInv'
  <2>1. unread' = unread \/ unread' = [unread EXCEPT ![s] = 0]
    BY <1>2 DEF Move
  <2>2. ASSUME NEW t \in Sessions, unread'[t] > 0
        PROVE  unread[t] > 0
    <3>1. CASE unread' = unread
      BY <2>2, <3>1
    <3>2. CASE unread' = [unread EXCEPT ![s] = 0]
      BY <2>2, <3>2 DEF RingInv, BadgeTypeOK
    <3> QED
      BY <2>1, <3>1, <3>2
  <2> QED
    BY <1>2, <2>2, OthersKeepRings DEF Move
<1>3. ASSUME NEW s \in Sessions, ReadCall(s) PROVE SendsInv' /\ FillsInv'
  BY <1>3, OthersKeepRings DEF ReadCall
<1>4. ASSUME NEW i \in 1 .. Len(ops), Finish(i) PROVE SendsInv' /\ FillsInv'
  BY <1>4, OthersKeepRings DEF Finish
<1>5. ASSUME UNCHANGED badgeVars PROVE SendsInv' /\ FillsInv'
  <2>1. UNCHANGED <<sends, spell, unread>>
    BY <1>5 DEF badgeVars
  <2> QED
    BY <2>1, OthersKeepRings
<1>6. SendsInv' /\ FillsInv'
  BY <1>1, <1>2, <1>3, <1>4, <1>5, SendKeepsRings, RingKeepsRings DEF BadgeNext
<1> QED
  BY <1>6, TypesKept DEF RingInv

(* Every filling of a mailbox is announced by one of its messages, exactly *)
(* one, however sends and reads overlap: the length that decides was taken *)
(* under the lock.                                                         *)
THEOREM RingsOncePerFill == BadgeSpec => []OneRingPerFill
  BY RingInitially, RingPreserved, RingsOnce, PTL DEF BadgeSpec

-----------------------------------------------------------------------------
(* What the badge of a workspace will be when the processes under way have *)
(* ended in their order.                                                   *)
Untouched(w) == \A i \in 1 .. Len(ops) : ops[i].ws # w

Last(i, w) == ops[i].ws = w /\ \A j \in 1 .. Len(ops) : ops[j].ws = w => j <= i

Lit(w) ==
  \/ Untouched(w) /\ badge[w]
  \/ \E i \in 1 .. Len(ops) : Last(i, w) /\ ops[i].kind = "set"

Dark(w) ==
  \/ Untouched(w) /\ ~badge[w]
  \/ \E i \in 1 .. Len(ops) : Last(i, w) /\ ops[i].kind = "clear"

(* A message that has filled the mailbox of s and is about to ring.        *)
ToRing(s) == \E m \in Pending(s) : First(m)

(* While everything is smooth, the badge will tell whether the mailbox has *)
(* messages, but for one that is about to ring.                            *)
BadgeInv ==
  smooth => \A s \in Sessions :
    /\ at[s] = Home(s) /\ (reading[s] # None => reading[s] = Home(s))
    /\ unread[s] > 0 /\ ~ToRing(s) => Lit(Home(s))
    /\ unread[s] = 0 \/ ToRing(s) => Dark(Home(s))
    /\ ToRing(s) => unread[s] > 0
    /\ \A m, n \in Pending(s) : First(m) /\ First(n) => m = n

Apart == \A s, t \in Sessions : Home(s) = Home(t) => s = t

LEMMA BadgeTold == BadgeTypeOK /\ BadgeInv => BadgeTellsTruth
<1> SUFFICES ASSUME BadgeTypeOK, BadgeInv, smooth, ops = << >>, NEW s \in Sessions, Pending(s) = {}
             PROVE  badge[at[s]] = (unread[s] > 0)
  BY DEF BadgeTellsTruth
<1>1. /\ at[s] = Home(s) /\ unread[s] \in Nat /\ badge[at[s]] \in BOOLEAN
      /\ ~ToRing(s) /\ 1 .. Len(ops) = {}
  BY DEF BadgeInv, BadgeTypeOK, ToRing
<1>2. unread[s] > 0 => badge[at[s]]
  BY <1>1 DEF BadgeInv, Lit
<1>3. unread[s] = 0 => ~badge[at[s]]
  BY <1>1 DEF BadgeInv, Dark
<1> QED
  BY <1>1, <1>2, <1>3

LEMMA BadgeInitially == BadgeInit => BadgeInv
<1> SUFFICES ASSUME BadgeInit, NEW s \in Sessions
             PROVE  /\ at[s] = Home(s) /\ reading[s] = None /\ unread[s] = 0
                    /\ Pending(s) = {} /\ Dark(Home(s))
  BY DEF BadgeInv, ToRing
<1>1. at[s] = Home(s) /\ reading[s] = None /\ unread[s] = 0
  BY DEF BadgeInit
<1>2. Pending(s) = {}
  BY DEF BadgeInit, Pending, NotSent
<1>3. Dark(Home(s))
  BY HomeAssumption DEF BadgeInit, Dark, Untouched
<1> QED
  BY <1>1, <1>2, <1>3

(* A process for another workspace changes nothing for w; one for w will   *)
(* be the last to end.                                                     *)
LEMMA OpStarts ==
  ASSUME BadgeTypeOK, NEW k \in {"set", "clear"}, NEW v \in Workspaces, NEW w,
         ops' = Append(ops, Op(k, v)), badge' = badge
  PROVE  /\ v # w => (Lit(w) => Lit(w)') /\ (Dark(w) => Dark(w)')
         /\ v = w /\ k = "set" => Lit(w)'
         /\ v = w /\ k = "clear" => Dark(w)'
<1> DEFINE c == Len(ops)
           next == ops'
<1>1. /\ c \in Nat /\ Len(next) = c + 1
      /\ \A i \in 1 .. c : next[i] = ops[i]
      /\ next[c + 1].ws = v /\ next[c + 1].kind = k
      /\ \A i \in 1 .. c + 1 : i = c + 1 \/ i \in 1 .. c
  BY DEF BadgeTypeOK, Op
<1>2. /\ c + 1 \in 1 .. c + 1 /\ \A i \in 1 .. c + 1 : i <= c + 1
      /\ \A i \in 1 .. c : i \in 1 .. c + 1
  BY <1>1
<1> HIDE DEF c, next
<1>3. ASSUME v # w
      PROVE  /\ Untouched(w) => Untouched(w)'
             /\ \A i \in 1 .. c : Last(i, w) => Last(i, w)' /\ next[i] = ops[i]
  BY <1>1, <1>3 DEF Untouched, Last, next, c
<1>4. ASSUME v = w
      PROVE  /\ next[c + 1].ws = w /\ next[c + 1].kind = k
             /\ \A j \in 1 .. Len(next) : next[j].ws = w => j <= c + 1
  BY <1>1, <1>2, <1>4
<1>5. ASSUME v # w, Lit(w)
      PROVE  Lit(w)'
  <2>1. CASE Untouched(w) /\ badge[w]
    BY <1>3, <1>5, <2>1 DEF Lit
  <2>2. CASE \E i \in 1 .. c : Last(i, w) /\ ops[i].kind = "set"
    BY <1>1, <1>2, <1>3, <1>5, <2>2 DEF Lit, next
  <2> QED
    BY <1>5, <2>1, <2>2 DEF Lit, c
<1>6. ASSUME v # w, Dark(w)
      PROVE  Dark(w)'
  <2>1. CASE Untouched(w) /\ ~badge[w]
    BY <1>3, <1>6, <2>1 DEF Dark
  <2>2. CASE \E i \in 1 .. c : Last(i, w) /\ ops[i].kind = "clear"
    BY <1>1, <1>2, <1>3, <1>6, <2>2 DEF Dark, next
  <2> QED
    BY <1>6, <2>1, <2>2 DEF Dark, c
<1>7. ASSUME v = w
      PROVE  /\ k = "set" => Lit(w)'
             /\ k = "clear" => Dark(w)'
  <2>1. c + 1 \in 1 .. Len(next)
    BY <1>1, <1>2
  <2>2. \E i \in 1 .. Len(next) :
          /\ next[i].ws = w /\ \A j \in 1 .. Len(next) : next[j].ws = w => j <= i
          /\ next[i].kind = k
    BY <1>4, <1>7, <2>1
  <2> QED
    BY <2>2 DEF Lit, Dark, Last, next
<1> QED
  BY <1>5, <1>6, <1>7

(* The oldest process has done its work.                                   *)
LEMMA OpEnds ==
  ASSUME BadgeTypeOK, 1 \in 1 .. Len(ops), ops' = Remove(1), NEW w \in Workspaces,
         badge' = [badge EXCEPT ![ops[1].ws] = (ops[1].kind = "set")]
  PROVE  (Lit(w) => Lit(w)') /\ (Dark(w) => Dark(w)')
<1> DEFINE c == Len(ops) - 1
           next == ops'
<1>1. /\ c \in Nat /\ Len(ops) = c + 1 /\ Len(next) = c
      /\ \A i \in 1 .. c : next[i] = ops[i + 1]
      /\ ops[1].ws \in Workspaces /\ ops[1].kind \in {"set", "clear"}
  <2> DEFINE Process == [kind : {"set", "clear"}, ws : Workspaces]
             none == SubSeq(ops, 1, 0)
             rest == SubSeq(ops, 2, Len(ops))
  <2>1. ops \in Seq(Process) /\ ops[1] \in Process
    <3>1. ops \in Seq(Process)
      BY DEF BadgeTypeOK
    <3> HIDE DEF Process
    <3> QED
      BY <3>1
  <2>2. ops[1].ws \in Workspaces /\ ops[1].kind \in {"set", "clear"}
    BY <2>1
  <2>3. next = none \o rest
    BY DEF Remove
  <2> HIDE DEF Process
  <2>4. c \in Nat /\ Len(ops) = c + 1
    BY <2>1
  <2>5. none \in Seq(Process) /\ Len(none) = 0
    BY <2>1
  <2>6. /\ rest \in Seq(Process) /\ Len(rest) = c
        /\ \A i \in 1 .. c : rest[i] = ops[i + 1]
    BY <2>1, <2>4
  <2> HIDE DEF none, rest, next, c
  <2> QED
    BY <2>2, <2>3, <2>4, <2>5, <2>6
<1>2. /\ \A i \in 1 .. c : i + 1 \in 1 .. c + 1
      /\ \A i \in 1 .. c + 1 : i # 1 => i - 1 \in 1 .. c /\ next[i - 1] = ops[i]
      /\ 1 \in 1 .. c + 1
  BY <1>1
<1>3. badge'[w] = IF ops[1].ws = w THEN ops[1].kind = "set" ELSE badge[w]
  BY <1>1 DEF BadgeTypeOK
<1> HIDE DEF c, next
<1>4. ASSUME NEW i \in 1 .. c + 1, Last(i, w), i # 1
      PROVE  i - 1 \in 1 .. c /\ Last(i - 1, w)' /\ next[i - 1] = ops[i]
  <2>1. i - 1 \in 1 .. c /\ next[i - 1] = ops[i]
    BY <1>2, <1>4
  <2>2. ASSUME NEW j \in 1 .. c, next[j].ws = w
        PROVE  j <= i - 1
    BY <1>1, <1>2, <1>4, <2>2 DEF Last
  <2> QED
    BY <1>1, <1>4, <2>1, <2>2 DEF Last, next
<1>5. ASSUME Last(1, w)
      PROVE  Untouched(w)'
  <2>1. ASSUME NEW j \in 1 .. c, next[j].ws = w
        PROVE  FALSE
    BY <1>1, <1>2, <1>5, <2>1 DEF Last
  <2> QED
    BY <1>1, <2>1 DEF Untouched, next
<1>6. ASSUME Untouched(w)
      PROVE  Untouched(w)' /\ ops[1].ws # w
  BY <1>1, <1>2, <1>6 DEF Untouched, next
<1>7. ASSUME Lit(w)
      PROVE  Lit(w)'
  <2>1. CASE Untouched(w) /\ badge[w]
    BY <1>3, <1>6, <2>1 DEF Lit
  <2>2. CASE Last(1, w) /\ ops[1].kind = "set"
    BY <1>3, <1>5, <2>2 DEF Lit, Last
  <2>3. CASE \E i \in 1 .. c + 1 : i # 1 /\ Last(i, w) /\ ops[i].kind = "set"
    BY <1>1, <1>4, <2>3 DEF Lit, next
  <2> QED
    BY <1>1, <1>7, <2>1, <2>2, <2>3 DEF Lit
<1>8. ASSUME Dark(w)
      PROVE  Dark(w)'
  <2>1. CASE Untouched(w) /\ ~badge[w]
    BY <1>3, <1>6, <2>1 DEF Dark
  <2>2. CASE Last(1, w) /\ ops[1].kind = "clear"
    BY <1>3, <1>5, <2>2 DEF Dark, Last
  <2>3. CASE \E i \in 1 .. c + 1 : i # 1 /\ Last(i, w) /\ ops[i].kind = "clear"
    BY <1>1, <1>4, <2>3 DEF Dark, next
  <2> QED
    BY <1>1, <1>8, <2>1, <2>2, <2>3 DEF Dark
<1> QED
  BY <1>7, <1>8

(* Steps that start and end no process and move nobody.                    *)
LEMMA BadgeStays ==
  ASSUME UNCHANGED <<at, ops, badge, smooth>>, BadgeInv, NEW s \in Sessions, smooth',
         reading'[s] = reading[s] \/ reading'[s] = at[s]
  PROVE  /\ at'[s] = Home(s) /\ (reading'[s] # None => reading'[s] = Home(s))
         /\ unread[s] > 0 /\ ~ToRing(s) => Lit(Home(s))'
         /\ unread[s] = 0 \/ ToRing(s) => Dark(Home(s))'
  BY DEF BadgeInv, Lit, Dark, Untouched, Last

LEMMA SendKeepsBadge ==
  ASSUME RingInv, BadgeInv, NEW m \in Msgs, NEW t \in Sessions, Send(m, t)
  PROVE  BadgeInv'
<1> SUFFICES ASSUME smooth', NEW s \in Sessions
             PROVE  /\ at'[s] = Home(s) /\ (reading'[s] # None => reading'[s] = Home(s))
                    /\ unread'[s] > 0 /\ ~ToRing(s)' => Lit(Home(s))'
                    /\ unread'[s] = 0 \/ ToRing(s)' => Dark(Home(s))'
                    /\ ToRing(s)' => unread'[s] > 0
                    /\ \A n, k \in Pending(s)' : First(n)' /\ First(k)' => n = k
  BY DEF BadgeInv
<1>1. /\ at'[s] = Home(s) /\ (reading'[s] # None => reading'[s] = Home(s))
      /\ unread[s] > 0 /\ ~ToRing(s) => Lit(Home(s))'
      /\ unread[s] = 0 \/ ToRing(s) => Dark(Home(s))'
  BY BadgeStays DEF Send
<1>2. /\ unread[t] \in Nat /\ unread[s] \in Nat
      /\ unread'[s] = IF s = t THEN unread[t] + 1 ELSE unread[s]
      /\ sends[m].state = "new"
  BY DEF Send, RingInv, BadgeTypeOK, NotSent
<1>3. /\ sends'[m].state = "pending" /\ sends'[m].to = t /\ sends'[m].count = unread[t] + 1
      /\ \A k \in Msgs : k # m => sends'[k] = sends[k]
  BY DEF Send, RingInv, BadgeTypeOK
<1>4. ASSUME NEW k \in Msgs
      PROVE  k \in Pending(s)' /\ First(k)' <=>
               \/ k # m /\ k \in Pending(s) /\ First(k)
               \/ k = m /\ s = t /\ unread[t] = 0
  BY <1>2, <1>3 DEF Pending, First
<1>5. m \notin Pending(s)
  BY <1>2 DEF Pending
<1>6. ToRing(s)' <=> ToRing(s) \/ (s = t /\ unread[t] = 0)
  BY <1>4, <1>5 DEF ToRing, Pending
<1>7. /\ ToRing(s) => unread[s] > 0
      /\ \A n, k \in Pending(s) : First(n) /\ First(k) => n = k
  BY DEF BadgeInv, Send
<1>8. \A n, k \in Pending(s)' : First(n)' /\ First(k)' => n = k
  BY <1>2, <1>4, <1>7 DEF ToRing, Pending
<1> QED
  BY <1>1, <1>2, <1>6, <1>7, <1>8

LEMMA RingKeepsBadge ==
  ASSUME Apart, RingInv, BadgeInv, NEW m \in Msgs, Ring(m)
  PROVE  BadgeInv'
<1> DEFINE t == sends[m].to
<1> SUFFICES ASSUME smooth', NEW s \in Sessions
             PROVE  /\ at'[s] = Home(s) /\ (reading'[s] # None => reading'[s] = Home(s))
                    /\ unread'[s] > 0 /\ ~ToRing(s)' => Lit(Home(s))'
                    /\ unread'[s] = 0 \/ ToRing(s)' => Dark(Home(s))'
                    /\ ToRing(s)' => unread'[s] > 0
                    /\ \A n, k \in Pending(s)' : First(n)' /\ First(k)' => n = k
  BY DEF BadgeInv
<1>0. /\ smooth /\ UNCHANGED <<at, reading, unread, badge>>
      /\ t \in Sessions /\ at[t] = Home(t) /\ unread[s] \in Nat
      /\ at[s] = Home(s) /\ (reading[s] # None => reading[s] = Home(s))
      /\ unread[s] > 0 /\ ~ToRing(s) => Lit(Home(s))
      /\ unread[s] = 0 \/ ToRing(s) => Dark(Home(s))
      /\ ToRing(s) => unread[s] > 0
      /\ \A n, k \in Pending(s) : First(n) /\ First(k) => n = k
  BY DEF Ring, RingInv, SendsInv, BadgeTypeOK, BadgeInv, NotSent
<1>1. /\ sends[m].state = "pending" /\ sends'[m].state # "pending"
      /\ \A k \in Msgs : k # m => sends'[k] = sends[k]
  BY DEF Ring, RingInv, BadgeTypeOK
<1>2. ASSUME NEW k \in Msgs
      PROVE  k \in Pending(s)' /\ First(k)' <=> k # m /\ k \in Pending(s) /\ First(k)
  BY <1>1 DEF Pending, First
<1>3. \A n, k \in Pending(s)' : First(n)' /\ First(k)' => n = k
  BY <1>0, <1>2 DEF Pending
<1>4. ToRing(s)' => ToRing(s)
  BY <1>2 DEF ToRing, Pending
<1>5. CASE First(m) /\ s = t
  <2>1. m \in Pending(s) /\ ToRing(s)
    BY <1>1, <1>5 DEF Pending, ToRing
  <2>2. ~ToRing(s)'
    BY <1>0, <1>2, <1>5, <2>1 DEF ToRing, Pending
  <2>3. ops' = Append(ops, Op("set", Home(s))) /\ Home(s) \in Workspaces
    BY <1>0, <1>5, HomeAssumption DEF Ring
  <2>4. Lit(Home(s))'
    BY <1>0, <2>3, OpStarts DEF RingInv
  <2> QED
    BY <1>0, <1>3, <2>1, <2>2, <2>4
<1>6. CASE First(m) /\ s # t
  <2>1. ToRing(s) => ToRing(s)'
    BY <1>1, <1>2, <1>6 DEF ToRing, Pending
  <2>2. ops' = Append(ops, Op("set", Home(t))) /\ Home(t) \in Workspaces /\ Home(t) # Home(s)
    BY <1>0, <1>6, HomeAssumption DEF Ring, Apart
  <2>3. (Lit(Home(s)) => Lit(Home(s))') /\ (Dark(Home(s)) => Dark(Home(s))')
    BY <1>0, <2>2, OpStarts DEF RingInv
  <2> QED
    BY <1>0, <1>3, <1>4, <2>1, <2>3
<1>7. CASE ~First(m)
  <2>1. ToRing(s) => ToRing(s)'
    BY <1>2, <1>7 DEF ToRing, Pending
  <2>2. ops' = ops
    BY <1>7 DEF Ring
  <2>3. (Lit(Home(s)) => Lit(Home(s))') /\ (Dark(Home(s)) => Dark(Home(s))')
    BY <1>0, <2>2 DEF Lit, Dark, Untouched, Last
  <2> QED
    BY <1>0, <1>3, <1>4, <2>1, <2>3
<1> QED
  BY <1>5, <1>6, <1>7

LEMMA ReadKeepsBadge ==
  ASSUME Apart, RingInv, BadgeInv, NEW t \in Sessions, ReadCommit(t)
  PROVE  BadgeInv'
<1> SUFFICES ASSUME smooth', NEW s \in Sessions
             PROVE  /\ at'[s] = Home(s) /\ (reading'[s] # None => reading'[s] = Home(s))
                    /\ unread'[s] > 0 /\ ~ToRing(s)' => Lit(Home(s))'
                    /\ unread'[s] = 0 \/ ToRing(s)' => Dark(Home(s))'
                    /\ ToRing(s)' => unread'[s] > 0
                    /\ \A n, k \in Pending(s)' : First(n)' /\ First(k)' => n = k
  BY DEF BadgeInv
<1>1. smooth /\ unread' = [unread EXCEPT ![t] = 0]
  <2>1. PICK k \in Returned(t) : /\ unread' = [unread EXCEPT ![t] = @ - k]
                                 /\ smooth' = (smooth /\ k = unread[t])
    BY DEF ReadCommit
  <2>2. smooth /\ k = unread[t]
    BY <2>1
  <2>3. unread[t] - k = 0
    BY <2>2 DEF RingInv, BadgeTypeOK
  <2> QED
    BY <2>1, <2>2, <2>3
<1>2. /\ UNCHANGED <<at, sends, badge>> /\ reading[t] # None
      /\ reading' = [reading EXCEPT ![t] = None]
      /\ ops' = Append(ops, Op("clear", reading[t]))
      /\ Pending(t) = {}
  BY DEF ReadCommit
<1>3. /\ at[s] = Home(s) /\ (reading[s] # None => reading[s] = Home(s)) /\ reading[t] = Home(t)
      /\ unread[s] > 0 /\ ~ToRing(s) => Lit(Home(s))
      /\ unread[s] = 0 \/ ToRing(s) => Dark(Home(s))
      /\ ToRing(s) => unread[s] > 0
      /\ \A n, k \in Pending(s) : First(n) /\ First(k) => n = k
  BY <1>1, <1>2 DEF BadgeInv
<1>4. ToRing(s)' <=> ToRing(s)
  BY <1>2 DEF ToRing, Pending, First
<1>5. \A n, k \in Pending(s)' : First(n)' /\ First(k)' => n = k
  BY <1>2, <1>3 DEF Pending, First
<1>6. CASE s = t
  <2>1. unread'[s] = 0 /\ ~ToRing(s) /\ reading'[s] = None
    BY <1>1, <1>2, <1>6 DEF ToRing, RingInv, BadgeTypeOK
  <2>2. Dark(Home(s))'
    BY <1>2, <1>3, <1>6, HomeAssumption, OpStarts DEF RingInv
  <2> QED
    BY <1>2, <1>3, <1>4, <1>5, <2>1, <2>2
<1>7. CASE s # t
  <2>1. unread'[s] = unread[s] /\ reading'[s] = reading[s]
    BY <1>1, <1>2, <1>7 DEF RingInv, BadgeTypeOK
  <2>2. (Lit(Home(s)) => Lit(Home(s))') /\ (Dark(Home(s)) => Dark(Home(s))')
    BY <1>2, <1>3, <1>7, HomeAssumption, OpStarts DEF RingInv, Apart
  <2> QED
    BY <1>2, <1>3, <1>4, <1>5, <2>1, <2>2
<1> QED
  BY <1>6, <1>7

LEMMA FinishKeepsBadge ==
  ASSUME RingInv, BadgeInv, NEW i \in 1 .. Len(ops), Finish(i)
  PROVE  BadgeInv'
<1> SUFFICES ASSUME smooth'
             PROVE  BadgeInv'
  BY DEF BadgeInv
<1>1. /\ smooth /\ i = 1 /\ badge' = [badge EXCEPT ![ops[i].ws] = (ops[i].kind = "set")]
      /\ ops' = Remove(i) /\ UNCHANGED <<at, unread, sends, reading>>
  BY DEF Finish
<1>2. \A s \in Sessions : (Lit(Home(s)) => Lit(Home(s))') /\ (Dark(Home(s)) => Dark(Home(s))')
  BY <1>1, HomeAssumption, OpEnds DEF RingInv
<1>3. \A s \in Sessions : (ToRing(s)' <=> ToRing(s)) /\ Pending(s)' = Pending(s)
  BY <1>1 DEF ToRing, Pending, First
<1>4. \A k \in Msgs : First(k)' <=> First(k)
  BY <1>1 DEF First
<1> QED
  BY <1>1, <1>2, <1>3, <1>4 DEF BadgeInv, Pending

LEMMA BadgePreserved == Apart /\ RingInv /\ BadgeInv /\ [BadgeNext]_badgeVars => BadgeInv'
<1> SUFFICES ASSUME Apart, RingInv, BadgeInv, [BadgeNext]_badgeVars
             PROVE  BadgeInv'
  OBVIOUS
<1>1. ASSUME NEW t \in Sessions, ReadCall(t)
      PROVE  BadgeInv'
  <2>1. \A s \in Sessions : reading'[s] = reading[s] \/ reading'[s] = at[s]
    BY <1>1 DEF ReadCall, RingInv, BadgeTypeOK
  <2>2. UNCHANGED <<at, unread, sends, ops, badge, smooth>>
    BY <1>1 DEF ReadCall
  <2> QED
    BY <2>1, <2>2 DEF BadgeInv, Lit, Dark, Untouched, Last, ToRing, Pending, First
<1>2. ASSUME NEW t \in Sessions, NEW w \in Workspaces, Move(t, w)
      PROVE  BadgeInv'
  BY <1>2 DEF Move, BadgeInv
<1>3. CASE UNCHANGED badgeVars
  BY <1>3 DEF badgeVars, BadgeInv, Lit, Dark, Untouched, Last, ToRing, Pending, First
<1> QED
  BY <1>1, <1>2, <1>3, SendKeepsBadge, RingKeepsBadge, ReadKeepsBadge, FinishKeepsBadge DEF BadgeNext

(* When the cmux processes have ended, in their order and without failure, *)
(* reads have returned everything and no session has moved, the badge of a *)
(* workspace tells of the mailbox of the one session in it.                *)
THEOREM BadgeAlwaysTells ==
  ASSUME \A s, t \in Sessions : Home(s) = Home(t) => s = t
  PROVE  BadgeSpec => []BadgeTellsTruth
<1>1. Apart
  BY DEF Apart
<1>2. RingInv => BadgeTypeOK
  BY DEF RingInv
<1>3. RingInv /\ BadgeInv /\ [BadgeNext]_badgeVars => BadgeInv'
  BY <1>1, BadgePreserved
<1> QED
  BY <1>2, <1>3, RingInitially, RingPreserved, BadgeInitially, BadgeTold, PTL DEF BadgeSpec
-----------------------------------------------------------------------------
(* Part 2: the wake-up                                                     *)

Takers ==
  \A m \in Msgs :
    /\ wake[m].took <= era
    /\ wake[m].took = era => window # Never /\ wake[m].now <= window

\* Every entry that may come back has a key this coordinator knows.
SnapAllowed == snap.key \in allowed \cup {NoKey}

WakeInv ==
  DebounceMs \in Nat /\ TypeOK /\ Takers /\ WakesSpaced /\ WindowIsAnAttempt /\ KeysAllowed /\ SnapAllowed

Wakes == [pc : {"idle"} \cup Running \cup Ended, now : Nat, from : Entries, took : Nat]

-----------------------------------------------------------------------------
LEMMA InitWakeInv == DebounceMs \in Nat /\ Init => WakeInv
<1> SUFFICES ASSUME DebounceMs \in Nat, Init PROVE WakeInv
  OBVIOUS
<1> USE DEF Init
<1>1. NoEntry \in Entries /\ NoEntry.key = NoKey
  BY DEF NoEntry, Entries
<1>2. Idle \in Wakes /\ Idle.took = 0 /\ Idle.now = 0 /\ Idle.pc = "idle"
  BY <1>1 DEF Idle, Wakes
<1>3. wake \in [Msgs -> Wakes] /\ \A m \in Msgs : wake[m] = Idle
  BY <1>2
<1>4. TypeOK
  <2>1. \A m \in Msgs : ~(wake[m].took # 0) /\ wake[m].pc \notin {"type", "enter", "ok", "failed"}
    BY <1>2, <1>3
  <2>2. allowed \subseteq Keys /\ clock \in Nat /\ era \in Nat \ {0} /\ regs \in Nat /\ restarts \in Nat
    OBVIOUS
  <2>3. entry \in Entries /\ disk \in Entries /\ snap \in Entries
    BY <1>1
  <2> QED
    BY <1>3, <2>1, <2>2, <2>3 DEF TypeOK, Wakes
<1>5. Takers /\ WakesSpaced /\ WindowIsAnAttempt
  BY <1>2, <1>3 DEF Takers, WakesSpaced, Took, WindowIsAnAttempt, Never
<1>6. KeysAllowed /\ SnapAllowed
  BY <1>1, <1>2, <1>3 DEF KeysAllowed, SnapAllowed
<1> QED
  BY <1>4, <1>5, <1>6 DEF WakeInv

-----------------------------------------------------------------------------
(* A step of a dispatch that takes no window: only its place changes.        *)
LEMMA WakeMoves ==
  ASSUME WakeInv, NEW m \in Msgs, NEW s \in {"lock", "unsafe", "enter", "failed", "ok", "debounce"},
         Goto(m, s),
         wake[m].took # 0 => s \in {"type", "enter", "ok", "failed"},
         wake[m].took = 0 => s \notin {"type", "enter", "ok", "failed"},
         UNCHANGED <<clock, window, era, registry>>
  PROVE  WakeInv'
<1> USE DEF WakeInv, registry
<1>1. wake \in [Msgs -> Wakes] /\ wake[m] \in Wakes
  BY DEF TypeOK, Wakes
<1>2. wake' = [wake EXCEPT ![m] = [wake[m] EXCEPT !.pc = s]]
  BY <1>1 DEF Goto
<1>3. [wake[m] EXCEPT !.pc = s] \in Wakes
  BY <1>1 DEF Wakes, Running, Ended
<1>4. wake' \in [Msgs -> Wakes]
  BY <1>1, <1>2, <1>3
<1>5. \A k \in Msgs : wake'[k].took = wake[k].took /\ wake'[k].now = wake[k].now
  BY <1>1, <1>2 DEF Wakes
<1>6. \A k \in Msgs : k # m => wake'[k] = wake[k]
  BY <1>1, <1>2
<1>7. wake'[m].pc = s
  BY <1>1, <1>2 DEF Wakes
<1>8. \A k \in Msgs : wake'[k].pc # "lost" =>
        (wake'[k].took # 0 <=> wake'[k].pc \in {"type", "enter", "ok", "failed"})
  BY <1>5, <1>6, <1>7 DEF TypeOK
<1>9. TypeOK'
  BY <1>4, <1>8 DEF TypeOK, Wakes
<1>10. Takers' /\ WakesSpaced' /\ WindowIsAnAttempt'
  BY <1>5 DEF Takers, WakesSpaced, Took, WindowIsAnAttempt
<1>11. KeysAllowed' /\ SnapAllowed'
  BY <1>6, <1>7 DEF KeysAllowed, SnapAllowed
<1> QED
  BY <1>9, <1>10, <1>11

LEMMA DispatchKeeps ==
  ASSUME WakeInv, NEW m \in Msgs, Dispatch(m)
  PROVE  WakeInv'
<1> USE DEF WakeInv, registry, Dispatch
<1> DEFINE w == [pc |-> IF entry.key \in allowed THEN "probe" ELSE "stalekey",
                 now |-> clock, from |-> entry, took |-> 0]
<1>1. wake \in [Msgs -> Wakes] /\ w \in Wakes /\ wake' = [wake EXCEPT ![m] = w]
  BY DEF TypeOK, Wakes, Running, Ended
<1>2. entry.key \in allowed
  BY DEF KeysAllowed
<1>3. w.took = 0 /\ w.pc = "probe" /\ w.now = clock
  BY <1>2
<1> HIDE DEF w
<1>4. wake' \in [Msgs -> Wakes] /\ wake'[m] = w /\ \A k \in Msgs : k # m => wake'[k] = wake[k]
  BY <1>1
<1>5. \A k \in Msgs : wake'[k].pc # "lost" =>
        (wake'[k].took # 0 <=> wake'[k].pc \in {"type", "enter", "ok", "failed"})
  BY <1>3, <1>4 DEF TypeOK
<1>6. TypeOK'
  BY <1>4, <1>5 DEF TypeOK, Wakes
<1>7. wake[m].took = 0
  BY DEF Idle
<1>8. \A k \in Msgs : wake'[k].took # 0 => wake'[k] = wake[k]
  BY <1>3, <1>4
<1>9. Takers'
  <2>1. era \in Nat \ {0}
    BY DEF TypeOK
  <2> QED
    BY <2>1, <1>3, <1>4 DEF Takers
<1>10. WakesSpaced'
  BY <1>8 DEF WakesSpaced, Took
<1>11. WindowIsAnAttempt'
  <2>1. era \in Nat \ {0}
    BY DEF TypeOK
  <2> QED
    BY <2>1, <1>4, <1>7 DEF WindowIsAnAttempt
<1>12. KeysAllowed' /\ SnapAllowed'
  BY <1>3, <1>4 DEF KeysAllowed, SnapAllowed
<1> QED
  BY <1>6, <1>9, <1>10, <1>11, <1>12

(* The window: the one that takes it is DebounceMs later than the last one,  *)
(* which is the latest of this wake state.                                   *)
LEMMA TakeWindowKeeps ==
  ASSUME WakeInv, NEW m \in Msgs, TakeWindow(m)
  PROVE  WakeInv'
<1> USE DEF WakeInv, registry, TakeWindow
<1> DEFINE w == [wake[m] EXCEPT !.pc = "type", !.took = era]
<1>1. wake \in [Msgs -> Wakes] /\ wake[m] \in Wakes /\ era \in Nat \ {0} /\ window \in Nat \cup {Never}
  BY DEF TypeOK, Wakes
<1>2. w \in Wakes /\ w.took = era /\ w.pc = "type" /\ w.now = wake[m].now
  BY <1>1 DEF Wakes, Running
<1>3. wake' = [wake EXCEPT ![m] = w]
  BY <1>1
<1> HIDE DEF w
<1>4. wake' \in [Msgs -> Wakes] /\ wake'[m] = w /\ \A k \in Msgs : k # m => wake'[k] = wake[k]
  BY <1>1, <1>2, <1>3
<1>5. \A k \in Msgs : wake'[k].pc # "lost" =>
        (wake'[k].took # 0 <=> wake'[k].pc \in {"type", "enter", "ok", "failed"})
  BY <1>1, <1>2, <1>4 DEF TypeOK
<1>6. window' = wake[m].now /\ window' \in Nat
  BY <1>1 DEF Wakes
<1>7. TypeOK'
  BY <1>4, <1>5, <1>6 DEF TypeOK, Wakes
<1>8. \A k \in Msgs : wake[k].took \in Nat /\ wake[k].now \in Nat
  BY <1>1 DEF Wakes
<1>9. DebounceMs \in Nat
  OBVIOUS
<1>10. ASSUME NEW k \in Msgs, wake[k].took = era
       PROVE  wake[m].now - wake[k].now >= DebounceMs
  <2>1. window # Never /\ wake[k].now <= window
    BY <1>10 DEF Takers
  <2>2. window \in Nat
    BY <2>1, <1>1
  <2>3. ~(wake[m].now - window < DebounceMs)
    BY <2>1 DEF Debounced
  <2> QED
    BY <2>1, <2>2, <2>3, <1>8, <1>9
<1>11. Takers'
  <2> SUFFICES ASSUME NEW k \in Msgs
               PROVE  /\ wake'[k].took <= era
                      /\ wake'[k].took = era => window' # Never /\ wake'[k].now <= window'
    BY DEF Takers
  <2>1. window' # Never
    BY <1>6 DEF Never
  <2>2. CASE k = m
    BY <2>1, <2>2, <1>1, <1>2, <1>4, <1>6
  <2>3. CASE k # m
    <3>1. wake'[k] = wake[k] /\ wake[k].took <= era
      BY <2>3, <1>4 DEF Takers
    <3>2. wake[k].took = era => wake[k].now <= window'
      BY <1>6, <1>8, <1>9, <1>10
    <3> QED
      BY <3>1, <3>2, <2>1
  <2> QED
    BY <2>2, <2>3
<1>12. WakesSpaced'
  <2> SUFFICES ASSUME NEW a \in Msgs, NEW b \in Msgs, Took(a)', a # b, wake'[a].took = wake'[b].took
               PROVE  \/ wake'[a].now - wake'[b].now >= DebounceMs
                      \/ wake'[b].now - wake'[a].now >= DebounceMs
    BY DEF WakesSpaced
  <2>1. CASE a = m
    BY <2>1, <1>2, <1>4, <1>10
  <2>2. CASE b = m
    BY <2>2, <1>2, <1>4, <1>10
  <2>3. CASE a # m /\ b # m
    BY <2>3, <1>4 DEF WakesSpaced, Took
  <2> QED
    BY <2>1, <2>2, <2>3
<1>13. WindowIsAnAttempt'
  BY <1>2, <1>4, <1>6 DEF WindowIsAnAttempt
<1>14. KeysAllowed' /\ SnapAllowed'
  BY <1>2, <1>4 DEF KeysAllowed, SnapAllowed
<1> QED
  BY <1>7, <1>11, <1>12, <1>13, <1>14

LEMMA StepKeeps ==
  ASSUME WakeInv, NEW m \in Msgs, Step(m)
  PROVE  WakeInv'
<1>1. wake[m].pc # "lost" => (wake[m].took # 0 <=> wake[m].pc \in {"type", "enter", "ok", "failed"})
  BY DEF WakeInv, TypeOK
<1>2. CASE Probe(m)
  BY <1>1, <1>2, WakeMoves DEF Probe
<1>3. CASE TakeWindow(m)
  BY <1>3, TakeWindowKeeps
<1>4. CASE Debounce(m)
  BY <1>1, <1>4, WakeMoves DEF Debounce
<1>5. CASE SendKeys(m)
  BY <1>1, <1>5, WakeMoves DEF SendKeys
<1> QED
  BY <1>2, <1>3, <1>4, <1>5 DEF Step

-----------------------------------------------------------------------------
(* A step that leaves the dispatches, the window and its number alone.       *)
LEMMA EntryMoves ==
  ASSUME WakeInv, UNCHANGED <<window, allowed, wake, era>>,
         TypeOK', entry'.key \in allowed \cup {NoKey}, snap'.key \in allowed \cup {NoKey}
  PROVE  WakeInv'
BY DEF WakeInv, Takers, WakesSpaced, Took, WindowIsAnAttempt, KeysAllowed, SnapAllowed

(* A step that resets the window: no dispatch has taken the new one.         *)
LEMMA Resets ==
  ASSUME WakeInv, window' = Never, era' = era + 1, wake' \in [Msgs -> Wakes],
         \A m \in Msgs : wake'[m].took = wake[m].took /\ wake'[m].now = wake[m].now,
         TypeOK', KeysAllowed', SnapAllowed'
  PROVE  WakeInv'
<1>1. era \in Nat \ {0} /\ \A m \in Msgs : wake[m].took \in Nat /\ wake[m].took <= era
  BY DEF WakeInv, TypeOK, Takers
<1>2. Takers'
  BY <1>1 DEF Takers
<1>3. WakesSpaced'
  BY DEF WakeInv, WakesSpaced, Took
<1>4. WindowIsAnAttempt'
  BY DEF WindowIsAnAttempt
<1> QED
  BY <1>2, <1>3, <1>4 DEF WakeInv

LEMMA RegisterKeeps ==
  ASSUME WakeInv, NEW k \in allowed \cup {"keep"}, NEW same \in BOOLEAN, Register(k, same)
  PROVE  WakeInv'
<1> USE DEF WakeInv, Register
<1>1. entry \in Entries /\ regs \in Nat /\ allowed \subseteq Keys /\ wake \in [Msgs -> Wakes]
  BY DEF TypeOK, Wakes
<1>2. RegisterKey(k, same) \in allowed \cup {NoKey}
  BY DEF RegisterKey, KeysAllowed
<1>3. entry' \in Entries /\ entry'.key \in allowed \cup {NoKey}
  <2>1. (IF same THEN entry.bearer ELSE regs + 1) \in Nat
    BY <1>1 DEF Entries
  <2> QED
    BY <2>1, <1>1, <1>2 DEF Entries
<1>4. TypeOK'
  BY <1>1, <1>3 DEF TypeOK
<1>5. KeysAllowed' /\ SnapAllowed'
  BY <1>3 DEF KeysAllowed, SnapAllowed
<1> QED
  BY <1>1, <1>4, <1>5, Resets

LEMMA RestartKeeps ==
  ASSUME WakeInv, NEW A \in SUBSET Keys, Restart(A)
  PROVE  WakeInv'
<1> USE DEF WakeInv, Restart, Closed
<1>1. disk \in Entries /\ restarts \in Nat /\ era \in Nat \ {0} /\ wake \in [Msgs -> Wakes]
  BY DEF TypeOK, Wakes
<1>2. Revalidated(disk, A) \in Entries /\ Revalidated(disk, A).key \in A \cup {NoKey}
  BY <1>1 DEF Revalidated, Entries
<1>3. NoEntry \in Entries /\ NoEntry.key = NoKey
  BY DEF NoEntry, Entries
<1>4. \A m \in Msgs : [wake[m] EXCEPT !.pc = "lost"] \in Wakes
  BY <1>1 DEF Wakes, Ended
<1>5. wake' \in [Msgs -> Wakes]
  BY <1>1, <1>4
<1>6. \A m \in Msgs : \/ wake'[m] = wake[m]
                      \/ wake'[m] = [wake[m] EXCEPT !.pc = "lost"]
  BY <1>1
<1>7. \A m \in Msgs : /\ wake'[m].took = wake[m].took /\ wake'[m].now = wake[m].now
                      /\ wake'[m].pc = wake[m].pc \/ wake'[m].pc = "lost"
  BY <1>1, <1>6 DEF Wakes
<1>8. \A m \in Msgs : wake'[m].pc # "lost" =>
        (wake'[m].took # 0 <=> wake'[m].pc \in {"type", "enter", "ok", "failed"})
  BY <1>7 DEF TypeOK
<1>9. TypeOK'
  <2>1. disk' \in Entries /\ entry' \in Entries /\ snap' \in Entries /\ clock' \in Nat
    BY <1>1, <1>2, <1>3 DEF TypeOK
  <2>2. era' \in Nat \ {0} /\ regs' \in Nat /\ restarts' \in Nat /\ allowed' \subseteq Keys
    BY <1>1 DEF TypeOK
  <2> QED
    BY <1>5, <1>8, <2>1, <2>2 DEF TypeOK, Wakes
<1>10. KeysAllowed' /\ SnapAllowed'
  BY <1>2, <1>3, <1>7 DEF KeysAllowed, SnapAllowed
<1> QED
  BY <1>5, <1>7, <1>9, <1>10, Resets

LEMMA NextKeeps == WakeInv /\ [Next]_(vars) => WakeInv'
<1> SUFFICES ASSUME WakeInv, [Next]_(vars) PROVE WakeInv'
  OBVIOUS
<1> USE DEF WakeInv
<1>0. NoEntry \in Entries /\ NoEntry.key = NoKey /\ entry.key \in allowed \cup {NoKey}
  BY DEF NoEntry, Entries, KeysAllowed
<1>1. CASE \E m \in Msgs : Dispatch(m) \/ Step(m)
  BY <1>1, DispatchKeeps, StepKeeps
<1>2. CASE \E k \in allowed \cup {"keep"}, same \in BOOLEAN : Register(k, same)
  BY <1>2, RegisterKeeps
<1>3. CASE Registered
  <2>1. TypeOK'
    BY <1>0, <1>3 DEF Registered, Closed, TypeOK
  <2> QED
    BY <1>0, <1>3, <2>1, EntryMoves DEF Registered, Closed
<1>4. CASE RollBack
  <2>1. TypeOK'
    BY <1>0, <1>4 DEF RollBack, Closed, TypeOK
  <2> QED
    BY <1>0, <1>4, <2>1, EntryMoves DEF RollBack, Closed, SnapAllowed
<1>5. CASE PersistedElsewhere
  <2>1. TypeOK'
    BY <1>5 DEF PersistedElsewhere, TypeOK
  <2> QED
    BY <1>0, <1>5, <2>1, EntryMoves DEF PersistedElsewhere, SnapAllowed
<1>6. CASE \E A \in SUBSET Keys : Restart(A)
  BY <1>6, RestartKeeps
<1>7. CASE Tick
  <2>1. TypeOK'
    BY <1>7 DEF Tick, registry, TypeOK
  <2> QED
    BY <1>0, <1>7, <2>1, EntryMoves DEF Tick, registry, SnapAllowed
<1>8. CASE UNCHANGED vars
  <2>1. TypeOK'
    BY <1>8 DEF vars, TypeOK
  <2> QED
    BY <1>0, <1>8, <2>1, EntryMoves DEF vars, SnapAllowed
<1> QED
  BY <1>1, <1>2, <1>3, <1>4, <1>5, <1>6, <1>7, <1>8 DEF Next

-----------------------------------------------------------------------------
\* The inductive invariant holds, for any number of messages and registrations.
THEOREM WakeInvariant == Spec => []WakeInv
BY DebounceAssumption, InitWakeInv, NextKeeps, PTL DEF Spec

\* Type correctness: every reachable state is well formed, for any number of
\* messages, registrations and debounce periods; a dispatch has taken a window
\* exactly if it went on to send keys, so a suppressed one takes none.
THEOREM WakeTypeCorrect == Spec => []TypeOK
BY WakeInvariant, PTL DEF WakeInv

\* Two wake-ups of one wake state are DebounceMs apart, for any debounce
\* period, however many messages arrive and however their probes are reordered.
THEOREM WakesSpacedAlways == Spec => []WakesSpaced
BY WakeInvariant, PTL DEF WakeInv

\* The window in force is the delivery time of a wake-up that was attempted.
THEOREM WindowIsAnAttemptAlways == Spec => []WindowIsAnAttempt
BY WakeInvariant, PTL DEF WakeInv

\* No dispatch meets a key that is not in the allowlist.
THEOREM KeysAllowedAlways == Spec => []KeysAllowed
BY WakeInvariant, PTL DEF WakeInv
=============================================================================
