---------------------------- MODULE Locks_proofs ----------------------------
(***************************************************************************)
(* The two locks the program makes itself.                                 *)
(*                                                                         *)
(* Part 1: the promise chains of withLock exclude each other and are       *)
(* queues, whatever the number of names, calls and tickets.                *)
(*                                                                         *)
(* Part 2: the lock file of a session directory.  When processes of one    *)
(* user are started one after the other, a directory has one coordinator,  *)
(* for any number of processes, process ids and directories, with kills at *)
(* any step.                                                               *)
(***************************************************************************)
EXTENDS LockChain, CoordinatorLock, Ranks_proofs

-----------------------------------------------------------------------------
(* Part 1: the promise chains                                              *)

(* locks[n] is the last ticket for n.                                      *)
LastInMap ==
  \A n \in Names :
    /\ locks[n] # 0 => locks[n] \in 1 .. Len(tickets) /\ tickets[locks[n]].name = n
    /\ \A t \in 1 .. Len(tickets) : tickets[t].name = n => t <= locks[n]

(* The prior of a ticket is no older than any earlier ticket for the name. *)
Linked ==
  \A t, u \in 1 .. Len(tickets) :
    tickets[t].name = tickets[u].name /\ t < u => t <= tickets[u].prior

SettledInOrder ==
  \A t, u \in 1 .. Len(tickets) :
    /\ tickets[t].name = tickets[u].name /\ t < u
    /\ tickets[u].settled
    => tickets[t].settled

(* A pending ticket is the only one of its call for its name, and the call *)
(* locks that name.                                                        *)
OnePending ==
  \A t \in 1 .. Len(tickets) :
    ~tickets[t].settled =>
      /\ tickets[t].name \in wants[tickets[t].by]
      /\ \A u \in 1 .. Len(tickets) :
           /\ ~tickets[u].settled
           /\ tickets[u].by = tickets[t].by /\ tickets[u].name = tickets[t].name
           => u = t

ChainInv == ChainTypeOK /\ LastInMap /\ Linked /\ SettledInOrder /\ OnePending

(* Everything drawn for a name before a ticket that runs has settled.      *)
LEMMA RunnerIsOldest ==
  ASSUME ChainTypeOK, Linked, SettledInOrder,
         NEW t \in 1 .. Len(tickets), NEW u \in 1 .. Len(tickets),
         tickets[t].name = tickets[u].name, t < u, Runs(u)
  PROVE  tickets[t].settled
<1> DEFINE k == tickets[u].prior
<1>0. t \in Nat /\ t >= 1 /\ k \in Nat
  BY DEF ChainTypeOK, Ticket
<1>1. t <= k
  BY DEF Linked
<1>2. k \in 1 .. u - 1 /\ tickets[k].name = tickets[u].name
  <2>1. k # 0
    BY <1>0, <1>1
  <2> QED
    BY <2>1 DEF ChainTypeOK
<1>3. tickets[tickets[u].prior].settled
  BY <1>2 DEF Runs
<1> QED
  BY <1>1, <1>2, <1>3 DEF SettledInOrder

LEMMA ChainExcludes == ChainInv => OneRunner
<1> SUFFICES ASSUME ChainInv,
                    NEW t \in 1 .. Len(tickets), NEW u \in 1 .. Len(tickets),
                    t < u, tickets[t].name = tickets[u].name, Runs(t), Runs(u)
             PROVE  FALSE
  BY DEF OneRunner
<1> QED
  BY RunnerIsOldest DEF ChainInv, Runs

LEMMA ChainInitially == ChainInit => ChainInv
  BY DEF ChainInit, ChainInv, ChainTypeOK, LastInMap, Linked, SettledInOrder, OnePending, Ticket

(* Drawing one ticket, for a name its call locks and has no ticket for.    *)
LEMMA DrawPreserves ==
  ASSUME ChainInv, NEW p \in Procs, NEW n \in Names, Draw(p, n),
         wants' \in [Procs -> SUBSET Names],
         \A q \in Procs : wants[q] \subseteq wants'[q],
         n \in wants'[p], Pending(p, n) = {}
  PROVE  ChainInv'
<1> DEFINE last == Len(tickets) + 1
<1>1. /\ tickets \in Seq(Ticket) /\ Len(tickets) \in Nat
      /\ locks \in [Names -> Nat] /\ wants \in [Procs -> SUBSET Names]
  BY DEF ChainInv, ChainTypeOK
<1>2. /\ tickets' \in Seq(Ticket)
      /\ Len(tickets') = last
      /\ \A t \in 1 .. Len(tickets) : tickets'[t] = tickets[t]
      /\ tickets'[last] = [name |-> n, by |-> p, prior |-> locks[n], settled |-> FALSE]
      /\ locks' = [locks EXCEPT ![n] = last]
  BY <1>1 DEF Draw, Ticket
<1>a. /\ last \in 1 .. Len(tickets') /\ last \notin 1 .. Len(tickets)
      /\ tickets'[last].name = n /\ tickets'[last].by = p
      /\ tickets'[last].prior = locks[n] /\ ~tickets'[last].settled
      /\ locks'[n] = last /\ \A k \in Names : k # n => locks'[k] = locks[k]
      /\ \A t \in 1 .. Len(tickets') : t # last => t \in 1 .. Len(tickets)
      /\ \A t \in 1 .. Len(tickets) : t \in 1 .. Len(tickets') /\ t < last
  BY <1>1, <1>2
<1>b. \A t \in 1 .. Len(tickets) : tickets[t] \in Ticket
  BY <1>1
<1> HIDE DEF last
<1>3. ChainTypeOK'
  <2>1. /\ tickets' \in Seq(Ticket)
        /\ locks' \in [Names -> Nat]
        /\ wants' \in [Procs -> SUBSET Names]
    BY <1>1, <1>2, <1>a
  <2>2. ASSUME NEW t \in 1 .. Len(tickets'), tickets'[t].prior # 0
        PROVE  /\ tickets'[t].prior \in 1 .. t - 1
               /\ tickets'[tickets'[t].prior].name = tickets'[t].name
    <3>1. CASE t = last
      <4>1. locks[n] \in 1 .. Len(tickets) /\ tickets[locks[n]].name = n
        BY <1>a, <2>2, <3>1 DEF ChainInv, LastInMap
      <4> QED
        BY <1>1, <1>2, <1>a, <3>1, <4>1
    <3>2. CASE t # last
      <4>1. t \in 1 .. Len(tickets) /\ tickets'[t] = tickets[t]
        BY <1>2, <1>a, <3>2
      <4>2. /\ tickets[t].prior \in 1 .. t - 1
            /\ tickets[tickets[t].prior].name = tickets[t].name
        BY <2>2, <4>1 DEF ChainInv, ChainTypeOK
      <4>3. tickets[t].prior \in 1 .. Len(tickets)
        BY <1>1, <4>1, <4>2
      <4> QED
        BY <1>2, <4>1, <4>2, <4>3
    <3> QED
      BY <3>1, <3>2
  <2> QED
    BY <2>1, <2>2 DEF ChainTypeOK
<1>4. LastInMap'
  <2> SUFFICES ASSUME NEW k \in Names
               PROVE  /\ locks'[k] # 0 => /\ locks'[k] \in 1 .. Len(tickets')
                                        /\ tickets'[locks'[k]].name = k
                      /\ \A t \in 1 .. Len(tickets') :
                           tickets'[t].name = k => t <= locks'[k]
    BY DEF LastInMap
  <2>0. /\ locks[k] # 0 => locks[k] \in 1 .. Len(tickets) /\ tickets[locks[k]].name = k
        /\ \A t \in 1 .. Len(tickets) : tickets[t].name = k => t <= locks[k]
    BY DEF ChainInv, LastInMap
  <2>1. CASE k = n
    BY <1>1, <1>2, <1>a, <2>1
  <2>2. CASE k # n
    BY <1>2, <1>a, <2>0, <2>2
  <2> QED
    BY <2>1, <2>2
<1>5. Linked'
  <2> SUFFICES ASSUME NEW t \in 1 .. Len(tickets'), NEW u \in 1 .. Len(tickets'),
                      tickets'[t].name = tickets'[u].name, t < u
               PROVE  t <= tickets'[u].prior
    BY DEF Linked
  <2>1. t \in 1 .. Len(tickets) /\ tickets'[t] = tickets[t]
    BY <1>1, <1>2, <1>a
  <2>2. CASE u = last
    BY <1>a, <2>1, <2>2 DEF ChainInv, LastInMap
  <2>3. CASE u # last
    BY <1>2, <1>a, <2>1, <2>3 DEF ChainInv, Linked
  <2> QED
    BY <2>2, <2>3
<1>6. SettledInOrder'
  <2> SUFFICES ASSUME NEW t \in 1 .. Len(tickets'), NEW u \in 1 .. Len(tickets'),
                      tickets'[t].name = tickets'[u].name, t < u, tickets'[u].settled
               PROVE  tickets'[t].settled
    BY DEF SettledInOrder
  <2>1. u \in 1 .. Len(tickets) /\ tickets'[u] = tickets[u]
    BY <1>2, <1>a
  <2>2. t \in 1 .. Len(tickets) /\ tickets'[t] = tickets[t]
    BY <1>1, <1>2, <1>a
  <2> QED
    BY <2>1, <2>2 DEF ChainInv, SettledInOrder
<1>7. OnePending'
  <2> SUFFICES ASSUME NEW t \in 1 .. Len(tickets'), ~tickets'[t].settled
               PROVE  /\ tickets'[t].name \in wants'[tickets'[t].by]
                      /\ \A u \in 1 .. Len(tickets') :
                           /\ ~tickets'[u].settled
                           /\ tickets'[u].by = tickets'[t].by
                           /\ tickets'[u].name = tickets'[t].name
                           => u = t
    BY DEF OnePending
  <2>0. \A u \in 1 .. Len(tickets) :
          ~(~tickets[u].settled /\ tickets[u].by = p /\ tickets[u].name = n)
    BY DEF Pending
  <2>1. CASE t = last
    BY <1>2, <1>a, <2>0, <2>1
  <2>2. CASE t # last
    <3>1. t \in 1 .. Len(tickets) /\ tickets'[t] = tickets[t] /\ tickets[t].by \in Procs
      BY <1>2, <1>a, <1>b, <2>2 DEF Ticket
    <3>2. tickets'[t].name \in wants'[tickets'[t].by]
      BY <3>1 DEF ChainInv, OnePending
    <3>3. ASSUME NEW u \in 1 .. Len(tickets'), ~tickets'[u].settled,
                 tickets'[u].by = tickets'[t].by, tickets'[u].name = tickets'[t].name
          PROVE  u = t
      BY <1>2, <1>a, <2>0, <3>1, <3>3 DEF ChainInv, OnePending
    <3> QED
      BY <3>2, <3>3
  <2> QED
    BY <2>1, <2>2
<1> QED
  BY <1>3, <1>4, <1>5, <1>6, <1>7 DEF ChainInv

LEMMA FinishPreserves ==
  ASSUME ChainInv, NEW p \in Procs, Settle(p)
  PROVE  ChainInv'
<1>1. /\ tickets \in Seq(Ticket) /\ Len(tickets) \in Nat
      /\ locks \in [Names -> Nat] /\ wants \in [Procs -> SUBSET Names]
      /\ \A t \in 1 .. Len(tickets) : tickets[t] \in Ticket
  BY DEF ChainInv, ChainTypeOK
<1> DEFINE s(t) == IF tickets[t].by = p THEN [tickets[t] EXCEPT !.settled = TRUE]
                                          ELSE tickets[t]
<1>2. /\ tickets' \in Seq(Ticket)
      /\ Len(tickets') = Len(tickets)
  <2>1. \A t \in 1 .. Len(tickets) : s(t) \in Ticket
    BY <1>1 DEF Ticket
  <2>2. tickets' = [t \in 1 .. Len(tickets) |-> s(t)]
    BY DEF Settle
  <2> HIDE DEF s
  <2> QED
    BY <1>1, <2>1, <2>2
<1>3. \A t \in 1 .. Len(tickets) :
        /\ tickets'[t].name = tickets[t].name
        /\ tickets'[t].by = tickets[t].by
        /\ tickets'[t].prior = tickets[t].prior
        /\ tickets'[t].settled = (tickets[t].settled \/ tickets[t].by = p)
  BY <1>1 DEF Settle, Ticket
<1>4. locks' = locks /\ wants' = [wants EXCEPT ![p] = {}]
  BY DEF Settle
<1>5. ChainTypeOK'
  <2>1. wants' \in [Procs -> SUBSET Names]
    BY <1>1, <1>4
  <2>2. ASSUME NEW t \in 1 .. Len(tickets'), tickets'[t].prior # 0
        PROVE  /\ tickets'[t].prior \in 1 .. t - 1
               /\ tickets'[tickets'[t].prior].name = tickets'[t].name
    <3>1. /\ tickets[t].prior \in 1 .. t - 1
          /\ tickets[tickets[t].prior].name = tickets[t].name
      BY <1>2, <1>3, <2>2 DEF ChainInv, ChainTypeOK
    <3>2. tickets[t].prior \in 1 .. Len(tickets)
      BY <1>1, <1>2, <3>1
    <3> QED
      BY <1>2, <1>3, <3>1, <3>2
  <2> QED
    BY <1>1, <1>2, <1>4, <2>1, <2>2 DEF ChainTypeOK
<1>6. LastInMap'
  BY <1>2, <1>3, <1>4 DEF ChainInv, LastInMap
<1>7. Linked'
  BY <1>2, <1>3 DEF ChainInv, Linked
<1>8. SettledInOrder'
  <2> SUFFICES ASSUME NEW t \in 1 .. Len(tickets), NEW u \in 1 .. Len(tickets),
                      tickets[t].name = tickets[u].name, t < u, tickets'[u].settled
               PROVE  tickets[t].settled
    BY <1>2, <1>3 DEF SettledInOrder
  <2>1. CASE tickets[u].settled
    BY <2>1 DEF ChainInv, SettledInOrder
  <2>2. CASE ~tickets[u].settled
    <3>1. tickets[u].by = p /\ tickets[u].name \in wants[p]
      BY <1>3, <2>2 DEF ChainInv, OnePending
    <3>2. PICK k \in Pending(p, tickets[u].name) : Runs(k)
      BY <3>1 DEF Settle
    <3>3. k = u
      BY <2>2, <3>1, <3>2 DEF ChainInv, OnePending, Pending
    <3> QED
      BY <3>2, <3>3, RunnerIsOldest DEF ChainInv
  <2> QED
    BY <2>1, <2>2
<1>9. OnePending'
  <2> SUFFICES ASSUME NEW t \in 1 .. Len(tickets), ~tickets'[t].settled
               PROVE  /\ tickets[t].name \in wants'[tickets[t].by]
                      /\ \A u \in 1 .. Len(tickets) :
                           /\ ~tickets'[u].settled
                           /\ tickets[u].by = tickets[t].by
                           /\ tickets[u].name = tickets[t].name
                           => u = t
    BY <1>2, <1>3 DEF OnePending
  <2>1. ~tickets[t].settled /\ tickets[t].by # p /\ tickets[t].by \in Procs
    BY <1>1, <1>3 DEF Ticket
  <2>2. wants'[tickets[t].by] = wants[tickets[t].by]
    BY <1>1, <1>4, <2>1
  <2> QED
    BY <1>3, <2>1, <2>2 DEF ChainInv, OnePending
<1> QED
  BY <1>5, <1>6, <1>7, <1>8, <1>9 DEF ChainInv

LEMMA FirstIsMember ==
  ASSUME NEW a \in Names, NEW b \in Names
  PROVE  Locks!First({a, b}) \in {a, b}
<1>1. \E n \in {a, b} : \A k \in {a, b} : n <= k
  BY NamesAreRanks
<1> QED
  BY <1>1 DEF Locks!First

LEMMA ChainPreserved == ChainInv /\ [ChainNext]_chainVars => ChainInv'
<1> SUFFICES ASSUME ChainInv, [ChainNext]_chainVars
             PROVE  ChainInv'
  OBVIOUS
<1>0. wants \in [Procs -> SUBSET Names]
  BY DEF ChainInv, ChainTypeOK
<1>1. ASSUME NEW p \in Procs, NEW a \in Names, NEW b \in Names, Start(p, {a, b})
      PROVE  ChainInv'
  <2> DEFINE n == Locks!First({a, b})
  <2>1. n \in {a, b}
    BY FirstIsMember
  <2>2. Pending(p, n) = {}
    BY <1>1 DEF Start, Pending, ChainInv, OnePending
  <2>3. /\ wants' \in [Procs -> SUBSET Names] /\ n \in wants'[p]
        /\ \A q \in Procs : wants[q] \subseteq wants'[q]
    BY <1>0, <1>1, <2>1 DEF Start
  <2> QED
    BY <1>1, <2>1, <2>2, <2>3, DrawPreserves DEF Start
<1>2. ASSUME NEW p \in Procs, Nested(p)
      PROVE  ChainInv'
  BY <1>0, <1>2, DrawPreserves DEF Nested
<1>3. ASSUME NEW p \in Procs, Settle(p)
      PROVE  ChainInv'
  BY <1>3, FinishPreserves
<1>4. CASE UNCHANGED chainVars
  BY <1>4 DEF chainVars, ChainInv, ChainTypeOK, LastInMap, Linked, SettledInOrder, OnePending
<1> QED
  BY <1>1, <1>2, <1>3, <1>4 DEF ChainNext

(* The priors of withLock always form, for each name, one chain of earlier *)
(* tickets.                                                                *)
THEOREM ChainTypeCorrect == ChainSpec => []ChainTypeOK
<1>1. ChainInv => ChainTypeOK
  BY DEF ChainInv
<1> QED
  BY ChainInitially, ChainPreserved, <1>1, PTL DEF ChainSpec

(* No two withLock calls for one name ever run their fn at the same time.  *)
THEOREM ChainExclusion == ChainSpec => []OneRunner
  BY ChainInitially, ChainPreserved, ChainExcludes, PTL DEF ChainSpec

-----------------------------------------------------------------------------
(***************************************************************************)
(* The queue of a name through the steps of the chain.                     *)
(***************************************************************************)
LEMMA OpenAreNumbers ==
  ASSUME ChainTypeOK, NEW n
  PROVE  Numbers(Open(n))
<1>1. Len(tickets) \in Nat
  BY DEF ChainTypeOK
<1>2. Open(n) \in SUBSET Nat /\ \A t \in Open(n) : t <= Len(tickets)
  BY <1>1 DEF Open
<1> QED
  BY <1>1, <1>2, FS_BoundedSetOfNaturals DEF Numbers

(* A queue is that of any tickets that agree on the callers of its own.    *)
LEMMA CallersKept ==
  ASSUME NEW S, Numbers(S), NEW d, NEW e, \A t \in S : e[t].by = d[t].by
  PROVE  Callers(e, S) = Callers(d, S)
<1>1. \A i \in 1 .. Cardinality(S) : Nth(S, i) \in S
  BY NthExists
<1> QED
  BY <1>1 DEF Callers

LEMMA CallersAreCalls ==
  ASSUME NEW S, Numbers(S), NEW d, \A t \in S : d[t].by \in Procs
  PROVE  /\ Callers(d, S) \in Seq(Procs)
         /\ Len(Callers(d, S)) = Cardinality(S)
         /\ \A i \in 1 .. Cardinality(S) : Callers(d, S)[i] = d[Nth(S, i)].by
<1>1. Cardinality(S) \in Nat
  BY FS_CardinalityType DEF Numbers
<1>2. \A i \in 1 .. Cardinality(S) : d[Nth(S, i)].by \in Procs
  BY NthExists
<1> QED
  BY <1>1, <1>2 DEF Callers

LEMMA CallersOfLonger ==
  ASSUME NEW S, Numbers(S), NEW d, NEW e, NEW x \in Nat, NEW p \in Procs,
         \A t \in S : t < x /\ d[t].by \in Procs /\ e[t].by = d[t].by,
         e[x].by = p
  PROVE  Callers(e, S \cup {x}) = Append(Callers(d, S), p)
<1> DEFINE c == Cardinality(S)
           T == S \cup {x}
<1>1. c \in Nat /\ Numbers(T)
  BY FS_CardinalityType, FS_AddElement DEF Numbers
<1>2. /\ Cardinality(T) = c + 1
      /\ \A i \in 1 .. c : Nth(T, i) = Nth(S, i)
      /\ Nth(T, c + 1) = x
  BY NthOfLonger
<1>3. /\ Callers(d, S) \in Seq(Procs) /\ Len(Callers(d, S)) = c
      /\ \A i \in 1 .. c : Callers(d, S)[i] = d[Nth(S, i)].by
  BY CallersAreCalls
<1>4. /\ Callers(e, T) \in Seq(Procs) /\ Len(Callers(e, T)) = c + 1
      /\ \A i \in 1 .. c + 1 : Callers(e, T)[i] = e[Nth(T, i)].by
  <2>1. \A t \in T : e[t].by \in Procs
    OBVIOUS
  <2> HIDE DEF T
  <2>2. /\ Callers(e, T) \in Seq(Procs) /\ Len(Callers(e, T)) = Cardinality(T)
        /\ \A i \in 1 .. Cardinality(T) : Callers(e, T)[i] = e[Nth(T, i)].by
    BY <1>1, <2>1, CallersAreCalls
  <2> QED
    BY <1>2, <2>2
<1>5. \A i \in 1 .. c : e[Nth(T, i)].by = d[Nth(S, i)].by
  BY <1>2, NthExists
<1> DEFINE before == Callers(d, S)
           after == Callers(e, T)
           more == Append(before, p)
<1>6. /\ before \in Seq(Procs) /\ Len(before) = c
      /\ after \in Seq(Procs) /\ Len(after) = c + 1 /\ after[c + 1] = p
      /\ \A i \in 1 .. c : after[i] = before[i]
  <2> HIDE DEF c, T
  <2> QED
    BY <1>1, <1>2, <1>3, <1>4, <1>5
<1> HIDE DEF c, T, before, after
<1>7. /\ more \in Seq(Procs) /\ Len(more) = c + 1 /\ more[c + 1] = p
      /\ \A i \in 1 .. c : more[i] = before[i]
  BY <1>6
<1> HIDE DEF more
<1>8. \A i \in 1 .. c + 1 : after[i] = more[i]
  BY <1>1, <1>6, <1>7
<1>9. after = more
  BY <1>6, <1>7, <1>8
<1> QED
  BY <1>9 DEF after, more, before, T

(* The tickets T are S and x, a later one of p.                            *)
Lengthens(S, T, d, e, x, p) ==
  /\ Numbers(S) /\ T = S \cup {x} /\ x \in Nat /\ p \in Procs
  /\ \A t \in S : t < x /\ d[t].by \in Procs /\ e[t].by = d[t].by
  /\ e[x].by = p

LEMMA CallersLengthen ==
  ASSUME NEW S, NEW T, NEW d, NEW e, NEW x, NEW p, Lengthens(S, T, d, e, x, p)
  PROVE  Callers(e, T) = Append(Callers(d, S), p)
<1>1. T = S \cup {x}
  BY DEF Lengthens
<1>2. Callers(e, S \cup {x}) = Append(Callers(d, S), p)
  BY CallersOfLonger DEF Lengthens
<1> QED
  BY <1>1, <1>2

LEMMA CallersOfShorter ==
  ASSUME NEW S, Numbers(S), NEW d, NEW e, NEW x \in S, \A t \in S : x <= t,
         \A t \in S : d[t].by \in Procs /\ e[t].by = d[t].by
  PROVE  /\ Callers(d, S) # <<>> /\ Head(Callers(d, S)) = d[x].by
         /\ Callers(e, S \ {x}) = Tail(Callers(d, S))
<1> DEFINE c == Cardinality(S)
           T == S \ {x}
<1>1. Numbers(T)
  BY FS_RemoveElement DEF Numbers
<1>2. /\ c \in Nat \ {0} /\ Cardinality(T) = c - 1 /\ Nth(S, 1) = x
      /\ \A i \in 1 .. c - 1 : Nth(T, i) = Nth(S, i + 1)
  BY NthOfShorter
<1>3. /\ Callers(d, S) \in Seq(Procs) /\ Len(Callers(d, S)) = c
      /\ \A i \in 1 .. c : Callers(d, S)[i] = d[Nth(S, i)].by
  BY CallersAreCalls
<1>4. /\ Callers(e, T) \in Seq(Procs) /\ Len(Callers(e, T)) = c - 1
      /\ \A i \in 1 .. c - 1 : Callers(e, T)[i] = e[Nth(T, i)].by
  <2>1. \A t \in T : e[t].by \in Procs
    OBVIOUS
  <2> HIDE DEF T
  <2>2. /\ Callers(e, T) \in Seq(Procs) /\ Len(Callers(e, T)) = Cardinality(T)
        /\ \A i \in 1 .. Cardinality(T) : Callers(e, T)[i] = e[Nth(T, i)].by
    BY <1>1, <2>1, CallersAreCalls
  <2> QED
    BY <1>2, <2>2
<1>5. \A i \in 1 .. c - 1 : e[Nth(T, i)].by = d[Nth(S, i + 1)].by
  <2> TAKE i \in 1 .. c - 1
  <2>1. i + 1 \in 1 .. c
    BY <1>2
  <2>2. Nth(S, i + 1) \in S
    BY <2>1, NthExists
  <2> QED
    BY <1>2, <2>2
<1> DEFINE before == Callers(d, S)
           after == Callers(e, T)
           rest == Tail(before)
<1>6. /\ before \in Seq(Procs) /\ Len(before) = c /\ before[1] = d[x].by
      /\ after \in Seq(Procs) /\ Len(after) = c - 1
      /\ \A i \in 1 .. c - 1 : after[i] = before[i + 1]
  <2> HIDE DEF c, T
  <2>1. \A i \in 1 .. c - 1 : i + 1 \in 1 .. c
    BY <1>2
  <2> QED
    BY <1>2, <1>3, <1>4, <1>5, <2>1
<1>c. c \in Nat \ {0}
  BY <1>2
<1> HIDE DEF c, T, before, after
<1>7. /\ rest \in Seq(Procs) /\ Len(rest) = c - 1
      /\ \A i \in 1 .. c - 1 : rest[i] = before[i + 1]
      /\ before # <<>> /\ Head(before) = d[x].by
  BY <1>c, <1>6
<1> HIDE DEF rest
<1>8. after = rest
  BY <1>6, <1>7
<1> QED
  BY <1>7, <1>8 DEF after, rest, before, T

-----------------------------------------------------------------------------
(***************************************************************************)
(* Every step of the chain is a step of the queues.                        *)
(***************************************************************************)
LEMMA QueuesAreCalls ==
  ASSUME ChainInv, NEW n \in Names
  PROVE  /\ Numbers(Open(n))
         /\ \A t \in Open(n) : tickets[t].by \in Procs
<1>1. Numbers(Open(n))
  BY OpenAreNumbers DEF ChainInv
<1>2. \A t \in 1 .. Len(tickets) : tickets[t] \in Ticket
  BY DEF ChainInv, ChainTypeOK
<1> QED
  BY <1>1, <1>2 DEF Open, Ticket

(* A call is in the queue of a name when it has a pending ticket for it.   *)
LEMMA MembersArePending ==
  ASSUME ChainInv, NEW p \in Procs, NEW n \in Names, Pending(p, n) = {}
  PROVE  p \notin {Queue(n)[i] : i \in 1 .. Len(Queue(n))}
<1>1. /\ Len(Queue(n)) = Cardinality(Open(n))
      /\ \A i \in 1 .. Cardinality(Open(n)) :
           Queue(n)[i] = tickets[Nth(Open(n), i)].by /\ Nth(Open(n), i) \in Open(n)
  BY QueuesAreCalls, CallersAreCalls, NthExists DEF Queue
<1>2. \A t \in Open(n) : tickets[t].by # p
  BY DEF Open, Pending
<1> QED
  BY <1>1, <1>2

(* A ticket that runs heads the queue of its name.                         *)
LEMMA RunnerHeads ==
  ASSUME ChainInv, NEW p \in Procs, NEW n \in Names,
         NEW t \in Pending(p, n), Runs(t)
  PROVE  /\ t \in Open(n) /\ \A u \in Open(n) : t <= u
         /\ Queue(n) # <<>> /\ Head(Queue(n)) = p
<1>1. t \in Open(n) /\ tickets[t].by = p
  BY DEF Open, Pending
<1>2. ASSUME NEW u \in Open(n)
      PROVE  t <= u
  <2>1. /\ t \in 1 .. Len(tickets) /\ u \in 1 .. Len(tickets)
        /\ tickets[u].name = tickets[t].name /\ ~tickets[u].settled
    BY <1>1 DEF Open
  <2>2. ~(u < t)
    BY <2>1, RunnerIsOldest DEF ChainInv
  <2> QED
    BY <2>1, <2>2 DEF ChainInv, ChainTypeOK
<1>3. Queue(n) # <<>> /\ Head(Queue(n)) = p
  BY <1>1, <1>2, QueuesAreCalls, CallersOfShorter DEF Queue
<1> QED
  BY <1>1, <1>2, <1>3

(* Drawing a ticket for n puts its call at the end of the queue of n.      *)
LEMMA DrawAppends ==
  ASSUME ChainInv, NEW p \in Procs, NEW n \in Names, Draw(p, n), NEW k \in Names
  PROVE  Queue(k)' = IF k = n THEN Append(Queue(k), p) ELSE Queue(k)
<1> DEFINE last == Len(tickets) + 1
           next == tickets'
           opened == Open(k)'
<1>1. /\ Len(tickets) \in Nat /\ Len(next) = last /\ last \in Nat \ {0}
      /\ \A t \in 1 .. Len(tickets) : next[t] = tickets[t] /\ t < last
      /\ next[last].name = n /\ next[last].by = p /\ ~next[last].settled
  BY DEF ChainInv, ChainTypeOK, Draw
<1>2. \A t \in 1 .. last : t = last \/ t \in 1 .. Len(tickets)
  BY <1>1
<1>3. opened = {t \in 1 .. Len(next) : next[t].name = k /\ ~next[t].settled}
  BY DEF Open
<1>4. Queue(k)' = Callers(next, opened)
  BY DEF Queue, Callers
<1>5. \A t \in Open(k) : t < last /\ next[t].by = tickets[t].by
  BY <1>1 DEF Open
<1> HIDE DEF last, next, opened
<1>6. CASE k = n
  <2>1. \A t \in 1 .. Len(tickets) : t \in opened <=> t \in Open(k)
    BY <1>1, <1>3, <1>6 DEF Open
  <2>2. last \in opened /\ Open(k) \subseteq 1 .. Len(tickets)
    BY <1>1, <1>3, <1>6 DEF Open
  <2>3. \A t \in opened : t = last \/ t \in 1 .. Len(tickets)
    BY <1>1, <1>2, <1>3
  <2>4. opened = Open(k) \cup {last}
    BY <2>1, <2>2, <2>3
  <2>5. \A t \in Open(k) : t < last /\ tickets[t].by \in Procs /\ next[t].by = tickets[t].by
    BY <1>5, QueuesAreCalls
  <2>6. last \in Nat /\ next[last].by = p /\ Numbers(Open(k))
    BY <1>1, QueuesAreCalls
  <2>7. Lengthens(Open(k), opened, tickets, next, last, p)
    BY <2>4, <2>5, <2>6 DEF Lengthens
  <2>8. Callers(next, opened) = Append(Callers(tickets, Open(k)), p)
    BY <2>7, CallersLengthen
  <2> QED
    BY <1>4, <1>6, <2>8 DEF Queue
<1>7. CASE k # n
  <2>1. opened = Open(k)
    BY <1>1, <1>2, <1>3, <1>7 DEF Open
  <2> QED
    BY <1>4, <1>5, <1>7, <2>1, QueuesAreCalls, CallersKept DEF Queue
<1> QED
  BY <1>6, <1>7

(* Finishing takes the call off the head of the queue of each name it      *)
(* locks.                                                                  *)
LEMMA FinishTakesHeads ==
  ASSUME ChainInv, NEW p \in Procs, Settle(p), NEW k \in Names
  PROVE  Queue(k)' = IF k \in wants[p] THEN Tail(Queue(k)) ELSE Queue(k)
<1> DEFINE next == tickets'
           opened == Open(k)'
<1>1. /\ Len(next) = Len(tickets)
      /\ \A t \in 1 .. Len(tickets) :
           /\ next[t].name = tickets[t].name /\ next[t].by = tickets[t].by
           /\ next[t].settled = (tickets[t].settled \/ tickets[t].by = p)
  <2>1. \A t \in 1 .. Len(tickets) : tickets[t] \in Ticket
    BY DEF ChainInv, ChainTypeOK
  <2>2. Len(tickets) \in Nat
    BY DEF ChainInv, ChainTypeOK
  <2> DEFINE s(t) == IF tickets[t].by = p THEN [tickets[t] EXCEPT !.settled = TRUE]
                                           ELSE tickets[t]
  <2>3. next = [t \in 1 .. Len(tickets) |-> s(t)]
    BY DEF Settle
  <2>4. Len(next) = Len(tickets)
    <3> HIDE DEF s, next
    <3> QED
      BY <2>2, <2>3
  <2>5. ASSUME NEW t \in 1 .. Len(tickets)
        PROVE  /\ s(t).name = tickets[t].name /\ s(t).by = tickets[t].by
               /\ s(t).settled = (tickets[t].settled \/ tickets[t].by = p)
    BY <2>1 DEF Ticket
  <2> HIDE DEF s, next
  <2> QED
    BY <2>3, <2>4, <2>5
<1>2. opened = {t \in 1 .. Len(next) : next[t].name = k /\ ~next[t].settled}
  BY DEF Open
<1>3. Queue(k)' = Callers(next, opened)
  BY DEF Queue, Callers
<1> HIDE DEF next, opened
<1>4. \A t \in Open(k) : next[t].by = tickets[t].by
  BY <1>1 DEF Open
<1>5. opened = {t \in Open(k) : tickets[t].by # p}
  BY <1>1, <1>2 DEF Open
<1>6. CASE k \in wants[p]
  <2>1. PICK t \in Pending(p, k) : Runs(t)
    BY <1>6 DEF Settle
  <2>2. t \in Open(k) /\ \A u \in Open(k) : t <= u
    BY <2>1, RunnerHeads
  <2>3. \A u \in Open(k) : tickets[u].by = p <=> u = t
    BY <2>1 DEF ChainInv, OnePending, Pending, Open
  <2>4. opened = Open(k) \ {t}
    BY <1>5, <2>3
  <2>5. /\ Numbers(Open(k))
        /\ \A u \in Open(k) : tickets[u].by \in Procs /\ next[u].by = tickets[u].by
    BY <1>4, QueuesAreCalls
  <2>6. Callers(next, Open(k) \ {t}) = Tail(Callers(tickets, Open(k)))
    BY <2>2, <2>5, CallersOfShorter
  <2> QED
    BY <1>3, <1>6, <2>4, <2>6 DEF Queue
<1>7. CASE k \notin wants[p]
  <2>1. \A t \in Open(k) : tickets[t].by # p
    BY <1>7 DEF ChainInv, OnePending, Open
  <2>2. opened = Open(k)
    BY <1>5, <2>1
  <2> QED
    BY <1>3, <1>4, <1>7, <2>2, QueuesAreCalls, CallersKept DEF Queue
<1> QED
  BY <1>6, <1>7

LEMMA QueuesInitially == ChainInit => Locks!LockInit
<1> SUFFICES ASSUME ChainInit
             PROVE  Locks!LockInit
  OBVIOUS
<1>1. ASSUME NEW n \in Names
      PROVE  Queue(n) = <<>>
  <2>1. Open(n) = {}
    BY DEF ChainInit, Open
  <2>2. Cardinality(Open(n)) = 0
    BY <2>1, FS_EmptySet
  <2> QED
    BY <2>2 DEF Queue, Callers
<1> QED
  BY <1>1 DEF ChainInit, Locks!LockInit

LEMMA StepIsQueueStep ==
  ASSUME ChainInv, NEW p \in Procs
  PROVE  /\ \A a, b \in Names : Start(p, {a, b}) => Locks!WithLocks(p, {a, b})
         /\ Nested(p) => Locks!NestedLock(p)
         /\ Settle(p) => Locks!Release(p)
<1> DEFINE line == [n \in Names |-> Queue(n)]
           nextLine == [n \in Names |-> Queue(n)']
<1>0. /\ wants \in [Procs -> SUBSET Names]
      /\ \A n \in Names : line[n] = Queue(n) /\ nextLine[n] = Queue(n)'
  BY DEF ChainInv, ChainTypeOK
<1>1. ASSUME NEW n \in Names, Draw(p, n)
      PROVE  nextLine = [line EXCEPT ![n] = Append(@, p)]
  BY <1>1, DrawAppends
<1>2. ASSUME NEW a \in Names, NEW b \in Names, Start(p, {a, b})
      PROVE  Locks!WithLocks(p, {a, b})
  <2>1. Locks!First({a, b}) \in Names
    BY FirstIsMember
  <2>2. nextLine = [line EXCEPT ![Locks!First({a, b})] = Append(@, p)]
    BY <1>1, <1>2, <2>1 DEF Start
  <2> QED
    BY <1>2, <2>2 DEF Start, Locks!WithLocks
<1>3. ASSUME Nested(p)
      PROVE  Locks!NestedLock(p)
  <2>1. PICK k \in wants[p], n \in wants[p] :
          /\ \E t \in Pending(p, k) : Runs(t)
          /\ Pending(p, n) = {}
          /\ Draw(p, n)
    BY <1>3 DEF Nested
  <2>2. k \in Names /\ n \in Names
    BY <1>0, <2>1
  <2>3. line[k] # <<>> /\ Head(line[k]) = p
    BY <1>0, <2>1, <2>2, RunnerHeads
  <2>4. p \notin {line[n][i] : i \in 1 .. Len(line[n])}
    BY <1>0, <2>1, <2>2, MembersArePending
  <2>5. nextLine = [line EXCEPT ![n] = Append(@, p)]
    BY <1>1, <2>1, <2>2
  <2>6. Locks!Holds(p, k) /\ p \notin Locks!Members(n)
    BY <2>3, <2>4 DEF Locks!Holds, Locks!Members
  <2>7. UNCHANGED wants
    BY <1>3 DEF Nested
  <2> QED
    BY <2>1, <2>5, <2>6, <2>7 DEF Locks!NestedLock
<1>4. ASSUME Settle(p)
      PROVE  Locks!Release(p)
  <2>1. wants[p] # {} /\ wants' = [wants EXCEPT ![p] = {}]
    BY <1>4 DEF Settle
  <2>2. ASSUME NEW n \in wants[p]
        PROVE  line[n] # <<>> /\ Head(line[n]) = p
    <3>1. PICK t \in Pending(p, n) : Runs(t)
      BY <1>4 DEF Settle
    <3> QED
      BY <1>0, <3>1, RunnerHeads
  <2>3. nextLine = [n \in Names |-> IF n \in wants[p] THEN Tail(line[n]) ELSE line[n]]
    BY <1>4, FinishTakesHeads
  <2> QED
    BY <2>1, <2>2, <2>3 DEF Locks!Release, Locks!Inside, Locks!Holds
<1> QED
  BY <1>2, <1>3, <1>4

LEMMA QueueStep == ChainInv /\ [ChainNext]_chainVars => [Locks!LockNext]_(Locks!lockVars)
<1> SUFFICES ASSUME ChainInv, [ChainNext]_chainVars
             PROVE  [Locks!LockNext]_(Locks!lockVars)
  OBVIOUS
<1>1. CASE ChainNext
  BY <1>1, StepIsQueueStep DEF ChainNext, Locks!LockNext
<1>2. CASE UNCHANGED chainVars
  BY <1>2 DEF chainVars, Locks!lockVars, Queue, Callers, Open
<1> QED
  BY <1>1, <1>2

(* The promises of withLock serve the calls of every name first come first *)
(* served: they implement NameLocks, so what is proved of its queues holds *)
(* of the code's chains.                                                   *)
THEOREM ChainsAreQueues == ChainSpec => Queues
  BY ChainInitially, ChainPreserved, QueuesInitially, QueueStep, PTL
  DEF ChainSpec, Queues, Locks!LockSafety
-----------------------------------------------------------------------------
(* Part 2: the lock file                                                   *)

\* What the guarantee rests on.  It fails when starts overlap, and when kill(2)
\* does not reach a process of another user.
Sequential == ~Overlap /\ \A p, q \in Programs : UserOf[p] = UserOf[q]

OneAcquires ==
  \A p, q \in Programs : pc[p] \in Acquiring /\ pc[q] \in Acquiring => p = q

PidsDiffer ==
  \A p, q \in Programs : Running(p) /\ Running(q) /\ pid[p] = pid[q] => p = q

\* Between "wx" and the write, the new file is this process's.
WriterOwns ==
  \A p \in Programs : pc[p] = "write" => lock[dir[p]] = [by |-> p, text |-> NoPid]

\* From reading the lock to removing it, the file is still the one read, or has
\* been released; once probed, no running process has the id it names.
Condemned ==
  \A p \in Programs :
    /\ pc[p] \in {"probe", "unlink"} =>
         lock[dir[p]] = NoLock \/ lock[dir[p]].text = seen[p]
    /\ pc[p] = "unlink" => \A q \in Programs : Running(q) => pid[q] # seen[p]

LockInv ==
  /\ TypeOK /\ OneAcquires /\ PidsDiffer
  /\ LockNamesHolder /\ WriterOwns /\ Condemned
-----------------------------------------------------------------------------
\* What End does to a process, and that no other changes.
LEMMA EndFacts ==
  ASSUME TypeOK, NEW p \in Programs, NEW s \in {"none", "refused"}, End(p, s)
  PROVE  /\ pc' \in [Programs -> {"none", "refused"} \cup Acquiring \cup Holding]
         /\ pid' \in [Programs -> Pids \cup {NoPid}]
         /\ cmd' \in [Programs -> {"start", "serve"}]
         /\ dir' \in [Programs -> Dirs \cup {NoDir}]
         /\ seen' \in [Programs -> Pids \cup {NoPid}]
         /\ socket' \in [Programs -> BOOLEAN]
         /\ ~Running(p)'
         /\ \A q \in Programs \ {p} :
              /\ pc'[q] = pc[q] /\ pid'[q] = pid[q]
              /\ dir'[q] = dir[q] /\ seen'[q] = seen[q]
  BY DEF TypeOK, End, Goto, Running, Acquiring, Holding

\* A step that ends a process and leaves the lock files alone keeps the invariant.
LEMMA EndKeeps ==
  ASSUME LockInv, NEW p \in Programs, NEW s \in {"none", "refused"}, End(p, s),
         UNCHANGED <<lock, made, others>>
  PROVE  LockInv'
<1>1. TypeOK'
  BY EndFacts DEF LockInv, TypeOK, Running
<1>2. \A q \in Programs : Running(q)' => q # p /\ Running(q)
  BY EndFacts DEF LockInv, Running
<1>3. \A q \in Programs : pc'[q] \in Acquiring \cup Holding => q # p /\ pc'[q] = pc[q]
  BY EndFacts DEF LockInv, Running
<1>4. OneAcquires' /\ PidsDiffer'
  BY <1>2, <1>3, EndFacts DEF LockInv, OneAcquires, PidsDiffer, Running
<1>5. LockNamesHolder' /\ WriterOwns'
  BY <1>3, EndFacts DEF LockInv, LockNamesHolder, WriterOwns, Holds, Acquiring, Holding
<1>6. Condemned'
  BY <1>2, <1>3, EndFacts DEF LockInv, Condemned, Acquiring, Holding
<1> QED BY <1>1, <1>4, <1>5, <1>6 DEF LockInv
-----------------------------------------------------------------------------
\* A step in which p moves from one running state to another and leaves its
\* pid, directory and the processes besides it alone.
LEMMA MoveKeeps ==
  ASSUME LockInv, NEW p \in Programs, NEW s \in Acquiring \cup Holding, Goto(p, s),
         Running(p), UNCHANGED <<pid, cmd, dir, made, others>>,
         s \in Acquiring => pc[p] \in Acquiring
  PROVE  /\ OneAcquires' /\ PidsDiffer'
         /\ pc' \in [Programs -> {"none", "refused"} \cup Acquiring \cup Holding]
         /\ \A q \in Programs : Running(q)' <=> Running(q)
         /\ pc'[p] = s /\ \A q \in Programs \ {p} : pc'[q] = pc[q]
<1>1. /\ pc' \in [Programs -> {"none", "refused"} \cup Acquiring \cup Holding]
      /\ pc'[p] = s /\ \A q \in Programs \ {p} : pc'[q] = pc[q]
  BY DEF LockInv, TypeOK, Goto
<1>2. \A q \in Programs : Running(q)' <=> Running(q)
  BY <1>1 DEF Running
<1>3. OneAcquires'
  BY <1>1 DEF LockInv, OneAcquires
<1>4. PidsDiffer'
  BY <1>2 DEF LockInv, PidsDiffer
<1> QED BY <1>1, <1>2, <1>3, <1>4

LEMMA LaunchKeeps ==
  ASSUME Sequential, LockInv, NEW p \in Programs, NEW i \in Pids, NEW c \in {"start", "serve"},
         NEW d \in Dirs, Launch(p, i, c, d)
  PROVE  LockInv'
<1>1. /\ pc'[p] = "open" /\ pid'[p] = i /\ dir'[p] = d
      /\ \A q \in Programs \ {p} :
           pc'[q] = pc[q] /\ pid'[q] = pid[q] /\ dir'[q] = dir[q] /\ seen'[q] = seen[q]
  BY DEF LockInv, TypeOK, Launch, Goto
<1>2. TypeOK'
  BY <1>1 DEF LockInv, TypeOK, Launch, Goto, Running, Acquiring, Created
<1>3. \A q \in Programs : pc[q] \notin Acquiring
  BY DEF Sequential, Launch
<1>4. \A q \in Programs : Running(q) => pid[q] # i
  BY DEF Launch, Living
<1>5. OneAcquires'
  BY <1>1, <1>3 DEF OneAcquires
<1>6. PidsDiffer'
  BY <1>1, <1>4 DEF LockInv, PidsDiffer, Running
<1>7. LockNamesHolder' /\ WriterOwns'
  BY <1>1, <1>3 DEF LockInv, Launch, LockNamesHolder, WriterOwns, Holds, Acquiring, Holding
<1>8. Condemned'
  BY <1>1, <1>3 DEF Condemned, Acquiring
<1> QED BY <1>2, <1>5, <1>6, <1>7, <1>8 DEF LockInv

LEMMA CreateKeeps ==
  ASSUME LockInv, NEW p \in Programs, Create(p)
  PROVE  LockInv'
<1>1. /\ pc[p] \in {"open", "reopen"} /\ Running(p) /\ lock[dir[p]] = NoLock
      /\ UNCHANGED <<pid, cmd, dir, seen, socket, made, others>>
      /\ Goto(p, "write") /\ dir[p] \in Dirs
  BY DEF LockInv, TypeOK, Create, Running, Acquiring, local
<1>2. /\ OneAcquires' /\ PidsDiffer'
      /\ pc' \in [Programs -> {"none", "refused"} \cup Acquiring \cup Holding]
      /\ \A q \in Programs : Running(q)' <=> Running(q)
      /\ pc'[p] = "write" /\ \A q \in Programs \ {p} : pc'[q] = pc[q]
  BY <1>1, MoveKeeps DEF Acquiring
<1>3. lock' \in [Dirs -> {NoLock} \cup [by : Programs, text : Pids \cup {NoPid}]]
  BY <1>1 DEF LockInv, TypeOK, Create
<1>4. TypeOK'
  BY <1>1, <1>2, <1>3 DEF LockInv, TypeOK
<1>5. /\ lock'[dir[p]] = [by |-> p, text |-> NoPid]
      /\ \A d \in Dirs \ {dir[p]} : lock'[d] = lock[d]
  BY <1>1 DEF LockInv, TypeOK, Create
<1>6. \A q \in Programs : Holds(q) => pid[q] # NoPid /\ dir[q] \in Dirs
  BY NoneAssumption DEF LockInv, TypeOK, Holds, Running
<1>7. LockNamesHolder'
  <2> SUFFICES ASSUME NEW q \in Programs, Holds(q)'
               PROVE  lock'[dir[q]] = [by |-> q, text |-> pid[q]]
    BY <1>1 DEF LockNamesHolder
  <2>1. q # p /\ Holds(q)
    BY <1>2 DEF Holds, Holding
  <2>2. lock[dir[q]] = [by |-> q, text |-> pid[q]]
    BY <2>1 DEF LockInv, LockNamesHolder
  <2>3. dir[q] # dir[p]
    BY <1>1, <1>6, <2>1, <2>2 DEF NoLock
  <2> QED BY <1>5, <1>6, <2>1, <2>2, <2>3
<1>8. WriterOwns'
  BY <1>1, <1>2, <1>5 DEF LockInv, WriterOwns, OneAcquires, Acquiring
<1>9. Condemned'
  BY <1>1, <1>2 DEF LockInv, Condemned, OneAcquires, Acquiring
<1> QED BY <1>2, <1>4, <1>7, <1>8, <1>9 DEF LockInv

LEMMA WritePidKeeps ==
  ASSUME LockInv, NEW p \in Programs, WritePid(p)
  PROVE  LockInv'
<1>1. /\ pc[p] = "write" /\ Running(p)
      /\ UNCHANGED <<pid, cmd, dir, seen, socket, made, others>>
      /\ Goto(p, "boot") /\ dir[p] \in Dirs /\ pid[p] \in Pids
  BY DEF LockInv, TypeOK, WritePid, Running, Acquiring, local
<1>2. /\ OneAcquires' /\ PidsDiffer'
      /\ pc' \in [Programs -> {"none", "refused"} \cup Acquiring \cup Holding]
      /\ \A q \in Programs : Running(q)' <=> Running(q)
      /\ pc'[p] = "boot" /\ \A q \in Programs \ {p} : pc'[q] = pc[q]
  BY <1>1, MoveKeeps DEF Acquiring, Holding
<1>3. lock[dir[p]] = [by |-> p, text |-> NoPid]
  BY <1>1 DEF LockInv, WriterOwns
<1>4. lock' = [lock EXCEPT ![dir[p]].text = pid[p]]
  BY <1>3 DEF WritePid
<1>5. /\ lock'[dir[p]] = [by |-> p, text |-> pid[p]]
      /\ \A d \in Dirs \ {dir[p]} : lock'[d] = lock[d]
      /\ lock' \in [Dirs -> {NoLock} \cup [by : Programs, text : Pids \cup {NoPid}]]
  BY <1>1, <1>3, <1>4 DEF LockInv, TypeOK
<1>6. TypeOK'
  BY <1>1, <1>2, <1>5 DEF LockInv, TypeOK
<1>7. \A q \in Programs : Holds(q) => pid[q] # NoPid /\ dir[q] \in Dirs
  BY NoneAssumption DEF LockInv, TypeOK, Holds, Running
<1>8. LockNamesHolder'
  <2> SUFFICES ASSUME NEW q \in Programs, Holds(q)', q # p
               PROVE  lock'[dir[q]] = [by |-> q, text |-> pid[q]]
    BY <1>1, <1>5 DEF LockNamesHolder
  <2>1. Holds(q)
    BY <1>2 DEF Holds
  <2>2. lock[dir[q]] = [by |-> q, text |-> pid[q]]
    BY <2>1 DEF LockInv, LockNamesHolder
  <2>3. dir[q] # dir[p]
    BY <1>3, <1>7, <2>1, <2>2
  <2> QED BY <1>5, <1>7, <2>1, <2>2, <2>3
<1>9. WriterOwns' /\ Condemned'
  BY <1>1, <1>2 DEF LockInv, WriterOwns, Condemned, OneAcquires, Acquiring
<1> QED BY <1>2, <1>6, <1>8, <1>9 DEF LockInv

\* A process on its way to the lock moves on, and no lock file changes.
LEMMA QuietMove ==
  ASSUME LockInv, NEW p \in Programs, NEW s \in Acquiring \cup Holding, Goto(p, s),
         Running(p), UNCHANGED <<local, lock, made, others>>,
         socket' \in [Programs -> BOOLEAN],
         s # "write", s # "probe",
         s \in Acquiring => pc[p] \in Acquiring,
         s \in Holding => Holds(p),
         s = "unlink" => pc[p] = "probe" /\ \A q \in Programs : Running(q) => pid[q] # seen[p]
  PROVE  LockInv'
<1>1. /\ OneAcquires' /\ PidsDiffer'
      /\ pc' \in [Programs -> {"none", "refused"} \cup Acquiring \cup Holding]
      /\ \A q \in Programs : Running(q)' <=> Running(q)
      /\ pc'[p] = s /\ \A q \in Programs \ {p} : pc'[q] = pc[q]
  BY MoveKeeps DEF local
<1>2. TypeOK'
  BY <1>1 DEF LockInv, TypeOK, local
<1>3. LockNamesHolder' /\ WriterOwns'
  BY <1>1 DEF LockInv, LockNamesHolder, WriterOwns, Holds, local
<1>4. Condemned'
  BY <1>1 DEF LockInv, Condemned, local
<1> QED BY <1>1, <1>2, <1>3, <1>4 DEF LockInv

LEMMA ExistsKeeps ==
  ASSUME LockInv, NEW p \in Programs, Exists(p)
  PROVE  LockInv'
<1>1. CASE pc[p] = "open"
  BY <1>1, QuietMove DEF LockInv, TypeOK, Exists, Refuse, End, Goto, Running, Acquiring, Holding
<1>2. CASE pc[p] = "reopen"
  BY <1>2, EndKeeps DEF Exists, Refuse
<1> QED BY <1>1, <1>2 DEF Exists

LEMMA ReadLockKeeps ==
  ASSUME LockInv, NEW p \in Programs, ReadLock(p)
  PROVE  LockInv'
<1>1. CASE lock[dir[p]].text = NoPid
  BY <1>1, EndKeeps DEF ReadLock, Refuse
<1>2. CASE lock[dir[p]].text # NoPid
  <2>1. /\ pc[p] = "read" /\ Running(p) /\ dir[p] \in Dirs
        /\ seen' = [seen EXCEPT ![p] = lock[dir[p]].text]
        /\ Goto(p, "probe")
        /\ UNCHANGED <<pid, cmd, dir, socket, lock, made, others>>
    BY <1>2 DEF LockInv, TypeOK, ReadLock, Running, Acquiring
  <2>2. /\ OneAcquires' /\ PidsDiffer'
        /\ pc' \in [Programs -> {"none", "refused"} \cup Acquiring \cup Holding]
        /\ \A q \in Programs : Running(q)' <=> Running(q)
        /\ pc'[p] = "probe" /\ \A q \in Programs \ {p} : pc'[q] = pc[q]
    BY <2>1, MoveKeeps DEF Acquiring
  <2>3. lock[dir[p]].text \in Pids \cup {NoPid}
    BY <2>1 DEF LockInv, TypeOK, NoLock
  <2>4. TypeOK'
    BY <2>1, <2>2, <2>3 DEF LockInv, TypeOK
  <2>5. LockNamesHolder' /\ WriterOwns'
    BY <2>1, <2>2 DEF LockInv, LockNamesHolder, WriterOwns, Holds, Holding
  <2>6. Condemned'
    BY <2>1, <2>2 DEF LockInv, TypeOK, Condemned, OneAcquires, Acquiring
  <2> QED BY <2>2, <2>4, <2>5, <2>6 DEF LockInv
<1> QED BY <1>1, <1>2

LEMMA ProbeKeeps ==
  ASSUME Sequential, LockInv, NEW p \in Programs, Probe(p)
  PROVE  LockInv'
<1>1. CASE Refuse(p)
  BY <1>1, EndKeeps DEF Probe, Refuse
<1>2. CASE ~Reachable(p, seen[p]) /\ Goto(p, "unlink") /\ UNCHANGED <<local, socket>>
  <2>1. \A q \in Programs : Running(q) => pid[q] # seen[p]
    BY <1>2 DEF Reachable, Sequential
  <2>2. pc[p] = "probe" /\ Running(p)
    BY DEF Probe, Running, Acquiring
  <2>3. socket' \in [Programs -> BOOLEAN]
    BY <1>2 DEF LockInv, TypeOK
  <2> QED BY <1>2, <2>1, <2>2, <2>3, QuietMove DEF Probe, Acquiring, Holding
<1> QED BY <1>1, <1>2 DEF Probe

\* The heart of the takeover: whoever held the directory would be running and
\* have the id the file names, which the probe has excluded.
LEMMA UnlinkKeeps ==
  ASSUME LockInv, NEW p \in Programs, Unlink(p)
  PROVE  LockInv'
<1>1. /\ pc[p] = "unlink" /\ Running(p) /\ dir[p] \in Dirs
      /\ lock' = [lock EXCEPT ![dir[p]] = NoLock]
      /\ Goto(p, "reopen")
      /\ UNCHANGED <<pid, cmd, dir, seen, socket, made, others>>
  BY DEF LockInv, TypeOK, Unlink, Running, Acquiring, local
<1>2. /\ OneAcquires' /\ PidsDiffer'
      /\ pc' \in [Programs -> {"none", "refused"} \cup Acquiring \cup Holding]
      /\ \A q \in Programs : Running(q)' <=> Running(q)
      /\ pc'[p] = "reopen" /\ \A q \in Programs \ {p} : pc'[q] = pc[q]
  BY <1>1, MoveKeeps DEF Acquiring
<1>3. TypeOK'
  BY <1>1, <1>2 DEF LockInv, TypeOK
<1>4. LockNamesHolder'
  <2> SUFFICES ASSUME NEW q \in Programs, Holds(q)'
               PROVE  lock'[dir[q]] = [by |-> q, text |-> pid[q]]
    BY <1>1 DEF LockNamesHolder
  <2>1. q # p /\ Holds(q) /\ Running(q)
    BY <1>2 DEF Holds, Holding, Running
  <2>2. lock[dir[q]] = [by |-> q, text |-> pid[q]]
    BY <2>1 DEF LockInv, LockNamesHolder
  <2>3. pid[q] # NoPid /\ dir[q] \in Dirs
    BY <2>1, NoneAssumption DEF LockInv, TypeOK
  <2>4. lock[dir[p]] = NoLock \/ lock[dir[p]].text = seen[p]
    BY <1>1 DEF LockInv, Condemned
  <2>5. pid[q] # seen[p]
    BY <1>1, <2>1 DEF LockInv, Condemned
  <2>6. dir[q] # dir[p]
    BY <2>2, <2>3, <2>4, <2>5 DEF NoLock
  <2> QED BY <1>1, <2>2, <2>3, <2>6 DEF LockInv, TypeOK
<1>5. WriterOwns' /\ Condemned'
  BY <1>1, <1>2 DEF LockInv, WriterOwns, Condemned, OneAcquires, Acquiring
<1> QED BY <1>2, <1>3, <1>4, <1>5 DEF LockInv

LEMMA ReadOwnKeeps ==
  ASSUME LockInv, NEW p \in Programs, ReadOwn(p)
  PROVE  LockInv'
<1>1. CASE End(p, "none")
  BY <1>1, EndKeeps DEF ReadOwn
<1>2. CASE Goto(p, "unlinkown") /\ UNCHANGED <<local, socket>>
  BY <1>2, QuietMove DEF LockInv, TypeOK, ReadOwn, Running, Holds, Acquiring, Holding
<1> QED BY <1>1, <1>2 DEF ReadOwn

LEMMA UnlinkOwnKeeps ==
  ASSUME LockInv, NEW p \in Programs, UnlinkOwn(p)
  PROVE  LockInv'
<1>1. /\ pc[p] = "unlinkown" /\ Running(p) /\ Holds(p) /\ dir[p] \in Dirs
      /\ lock' = [lock EXCEPT ![dir[p]] = NoLock]
      /\ End(p, "none") /\ UNCHANGED <<made, others>>
  BY DEF LockInv, TypeOK, UnlinkOwn, Running, Holds, Holding
<1>2. \A q \in Programs : pc'[q] \in Acquiring \cup Holding =>
         /\ q # p /\ pc'[q] = pc[q] /\ pid'[q] = pid[q]
         /\ dir'[q] = dir[q] /\ seen'[q] = seen[q] /\ Running(q)
  BY <1>1, EndFacts DEF LockInv, Running
<1>3. \A d \in Dirs : lock'[d] = IF d = dir[p] THEN NoLock ELSE lock[d]
  BY <1>1 DEF LockInv, TypeOK
<1>4. TypeOK'
  BY <1>1, <1>2, EndFacts DEF LockInv, TypeOK, Running
<1>5. OneAcquires' /\ PidsDiffer'
  BY <1>2 DEF LockInv, OneAcquires, PidsDiffer, Running
<1>6. lock[dir[p]] = [by |-> p, text |-> pid[p]]
  BY <1>1 DEF LockInv, LockNamesHolder
<1>7. \A q \in Programs : Running(q) => dir[q] \in Dirs
  BY DEF LockInv, TypeOK
<1>8. LockNamesHolder'
  <2> SUFFICES ASSUME NEW q \in Programs, Holds(q)'
               PROVE  lock'[dir'[q]] = [by |-> q, text |-> pid'[q]]
    BY DEF LockNamesHolder
  <2>1. q # p /\ Holds(q) /\ Running(q) /\ dir'[q] = dir[q] /\ pid'[q] = pid[q]
    BY <1>2 DEF Holds
  <2>2. lock[dir[q]] = [by |-> q, text |-> pid[q]]
    BY <2>1 DEF LockInv, LockNamesHolder
  <2> QED BY <1>3, <1>6, <1>7, <2>1, <2>2
<1>9. WriterOwns'
  <2> SUFFICES ASSUME NEW q \in Programs, pc'[q] = "write"
               PROVE  lock'[dir'[q]] = [by |-> q, text |-> NoPid]
    BY DEF WriterOwns
  <2>1. q # p /\ pc[q] = "write" /\ Running(q) /\ dir'[q] = dir[q]
    BY <1>2 DEF Acquiring
  <2>2. lock[dir[q]] = [by |-> q, text |-> NoPid]
    BY <2>1 DEF LockInv, WriterOwns
  <2> QED BY <1>3, <1>6, <1>7, <2>1, <2>2
<1>10. Condemned'
  <2> SUFFICES ASSUME NEW q \in Programs, pc'[q] \in {"probe", "unlink"}
               PROVE  /\ lock'[dir'[q]] = NoLock \/ lock'[dir'[q]].text = seen'[q]
                      /\ pc'[q] = "unlink" => \A r \in Programs : Running(r)' => pid'[r] # seen'[q]
    BY DEF Condemned
  <2>1. /\ q # p /\ pc[q] = pc'[q] /\ Running(q)
        /\ dir'[q] = dir[q] /\ seen'[q] = seen[q]
    BY <1>2 DEF Acquiring
  <2>2. /\ lock[dir[q]] = NoLock \/ lock[dir[q]].text = seen[q]
        /\ pc[q] = "unlink" => \A r \in Programs : Running(r) => pid[r] # seen[q]
    BY <2>1 DEF LockInv, Condemned
  <2>3. \A r \in Programs : Running(r)' => Running(r) /\ pid'[r] = pid[r]
    BY <1>2 DEF Running
  <2> QED BY <1>3, <1>7, <2>1, <2>2, <2>3
<1> QED BY <1>4, <1>5, <1>8, <1>9, <1>10 DEF LockInv
-----------------------------------------------------------------------------
LEMMA LockInit == Init => LockInv
  BY NoneAssumption DEF Init, LockInv, TypeOK, OneAcquires, PidsDiffer, LockNamesHolder,
     WriterOwns, Condemned, Holds, Running, Acquiring, Holding

LEMMA LockStep == Sequential /\ LockInv /\ [Next]_vars => LockInv'
<1> SUFFICES ASSUME Sequential, LockInv, [Next]_vars PROVE LockInv'
  OBVIOUS
<1>1. ASSUME NEW p \in Programs, NEW i \in Pids, NEW c \in {"start", "serve"}, NEW d \in Dirs,
             Launch(p, i, c, d)
      PROVE  LockInv'
  BY <1>1, LaunchKeeps
<1>2. ASSUME NEW p \in Programs, Acquire(p) PROVE LockInv'
  BY <1>2, CreateKeeps, ExistsKeeps, WritePidKeeps, ReadLockKeeps, ProbeKeeps, UnlinkKeeps
     DEF Acquire
<1>3. ASSUME NEW p \in Programs, Listen(p) PROVE LockInv'
  <2>1. socket' \in [Programs -> BOOLEAN]
    BY <1>3 DEF LockInv, TypeOK, Listen
  <2>2. Running(p) /\ Holds(p)
    BY <1>3 DEF Listen, Running, Holds, Holding
  <2> QED BY <1>3, <2>1, <2>2, QuietMove DEF Listen, Acquiring, Holding
<1>4. ASSUME NEW p \in Programs, Stop(p) \/ Finish(p) PROVE LockInv'
  <2>1. socket' \in [Programs -> BOOLEAN]
    BY <1>4 DEF LockInv, TypeOK, Stop, Finish
  <2>2. Running(p) /\ Holds(p)
    BY <1>4 DEF Stop, Finish, Running, Holds, Holding
  <2> QED BY <1>4, <2>1, <2>2, QuietMove DEF Stop, Finish, Acquiring, Holding
<1>5. ASSUME NEW p \in Programs, Kill(p) PROVE LockInv'
  BY <1>5, EndKeeps DEF Kill
<1>6. ASSUME NEW p \in Programs, Leave(p) PROVE LockInv'
  BY <1>6, <1>4, <1>5, ReadOwnKeeps, UnlinkOwnKeeps DEF Leave
<1>7. ASSUME NEW i \in Pids, OtherStarts(i) \/ OtherEnds(i) PROVE LockInv'
  <2>1. UNCHANGED <<pc, local, socket, lock, made>> /\ others' \subseteq Pids
    BY <1>7 DEF LockInv, TypeOK, OtherStarts, OtherEnds
  <2> QED BY <2>1 DEF LockInv, TypeOK, OneAcquires, PidsDiffer, LockNamesHolder,
          WriterOwns, Condemned, Holds, Running, local
<1>8. ASSUME UNCHANGED vars PROVE LockInv'
  BY <1>8 DEF LockInv, TypeOK, OneAcquires, PidsDiffer, LockNamesHolder,
     WriterOwns, Condemned, Holds, Running, vars
<1> QED BY <1>1, <1>2, <1>3, <1>6, <1>7, <1>8 DEF Next

LEMMA LockInvAlways == Sequential => (Spec => []LockInv)
<1> SUFFICES ASSUME Sequential PROVE Spec => []LockInv
  OBVIOUS
<1>1. LockInv /\ [Next]_vars => LockInv'
  BY LockStep
<1> QED BY <1>1, LockInit, PTL DEF Spec

\* While a coordinator holds a session directory the lock file there names it:
\* the fact every later takeover decides on (coordinator-lock.ts 22-29, 67-75).
THEOREM LockNamesHolderAlways == Sequential => (Spec => []LockNamesHolder)
<1>1. LockInv => LockNamesHolder
  BY DEF LockInv
<1> QED BY <1>1, LockInvAlways, PTL

\* Processes of one user started one after the other never share a session
\* directory, whatever dies and whatever process id is used again.
THEOREM OnePerSessionAlways == Sequential => (Spec => []OnePerSession)
<1>1. LockInv => OnePerSession
  <2> SUFFICES ASSUME LockInv, NEW p \in Programs, NEW q \in Programs,
                      Holds(p), Holds(q), dir[p] = dir[q]
               PROVE  p = q
    BY DEF OnePerSession
  <2>1. /\ lock[dir[p]] = [by |-> p, text |-> pid[p]]
        /\ lock[dir[q]] = [by |-> q, text |-> pid[q]]
    BY DEF LockInv, LockNamesHolder
  <2>2. [by |-> p, text |-> pid[p]].by = [by |-> q, text |-> pid[q]].by
    BY <2>1
  <2> QED BY <2>2
<1> QED BY <1>1, LockInvAlways, PTL
=============================================================================
