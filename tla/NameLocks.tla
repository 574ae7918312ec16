------------------------------ MODULE NameLocks ------------------------------
(***************************************************************************)
(* The per-session-name mutexes of SessionRegistry (withLock, withLocks).  *)
(*                                                                         *)
(* A call for a name waits for the calls made for it before: queue[n] is   *)
(* the queue of those that have not called release() yet, in call order    *)
(* (LockChain derives it from the promises).  A call runs fn once it heads *)
(* every queue it asked for.                                               *)
(*                                                                         *)
(* A call is a process of Procs.  Session names are compared as strings by *)
(* withLocks; here a name is its rank in that order, a natural number.     *)
(***************************************************************************)
EXTENDS Naturals, Sequences, FiniteSets, ToolCalls

CONSTANT Names      \* session names, by rank in string order

ASSUME NamesAssumption == Names \subseteq Nat \ {0}

VARIABLES queue,    \* queue[n]: calls chained on the lock of n, oldest first
          wants     \* wants[p]: the names call p locks; {} when p is in no lock call

lockVars == <<queue, wants>>

-----------------------------------------------------------------------------
Members(n) == {queue[n][i] : i \in 1 .. Len(queue[n])}

(* The name withLocks asks for first: the smaller of the two.              *)
First(S) == CHOOSE n \in S : \A k \in S : n <= k

Holds(p, n) == queue[n] # <<>> /\ Head(queue[n]) = p

(* p is inside fn: `await prior` has returned for every name it asked for. *)
Inside(p) ==
  /\ wants[p] # {}
  /\ \A n \in wants[p] : Holds(p, n)

LockInit ==
  /\ queue = [n \in Names |-> <<>>]
  /\ wants = [p \in Procs |-> {}]

(* withLock(a) when S = {a}; withLocks(a, b) when S = {a, b}: chain on the *)
(* smaller name.  withLocks(a, a) is withLock(a).                          *)
WithLocksUnsorted(p, S) ==    \* mutant: the names are locked in argument order
  /\ wants[p] = {}
  /\ wants' = [wants EXCEPT ![p] = S]
  /\ \E n \in S : queue' = [queue EXCEPT ![n] = Append(@, p)]

WithLocks(p, S) ==
  /\ wants[p] = {}
  /\ wants' = [wants EXCEPT ![p] = S]
  /\ queue' = [queue EXCEPT ![First(S)] = Append(@, p)]

(* The body withLocks gives to the outer withLock: chain on the other name. *)
NestedLock(p) ==
  /\ \E k, n \in wants[p] :
       /\ Holds(p, k) /\ p \notin Members(n)
       /\ queue' = [queue EXCEPT ![n] = Append(@, p)]
  /\ UNCHANGED wants

(* fn has settled: the two `finally` blocks release the inner lock and, a  *)
(* microtask later, the outer one.                                         *)
Release(p) ==
  /\ Inside(p)
  /\ queue' = [n \in Names |-> IF n \in wants[p] THEN Tail(queue[n]) ELSE queue[n]]
  /\ wants' = [wants EXCEPT ![p] = {}]

LockNext ==
  \E p \in Procs :
    \/ \E a, b \in Names : WithLocks(p, {a, b})
    \/ NestedLock(p)
    \/ Release(p)

LockSafety == LockInit /\ [][LockNext]_lockVars

-----------------------------------------------------------------------------
(* Queues hold calls, and a call is chained at most once on a name, and    *)
(* only on names of its running lock call.                                 *)
LockTypeOK ==
  /\ queue \in [Names -> Seq(Procs)]
  /\ wants \in [Procs -> SUBSET Names]
  /\ \A n \in Names :
       /\ \A i, j \in 1 .. Len(queue[n]) : queue[n][i] = queue[n][j] => i = j
       /\ \A p \in Members(n) : n \in wants[p]

(* A call that waits for one name while it holds another always holds the  *)
(* smaller one: no two sends can wait for each other.                      *)
OrderedWaiting ==
  \A p \in Procs, n, k \in Names :
    /\ Holds(p, k)
    /\ p \in Members(n) /\ ~Holds(p, n)
    => k < n

(* Nothing keeps p: it is in fn, or about to ask for its other name.       *)
CanGoOn(p) ==
  Inside(p) \/ \E k, n \in wants[p] : Holds(p, k) /\ p \notin Members(n)

WaitsFor(p, q) ==
  \E n \in wants[p] : p \in Members(n) /\ ~Holds(p, n) /\ Holds(q, n)

(* There is no deadlock among lock calls: of any set of them, one can go   *)
(* on, or waits for a call outside the set.                                *)
NoneStuck ==
  \A D \in SUBSET {p \in Procs : wants[p] # {}} :
    D # {} => \E p \in D : CanGoOn(p) \/ \E q \in Procs \ D : WaitsFor(p, q)
=============================================================================
