----------------------------- MODULE LockChain -----------------------------
(***************************************************************************)
(* How SessionRegistry builds a mutex out of promises.  Each withLock call *)
(* draws a ticket: it takes the promise `locks` holds for the name as its  *)
(* prior, and leaves there one that settles after the prior has settled    *)
(* and its own release() has been called.  It runs fn when the prior has   *)
(* settled.  Nothing is ever taken out of `locks`.  That this is the queue *)
(* of NameLocks is the property Queues.                                    *)
(***************************************************************************)
EXTENDS Naturals, Sequences, FiniteSets, Ranks, ToolCalls

CONSTANTS Names, MaxTickets   \* bound on withLock calls that start afresh

ASSUME NamesAreRanks == Names \subseteq Nat \ {0}   \* in string order

VARIABLES tickets,    \* the withLock calls ever made, in order
          locks,      \* locks[n]: ticket whose promise the map holds, 0 if none
          wants       \* wants[p]: the names the running call of p locks

chainVars == <<tickets, locks, wants>>

Ticket == [name : Names, by : Procs, prior : Nat, settled : BOOLEAN]

(* The tickets for n whose promise is still to settle.                     *)
Open(n) == {t \in 1 .. Len(tickets) : tickets[t].name = n /\ ~tickets[t].settled}

(* The calls that drew the tickets S, oldest first.                        *)
Callers(drawn, S) == [i \in 1 .. Cardinality(S) |-> drawn[Nth(S, i)].by]

Queue(n) == Callers(tickets, Open(n))

Locks == INSTANCE NameLocks WITH queue <- [n \in Names |-> Queue(n)]

-----------------------------------------------------------------------------
(* await prior has returned and release() has not been called.             *)
RunsEarly(t) == ~tickets[t].settled   \* mutant: fn does not await the prior

Runs(t) ==
  /\ ~tickets[t].settled
  /\ tickets[t].prior # 0 => tickets[tickets[t].prior].settled

Pending(p, n) ==
  {t \in 1 .. Len(tickets) :
     tickets[t].by = p /\ tickets[t].name = n /\ ~tickets[t].settled}

DrawStale(p, n) ==            \* mutant: the map is not updated while a call waits
  /\ tickets' = Append(tickets, [name |-> n, by |-> p, prior |-> locks[n],
                                 settled |-> FALSE])
  /\ locks' = IF locks[n] = 0 \/ tickets[locks[n]].settled
              THEN [locks EXCEPT ![n] = Len(tickets) + 1] ELSE locks

Draw(p, n) ==
  /\ tickets' = Append(tickets, [name |-> n, by |-> p, prior |-> locks[n],
                                 settled |-> FALSE])
  /\ locks' = [locks EXCEPT ![n] = Len(tickets) + 1]

ChainInit ==
  /\ tickets = <<>>
  /\ locks = [n \in Names |-> 0]
  /\ wants = [p \in Procs |-> {}]

Start(p, S) ==
  /\ Len(tickets) < MaxTickets
  /\ wants[p] = {}
  /\ wants' = [wants EXCEPT ![p] = S]
  /\ Draw(p, Locks!First(S))

Nested(p) ==
  /\ \E k, n \in wants[p] :
       /\ \E t \in Pending(p, k) : Runs(t)
       /\ Pending(p, n) = {}
       /\ Draw(p, n)
  /\ UNCHANGED wants

(* fn of the innermost withLock settles, and both `finally` blocks run.    *)
Settle(p) ==
  /\ wants[p] # {}
  /\ \A n \in wants[p] : \E t \in Pending(p, n) : Runs(t)
  /\ tickets' = [t \in 1 .. Len(tickets) |->
                   IF tickets[t].by = p THEN [tickets[t] EXCEPT !.settled = TRUE]
                                        ELSE tickets[t]]
  /\ wants' = [wants EXCEPT ![p] = {}]
  /\ UNCHANGED locks

ChainNext ==
  \E p \in Procs :
    \/ \E a, b \in Names : Start(p, {a, b})
    \/ Nested(p)
    \/ Settle(p)

ChainSpec == ChainInit /\ [][ChainNext]_chainVars

-----------------------------------------------------------------------------
(* Tickets and the map have their types, and a prior is an earlier ticket  *)
(* for the same name.                                                      *)
ChainTypeOK ==
  /\ tickets \in Seq(Ticket)
  /\ locks \in [Names -> Nat]
  /\ wants \in [Procs -> SUBSET Names]
  /\ \A t \in 1 .. Len(tickets) :
       LET k == tickets[t].prior
       IN  k # 0 => k \in 1 .. t - 1 /\ tickets[k].name = tickets[t].name

(* No two withLock calls for one name run their fn at the same time.       *)
OneRunner ==
  \A t, u \in 1 .. Len(tickets) :
    t # u /\ tickets[t].name = tickets[u].name => ~(Runs(t) /\ Runs(u))

(* The chains of promises are the first-come-first-served queues NameLocks *)
(* describes.                                                              *)
Queues == Locks!LockSafety
=============================================================================
