-------------------------------- MODULE Badge --------------------------------
(* The unread badge in the cmux sidebar: peer-bus.ts 449-501 and 594-599,    *)
(* notifier-cmux.ts 84-120.                                                  *)
(*                                                                           *)
(* A send that fills an empty mailbox starts `cmux set-status` once its      *)
(* locks are released, a read starts `cmux clear-status` at its end.  Both   *)
(* are processes nobody waits for: they end in any order, or fail.           *)
EXTENDS Integers, Sequences, FiniteSets, Deliveries

CONSTANTS
  Sessions, Workspaces,
  Home(_),     \* workspace a session registers from first
  MaxOps,      \* bound on cmux processes at a time, for new reads
  MaxMoves     \* bound on re-registrations

ASSUME HomeAssumption == \A s \in Sessions : Home(s) \in Workspaces
ASSUME BadgeBounds == MaxOps \in Nat /\ MaxMoves \in Nat

VARIABLES
  at,          \* cmuxWorkspaceId of each session
  unread,      \* length of each mailbox
  spell,       \* history: how often each mailbox has been filled
  sends,       \* the sends, by message
  reading,     \* the entry a running read authenticated as: its workspace, or None
  ops,         \* cmux processes under way, oldest first
  badge,       \* what the sidebar shows
  smooth,      \* history: processes have ended in order and without error, reads
               \* have returned everything, and no session has moved
  moves

badgeVars == <<at, unread, spell, sends, reading, ops, badge, smooth, moves>>

None == "none"
NotSent == [state |-> "new", to |-> None, count |-> 0, spell |-> 0]
Op(k, w) == [kind |-> k, ws |-> w]

BadgeInit ==
  /\ at = [s \in Sessions |-> Home(s)]
  /\ unread = [s \in Sessions |-> 0] /\ spell = [s \in Sessions |-> 0]
  /\ sends = [m \in Msgs |-> NotSent]
  /\ reading = [s \in Sessions |-> None]
  /\ ops = << >>
  /\ badge = [w \in Workspaces |-> FALSE]
  /\ smooth = TRUE /\ moves = 0

Pending(s) == {m \in Msgs : sends[m].state = "pending" /\ sends[m].to = s}

\* Under the recipient's lock: the message is in the mailbox and on disk.
Send(m, s) ==
  /\ sends[m] = NotSent
  /\ LET n == unread[s] + 1
         p == spell[s] + (IF n = 1 THEN 1 ELSE 0)
     IN /\ unread' = [unread EXCEPT ![s] = n]
        /\ spell' = [spell EXCEPT ![s] = p]
        /\ sends' = [sends EXCEPT ![m] = [state |-> "pending", to |-> s, count |-> n, spell |-> p]]
  /\ UNCHANGED <<at, reading, ops, badge, smooth, moves>>

\* mutant: the length of the mailbox is read again after the lock
FirstNow(m) == unread[sends[m].to] = 1
First(m) == sends[m].count = 1

\* After the locks, the entry read again for its workspace.
Ring(m) ==
  /\ sends[m].state = "pending"
  /\ IF First(m)
     THEN /\ sends' = [sends EXCEPT ![m].state = "rang"]
          /\ ops' = Append(ops, Op("set", at[sends[m].to]))
     ELSE /\ sends' = [sends EXCEPT ![m].state = "quiet"]
          /\ UNCHANGED ops
  /\ UNCHANGED <<at, unread, spell, reading, badge, smooth, moves>>

ReadCall(s) ==
  /\ reading[s] = None
  /\ reading' = [reading EXCEPT ![s] = at[s]]
  /\ UNCHANGED <<at, unread, spell, sends, ops, badge, smooth, moves>>

\* How many a read returns: all, or what fits into PEER_BUS_MAX_RESPONSE_BYTES.
Returned(s) == IF unread[s] > 1 THEN 1 .. unread[s] ELSE {unread[s]}

ReadCommitEarly(s) ==          \* mutant: the read does not wait for the lock of the send
  /\ reading[s] # None /\ Len(ops) < MaxOps
  /\ unread' = [unread EXCEPT ![s] = 0] /\ UNCHANGED smooth
  /\ ops' = Append(ops, Op("clear", reading[s]))
  /\ reading' = [reading EXCEPT ![s] = None]
  /\ UNCHANGED <<at, spell, sends, badge, moves>>

\* Under the lock, after loadAll: sends that released it before have gone on.
ReadCommit(s) ==
  /\ reading[s] # None /\ Len(ops) < MaxOps
  /\ Pending(s) = {}
  /\ \E k \in Returned(s) :
       /\ unread' = [unread EXCEPT ![s] = @ - k]
       /\ smooth' = (smooth /\ k = unread[s])
  /\ ops' = Append(ops, Op("clear", reading[s]))
  /\ reading' = [reading EXCEPT ![s] = None]
  /\ UNCHANGED <<at, spell, sends, badge, moves>>

\* One cmux process ends: it has done its work, or failed or timed out.
Remove(i) == SubSeq(ops, 1, i - 1) \o SubSeq(ops, i + 1, Len(ops))

Finish(i) ==
  /\ \/ /\ badge' = [badge EXCEPT ![ops[i].ws] = (ops[i].kind = "set")]
        /\ smooth' = (smooth /\ i = 1)
     \/ smooth' = FALSE /\ UNCHANGED badge
  /\ ops' = Remove(i)
  /\ UNCHANGED <<at, unread, spell, sends, reading, moves>>

\* A re-registration from another workspace; by another pane, when the session
\* has gone stale, it empties the mailbox.
Move(s, w) ==
  /\ moves < MaxMoves
  /\ at' = [at EXCEPT ![s] = w]
  /\ moves' = moves + 1 /\ smooth' = FALSE
  /\ unread' \in {unread, [unread EXCEPT ![s] = 0]}
  /\ UNCHANGED <<spell, sends, reading, ops, badge>>

BadgeNext ==
  \/ \E m \in Msgs : Ring(m) \/ \E s \in Sessions : Send(m, s)
  \/ \E s \in Sessions : ReadCall(s) \/ ReadCommit(s) \/ \E w \in Workspaces : Move(s, w)
  \/ \E i \in 1 .. Len(ops) : Finish(i)

BadgeSpec == BadgeInit /\ [][BadgeNext]_badgeVars
-----------------------------------------------------------------------------
\* Types, and: a mailbox holds no more than was sent to it, so no read takes
\* out more than there is (peer-bus.ts 551-579).
BadgeTypeOK ==
  /\ at \in [Sessions -> Workspaces]
  /\ unread \in [Sessions -> Nat] /\ spell \in [Sessions -> Nat]
  /\ sends \in [Msgs -> [state : {"new", "pending", "rang", "quiet"}, to : Sessions \cup {None},
                         count : Nat, spell : Nat]]
  /\ reading \in [Sessions -> Workspaces \cup {None}]
  /\ ops \in Seq([kind : {"set", "clear"}, ws : Workspaces])
  /\ badge \in [Workspaces -> BOOLEAN] /\ smooth \in BOOLEAN /\ moves \in Nat

\* Each time a mailbox fills, exactly one of the messages delivered to it until
\* it is emptied sets the badge, however sends and reads overlap
\* (peer-bus.ts 464-472: the count captured inside the mutex).
OneRingPerFill ==
  \A s \in Sessions : \A p \in 1 .. spell[s] :
    LET those == {m \in Msgs : sends[m].to = s /\ sends[m].spell = p}
        rung  == {m \in those : sends[m].state = "rang"}
    IN /\ \A m, n \in rung : m = n
       /\ rung = {} => \E m \in those : sends[m].state = "pending"

\* Once every process has ended, the badge of a workspace tells whether its
\* session has unread messages, as long as everything has been smooth and a
\* workspace has one session (peer-bus.ts 449-488, 594-599).
BadgeTellsTruth ==
  smooth /\ ops = << >> /\ (\A s \in Sessions : Pending(s) = {}) =>
    \A s \in Sessions : badge[at[s]] = (unread[s] > 0)
-----------------------------------------------------------------------------
(* What the specification says and the code does not do.                     *)

\* cmux-notifier/spec.md 39: the badge is cleared after read_messages completes
\* "and the recipient's unread count drops to zero".
ClearedWhenEmpty ==
  [][\A s \in Sessions : reading[s] # None /\ reading'[s] = None => unread'[s] = 0]_badgeVars
=============================================================================
