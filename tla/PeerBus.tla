------------------------------- MODULE PeerBus -------------------------------
(***************************************************************************)
(* The peer-session bus of the coordinator: the tools register_session,    *)
(* send_message and read_messages, the registry they share, the message    *)
(* log, and what a crash and a restart leave of them.                      *)
(*                                                                         *)
(* A tool call runs in the steps its awaits cut it into:                   *)
(*   *Call     the code before the lock: token check, touch, recipient     *)
(*             check, and the lock request (NameLocks);                    *)
(*   *Commit   inside the lock, up to the await of persist(): the registry *)
(*             changes and is serialised;                                  *)
(*   PersistStep  the file operations (RegistryFile);                      *)
(*   *Return   the rest: rollback if persist() rejected, release, answer.  *)
(*                                                                         *)
(* A mailbox (unreadMessageIds) is a set: ids are unique, and the order a  *)
(* drain needs is that of the timestamps, ties in log order.  A session's  *)
(* lastSeenAt matters only as "past the inactivity TTL or not": idle.      *)
(***************************************************************************)
EXTENDS NameLocks, RegistryFile

CONSTANTS Panes, NoPane,      \* pane credentials; a connection without one
          TtlEnabled,         \* inactivityTtlMs # 0
          LongTtl,            \* inactivityTtlMs is longer than any call takes
          MaxUnread,          \* PEER_BUS_MAX_UNREAD
          MaxBytes,           \* PEER_BUS_MAX_RESPONSE_BYTES
          Size(_),            \* bytes of a wrapped message
          Stamp(_),           \* timestamp of a message
          TornWrites,         \* an append may write only part of its line
          ReadsBack,          \* a run looks at what registry.json holds
          MaxMsgs, MaxTokens, MaxCrashes   \* bounds of a run

Msgs == 1 .. MaxMsgs          \* message ids, in the order they are drawn
NoMsg == 0
NoName == 0
NoToken == 0                  \* tokenHash "" : matches nothing

ASSUME BoundsAssumption ==
  /\ MaxUnread \in Nat /\ MaxBytes \in Nat /\ TornWrites \in BOOLEAN
  /\ TtlEnabled \in BOOLEAN /\ LongTtl \in BOOLEAN
  /\ MaxMsgs \in Nat /\ MaxTokens \in Nat /\ MaxCrashes \in Nat
  /\ ReadsBack \in BOOLEAN /\ (MaxCrashes > 0 => ReadsBack)
  /\ \A m \in Msgs : Size(m) \in Nat /\ Stamp(m) \in Nat

VARIABLES
  reg,        \* the sessions map: reg[n], absent while ~reg[n].on
  call,       \* call[p]: the tool call p is running
  up,         \* the coordinator runs
  addr,       \* addr[m]: the recipient m is addressed to
  pos,        \* pos[m]: line of m in messages.jsonl, 0 if none
  readable,   \* messages whose line parses
  torn,       \* the log ends in a line without its newline
  nextMsg, nextToken, crashes,
  issued,     \* tokens returned to clients
  acked,      \* messages whose send_message answered ok
  delivered,  \* messages returned by read_messages
  redelivered,\* messages returned twice
  discarded   \* messages lost with an evicted mailbox, or in a call that a
              \* crash cut off after it took them out of a mailbox

logVars == <<addr, pos, readable, torn>>
busVars == <<reg, call, up, logVars, nextMsg, nextToken, crashes>>
history == <<issued, acked, delivered, redelivered, discarded>>
vars == <<lockVars, fileVars, busVars, history>>

-----------------------------------------------------------------------------
Entry == [on : BOOLEAN, tok : Nat, pane : Panes \cup {NoPane},
          idle : BOOLEAN, unread : SUBSET Msgs]
NoEntry == [on |-> FALSE, tok |-> NoToken, pane |-> NoPane,
            idle |-> FALSE, unread |-> {}]
Image == [Names -> Entry]

(* The locals of a call: who calls, whom it addresses, its message, the     *)
(* caller's pane, the snapshot for a rollback, and the messages drained.   *)
Started(op, n, to, m, pane) == [op |-> op, me |-> n, to |-> to, msg |-> m,
                                pane |-> pane, snap |-> NoEntry, out |-> {}]
NoCall == Started("none", NoName, NoName, NoMsg, NoPane)
Call ==
  {NoCall}
  \cup [op : {"register", "read"}, me : Names, to : {NoName}, msg : {NoMsg},
        pane : Panes \cup {NoPane}, snap : Entry, out : SUBSET Msgs]
  \cup [op : {"send"}, me : Names, to : Names, msg : Msgs,
        pane : Panes \cup {NoPane}, snap : Entry, out : {{}}]

(* The session a call changes: its recipient for a send, its own otherwise. *)
Target(p) == IF call[p].op = "send" THEN call[p].to ELSE call[p].me

TouchedNot(r, n) == r         \* mutant: authenticated calls do not renew lastSeenAt

Touched(r, n) == [r EXCEPT ![n].idle = FALSE]

(* The sessions a client can authenticate as: it has been given the token  *)
(* whose hash the entry holds.                                             *)
Authenticated == {n \in Names : reg[n].on /\ reg[n].tok \in issued}

(* What a restart gets back of a serialised map: load() wipes the token    *)
(* hashes.  How old a lastSeenAt is by then, GoIdle says.  A run in which  *)
(* nothing reads the file back tells no two images apart.                  *)
OnDisk(r) == [n \in Names |-> IF ReadsBack
                              THEN [r[n] EXCEPT !.tok = NoToken, !.idle = FALSE]
                              ELSE NoEntry]

-----------------------------------------------------------------------------
Init ==
  /\ LockInit /\ FileInit
  /\ reg = [n \in Names |-> NoEntry]
  /\ call = [p \in Procs |-> NoCall]
  /\ up = TRUE
  /\ addr = [m \in Msgs |-> NoName]
  /\ pos = [m \in Msgs |-> 0]
  /\ readable = {}
  /\ torn = FALSE
  /\ nextMsg = 1 /\ nextToken = 1 /\ crashes = 0
  /\ issued = {} /\ acked = {}
  /\ delivered = {} /\ redelivered = {} /\ discarded = {}

(* The call answers: its locks are released and its locals forgotten.      *)
AnswerLocked(p) ==            \* mutant: a path answers without releasing
  /\ call' = [call EXCEPT ![p] = NoCall]
  /\ UNCHANGED lockVars

Answer(p) ==
  /\ Release(p)
  /\ call' = [call EXCEPT ![p] = NoCall]

-----------------------------------------------------------------------------
(* register_session                                                        *)

MissingPane(e, pane) == e.on /\ e.pane # NoPane /\ pane = NoPane

RegisterCall(p, n, pane) ==
  /\ up /\ call[p] = NoCall
  /\ nextToken <= MaxTokens
  /\ ~MissingPane(reg[n], pane)
  /\ WithLocks(p, {n})
  /\ call' = [call EXCEPT ![p] = Started("register", n, NoName, NoMsg, pane)]
  /\ UNCHANGED <<fileVars, reg, up, logVars, nextMsg, nextToken, crashes, history>>

(* Cases 2 and 3 of register(): same pane, or an entry no pane owns.       *)
KeepsIdentity(e, pane) == e.on /\ e.pane \in {NoPane, pane}

(* Case 5: another pane's entry, past the TTL.                             *)
Evicts(e, pane) == e.on /\ e.pane \notin {NoPane, pane} /\ pane # NoPane /\ TtlEnabled /\ e.idle

Registers(e, pane) == ~e.on \/ KeepsIdentity(e, pane) \/ Evicts(e, pane)

Registered(e, pane) ==
  [on |-> TRUE, tok |-> nextToken, idle |-> FALSE,
   pane |-> IF pane = NoPane /\ KeepsIdentity(e, pane) THEN e.pane ELSE pane,
   unread |-> IF KeepsIdentity(e, pane) THEN e.unread ELSE {}]

RegisterReject(p) ==
  /\ call[p].op = "register" /\ stage[p] = "none"
  /\ ~Registers(reg[call[p].me], call[p].pane)
  /\ Answer(p)
  /\ UNCHANGED <<fileVars, reg, up, logVars, nextMsg, nextToken, crashes, history>>

RegisterCommit(p) ==
  LET n == call[p].me IN
  /\ call[p].op = "register" /\ stage[p] = "none" /\ Inside(p)
  /\ Registers(reg[n], call[p].pane)
  /\ reg' = [reg EXCEPT ![n] = Registered(@, call[p].pane)]
  /\ nextToken' = nextToken + 1
  /\ call' = [call EXCEPT ![p].snap = reg[n]]
  /\ StartPersist(p, OnDisk(reg')) /\ UNCHANGED faults
  /\ UNCHANGED <<lockVars, up, logVars, nextMsg, crashes, history>>

RegisterReturnKept(p) ==      \* mutant: a failed persist() is not rolled back
  LET n == call[p].me
      ok == stage[p] = "ok"
  IN
  /\ call[p].op = "register"
  /\ EndPersist(p)
  /\ issued' = IF ok THEN issued \cup {reg[n].tok} ELSE issued
  /\ discarded' = IF ok THEN discarded \cup (call[p].snap.unread \ reg[n].unread)
                   ELSE discarded
  /\ Answer(p)
  /\ UNCHANGED <<reg, up, logVars, nextMsg, nextToken, crashes,
                 acked, delivered, redelivered>>

RegisterReturn(p) ==
  LET n == call[p].me
      ok == stage[p] = "ok"
  IN
  /\ call[p].op = "register"
  /\ EndPersist(p)
  /\ reg' = IF ok THEN reg ELSE [reg EXCEPT ![n] = call[p].snap]
  /\ issued' = IF ok THEN issued \cup {reg[n].tok} ELSE issued
  /\ discarded' = IF ok THEN discarded \cup (call[p].snap.unread \ reg[n].unread)
                   ELSE discarded
  /\ Answer(p)
  /\ UNCHANGED <<up, logVars, nextMsg, nextToken, crashes,
                 acked, delivered, redelivered>>

-----------------------------------------------------------------------------
(* send_message                                                            *)

SendCallOwnLock(p, n, to) ==  \* mutant: only the sender's name is locked
  /\ up /\ call[p] = NoCall
  /\ n \in Authenticated
  /\ nextMsg <= MaxMsgs
  /\ reg[to].on
  /\ reg' = Touched(reg, n)
  /\ nextMsg' = nextMsg + 1
  /\ addr' = [addr EXCEPT ![nextMsg] = to]
  /\ WithLocks(p, {n})
  /\ call' = [call EXCEPT ![p] = Started("send", n, to, nextMsg, reg[n].pane)]
  /\ UNCHANGED <<fileVars, up, pos, readable, torn, nextToken, crashes, history>>

SendCall(p, n, to) ==
  /\ up /\ call[p] = NoCall
  /\ n \in Authenticated
  /\ nextMsg <= MaxMsgs
  /\ reg[to].on
  /\ reg' = Touched(reg, n)
  /\ nextMsg' = nextMsg + 1
  /\ addr' = [addr EXCEPT ![nextMsg] = to]
  /\ WithLocks(p, {n, to})
  /\ call' = [call EXCEPT ![p] = Started("send", n, to, nextMsg, reg[n].pane)]
  /\ UNCHANGED <<fileVars, up, pos, readable, torn, nextToken, crashes, history>>

(* An authenticated send that a check before the lock turns down: bad      *)
(* recipient name, bad or oversized body, or no such recipient.            *)
SendInvalid(n) ==
  /\ up /\ n \in Authenticated
  /\ reg' = Touched(reg, n)
  /\ UNCHANGED <<lockVars, fileVars, call, up, logVars, nextMsg, nextToken, crashes, history>>

CanAddOneMore(n) ==           \* mutant: off by one
  reg[n].on /\ Cardinality(reg[n].unread) <= MaxUnread

CanAddUnread(n) == reg[n].on /\ Cardinality(reg[n].unread) < MaxUnread

NextPos == Cardinality({m \in Msgs : pos[m] # 0}) + 1

(* writeSync appends one line.  After an unterminated line the two make    *)
(* one line that does not parse.                                           *)
AppendTorn(m) ==              \* mutant: an unterminated line is never ended
  /\ pos' = [pos EXCEPT ![m] = NextPos]
  /\ readable' = IF torn THEN readable ELSE readable \cup {m}
  /\ UNCHANGED torn

AppendLine(m) ==
  /\ pos' = [pos EXCEPT ![m] = NextPos]
  /\ readable' = IF torn THEN readable ELSE readable \cup {m}
  /\ torn' = FALSE

(* On a full disk writeSync writes a part of the line and returns how much, *)
(* which append() does not look at.                                        *)
AppendPart(m) ==
  /\ TornWrites
  /\ pos' = [pos EXCEPT ![m] = NextPos]
  /\ torn' = TRUE
  /\ UNCHANGED readable

CanFail == faults < MaxFaults /\ faults' = faults + 1

SendRefuse(p) ==
  /\ call[p].op = "send" /\ stage[p] = "none"
  /\ \/ /\ ~CanAddUnread(call[p].to)
        /\ UNCHANGED <<pos, readable, torn, faults>>
     \/ /\ CanAddUnread(call[p].to) /\ CanFail
        /\ \/ UNCHANGED <<pos, readable, torn>>      \* write failed
           \/ AppendLine(call[p].msg)                \* fsync failed
  /\ Answer(p)
  /\ UNCHANGED <<live, tmp, stage, fd, img, reg, up, addr, nextMsg, nextToken, crashes,
                 history>>

SendCommitEarly(p) ==         \* mutant: the registry is serialised before addUnread
  LET n == call[p].me
      to == call[p].to
  IN
  /\ call[p].op = "send" /\ stage[p] = "none" /\ Inside(p)
  /\ CanAddUnread(to)
  /\ AppendLine(call[p].msg) /\ UNCHANGED faults
  /\ reg' = Touched(Touched([reg EXCEPT ![to].unread = @ \cup {call[p].msg}], n), to)
  /\ call' = [call EXCEPT ![p].snap = reg[to]]
  /\ StartPersist(p, OnDisk(reg))
  /\ UNCHANGED <<lockVars, up, addr, nextMsg, nextToken, crashes, history>>

SendCommit(p) ==
  LET n == call[p].me
      to == call[p].to
  IN
  /\ call[p].op = "send" /\ stage[p] = "none" /\ Inside(p)
  /\ CanAddUnread(to)
  /\ \/ AppendLine(call[p].msg) /\ UNCHANGED faults
     \/ AppendPart(call[p].msg) /\ CanFail
  /\ reg' = Touched(Touched([reg EXCEPT ![to].unread = @ \cup {call[p].msg}], n), to)
  /\ call' = [call EXCEPT ![p].snap = reg[to]]
  /\ StartPersist(p, OnDisk(reg'))
  /\ UNCHANGED <<lockVars, up, addr, nextMsg, nextToken, crashes, history>>

SendReturn(p) ==
  LET to == call[p].to
      ok == stage[p] = "ok"
  IN
  /\ call[p].op = "send"
  /\ EndPersist(p)
  /\ reg' = IF ok THEN reg ELSE [reg EXCEPT ![to].unread = call[p].snap.unread]
  /\ acked' = IF ok THEN acked \cup {call[p].msg} ELSE acked
  /\ Answer(p)
  /\ UNCHANGED <<up, logVars, nextMsg, nextToken, crashes,
                 issued, delivered, redelivered, discarded>>

-----------------------------------------------------------------------------
(* read_messages                                                           *)

ReadCall(p, n) ==
  /\ up /\ call[p] = NoCall
  /\ n \in Authenticated
  /\ reg' = Touched(reg, n)
  /\ WithLocks(p, {n})
  /\ call' = [call EXCEPT ![p] = Started("read", n, NoName, NoMsg, reg[n].pane)]
  /\ UNCHANGED <<fileVars, up, logVars, nextMsg, nextToken, crashes, history>>

LogOrder(m, k) == pos[m] < pos[k]     \* mutant: no sort by timestamp

Earlier(m, k) == Stamp(m) < Stamp(k) \/ (Stamp(m) = Stamp(k) /\ pos[m] < pos[k])

UpTo(S, m) == {k \in S : k = m \/ Earlier(k, m)}

(* As many bytes as the messages of S have together.                       *)
Bytes(S) == Cardinality(UNION {{m} \X (1 .. Size(m)) : m \in S})

(* The loop of drainUnread over the sorted candidates: the first is always *)
(* taken, and each next one while the total stays within the cap.          *)
Drained(S) == {m \in S : UpTo(S, m) = {m} \/ Bytes(UpTo(S, m)) <= MaxBytes}

ReadFail(p) ==
  /\ call[p].op = "read" /\ stage[p] = "none"
  /\ CanFail
  /\ Answer(p)
  /\ UNCHANGED <<live, tmp, stage, fd, img, reg, up, logVars,
                 nextMsg, nextToken, crashes, history>>

(* Ids whose message the log does not give are dropped with the drained.   *)
ReadCommitEarly(p) ==         \* mutant: the registry is serialised before the drain
  LET n == call[p].me
      found == reg[n].unread \cap readable
  IN
  /\ call[p].op = "read" /\ stage[p] = "none" /\ Inside(p)
  /\ reg' = Touched([reg EXCEPT ![n].unread = found \ Drained(found)], n)
  /\ call' = [call EXCEPT ![p].snap = reg[n], ![p].out = Drained(found)]
  /\ StartPersist(p, OnDisk(reg)) /\ UNCHANGED faults
  /\ UNCHANGED <<lockVars, up, logVars, nextMsg, nextToken, crashes, history>>

ReadCommit(p) ==
  LET n == call[p].me
      found == reg[n].unread \cap readable
  IN
  /\ call[p].op = "read" /\ stage[p] = "none" /\ Inside(p)
  /\ reg' = Touched([reg EXCEPT ![n].unread = found \ Drained(found)], n)
  /\ call' = [call EXCEPT ![p].snap = reg[n], ![p].out = Drained(found)]
  /\ StartPersist(p, OnDisk(reg')) /\ UNCHANGED faults
  /\ UNCHANGED <<lockVars, up, logVars, nextMsg, nextToken, crashes, history>>

ReadReturn(p) ==
  LET n == call[p].me
      ok == stage[p] = "ok"
  IN
  /\ call[p].op = "read"
  /\ EndPersist(p)
  /\ reg' = IF ok THEN reg ELSE [reg EXCEPT ![n].unread = call[p].snap.unread]
  /\ delivered' = IF ok THEN delivered \cup call[p].out ELSE delivered
  /\ redelivered' = IF ok THEN redelivered \cup (call[p].out \cap delivered) ELSE redelivered
  /\ Answer(p)
  /\ UNCHANGED <<up, logVars, nextMsg, nextToken, crashes,
                 issued, acked, discarded>>
-----------------------------------------------------------------------------
(* The inactivity TTL of n passes, at any time if it is short: the code    *)
(* takes any number of milliseconds, and ten minutes by default.           *)
GoIdle(n) ==
  /\ up /\ TtlEnabled
  /\ reg[n].on /\ ~reg[n].idle
  /\ LongTtl => \A p \in Procs : call[p].op \in {"send", "read"} => call[p].me # n
  /\ reg' = [reg EXCEPT ![n].idle = TRUE]
  /\ UNCHANGED <<lockVars, fileVars, call, up, logVars, nextMsg, nextToken, crashes, history>>

(* What the unfinished calls had taken out of mailboxes.                   *)
Taken(p) ==
  IF stage[p] = "none" THEN {}
  ELSE CASE call[p].op = "read" -> call[p].out
         [] call[p].op = "register" -> call[p].snap.unread \ reg[call[p].me].unread
         [] OTHER -> {}

(* The process dies.  A send about to append may leave part of its line.   *)
Crash ==
  /\ up /\ crashes < MaxCrashes
  /\ crashes' = crashes + 1
  /\ up' = FALSE
  /\ \/ UNCHANGED torn
     \/ /\ TornWrites
        /\ \E p \in Procs : call[p].op = "send" /\ stage[p] = "none" /\ Inside(p)
        /\ torn' = TRUE
  /\ discarded' = discarded \cup UNION {Taken(p) : p \in Procs}
  /\ LoseProcesses
  /\ queue' = [n \in Names |-> <<>>]
  /\ wants' = [p \in Procs |-> {}]
  /\ reg' = [n \in Names |-> NoEntry]
  /\ call' = [p \in Procs |-> NoCall]
  /\ UNCHANGED <<addr, pos, readable, nextMsg, nextToken,
                 issued, acked, delivered, redelivered>>

(* load() then reconcile(): ids the log does not give, or gives for another *)
(* recipient, are dropped.  A registry.json that does not parse loads      *)
(* nothing.                                                                *)
Loaded(n) ==
  IF live.st = "full"
  THEN [live.img[n] EXCEPT !.unread = {m \in @ : m \in readable /\ addr[m] = n}]
  ELSE NoEntry

(* bootstrapPeerBus, up to and including its persist(): nothing else runs. *)
Restart ==
  /\ ~up
  /\ up' = TRUE
  /\ reg' = [n \in Names |-> Loaded(n)]
  /\ live' = Full(reg')
  /\ tmp' = Absent
  /\ UNCHANGED <<lockVars, stage, fd, img, faults, call, logVars, nextMsg, nextToken,
                 crashes, history>>

-----------------------------------------------------------------------------
LockStep(p) == NestedLock(p) /\ UNCHANGED <<fileVars, busVars, history>>

FileStep(p) == PersistStep(p) /\ UNCHANGED <<lockVars, busVars, history>>

CallStep(p) ==
  \/ RegisterReject(p) \/ RegisterCommit(p) \/ RegisterReturn(p)
  \/ SendRefuse(p) \/ SendCommit(p) \/ SendReturn(p)
  \/ ReadFail(p) \/ ReadCommit(p) \/ ReadReturn(p)

NewCall(p) ==
  \/ \E n \in Names, pane \in Panes \cup {NoPane} : RegisterCall(p, n, pane)
  \/ \E n, to \in Names : SendCall(p, n, to)
  \/ \E n \in Names : ReadCall(p, n)

Next ==
  \/ \E p \in Procs : NewCall(p) \/ LockStep(p) \/ CallStep(p) \/ FileStep(p)
  \/ \E n \in Names : SendInvalid(n) \/ GoIdle(n)
  \/ Crash \/ Restart

(* The event loop runs every continuation and every file operation ends.   *)
Fairness == \A p \in Procs : WF_vars(LockStep(p) \/ CallStep(p) \/ FileStep(p))

Spec == Init /\ [][Next]_vars /\ Fairness

-----------------------------------------------------------------------------
(* Types, and how the variables go together: a call holds or waits for the *)
(* names it changes while it runs, and takes its snapshot when it commits. *)
StateTypeOK ==
  /\ reg \in Image
  /\ call \in [Procs -> Call]
  /\ up \in BOOLEAN

LogTypeOK ==
  /\ addr \in [Msgs -> Names \cup {NoName}]
  /\ pos \in [Msgs -> Nat]
  /\ readable \subseteq Msgs
  /\ torn \in BOOLEAN

HistoryTypeOK ==
  /\ nextMsg \in Nat \ {0} /\ nextToken \in Nat \ {0} /\ crashes \in Nat
  /\ issued \subseteq 1 .. nextToken - 1
  /\ acked \subseteq Msgs /\ delivered \subseteq Msgs
  /\ redelivered \subseteq Msgs /\ discarded \subseteq Msgs

LocksFollowCalls ==
  \A p \in Procs :
    /\ wants[p] = {call[p].me, call[p].to} \ {NoName}
    /\ stage[p] # "none" => Inside(p)

BusTypeOK ==
  /\ LockTypeOK /\ FileTypeOK(Image)
  /\ StateTypeOK /\ LogTypeOK /\ HistoryTypeOK
  /\ LocksFollowCalls

Persisting(p) == stage[p] # "none"

(* The mailbox of n as the clients' answers so far show it: a call that    *)
(* has changed n's entry and not answered has not happened yet.            *)
Mailbox(n) ==
  IF \E p \in Procs : Persisting(p) /\ Target(p) = n
  THEN call[CHOOSE p \in Procs : Persisting(p) /\ Target(p) = n].snap.unread
  ELSE reg[n].unread

(* No two unanswered calls have changed the same session: a rollback never *)
(* undoes another call's work (snapshot and restore in the three tools).   *)
OneWriter ==
  \A p, q \in Procs :
    p # q /\ Persisting(p) /\ Persisting(q) => Target(p) # Target(q)

(* PEER_BUS_MAX_UNREAD bounds every mailbox, in memory, in a pending       *)
(* rollback and on disk, however sends interleave.                         *)
MailboxBound ==
  /\ \A n \in Names :
       /\ Cardinality(reg[n].unread) <= MaxUnread
       /\ live.st = "full" => Cardinality(live.img[n].unread) <= MaxUnread
  /\ \A p \in Procs : Cardinality(call[p].snap.unread) <= MaxUnread

(* A call authenticated for a session that a pane owns ends with the same  *)
(* pane owning it: no other pane takes the name over under its feet,       *)
(* although the token was checked before the lock was taken.  It is the    *)
(* touch at authentication that keeps the entry, as long as the TTL does   *)
(* not pass again before the call has its lock.                            *)
OwnerOnly ==
  \A p \in Procs :
    call[p].op \in {"send", "read"} /\ call[p].pane # NoPane =>
      reg[call[p].me].on /\ reg[call[p].me].pane = call[p].pane

(* Between registrations a session's token is one its client was given: a  *)
(* failed registration leaves the former token working.                    *)
AnsweredTokenLive ==
  \A n \in Names :
    \/ reg[n].tok \in issued \cup {NoToken}
    \/ \E p \in Procs : Persisting(p) /\ call[p].op = "register" /\ call[p].me = n

(* No message is returned by two reads: "at-most-once delivery".           *)
AtMostOnce == redelivered = {}

Waiting(m) ==
  IF up THEN m \in Mailbox(addr[m])
  ELSE live.st = "full" /\ m \in live.img[addr[m]].unread

(* As long as no operation on a file fails, an acknowledged message the    *)
(* log can give back waits in its mailbox, across crashes too, until a     *)
(* read takes it or its owner is evicted.                                  *)
DurableAcks ==
  faults = 0 => \A m \in acked \cap readable : m \in delivered \cup discarded \/ Waiting(m)

(* registry.json is never left partially written.                          *)
NeverPartial == live.st \in {"absent", "full"}

(* While no call is unanswered and no operation on a file has failed,      *)
(* registry.json holds the sessions the coordinator has in memory.         *)
QuietDisk ==
  up /\ faults = 0 /\ live # Absent /\ (\A p \in Procs : ~Persisting(p)) => live = Full(OnDisk(reg))

(* A line torn by a crash costs no message but the next one appended, one  *)
(* torn by a short write that message and its own: the log heals itself.   *)
TearsStayLocal ==
  Cardinality({m \in Msgs : pos[m] # 0} \ readable) + (IF torn THEN 1 ELSE 0)
    <= crashes + 2 * faults

(* An acknowledged message can be read back from the log.                  *)
AckedReadable == acked \subseteq readable

(* Every tool call answers, unless the coordinator dies first.             *)
EveryCallAnswers == \A p \in Procs : call[p] # NoCall ~> call[p] = NoCall
=============================================================================
