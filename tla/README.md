# A formal model of agentic-mcp-teaming

`agentic-mcp-teaming` is an MCP server, the *coordinator*, through which several
AI coding sessions work on one project: it runs a phased workflow with consensus
rounds and spawned agents, and it carries messages between peer sessions
(`register_session`, `send_message`, `read_messages`). This directory holds a
TLA+ model of it: modules translated from the source under `src/src/`, TLC runs
on small instances, and TLAPS proofs for every instance.

Paths such as `session-registry.ts` are under `src/src/` of the repository
(`core/`, `server/`, `server/tools/`, `phases/`), those of the extension under
`src/vscode-extension/src/`.

## 1. The system

The coordinator is one Node.js process. Nothing runs in parallel, but every
tool handler is an `async` function: whenever it awaits (a lock, a file, a
subprocess) other handlers run. Files are written by the thread pool, so the
operations of different handlers on one file interleave. The process may be
killed at any moment and is started again by hand.

| component | source | state | operations | hard part |
|---|---|---|---|---|
| name locks | `session-registry.ts` 130-148 | a promise per session name | `withLock`, `withLocks` | mutual exclusion and freedom from deadlock out of promise chains |
| session registry | `session-registry.ts` | `Map` name -> token hash, pane, last seen, unread ids | `register`, `authenticate`, `touch`, `addUnread`, `drainUnread`, snapshots and restores | checks before the lock, rollbacks after an await |
| registry file | `session-registry.ts` 515-644 | `registry.json`, `registry.json.tmp` | `persist`, `load`, `reconcile` | one `.tmp` path for calls that hold different locks; crash between any two operations |
| message log | `message-store.ts` | `messages.jsonl` | `append`, `loadAll` | torn lines, short writes |
| peer-bus tools | `peer-bus.ts` | none of their own | the three tools | order of lock, log append, registry change, persist, rollback |
| coordinator lock | `coordinator-lock.ts` | `coordinator.lock` | acquire, stale takeover, release | check and unlink of a stale lock are two steps |
| wake dispatcher | `wake-dispatcher.ts`, `wake-backends/*` | debounce window and counter per session | `maybeDispatch` | a clock read before an asynchronous probe |
| notifiers, badges | `notifier-*.ts` | none | fire-and-forget subprocesses | a badge set late, after its mailbox was read |
| consensus | `consensus.ts`, `checkpoint.ts` | round, votes | `run` | caps, blocks, reviewer errors, human decisions |
| spawn tracker | `spawn-tracker.ts`, `agents.ts` | active and total counts, running invocations | `check`, `beginInvocation`, `endInvocation` | slots that leak on an error, counts restored after a crash |
| session state | `session.ts`, `snapshot.ts` | `state.json` | `update` | un-serialised rewriting of one file |
| workflow tools, phases | `workflow.ts`, `phases/*`, `index.ts` | phase, artifact outcomes | submit, advance, resolve; the chain of phases | clients that call tools beside the pipeline, resume |
| implementation phase | `phases/implementation.ts` | task worktrees, session branch | generate, review, verify, merge | what was reviewed is not what is merged |
| server, transports | `server/index.ts` | HTTP sessions | connect, dispatch, close | session maps |
| steward | `steward-*.ts` | none | verify an answer | text |
| audit log | `audit.ts` | `audit.log`, a chain of appends | `log` | entries cut off by the end of the process |
| configuration | `config.ts` | none | parse | none |
| VS Code extension | `connection/*`, `views/*` | active session, tail offset, tree | select, tail, reset, answer checkpoints | files that grow while they are read |

How they interact: the peer-bus tools call the registry under its name locks,
the message log inside them, and notifiers and the wake dispatcher after them;
the workflow tools and phases call the consensus loop, which invokes agents
through the spawn tracker and stops at checkpoints; all write the audit log;
the extension reads files the coordinator writes and calls its tools.

What makes each correct, in a line: **locks**, overlapping calls exclude each
other and all are served; **registry**, a rollback undoes its own call only, a
session is its pane's; **file**, always parses, never behind an answer; **log**,
an acknowledged message can be read; **tools**, clients see plain mailboxes,
at-most-once delivery, a cap; **coordinator lock**, one coordinator; **wake**, a
burst wakes once and a message never waits unannounced for ever; **consensus**,
nothing is approved without unanimity or a human; **spawn tracker**, limits hold
and slots come back; **state**, a crash leaves a state one can resume;
**phases**, none is passed before its artifacts are approved;
**implementation**, what is merged is what was reviewed and verified;
**extension**, it shows what the log says.
`PROJECT.json` lists the hazards line by line.

## 2. Plan

In order of importance.

| order | module | models | composes | abstract specification |
|---|---|---|---|---|
| done | `NameLocks`, `LockChain` | the per-name mutex | `LockChain` stands beside `NameLocks` | the promise chains implement the queues (`Queues`) |
| done | `RegistryFile` | `persist()` on two paths | | |
| done | `PeerBus` | the three tools, registry, log, crash, restart | `NameLocks`, `RegistryFile`, `ToolCalls` | `Mail`: plain mailboxes (`ImplementsMail`, `MailWhileUndamaged`; mapping in `PeerBusMail`) |
| done | `CoordinatorLock` | `coordinator.lock`, session choice, shutdown | | |
| done | `WakeDispatcher` | wake-ups, debounce window, autoWakeKey | abstract lock and persist of `PeerBus` | |
| done | `Badge` | the cmux badge | abstract sends and reads of `PeerBus` | |
| done | `SpawnBudget`, `Consensus` | `invoke_agent` and its limits; rounds, votes, the operator | `Consensus` extends `SpawnBudget` | |
| done | `SessionState`, `Workflow` | `state.json` rewritten in place; phases, workflow tools, resume | `Workflow` extends `SessionState` | |
| done | `Implementation` | tasks, patches, reviews, merges | abstract budget of `SpawnBudget` | |
| done | `AuditTrail`, `SessionView` | `audit.log`; the extension that follows it | `SessionView` extends `AuditTrail` | |
| later | `CheckpointHandler` | the notification of a checkpoint and its answer | `SessionView`, `Workflow` | an answer is given to the question that was asked |

Theorems stand in eight modules of proofs: `Ranks_proofs`, `Locks_proofs`,
`PeerBus_proofs`, `Notifiers_proofs`, `Consensus_proofs`, `Workflow_proofs`,
`Implementation_proofs` and `SessionView_proofs`. Every invariant, action
property and refinement the runs check has one; what is left is liveness
(section 7).

## 3. The modules and the code

### Name locks: `NameLocks`, `LockChain`

`NameLocks` is what callers rely on: `queue[n]` is the calls that hold or await
name `n`, `wants[p]` the names call `p` locks, smaller first. The actions are
the request, the nested request of `withLocks`, and the release. `LockChain` is
how the code does it: each `withLock` makes a ticket whose promise settles after
that of the ticket before it, and `locks[n]` is the last ticket. The queue of a
name is the callers of its open tickets, by number (`Queue`). `Queues` says
that the second module implements the first, and is proved. `Ranks` counts
through a finite set of numbers: the tickets of a queue here, the lines of a
file in `AuditTrail`.

`NoneStuck` is freedom from deadlock: of any set of calls that are in `withLock`
or `withLocks`, one can go on or waits for a call outside the set.

### Registry file: `RegistryFile`

`persist()` is an open with truncation, a write, a `rename` and a `chmod`, each
an operation of the thread pool, interleaved with those of every other
`persist()`. All share `registry.json.tmp`. A file holds a full
image, nothing, or a mixture of two images, which does not parse. An operation
fails when its file is gone (ENOENT, another call's rename), and up to
`MaxFaults` times for any other reason.

### Peer bus: `PeerBus`, `ToolCalls`, `Mail`, `PeerBusMail`

A tool call is cut at its awaits. `RegisterCall`, `SendCall`, `ReadCall` are
the code before the lock; `...Commit` what runs in the lock up to the await of
`persist()`; `PersistStep` the file operations; `...Return` the rollback or the
success, the release and the answer. `Crash` drops memory and may leave a torn
line; `Restart` is `bootstrapPeerBus`: load, reconcile with the log, persist.

What is abstracted, and why it is sound for the properties:

- A mailbox is a set. Its order matters in a drain only, where the code sorts
  by timestamp; ties go by the place in the log.
- `lastSeenAt` is the bit *idle*, whether the TTL has passed. `GoIdle` sets it
  at any moment; with `LongTtl` only while no call authenticated as it runs.
  `config.ts` allows any `inactivityTtlMs`, the default is ten minutes, and the
  runs suppose `LongTtl`: `OwnerOnly` needs it (section 5), no other property
  does. After a restart it is decided anew, which allows more than the code.
- `append` and `addUnread` are one action: the append is synchronous, and only a
  continuation of the same call lies between. `loadAll` and the drain are one
  action: the mailbox is locked meanwhile, and other messages do not matter.
- The two releases of `withLocks` are one, as they are in one microtask chain.
- Error answers that change nothing are left out: a bad token, a missing pane.
- Ids are numbers in the order of drawing. The clock does not go back.
- Not modelled: power loss (no `fsync`), a tear that loses only the newline, a
  line separator inside a line, a rewrite of the log by other programs.

`Mail` is what a client sees: `Send` puts a message into a mailbox or fails,
`Read` takes out the oldest that fit, `Evict` empties the mailbox of a stale
session. `PeerBusMail` maps a mailbox, with what the calls in their rollback
window changed, to it.

### Coordinator lock: `CoordinatorLock`

Each action is one system call of one process: `Create` (open with `wx`),
`ReadLock`, `Probe` (`kill(pid, 0)`), `Unlink`, `Create` again, `WritePid`, and
on the way out `ReadOwn`, `UnlinkOwn`. `Launch` chooses the session directory
as `index.ts` does: `serve` resumes the latest or creates one, `start` creates
one. `Kill` may happen anywhere, and process ids are used again, by unrelated
processes too (`OtherStarts`). Whether the port is free is a choice of `Listen`.

Two assumptions are constants, so that runs can drop them: `Overlap`, whether
a process may be launched while another is starting, and `UserOf`, the users.
The lock keeps two coordinators apart when neither is dropped (`coord_lock`,
and a theorem); each is necessary (section 5). A lock
left empty by a kill between open and write is never taken over: `ReadLock`
finds no number and the process refuses.

### Wake dispatcher: `WakeDispatcher`

One recipient, since entry, lock and wake state are kept per name. A message
starts a dispatch: `Dispatch` reads entry and clock, `Probe` is the backend's
answer, `TakeWindow` or `Debounce` the check under the lock, `SendKeys` the text
and the Enter. Beside them `Register` replaces the entry and resets the window,
`Registered` and `RollBack` end its persist, `PersistedElsewhere` is another
call writing the registry, and `Restart` loads it under any other allowlist.
The lock is abstract: free unless a registration awaits its persist. The other
holders, sends and reads, only delay a dispatch, and the steps are not ordered
with each other, so any delay is there. `era` numbers the wake states, `before`
remembers the window a registration found; both are history.

### Badge: `Badge`

`Deliveries` declares the messages `Badge` and `WakeDispatcher` are about. A send is the commit (`Send`) and what follows its locks (`Ring`); a read is
its start (`ReadCall`), where the entry with the workspace is read, and its end
(`ReadCommit`). The cmux processes are `ops`, oldest first, and `Finish` ends
any of them. `smooth` is history: nothing has overtaken, failed, moved or been
left unread so far. A read waits for earlier sends to have rung, as it loads the log
from disk while they continue in microtasks. Sends and reads whose persist
fails are rolled back without a trace here.

### Agents and consensus: `SpawnBudget`, `Consensus`

`invoke_agent` runs without interruption up to its first await, so the checks
and `beginInvocation` are one action: `BeginTop` for a call of the coordinator
or a client, `Delegate` for one an agent makes with the context its prompt gave
it. Then `Saved` (the counters are in `state.json`), `Exits` (the CLI ends;
`endInvocation` in the `finally` block) and `Closes` (the second write). Either
write may fail; the first one is before the `try`, so its failure loses the slot.
`image` is what a call has handed to `session.update`: writes end in any order,
and the last to end is what a restart reads (`RestoreCounters`). `Note` is any
other update of the session, which writes the counters of its moment too.
That writes of one file may also mix is in `SessionState`. History: `slotLost`,
a first write failed or a process was resumed with slots taken; `apart`, no call
or update overlapped an earlier one since all were last at rest, and no write
failed; `kept`, every kill came at such a rest. `begun` counts the invocations.

`Consensus` is `run()`: `Submit` writes the snapshot, `StartRound` invokes all
reviewers before the first of them awaits, so the budget admits the first ones
in an order the model leaves open, `EndRound` evaluates the votes, `Revised` and
`NextRound` wait for the revision and for the update that counts it. `Typed` is a line at the terminal: it answers
every prompt that is open, that of the loop and those of calls rejected for
depth or budget. `auto` is the automatic `proceed` of `serve` and `--dry-run`.
An answer of a CLI is any vote; how it is parsed is left out.

### Phases: `SessionState`, `Workflow`

`SessionState` is `update()`: memory changes at once, then the file is opened
with truncation (`OpenFile`) and written (`WriteFile`), beside other updates.
An image written over another one parses if it covers it.

`Workflow` has the pipeline of `start`, one action per stretch between awaits
(`Boot`, `Conclude`, `Recorded`, `Assigned`, `Transition`, `Advanced`,
`Implement`), and the tools that clients call beside it, or alone under `serve`
(`Submit`, `Resolve`, `Advance` with their continuations). A review is an
outcome (`Consensus` has the rest), but its invocations write the counters to
`state.json` meanwhile (`AgentSaves`). `Kill`, `Exit` and `Leave` end the
process, `Start` and `Serve` load the file; `Start` with either value of
`--workflow`. Clients name any artifact of `Ids` at any time, whatever the phase
is and whether a pipeline runs: `Advance` looks only at the outcome of the
artifact it is told, as the code does. "other" is an id no phase reviews; it is
also the key under which a spec file in a directory is looked up (`Nested`). An
outcome is approved or `open`, which stands for pending and aborted: no decision
tells them apart. History: `approved`, what a review or an operator has ever
approved; `revoked`, what a client has stored "aborted" for since; `strayed`, a
client advanced a phase out of place (`InPlace`), or a resume with the default
`--workflow` reviewed the proposal of a session in a later phase.

### Implementation phase: `Implementation`

The commits of the session branch are numbered, and a candidate is the patch
`gen` applied to commit `base`. Each git command, invocation and update of
`run()` is a step: `Begin` (branch and worktree), `Generate`, `Materialize`,
`GetDiff`, `ReviewRound` with the cap and the operator, `CheckBase` and
`Rebase`, `Verify`, `Integrate` (the second look at the branch), `Merge`,
`Conflict`. `Foreign` is anybody else who commits to the session branch. The
steward's evidence is any commit, verdict and signature. The prompt of a review
takes 12,000 characters: a diff fits or not (`fits`), and of one that does not
the reviewer sees an excerpt that tells no candidates apart (`SeenBy`). The
operator, at a block or the cap, is shown the name of the task and a reason, and
no diff: an approval by the operator is one of the candidate under review, which
the operator may look up in the worktree. `approval` (by whom, of which diff,
having seen what), `raced` and `landed` are history. The assignments are a number of tasks; `Budget` stands
for the limits of `SpawnBudget`.

### Audit log and extension: `AuditTrail`, `SessionView`

`AuditTrail` is the chain behind `pendingWrite`: `Log` queues an entry,
`OpenLog`, `WritePiece` and `AppendFails` are the append in flight, `Exit` ends
the process with what is queued. A line is two pieces of JSON and a newline, the
least that tells torn, glued and whole lines apart (`Whole`).

`SessionView` cuts the callbacks of the extension where they look at the disk:
`Activate` and `WatchSessions` are `start()` of the watcher, `SelectMostRecent`
its callback, `SetActiveSession` the user's command; `TailSession`, `ReadFirst`,
`WatchFile`, `WatchDir` and `Notice` are the tailer; `ResetTree` is the tree's
listener, which is called after the tailer's. A session has one coordinator at
a time (`CoordinatorLock`). The times of the directories are not modelled, so
any session may be the most recent; a directory's watch is taken to report the
file's name with each event, and events come together.

## 4. The runs

Sizes are distinct states, some rounded. All passing runs are exhaustive.

| run | shows | instance |
|---|---|---|
| `lock_chain` | one ticket of a name runs at a time; chains implement first-come-first-served queues | 2 names, 3 calls, 5 tickets; 18,628 |
| `mail` | clients see plain mailboxes whatever the locks and the shared `.tmp` do; no deadlock, one writer; every call answers | 2 names, 2 calls, 2 messages, 2 tokens; 288,069 |
| `restart` | at most once, durable acknowledgements, a whole file, memory = disk when quiet, cap, owner, token, torn lines that stay local, plain mailboxes until the log is damaged | 1 name, 3 calls, 2 panes, eviction, 3 messages, 1 fault, 1 crash; 1,464,429 |
| `coord_lock` | one coordinator per directory; the lock names its holder; a dead holder's lock gives way | 2 processes, 3 ids, 2 directories; 357,200 |
| `wake` | wake-ups spaced, windows are attempts, keys allowed, every dispatch ends | 2 messages, 1 key, 2 registrations, 1 restart; 274,604 |
| `badge` | one set-status per filling; a right badge while processes end in order and reads are whole | 3 messages, 2 sessions, 1 move; 148,516 |
| `review` | the caps over failures and a restart, the budget over kills at rest; unanimity or an answer of the operator; every review ends or waits for him | 2 reviewers, a reviser, 1 delegated or client call, 5 invocations, 2 rounds, 1 mishap; 709,480 |
| `workflow` | a quiet file; nothing lost at a prompt; a run ends or waits | default option, 1 invocation, 1 call of a client for 1 artifact, 1 fault, 2 processes; 728,507 |
| `workflow_clients` | phases in order, in memory and on disk; an approved phase advances | both options, 2 calls of a client for 4 artifacts, 2 processes; 4,409,119 |
| `implementation` | what is merged was reviewed and verified as it is; marks tell merges; the phase ends or waits | 3 tasks, budget 8, 2 foreign commits, 1 fault; 2,304,523 |
| `session_view` | the extension shows entries once, in order, all that it read whole; appends under a watch are not missed and get read | 2 sessions, 2 entries, 1 failed append, 1 exit, 2 switches; 620,752 |

Why the bounds are enough. Two calls are what a race takes, three what a lock
queue with somebody behind the waiter takes. Two names give opposite sends and
`persist()` of different lock holders. `MaxUnread` 2 makes the cap bite with
three messages, and `MaxBytes` makes a read of a small and a large message
partial. `mail` and `restart` have two tokens: two names, or a session and its
successor. One crash is enough to lose memory; what a second one finds is what
the first one's restart wrote. In `coord_lock` the two processes are launched
again and again, so one dies, one takes over and another comes while ids return;
the third id is for an unrelated process. In `wake`, `DebounceMs` 2 with times 0
to 3 has pairs within, at and past the boundary; more messages than two are the
theorem's business. In `badge` two processes under way are what an overtaking
needs. In `review` five invocations let a round, a revision and one reviewer of
the second round in, or less when another call takes one, so the budget ends at
every place; `MaxConcurrent` 1 with two possible parents makes the cap bite, and
depth 2 the depth. The two runs of `Workflow` divide what one instance is too
large for: writes that fail, invocations that write beside a review, and
fairness in `workflow`; every artifact and option in `workflow_clients`, where a
second call follows up on the first (an approval, then an advance or a
revocation). Two processes make one resume; calls of a client come in any phase
and between any two steps of the pipeline. Of the artifacts clients name there,
"proposal" is the first phase's, "design" one before or behind the phase,
"task-assignment" the last that is looked at, "other" none. In
`implementation` a budget of 8 lets three tasks through with two invocations
to spare, and two foreign commits make a branch move again while the first move
is being repaired. In `session_view` two entries give a log that exists and
grows, or two that do; two switches leave a session and come back.

Deadlock is checked in `badge` and `review`. The other runs turn it off: their
bounds end (messages, tokens, clock, starts), or all processes have ended, and
clients may stop calling. That nothing hangs on the way is `EveryCallAnswers`,
`StaleLockGivesWay`, `EveryDispatchEnds`, `ReviewEnds`, `RunEnds`, `PhaseEnds`
and `FollowsTheLog`.

`ReadsBack` is FALSE in runs without a crash whose properties never look at the
file: the image in it is then not kept apart. Symmetry is used in safety runs
only.

## 5. What does not hold

One run ends in a violation of a sentence the repository says of itself;
`findings` in `PROJECT.json` quotes the sentence and its line.

| run | property | what happens |
|---|---|---|
| `lost_ack` | `DurableAcks` | two calls with different name locks persist at once; an image serialised before a send is renamed after it, and a restart forgets an acknowledged message |

More disagreements came up while modelling. TLC refutes each property below with
the constants given, in a configuration like those of the runs; no run is kept
for them.

The coordinator's session, its budget and its pipeline:

| property | constants | what happens | where the sources say otherwise |
|---|---|---|---|
| `SpawnBudget!SlotsReturned` | one delegated call, one kill | a process is killed while the call runs; the resumed one restores the slot as taken, and it never comes back. A first write that fails (`agents.ts` 134) keeps the slot too | docs/session-format.md 31, spawn-controls/spec.md 36 |
| `SpawnBudget!AllTimeCount` | two clients, no kill | two invocations write their counters at once and the older land last: nothing failed, and `sessionTotal` on disk misses an invocation. A resume spends the difference again | docs/session-format.md 31 |
| `Workflow!PassedPhasesReviewed` | `Ids` with an artifact of a later phase | a client advances the proposal phase with an approved design (`workflow.ts` 35-51 looks only at the outcome of the id it is given) | consensus-workflow/spec.md 7-8 |
| `Workflow!ResumesInPlace` | `Options` with `proposal` | the documented resume leaves `--workflow` at its default (`index.ts` 151, 279) and reviews the proposal of a session that is past it | docs/session-format.md 261 |
| `Workflow!SkipsApproved` | any resume | an approved artifact is reviewed again | docs/session-format.md 261 |
| `Workflow!AdvanceAfterApproval` | `Nested` TRUE | the outcome of a spec file is stored under a key with colons and looked up under one with slashes (`specs.ts` 27, 35): the approved spec phase is refused the transition | consensus-workflow/spec.md 13-15 |
| `Implementation!DiffSent` | a diff that does not fit | the reviewer sees the first 12,000 characters (`implementation.ts` 361) and the operator no diff at all (387, 397); the whole of it is merged | task-execution/spec.md 32 |

What holds all the same is in the passing runs: the caps and, over kills at
rest, the budget (`SlotsHold`, `BudgetHolds`); the order of the phases but for
the causes named in `strayed` (`ReviewedInOrder`); the transition of approved
phases but for nested specs (`ApprovedAdvances`); that the merged candidate is
the one under review when it was approved (`MergedAsReviewed`).

The peer bus, the locks and the extension:

| property | constants | what happens |
|---|---|---|
| `PeerBus!NeverPartial` | two names, no fault | two calls share `registry.json.tmp`: one renames it while the other has truncated it |
| `PeerBus!AtMostOnce` | two names, one crash, 4 tokens | the stale image brings back a message that was read |
| `PeerBus!QuietDisk` without `faults = 0` | one name, one fault | `persist()` rejects after its rename (`chmod` fails): memory rolls back, the disk does not |
| `PeerBus!AckedReadable` | torn writes, one crash | the line after a torn one is glued to it |
| `PeerBus!OwnerOnly` | `LongTtl` FALSE | the entry of an owner that waits for a lock is evicted by another pane, and the owner's read returns the new owner's mail |
| `CoordinatorLock!OnePerSession` | `Overlap` | two coordinators find a stale lock; one unlinks the fresh lock the other has replaced it by |
| `CoordinatorLock!OnePerSession` | each process its own user | `kill` fails with EPERM for a living holder, which counts as dead |
| `CoordinatorLock!OnePerSessionsDir` | two directories | `start` beside `serve` locks a directory of its own (peer-session-bus/spec.md 234-236 wants a fatal exit) |
| `CoordinatorLock!NoTakeover` | any | a stale lock is taken over although the archived requirement forbids it |
| `CoordinatorLock!SocketClosedFirst` | any | on a signal the lock's listener exits before `stopServer` (mcp-integration/spec.md 217-219) |
| `WakeDispatcher!FailedRegisterKeepsWindow` | two keys, failing persists | a registration that is rolled back has reset the debounce window (comment at session-registry.ts 350-351) |
| `WakeDispatcher!OwnCadence` | two registrations | a wake-up of the former bearer debounces the new one's message (comment at 271-273) |
| `Badge!ClearedWhenEmpty` | a read that leaves messages | it clears the badge, and nothing sets it again until the mailbox has been emptied (cmux-notifier/spec.md 39) |
| `SessionView!TreeAsShown` | as in `session_view` | the tailer replays an existing log to the tree, whose reset follows (session-panel/spec.md 7) |

`restart` holds with one session name, where all calls hold one lock, and so
marks the boundary: a stale or partial image takes two names.

These were seen while reading the code and have no definition here:

- A task whose reviewer asks for changes starts its three rounds anew: only the
  budget ends the exchange (`phases/implementation.ts`; task-execution/spec.md
  40). `PhaseEnds` rests on the budget for that reason.
- `checkpoint_presented` is logged after the operator has answered
  (`checkpoint.ts` 34). The extension asks about it then, and the answer that
  comes by `resolve_checkpoint` overwrites the decision. On a replay it asks
  about checkpoints that the log resolves later (checkpoint-ui/spec.md 9-15).
- The tailer drops both halves of a line it reads in two pieces, and what is
  appended between its read and its watch waits for the next append
  (coordinator-connection/spec.md 45).
- `SessionWatcher.start()` tells nobody of the session it selects, so its log
  is not followed until the next event; a `sessions/` directory made later is
  never watched; the next event undoes the user's choice of a session.
- A conversation panel opened later does not show the turns before it
  (conversation-view/spec.md 11).
- `session_error` is logged just before `process.exit`, which does not wait for
  the append; nobody calls `flush()`.

## 6. Fairness

- `PeerBus`: weak fairness of each call's lock, call and file steps. The event
  loop runs every settled continuation, and file operations end. No fairness of
  clients, crashes or restarts.
- `NameLocks`, `LockChain`: safety only; that locks are served follows in
  `PeerBus` from the fairness of the calls (`EveryCallAnswers`).
- `CoordinatorLock`: weak fairness of acquisition. `StaleLockGivesWay` is about
  a process that starts, not about one being started.
- `WakeDispatcher`: weak fairness of each dispatch and of the end of a
  registration. `execFile` has a timeout of 5 s, so probes and keys end.
- `Consensus`: weak fairness of the loop, of every call, and of the answer when
  it is automatic. A CLI is killed after its timeout. The operator need not
  answer.
- `Workflow`: weak fairness of the pipeline, of writes, and of an invocation
  whose write failed. `Transition` waits for the operator and is not fair; that
  invocations end is `Consensus`, so `RunEnds` allows for one that has not.
- `Implementation`: weak fairness of `Work`. CLIs, git and the steward's
  provider have timeouts. The operator need not answer.
- `SessionView`: weak fairness of the extension's callbacks: its event loop goes
  on, and the system delivers the events of a watch. Coordinators need not go on.

## 7. Proofs

TLAPS checks these for all values of the constants, under the named ASSUMEs of
the modules (bounds are naturals, none-values lie outside their sets, names are
numbers in string order).

- `Ranks_proofs`: what `Nth` picks out of a finite set of numbers, in order,
  without a gap or a repetition; how that changes with a new largest and without
  the smallest number (`NthOfLonger`, `NthOfShorter`); that there is a greatest.
- `Locks_proofs`, on `LockChain`: types, `OneRunner`, `Queues`. The
  invariant says that tickets of a name are linked without a gap, settle in
  order, and that a call has one pending ticket per name at most, so the ticket
  that runs is the smallest open one (`RunnerIsOldest`). For the refinement, a
  draw appends to a queue and a release takes its head, by the lemmas on `Nth`.
- `Locks_proofs`, on `CoordinatorLock`: under `Sequential` (no overlapping
  starts, one user), `OnePerSession` and `LockNamesHolder`. The heart is
  `Condemned`: between reading a lock and unlinking it the file stays the one
  read, and once probed nobody running has the id in it.
- `PeerBus_proofs`, in four parts.
  - *Locks and files.* `NameLocks`: types, `OrderedWaiting`. The invariant needs
    `SmallerHeld`: a call is queued on
    its second name only while it heads the queue of its first. `NoneStuck` adds
    `Queued`: finitely many names are in use, and a call in a lock call is queued
    on one of its names. Then the holder of the greatest name waited for cannot
    itself wait. It is proved of the locks under any callers
    (`LocksNeverStuck`) and of the tools with crashes (`BusNeverStuck`). `RegistryFile`:
    whatever the interleaving, a file holds an image some call has serialised,
    a mixture, or none.
  - *The bus.* `BusInv`, in layers. `BusTyped` carries the locks' invariant, the
    types, the cap wherever an entry is kept (memory, snapshots, files) and
    `LocksFollowCalls`; `OneWriter` and `MailboxBound` follow. `TokensInv` and
    `OwnersInv` say whose token an entry holds while registrations are
    unanswered and for which pane a running call was authenticated;
    `AnsweredTokenLive` and `OwnerOnly` follow. `LogsTyped` counts lines and
    tears for `TearsStayLocal`.
  - *Mail.* `MailUntilDamaged` proves `MailWhileUndamaged` without a hypothesis;
    `BusImplementsMail` proves `ImplementsMail` where nothing can damage the log
    (no crash, whole lines). `MsgsInv`: a message has one send, and a place of
    its own in the log. `BoxInv`: a call in its `persist()` is all that stands
    between memory and what its client will have seen. Every step is quiet, or
    one call takes its mailbox in hand (`Takes`), or it answers (`Returns`),
    which is the step of `Mail`. `DrainedBatch` is about the sorting and the
    byte cap of a read: what it takes leaves nothing older behind.
  - *registry.json.* `TornOnlyByRace` (`NeverPartial`), `MemoryOnDisk`
    (`QuietDisk`), `DeliveredOnce` (`AtMostOnce`) and `AckedSurviveCrashes`
    (`DurableAcks`) hold in every behaviour in which no two persists are under
    way at once (`OneAtATime`). Other names' locks do not give that, and section
    5 says what then happens; `OneNameOneAtATime` proves it for one name.
    Without a crash it is not needed: `DeliveredOnceWhileUp`, `AckedWhileUp`.
    `PersistInv` follows a persist through its operations, `SavedInv` says the
    live file is memory, or memory before the call that persists. `OnceInv` and
    `SavedOnce`: what may still be read, from memory, a pending rollback or the
    disk, is logged, addressed to its mailbox, and not delivered. `DurableInv`:
    what was acknowledged waits, in memory while up, on disk while down;
    `AckInv` bounds what a rollback may undo.
- `Consensus_proofs`: `SlotsHold`, `BudgetHolds`, `Unanimity`,
  `OperatorDecides` and types, for any number of agents, limits and delegations.
  `Holders` are the calls with a slot; `SavedCounters` says that no image on its
  way to the disk, nor the disk, is above the limits, without which a restart
  could bring back more. `ApartInv` says what the budget rests on: while calls
  and updates come one after the other (or all together, as the reviewers of a
  round), the image of the one that ends last has the counters of now.
  The lemma `Admission` says that the reviewers the budget
  admits are as many as it has left, in whatever order they come. For
  `Unanimity`, `Position` ties the version to the round and `Fresh` says that a
  reviewer started in this round got this version; for `OperatorDecides`,
  `AsksLast` says that the loop asks only after a block or its last round.
- `Notifiers_proofs`, on `Badge`: `OneRingPerFill`, `BadgeTellsTruth` and types.
  `FillsInv` says that every filling has exactly one message that counted 1 under
  the lock, `SendsInv` that those and no others ring. `BadgeInv` says what the
  badge will be once the processes under way have ended in order (`Lit`, `Dark`),
  given one session per workspace.
- `Notifiers_proofs`, on `WakeDispatcher`: `WakesSpaced`, `WindowIsAnAttempt`,
  `KeysAllowed` and types. `WakesSpaced` says nothing of where the takers lie
  before the window in force; `Takers` adds that each lies at or before it, and
  that nobody has taken a window that is still free.
- `Workflow_proofs`: `QuietFile`, `ReviewedInOrder`, `SavedWhenAsked`,
  `ApprovedAdvances` and types, for any artifacts clients name, either option
  and either place of spec files. For `QuietFile`, `Settled` follows the one
  update under way when none overlap. For `ReviewedInOrder`, `EveryImageEarned`
  asks the same of every image on its way to `state.json`, `InStep` ties the
  pipeline's place to the phase (both as long as nothing has strayed), and
  `AboutPhase` its artifact to its place. `Alone` says that without clients no
  other writes are under way between a review and the next step. For
  `ApprovedAdvances`, `Told` says that what the last review approved is approved
  in the state, unless a client has revoked it since, and `Refusals` that a run
  which was refused has ended.
- `Implementation_proofs`: `MergedAsReviewed`, `MarksTellMerges` and types, for
  any number of tasks, commits and failures. `Based` says where the candidate
  stands, `UnderReview` that the diff under review is the candidate's, though perhaps
  against a newer commit, `Told` what a reviewer was shown, and `Bound` that after
  the look at the branch there is nothing between. `Marks` says in addition which task is merged and unmarked.

- `SessionView_proofs`: `FileInOrder`, `ShownAsLogged`, `NothingMissed` and
  types. `TrailInv` says that a session's file is in the order of the calls and
  ahead of its queue, up to the piece of the head that is next (`Lined`): an
  append that fails or is cut off takes its head along and leaves what is
  written. `ReadOf` is about what several reads have shown of a file that has
  grown between them. It says more than `ShownAsLogged` of the last line of a
  read (`Told`): two pieces whose newline is still to come are shown already,
  whatever follows, as the next read starts behind them. A read (`ReadOn`) shows
  nothing twice because what it starts behind is in `cuts`; a longer file leaves
  `ReadOf` as it is (`ReadOfLonger`). `Control` has what each step of a callback
  relies on, `Watched` the part of `NothingMissed` that holds inside a callback.

`Locks_proofs` and `Notifiers_proofs` have two components each and extend both;
that is why `LockChain` and `Badge` have names of their own for their
specification (`ChainSpec`, `BadgeSpec`).

The types are proved in each of these modules, as a theorem or as part of its
invariant. No run checks them, nor two properties for which others stand in the
runs: `OrderedWaiting` (`NoneStuck`) and `FileInOrder` (a log out of order is not
shown as logged). `OwnerOnlyAlways` is proved under `LongTtl`.

Only model-checked: the liveness properties, which are outside this prover's
reach: `EveryCallAnswers`, `StaleLockGivesWay`, `EveryDispatchEnds`,
`ReviewEnds`, `RunEnds`, `PhaseEnds` and `FollowsTheLog`. Of the first and the
last the part that is safety is proved, `NoneStuck` and `NothingMissed`.

## 8. Not modelled

Per part in `PROJECT.json`. In short:

- **Transports.** HTTP sessions are kept in maps keyed by random
  ids, one entry per connection, and removed when it closes; the protocol is the
  SDK's. Nothing else reads them.
- **Configuration** is parsed once; its values are the constants of the modules.
- **Extension.** The views format what they are told. `CheckpointHandler` and
  `McpClient` make one request and wait for its answer; what is wrong with the
  order of question and answer is in section 5.
- **Steward.** Its prompt and digest are text; the checks that bind its answer
  to a candidate are in `Implementation`.
- **One-off notifications and wake counters** are written and never read by the
  program, and the console logger only prints.
- The 5 s timeouts of two dispatches can let their keys mix in one pane; the
  contents of a pane are outside this code.
