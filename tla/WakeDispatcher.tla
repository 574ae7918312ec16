--------------------------- MODULE WakeDispatcher ---------------------------
(* Waking the pane of an idle recipient, wake-dispatcher.ts, with the        *)
(* registrations and restarts that change what it reads.                     *)
(*                                                                           *)
(* One recipient: the registry keeps the entry, the lock and the debounce    *)
(* window of each session name apart.  Each delivered message starts one     *)
(* dispatch, which runs beside the others; a step is what happens between    *)
(* two awaits.  The lock of the name is free unless a registration is        *)
(* waiting for its persist().                                                *)
EXTENDS Integers, FiniteSets, Deliveries

CONSTANTS
  Keys,        \* keys of peerBus.autoWake.allowedCommands
  NoKey,       \* the recipient has not opted in
  DebounceMs,
  MaxTime,     \* bound on the clock
  MaxRegs,     \* bound on registrations
  MaxRestarts, \* bound on restarts
  PersistFails \* may the persist() of a registration fail?

ASSUME KeyAssumption == NoKey \notin Keys
ASSUME DebounceAssumption == DebounceMs \in Nat
ASSUME WakeBounds ==
  MaxTime \in Nat /\ MaxRegs \in Nat /\ MaxRestarts \in Nat /\ PersistFails \in BOOLEAN

VARIABLES
  clock,
  entry,       \* the recipient's entry: bearer, opted-in key
  disk,        \* the entry in registry.json
  snap,        \* the entry a running registration will restore
  before,      \* history: the window when that registration began
  locked,      \* is a registration waiting for its persist()?
  window,      \* lastDispatchedAt, or Never
  allowed,     \* keys of the configuration this coordinator started with
  wake,        \* the dispatch of each message
  era,         \* number of the wake state: one per reset of the window
  regs, restarts

vars == <<clock, entry, disk, snap, before, locked, window, allowed, wake, era, regs, restarts>>

Never == -1
NoEntry == [bearer |-> 0, key |-> NoKey]
Entries == [bearer : Nat, key : Keys \cup {NoKey}]

\* A dispatch: where it is, the time it took first of all, the entry it read
\* then, and the wake state whose window it took (0: none).
Idle == [pc |-> "idle", now |-> 0, from |-> NoEntry, took |-> 0]
Ended == {"ok", "failed", "debounce", "unsafe", "stalekey", "lost"}
Running == {"probe", "lock", "type", "enter"}

Init ==
  /\ clock = 0
  /\ entry = NoEntry /\ disk = NoEntry /\ snap = NoEntry
  /\ locked = FALSE /\ before = Never
  /\ window = Never
  /\ allowed = Keys
  /\ wake = [m \in Msgs |-> Idle]
  /\ era = 1
  /\ regs = 0 /\ restarts = 0

registry == <<entry, disk, snap, before, locked, allowed, regs, restarts>>

Goto(m, s) == wake' = [wake EXCEPT ![m].pc = s]
-----------------------------------------------------------------------------
(* maybeDispatch                                                             *)

\* Up to the probe: no await.  A recipient that has not opted in gets nothing.
Dispatch(m) ==
  /\ wake[m] = Idle
  /\ entry.key # NoKey
  /\ wake' = [wake EXCEPT ![m] =
       [pc |-> IF entry.key \in allowed THEN "probe" ELSE "stalekey",
        now |-> clock, from |-> entry, took |-> 0]]
  /\ UNCHANGED <<clock, window, era, registry>>

ProbeTakesWindow(m) ==         \* mutant: an unsafe pane consumes the window too
  /\ wake[m].pc = "probe"
  /\ \/ Goto(m, "lock") /\ UNCHANGED window
     \/ Goto(m, "unsafe") /\ window' = wake[m].now
  /\ UNCHANGED <<clock, era, registry>>

\* isPaneStateSafe: what the pane runs just now, or an error, which is unsafe.
Probe(m) ==
  /\ wake[m].pc = "probe"
  /\ \E s \in {"lock", "unsafe"} : Goto(m, s)
  /\ UNCHANGED <<clock, window, era, registry>>

DebouncedNot(now) ==           \* mutant: only a dispatch of the same tick is debounced
  window # Never /\ now = window

Debounced(now) == window # Never /\ now - window < DebounceMs

\* tryConsumeWakeWindow under withLock(target).
TakeWindow(m) ==
  /\ wake[m].pc = "lock" /\ ~locked
  /\ ~Debounced(wake[m].now)
  /\ window' = wake[m].now
  /\ wake' = [wake EXCEPT ![m].pc = "type", ![m].took = era]
  /\ UNCHANGED <<clock, era, registry>>

DebounceWaits(m) ==            \* mutant: a debounced dispatch waits for the window to pass
  /\ wake[m].pc = "lock" /\ ~locked
  /\ Debounced(wake[m].now)
  /\ UNCHANGED vars

Debounce(m) ==
  /\ wake[m].pc = "lock" /\ ~locked
  /\ Debounced(wake[m].now)
  /\ Goto(m, "debounce")
  /\ UNCHANGED <<clock, window, era, registry>>

\* sendKeys: the text, then Enter; either may fail, and neither is retried.
SendKeys(m) ==
  /\ \/ wake[m].pc = "type" /\ \E s \in {"enter", "failed"} : Goto(m, s)
     \/ wake[m].pc = "enter" /\ \E s \in {"ok", "failed"} : Goto(m, s)
  /\ UNCHANGED <<clock, window, era, registry>>
-----------------------------------------------------------------------------
(* What changes under the dispatches                                         *)

\* register() under the name's lock, up to its persist().  The bearer is the
\* same pane, or a new one that takes a name nobody has, or has abandoned.
\* It keeps its key or names one the allowlist has: the handler reads null as
\* the default key, so a call cannot opt out.
RegisterKey(k, same) == IF k = "keep" THEN IF same THEN entry.key ELSE NoKey ELSE k

Register(k, same) ==
  /\ ~locked /\ regs < MaxRegs
  /\ same => entry # NoEntry
  /\ snap' = entry /\ before' = window
  /\ entry' = [bearer |-> IF same THEN entry.bearer ELSE regs + 1, key |-> RegisterKey(k, same)]
  /\ window' = Never /\ era' = era + 1
  /\ locked' = TRUE
  /\ regs' = regs + 1
  /\ UNCHANGED <<clock, disk, allowed, wake, restarts>>

Closed == locked' = FALSE /\ snap' = NoEntry /\ before' = Never

Registered ==
  /\ locked
  /\ disk' = entry /\ Closed
  /\ UNCHANGED <<clock, entry, window, allowed, wake, era, regs, restarts>>

\* restoreEntry: the window register() has reset stays reset.
RollBack ==
  /\ locked /\ PersistFails
  /\ entry' = snap /\ Closed
  /\ UNCHANGED <<clock, disk, window, allowed, wake, era, regs, restarts>>

\* A send or a read of another session persists the whole registry, an entry
\* that awaits its own persist() included.
PersistedElsewhere ==
  /\ disk # entry /\ disk' = entry
  /\ UNCHANGED <<clock, entry, snap, before, locked, window, allowed, wake, era, regs, restarts>>

RevalidatedNot(e, A) == e      \* mutant: stored keys are trusted
Revalidated(e, A) == IF e.key \in A THEN e ELSE [e EXCEPT !.key = NoKey]

\* The coordinator dies and starts again, perhaps with other allowedCommands.
Restart(A) ==
  /\ restarts < MaxRestarts
  /\ allowed' = A
  /\ entry' = Revalidated(disk, A)
  /\ Closed
  /\ window' = Never /\ era' = era + 1
  /\ wake' = [m \in Msgs |-> IF wake[m].pc \in Running THEN [wake[m] EXCEPT !.pc = "lost"]
                             ELSE wake[m]]
  /\ restarts' = restarts + 1
  /\ UNCHANGED <<clock, disk, regs>>

Tick == clock < MaxTime /\ clock' = clock + 1 /\ UNCHANGED <<window, wake, era, registry>>

Step(m) == Probe(m) \/ TakeWindow(m) \/ Debounce(m) \/ SendKeys(m)

Next ==
  \/ \E m \in Msgs : Dispatch(m) \/ Step(m)
  \/ \E k \in allowed \cup {"keep"}, same \in BOOLEAN : Register(k, same)
  \/ Registered \/ RollBack \/ PersistedElsewhere
  \/ \E A \in SUBSET Keys : Restart(A)
  \/ Tick

\* The event loop runs continuations; execFile and the file operations of
\* persist() end, by a timeout at the latest.
Fairness ==
  /\ \A m \in Msgs : WF_vars(Step(m))
  /\ WF_vars(Registered \/ RollBack)

Spec == Init /\ [][Next]_vars
FairSpec == Spec /\ Fairness
-----------------------------------------------------------------------------
\* Types, and: a dispatch has taken a window exactly if it went on to send
\* keys; a suppressed one leaves the window alone (wake-dispatcher.ts 106-123).
TypeOK ==
  /\ clock \in Nat
  /\ entry \in Entries /\ disk \in Entries /\ snap \in Entries
  /\ locked \in BOOLEAN /\ before \in Nat \cup {Never}
  /\ ~locked => snap = NoEntry /\ before = Never
  /\ window \in Nat \cup {Never}
  /\ allowed \subseteq Keys
  /\ wake \in [Msgs -> [pc : {"idle"} \cup Running \cup Ended, now : Nat,
                        from : Entries, took : Nat]]
  /\ \A m \in Msgs : wake[m].pc # "lost" =>
       (wake[m].took # 0 <=> wake[m].pc \in {"type", "enter", "ok", "failed"})
  /\ era \in Nat \ {0} /\ regs \in Nat /\ restarts \in Nat

Took(m) == wake[m].took # 0

\* Two wake-ups that took the window of one wake state are DebounceMs apart by
\* the times their messages were delivered, however the probes and the lock
\* reordered them (session-registry.ts 379-386).
WakesSpaced ==
  \A m, k \in Msgs :
    Took(m) /\ m # k /\ wake[m].took = wake[k].took =>
      wake[m].now - wake[k].now >= DebounceMs \/ wake[k].now - wake[m].now >= DebounceMs

\* The window in force was taken by an attempt to send keys: nothing else, an
\* unsafe pane or a suppressed wake-up, starts a debounce period.
WindowIsAnAttempt ==
  window # Never => \E m \in Msgs : wake[m].took = era /\ wake[m].now = window

\* A dispatch never finds a key outside the allowlist: registrations check it
\* and a restart clears what the new configuration no longer has, so
\* "key_no_longer_in_allowlist" guards a case that does not arise.
KeysAllowed ==
  /\ entry.key \in allowed \cup {NoKey}
  /\ \A m \in Msgs : wake[m].pc # "stalekey"

\* Every dispatch comes to an end and leaves its audit entry, unless the
\* coordinator dies (wake-dispatcher.ts 73-163).
EveryDispatchEnds == \A m \in Msgs : wake[m].pc \in Running ~> wake[m].pc \in Ended
-----------------------------------------------------------------------------
(* What comments of the source say and the code does not do.                 *)

\* session-registry.ts 350-351: restoreEntry leaves the wake state alone "so the
\* debounce window is not reset for a session that remains live": a
\* re-registration that is rolled back leaves the window it found.
FailedRegisterKeepsWindow ==
  [][locked /\ ~locked' /\ restarts' = restarts /\ snap # NoEntry
       /\ entry # snap /\ entry' = snap => window' = before]_vars

\* session-registry.ts 271-273: "a new bearer of the session name should not
\* inherit the previous bearer's cadence": a message of one bearer is not
\* debounced by a wake-up for another.
OwnCadence ==
  [][\A m, k \in Msgs :
       wake[m].pc = "lock" /\ wake'[m].pc = "debounce" /\ wake[k].took = era /\ wake[k].now = window
         => wake[k].from.bearer = wake[m].from.bearer]_vars
=============================================================================
