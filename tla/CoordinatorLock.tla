-------------------------- MODULE CoordinatorLock --------------------------
(* The single-instance lock of a coordinator process, coordinator-lock.ts,   *)
(* and the part of index.ts that decides which session directory a process   *)
(* locks and what it does when it is told to stop.  Processes of the machine *)
(* run concurrently; each step below is one system call of one process.      *)
EXTENDS Naturals, FiniteSets

CONSTANTS
  Programs,  \* coordinator processes, one launch at a time each
  Pids,      \* process ids; the system hands out one that is free
  Dirs,      \* possible session directories under one sessions-dir
  NoPid, NoDir, Nobody,
  UserOf,    \* the user a process runs as: kill(2) reaches one's own only
  Overlap    \* may a process be launched while another is starting?

ASSUME NoneAssumption == NoPid \notin Pids /\ NoDir \notin Dirs /\ Nobody \notin Programs
ASSUME UserOfAssumption == DOMAIN UserOf = Programs
ASSUME OverlapAssumption == Overlap \in BOOLEAN

VARIABLES
  pc,        \* where each process is
  pid,       \* its process id
  cmd,       \* "start" or "serve"
  dir,       \* the session directory it uses
  seen,      \* the process id it read in an existing lock file
  socket,    \* is its HTTP server listening?
  lock,      \* the lock file of each directory
  made,      \* the session directories that exist
  others     \* process ids held by unrelated processes

vars == <<pc, pid, cmd, dir, seen, socket, lock, made, others>>
local == <<pid, cmd, dir, seen>>

NoLock == [by |-> Nobody, text |-> NoPid]

Acquiring == {"open", "read", "probe", "unlink", "reopen", "write"}
Holding == {"boot", "serve", "release", "unlinkown"}
Running(p) == pc[p] \in Acquiring \cup Holding
Living == {pid[p] : p \in {q \in Programs : Running(q)}} \cup others

Init ==
  /\ pc = [p \in Programs |-> "none"]
  /\ pid = [p \in Programs |-> NoPid]
  /\ cmd = [p \in Programs |-> "start"]
  /\ dir = [p \in Programs |-> NoDir]
  /\ seen = [p \in Programs |-> NoPid]
  /\ socket = [p \in Programs |-> FALSE]
  /\ lock = [d \in Dirs |-> NoLock]
  /\ made = {}
  /\ others = {}

Goto(p, s) == pc' = [pc EXCEPT ![p] = s]

\* The process ends, and with it its pid, its socket and all it knew.
End(p, s) ==
  /\ Goto(p, s)
  /\ pid' = [pid EXCEPT ![p] = NoPid]
  /\ cmd' = [cmd EXCEPT ![p] = "start"]
  /\ dir' = [dir EXCEPT ![p] = NoDir]
  /\ seen' = [seen EXCEPT ![p] = NoPid]
  /\ socket' = [socket EXCEPT ![p] = FALSE]

\* CoordinatorLockError: index.ts prints it and exits.
Refuse(p) == End(p, "refused")

\* Without --session, `start` makes a session and `serve` resumes the one written
\* last (any existing one may be that), or makes one if there is none; with
\* --session both resume the one named.
SessionOf(c, d) == d \notin made => c = "start" \/ made = {}

Created(d) == made \cup {d}

Launch(p, i, c, d) ==
  /\ ~Running(p)
  /\ i \notin Living
  /\ Overlap \/ \A q \in Programs : pc[q] \notin Acquiring
  /\ SessionOf(c, d)
  /\ Goto(p, "open")
  /\ pid' = [pid EXCEPT ![p] = i]
  /\ cmd' = [cmd EXCEPT ![p] = c]
  /\ dir' = [dir EXCEPT ![p] = d]
  /\ seen' = [seen EXCEPT ![p] = NoPid]
  /\ made' = Created(d)
  /\ UNCHANGED <<socket, lock, others>>

\* openSync(path, "wx") finds no file, at the first or at the second attempt.
Create(p) ==
  /\ pc[p] \in {"open", "reopen"}
  /\ lock[dir[p]] = NoLock
  /\ lock' = [lock EXCEPT ![dir[p]] = [by |-> p, text |-> NoPid]]
  /\ Goto(p, "write")
  /\ UNCHANGED <<local, socket, made, others>>

\* EEXIST: look at the file, but only the first time.
Exists(p) ==
  /\ pc[p] \in {"open", "reopen"}
  /\ lock[dir[p]] # NoLock
  /\ \/ pc[p] = "open" /\ Goto(p, "read") /\ UNCHANGED <<local, socket>>
     \/ pc[p] = "reopen" /\ Refuse(p)
  /\ UNCHANGED <<lock, made, others>>

WritePidLost(p) ==             \* mutant: the descriptor is closed before the write
  /\ pc[p] = "write"
  /\ Goto(p, "boot")
  /\ UNCHANGED <<local, socket, lock, made, others>>

\* The descriptor is the file this process made, whatever the path names now.
WritePid(p) ==
  /\ pc[p] = "write"
  /\ lock' = IF lock[dir[p]].by = p THEN [lock EXCEPT ![dir[p]].text = pid[p]] ELSE lock
  /\ Goto(p, "boot")
  /\ UNCHANGED <<local, socket, made, others>>

\* No file, or a file without "pid=<n>", ends the attempt.
ReadLock(p) ==
  /\ pc[p] = "read"
  /\ \/ lock[dir[p]].text = NoPid /\ Refuse(p)
     \/ /\ lock[dir[p]].text # NoPid
        /\ seen' = [seen EXCEPT ![p] = lock[dir[p]].text]
        /\ Goto(p, "probe")
        /\ UNCHANGED <<pid, cmd, dir, socket>>
  /\ UNCHANGED <<lock, made, others>>

ReachableNever(p, i) == FALSE  \* mutant: no process is ever found alive

\* process.kill(pid, 0) throws for a process that is gone, and also (EPERM)
\* for one of another user: both count as dead.
Reachable(p, i) == \E q \in Programs : Running(q) /\ pid[q] = i /\ UserOf[q] = UserOf[p]

Probe(p) ==
  /\ pc[p] = "probe"
  /\ \/ /\ Reachable(p, seen[p]) \/ seen[p] \in others
        /\ Refuse(p)
     \/ /\ ~Reachable(p, seen[p])
        /\ Goto(p, "unlink")
        /\ UNCHANGED <<local, socket>>
  /\ UNCHANGED <<lock, made, others>>

UnlinkSkipped(p) ==            \* mutant: the stale file is left for "wx" to replace
  /\ pc[p] = "unlink"
  /\ Goto(p, "reopen")
  /\ UNCHANGED <<local, socket, lock, made, others>>

\* unlinkSync removes whatever file has the name by now.
Unlink(p) ==
  /\ pc[p] = "unlink"
  /\ lock' = [lock EXCEPT ![dir[p]] = NoLock]
  /\ Goto(p, "reopen")
  /\ UNCHANGED <<local, socket, made, others>>

\* bootstrapPeerBus has loaded and reconciled the registry.  If another process
\* has the port, listen reports an error that is only logged.
Listen(p) ==
  /\ pc[p] = "boot"
  /\ Goto(p, "serve")
  /\ \E ok \in BOOLEAN :
       /\ ok \/ \E q \in Programs : socket[q]
       /\ socket' = [socket EXCEPT ![p] = ok]
  /\ UNCHANGED <<local, lock, made, others>>

\* A signal, process.exit, an uncaught error: registerLockCleanupHandlers'
\* listener comes before any of index.ts, releases the lock and exits.
Stop(p) ==
  /\ pc[p] \in {"boot", "serve"}
  /\ Goto(p, "release")
  /\ UNCHANGED <<local, socket, lock, made, others>>

\* The finally block of `start`: stopServer, then the release.
Finish(p) ==
  /\ pc[p] = "serve" /\ cmd[p] = "start"
  /\ socket' = [socket EXCEPT ![p] = FALSE]
  /\ Goto(p, "release")
  /\ UNCHANGED <<local, lock, made, others>>

\* release(): a file that is gone or names another process is left alone.
ReadOwn(p) ==
  /\ pc[p] = "release"
  /\ \/ lock[dir[p]].text = pid[p] /\ Goto(p, "unlinkown") /\ UNCHANGED <<local, socket>>
     \/ lock[dir[p]].text # pid[p] /\ End(p, "none")
  /\ UNCHANGED <<lock, made, others>>

UnlinkOwn(p) ==
  /\ pc[p] = "unlinkown"
  /\ lock' = [lock EXCEPT ![dir[p]] = NoLock]
  /\ End(p, "none")
  /\ UNCHANGED <<made, others>>

\* SIGKILL, power loss, or an error before the handlers are installed.
Kill(p) ==
  /\ Running(p)
  /\ End(p, "none")
  /\ UNCHANGED <<lock, made, others>>

OtherStarts(i) == i \notin Living /\ others' = others \cup {i} /\ UNCHANGED <<pc, local, socket, lock, made>>
OtherEnds(i) == i \in others /\ others' = others \ {i} /\ UNCHANGED <<pc, local, socket, lock, made>>

Acquire(p) == Create(p) \/ Exists(p) \/ WritePid(p) \/ ReadLock(p) \/ Probe(p) \/ Unlink(p)
Leave(p) == Stop(p) \/ Finish(p) \/ ReadOwn(p) \/ UnlinkOwn(p) \/ Kill(p)

Next ==
  \/ \E p \in Programs :
       \/ \E i \in Pids, c \in {"start", "serve"}, d \in Dirs : Launch(p, i, c, d)
       \/ Acquire(p) \/ Listen(p) \/ Leave(p)
  \/ \E i \in Pids : OtherStarts(i) \/ OtherEnds(i)

\* A process that acquires the lock runs synchronous code until it has it or gives up.
Fairness == \A p \in Programs : WF_vars(Acquire(p))

Spec == Init /\ [][Next]_vars
FairSpec == Spec /\ Fairness
-----------------------------------------------------------------------------
\* Types, and: a running process has a pid and a session directory that exists
\* (index.ts makes or loads the session before it locks it).
TypeOK ==
  /\ pc \in [Programs -> {"none", "refused"} \cup Acquiring \cup Holding]
  /\ pid \in [Programs -> Pids \cup {NoPid}]
  /\ cmd \in [Programs -> {"start", "serve"}]
  /\ dir \in [Programs -> Dirs \cup {NoDir}]
  /\ seen \in [Programs -> Pids \cup {NoPid}]
  /\ socket \in [Programs -> BOOLEAN]
  /\ lock \in [Dirs -> {NoLock} \cup [by : Programs, text : Pids \cup {NoPid}]]
  /\ made \subseteq Dirs
  /\ others \subseteq Pids
  /\ \A p \in Programs : Running(p) => pid[p] \in Pids /\ dir[p] \in made

Holds(p) == pc[p] \in Holding

\* At most one coordinator holds a session directory, whatever was killed before
\* and whatever process ids were used again since (coordinator-lock.ts 57-89:
\* "wx" and the takeover of a dead holder's file).
OnePerSession ==
  \A p, q \in Programs : Holds(p) /\ Holds(q) /\ dir[p] = dir[q] => p = q

\* While a coordinator holds a directory, the lock file there is its own and
\* names it, so that the next process that finds the file probes the right one
\* (coordinator-lock.ts 22-29).
LockNamesHolder ==
  \A p \in Programs : Holds(p) => lock[dir[p]] = [by |-> p, text |-> pid[p]]

\* A process that starts alone on a directory whose lock names a dead process
\* gets the lock, unless it is killed or the dead one's id is used again
\* (coordinator-lock.ts 71-85).
Stale(p) == lock[dir[p]].text \in Pids \ Living
Alone(p) == \A q \in Programs \ {p} : ~Running(q)
StaleLockGivesWay ==
  \A p \in Programs :
    (pc[p] = "open" /\ Alone(p) /\ Stale(p))
      ~> (pc[p] \in {"boot", "none"} \/ seen[p] \in others)
-----------------------------------------------------------------------------
(* What the documents say and the code does not do.                          *)

\* README.md:492 "A second coordinator against the same sessions directory exits
\* fatally"; peer-session-bus/spec.md:234-236 has it for `start` beside `serve`.
OnePerSessionsDir == \A p, q \in Programs : Holds(p) /\ Holds(q) => p = q

\* The archived peer-session-bus spec.md:25 "the coordinator SHALL NOT perform a
\* PID-liveness check to decide whether to steal the lock": only the process
\* that made a lock file removes it.
NoTakeover ==
  [][\A d \in Dirs : lock[d] # NoLock /\ lock'[d] = NoLock
       => \E p \in Programs : p = lock[d].by /\ pc[p] = "unlinkown"]_vars

\* mcp-integration/spec.md:217-219 "the stopServer() call SHALL complete before
\* the lock-cleanup handlers return control": the lock of a coordinator is not
\* removed while its HTTP server still listens.
SocketClosedFirst ==
  [][\A p \in Programs :
       cmd[p] = "serve" /\ pc[p] = "unlinkown" /\ lock'[dir[p]] = NoLock => ~socket[p]]_vars
=============================================================================
