---------------------------- MODULE SessionView ----------------------------
(* The VS Code extension's view of a session: SessionWatcher chooses it,      *)
(* AuditLogTailer follows its audit.log, and the tree shows what was read.    *)
(* Callbacks of the extension exclude each other, coordinators run beside     *)
(* them: a callback is split where it looks at the disk.                      *)
EXTENDS AuditTrail

CONSTANTS NoSession,
          MaxSwitches    \* bound on the sessions the user selects

ASSUME NoSessionAssumption == NoSession \notin Sessions

VARIABLES step,      \* where the running callback is; "off" before activation
          watching,  \* the sessions directory is watched
          noticed,   \* that watch has an event pending
          active,    \* activeSessionId
          tail,      \* the session of currentPath
          offset,    \* byteOffset, in pieces
          watch,     \* what the tailer watches: "none", "file" or "dir"
          woken,     \* that watch has an event pending
          changed,   \* session_changed still has listeners to call
          shown,     \* entries published since tail()
          tree,      \* entries applied to the tree since its last reset
          cuts,      \* where the reads since tail() ended
          since,     \* size of the log when the watch was placed, -1 before
          switches

selection == <<watching, noticed, active>>
viewVars == <<step, watching, noticed, active, tail, offset, watch, woken, changed,
              shown, tree, cuts, since, switches>>
vars == <<trailVars, viewVars>>

Size == IF tail = NoSession THEN 0 ELSE Len(log[tail])

Init ==
  /\ TrailInit
  /\ step = "off" /\ watching = FALSE /\ noticed = FALSE /\ active = NoSession
  /\ tail = NoSession /\ offset = 0 /\ watch = "none" /\ woken = FALSE
  /\ changed = FALSE /\ shown = <<>> /\ tree = <<>> /\ cuts = {} /\ since = -1
  /\ switches = 0

\* A step of a coordinator, and the events it makes for the watches in place.
\* A directory's watch tells of its files by name, so both kinds wake alike.
Work(s) ==
  /\ Coordinator(s)
  /\ noticed' = (noticed \/ (watching /\ dirs' # dirs))
  /\ woken' = (woken \/ (s = tail /\ watch # "none" /\ <<log, made>>' # <<log, made>>))
  /\ UNCHANGED <<step, watching, active, tail, offset, watch, changed, shown, tree,
                 cuts, since, switches>>

-----------------------------------------------------------------------------
\* selectMostRecentSession: the times of the directories are not modelled.
MostRecent(s) == IF dirs = {} THEN s = NoSession ELSE s \in dirs

\* start() selects a session before anybody listens ...
Activate ==
  /\ step = "off"
  /\ \E s \in dirs \cup {NoSession} : MostRecent(s) /\ active' = s
  /\ step' = "starting"
  /\ UNCHANGED <<trailVars, watching, noticed, tail, offset, watch, woken, changed,
                 shown, tree, cuts, since, switches>>

\* ... then watches the sessions directory, if there is one.
WatchSessions ==
  /\ step = "starting"
  /\ watching' \in {TRUE, dirs # {}}
  /\ step' = "idle"
  /\ UNCHANGED <<trailVars, noticed, active, tail, offset, watch, woken, changed,
                 shown, tree, cuts, since, switches>>

\* mutant: tail() goes on at the former offset.
TailSessionOn(s) ==
  /\ active' = s /\ changed' = TRUE
  /\ tail' = s /\ offset' = offset /\ watch' = "none" /\ woken' = FALSE
  /\ shown' = <<>> /\ cuts' = {} /\ since' = -1
  /\ step' = "read"
  /\ UNCHANGED tree

\* tail(), the first listener of session_changed: forget the former session.
TailSession(s) ==
  /\ active' = s /\ changed' = TRUE
  /\ tail' = s /\ offset' = 0 /\ watch' = "none" /\ woken' = FALSE
  /\ shown' = <<>> /\ cuts' = {} /\ since' = -1
  /\ step' = "read"
  /\ UNCHANGED tree

\* The callback of the sessions directory's watch.
SelectMostRecent ==
  /\ step = "idle" /\ noticed /\ noticed' = FALSE
  /\ \E s \in dirs :
       IF s # active THEN TailSession(s)
       ELSE UNCHANGED <<step, active, tail, offset, watch, woken, changed, shown,
                        tree, cuts, since>>
  /\ UNCHANGED <<trailVars, watching, switches>>

\* The command Switch Session: it publishes even if the session is the same.
SetActiveSession(s) ==
  /\ step = "idle" /\ s \in dirs /\ switches < MaxSwitches
  /\ switches' = switches + 1
  /\ TailSession(s)
  /\ UNCHANGED <<trailVars, watching, noticed>>

-----------------------------------------------------------------------------
\* The listeners of the events, called by publish; those of the tree keep the
\* last of each artifact and phase.
OnTree(new) == tree' = tree \o new

\* readNewLines: publish the lines between the offset and the size.
Publish ==
  LET new == Parsed(SubSeq(log[tail], offset + 1, Size)) IN
  /\ shown' = shown \o new /\ OnTree(new)
  /\ offset' = Size /\ cuts' = cuts \cup {Size}

ReadFirst ==
  /\ step = "read"
  /\ Publish
  /\ step' = "watch"
  /\ UNCHANGED <<trailVars, selection, tail, watch, woken, changed, since, switches>>

\* watchFile: a file that is not there yet cannot be watched ...
WatchFile ==
  /\ step = "watch"
  /\ IF tail \in made
       THEN /\ watch' = "file" /\ since' = Size
            /\ step' = IF changed THEN "reset" ELSE "idle"
       ELSE step' = "watchDir" /\ UNCHANGED <<watch, since>>
  /\ UNCHANGED <<trailVars, selection, tail, offset, woken, changed, shown, tree, cuts, switches>>

\* ... its directory can, which is done a moment later.
WatchDir ==
  /\ step = "watchDir"
  /\ watch' = "dir" /\ since' = Size
  /\ step' = IF changed THEN "reset" ELSE "idle"
  /\ UNCHANGED <<trailVars, selection, tail, offset, woken, changed, shown, tree, cuts, switches>>

\* The tree listens to session_changed too, and is called after the tailer.
ResetTree ==
  /\ step = "reset"
  /\ tree' = <<>> /\ changed' = FALSE /\ step' = "idle"
  /\ UNCHANGED <<trailVars, selection, tail, offset, watch, woken, shown, cuts, since, switches>>

\* mutant: the directory's watch is closed and nothing follows it.
NoticeOnce ==
  /\ step = "idle" /\ woken /\ woken' = FALSE
  /\ Publish
  /\ watch' = IF watch = "dir" THEN "none" ELSE watch
  /\ UNCHANGED <<trailVars, selection, step, tail, changed, since, switches>>

\* The callback of the tailer's watch; a directory's is replaced by the file's.
Notice ==
  /\ step = "idle" /\ woken /\ woken' = FALSE
  /\ Publish
  /\ IF watch = "dir" THEN watch' = "none" /\ step' = "watch" ELSE UNCHANGED <<watch, step>>
  /\ UNCHANGED <<trailVars, selection, tail, changed, since, switches>>

Callback ==
  SelectMostRecent \/ ReadFirst \/ WatchFile \/ WatchDir \/ ResetTree \/ Notice

Next ==
  \/ \E s \in Sessions : Work(s) \/ SetActiveSession(s)
  \/ Activate \/ WatchSessions \/ Callback

Spec == Init /\ [][Next]_vars

\* The extension's event loop goes on, and the system delivers its events.
FairSpec == Spec /\ WF_vars(Callback)

-----------------------------------------------------------------------------
\* The line of the entry at p is between newlines, nothing is glued to it, and
\* no read of the log ended inside it.
Undivided(p) ==
  LET f == log[tail] IN
  /\ f[p].piece = 1 /\ f[p + 1] = [f[p] EXCEPT !.piece = 2] /\ f[p + 2].piece = 3
  /\ p = 1 \/ f[p - 1].piece = 3
  /\ p \notin cuts

(* The extension shows entries of the session it is on in the order of their  *)
(* log() calls, each once, and all those it has read past except lines that   *)
(* were torn or glued in the file or cut by the end of a read.  If the first   *)
(* read found nothing, the sidebar shows them too.                            *)
ShownAsLogged ==
  /\ \A i, j \in 1 .. Len(shown) : i < j => shown[i] < shown[j]
  /\ \A i \in 1 .. Len(shown) : \E p \in 1 .. offset : log[tail][p].entry = shown[i]
  /\ \A p \in 1 .. offset - 2 :
       Undivided(p) => \E i \in 1 .. Len(shown) : shown[i] = log[tail][p].entry
  /\ step = "idle" /\ 0 \in cuts => tree = shown

(* No append is missed: while no callback runs and a watch has been placed,   *)
(* one is in place, and it has an event pending if the log has grown past     *)
(* what was read since it was placed (AuditLogTailer.ts 88-128).              *)
NothingMissed ==
  step = "idle" /\ since >= 0 =>
    watch # "none" /\ (Size > offset /\ Size > since => woken)

(* Whatever is appended after the tailer has placed a watch gets read, with   *)
(* all that is before it, even if the file was not there when it started,     *)
(* unless the tailer has placed another watch or left the session meanwhile.  *)
FollowsTheLog ==
  (since >= 0 /\ Size > since) ~> (offset = Size \/ since = Size)

(* The sidebar shows what the audit log of the active session tells: it does  *)
(* not when that session had a log before it was selected.                    *)
TreeAsShown == step = "idle" => tree = shown
=============================================================================
