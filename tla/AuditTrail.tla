----------------------------- MODULE AuditTrail -----------------------------
(* AuditLogger: entries of log() are appended to the session's audit.log one  *)
(* after the other.  A line reaches the file in pieces a reader can tell      *)
(* apart, fails half-way, or is cut off by the end of the process.  A session *)
(* has one coordinator at a time; entries are those the extension has an      *)
(* event for.                                                                 *)
EXTENDS Integers, Sequences, Ranks

CONSTANTS Sessions,
          MaxEntries,    \* bound on the calls of log()
          MaxFaults,     \* bound on the appends that fail
          MaxExits     \* bound on the processes that end with entries pending

ASSUME TrailAssumption ==
  MaxEntries \in Nat /\ MaxFaults \in Nat /\ MaxExits \in Nat

VARIABLES up,       \* the sessions that have a running coordinator
          dirs,     \* the sessions that have a directory
          entries,  \* number of calls of log(); an entry is named by its number
          queue,    \* [session -> entries behind pendingWrite, the head in writing]
          part,     \* [session -> the next piece of the head, 0 if not open]
          log,      \* [session -> audit.log: per line two pieces of JSON, a newline]
          made,     \* the sessions whose audit.log exists
          faults, exits

trailVars == <<up, dirs, entries, queue, part, log, made, faults, exits>>

TrailInit ==
  /\ up = {} /\ dirs = {} /\ entries = 0
  /\ queue = [s \in Sessions |-> <<>>]
  /\ part = [s \in Sessions |-> 0]
  /\ log = [s \in Sessions |-> <<>>]
  /\ made = {} /\ faults = 0 /\ exits = 0

\* A coordinator creates the session or resumes it.
Start(s) ==
  /\ s \notin up
  /\ up' = up \cup {s} /\ dirs' = dirs \cup {s}
  /\ UNCHANGED <<entries, queue, part, log, made, faults, exits>>

\* mutant: two appends in flight, whichever is first in the file.
LogUnchained(s) ==
  /\ s \in up /\ entries < MaxEntries
  /\ entries' = entries + 1
  /\ \E q \in {Append(queue[s], entries + 1), <<entries + 1>> \o queue[s]} :
       queue' = [queue EXCEPT ![s] = q]
  /\ UNCHANGED <<up, dirs, part, log, made, faults, exits>>

\* log() returns at once; the append runs when the one before has settled.
Log(s) ==
  /\ s \in up /\ entries < MaxEntries
  /\ entries' = entries + 1
  /\ queue' = [queue EXCEPT ![s] = Append(@, entries + 1)]
  /\ UNCHANGED <<up, dirs, part, log, made, faults, exits>>

\* appendFile opens the file, which creates it.
OpenLog(s) ==
  /\ s \in up /\ queue[s] # <<>> /\ part[s] = 0
  /\ part' = [part EXCEPT ![s] = 1]
  /\ made' = made \cup {s}
  /\ UNCHANGED <<up, dirs, entries, queue, log, faults, exits>>

\* The next piece of the line becomes visible.
WritePiece(s) ==
  /\ part[s] > 0
  /\ log' = [log EXCEPT ![s] = Append(@, [entry |-> Head(queue[s]), piece |-> part[s]])]
  /\ part' = [part EXCEPT ![s] = IF @ = 3 THEN 0 ELSE @ + 1]
  /\ queue' = IF part[s] = 3 THEN [queue EXCEPT ![s] = Tail(@)] ELSE queue
  /\ UNCHANGED <<up, dirs, entries, made, faults, exits>>

\* mkdir, open or a write fails: the chain catches it and goes on.
AppendFails(s) ==
  /\ s \in up /\ queue[s] # <<>> /\ faults < MaxFaults
  /\ faults' = faults + 1
  /\ part' = [part EXCEPT ![s] = 0]
  /\ queue' = [queue EXCEPT ![s] = Tail(@)]
  /\ UNCHANGED <<up, dirs, entries, log, made, exits>>

\* The process ends: nobody waits for the appends that are pending.
Exit(s) ==
  /\ s \in up /\ exits < MaxExits
  /\ exits' = exits + 1 /\ up' = up \ {s}
  /\ queue' = [queue EXCEPT ![s] = <<>>]
  /\ part' = [part EXCEPT ![s] = 0]
  /\ UNCHANGED <<dirs, entries, log, made, faults>>

Coordinator(s) ==
  Start(s) \/ Log(s) \/ OpenLog(s) \/ WritePiece(s) \/ AppendFails(s) \/ Exit(s)

-----------------------------------------------------------------------------
\* What AuditLogTailer finds in the text of one read: where a piece of text
\* between newlines, or ends of the text, is exactly the JSON of one entry.
Whole(text) ==
  {i \in 1 .. Len(text) - 1 :
     /\ text[i].piece = 1 /\ text[i + 1] = [text[i] EXCEPT !.piece = 2]
     /\ i = 1 \/ text[i - 1].piece = 3
     /\ i + 1 = Len(text) \/ text[i + 2].piece = 3}

\* readNewLines: split, drop the malformed lines, publish the others in order.
Parsed(text) ==
  LET at == Whole(text) IN [k \in 1 .. Cardinality(at) |-> text[Nth(at, k)].entry]

-----------------------------------------------------------------------------
\* Piece a is of an earlier call than piece k of entry e, or an earlier one of it.
Precedes(a, e, k) == a.entry < e \/ (a.entry = e /\ a.piece < k)

InOrder(f) ==
  \A p, q \in 1 .. Len(f) : p < q => Precedes(f[p], f[q].entry, f[q].piece)

(* The pieces in a session's file are in the order of the calls of log() and  *)
(* of their line: an append that fails or is cut off leaves a torn line, never *)
(* a repeated one or one that comes late (audit.ts 19-25).                    *)
FileInOrder == \A s \in Sessions : InOrder(log[s])
=============================================================================
