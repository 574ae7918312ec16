---------------------------- MODULE SessionState ----------------------------
(* SessionManager (session.ts): update() replaces the state in memory at once *)
(* and then writes all of it over state.json.  The file is opened with        *)
(* O_TRUNC and written in place, and updates do not wait for each other.      *)
EXTENDS Naturals, FiniteSets

CONSTANTS
  Writers,        \* whoever awaits an update
  NoState,        \* no image of the state
  MaxFaults       \* bound on writes that fail

ASSUME FaultBound == MaxFaults \in Nat

VARIABLES
  session,        \* the state in memory
  file,           \* state.json
  write,          \* the update each writer awaits
  unsettled,      \* history: an update overlapped another, or failed, since
                  \* the last one that began alone
  faults

stateVars == <<session, file, write, unsettled, faults>>

Empty == [st |-> "empty", img |-> NoState]
Mixed == [st |-> "mixed", img |-> NoState]
Full(s) == [st |-> "full", img |-> s]

NoWrite == [at |-> "no", img |-> NoState]
InFlight(w) == write[w].at \in {"begun", "open"}
Busy == \E w \in Writers : InFlight(w)

\* create(): the initial state is written before anything else runs.
Created(s) ==
  /\ session = s /\ file = Full(s)
  /\ write = [w \in Writers |-> NoWrite]
  /\ unsettled = FALSE /\ faults = 0

UpdateEarly(w, s) ==         \* mutant: the image is taken before the patch
  /\ write[w].at = "no"
  /\ session' = s
  /\ write' = [write EXCEPT ![w] = [at |-> "begun", img |-> session]]
  /\ unsettled' = Busy
  /\ UNCHANGED <<file, faults>>

\* The part of update() that nothing interrupts.
Update(w, s) ==
  /\ write[w].at = "no"
  /\ session' = s
  /\ write' = [write EXCEPT ![w] = [at |-> "begun", img |-> s]]
  /\ unsettled' = Busy
  /\ UNCHANGED <<file, faults>>

OpenFile(w) ==
  /\ write[w].at = "begun"
  /\ write' = [write EXCEPT ![w].at = "open"]
  /\ file' = Empty
  /\ UNCHANGED <<session, unsettled, faults>>

\* Written over what another update has left there meanwhile, an image parses
\* only if it covers it.
WriteFile(w) ==
  /\ write[w].at = "open"
  /\ write' = [write EXCEPT ![w] = NoWrite]
  /\ file' \in IF file \in {Empty, Full(write[w].img)}
               THEN {Full(write[w].img)} ELSE {Full(write[w].img), Mixed}
  /\ UNCHANGED <<session, unsettled, faults>>

WriteFails(w) ==
  /\ InFlight(w) /\ faults < MaxFaults
  /\ write' = [write EXCEPT ![w].at = "failed"]
  /\ unsettled' = TRUE /\ faults' = faults + 1
  /\ UNCHANGED <<session, file>>

WriteStep(w) == OpenFile(w) \/ WriteFile(w) \/ WriteFails(w)

\* The writer goes on: its update is done, or was rejected.
Saved(w) == write[w].at = "no"
Failed(w) == write[w].at = "failed"
Forget(w) == write' = [write EXCEPT ![w] = NoWrite]

\* The process dies in the middle of its writes.
Die ==
  /\ write' = [w \in Writers |-> NoWrite] /\ unsettled' = (unsettled \/ Busy)
  /\ UNCHANGED <<session, file, faults>>

\* load(): JSON.parse and SessionState.parse throw on anything else.
Loads == file.st = "full"

StateOK(State) ==
  /\ session \in State
  /\ file \in {Empty, Mixed} \/ (file.img \in State /\ file = Full(file.img))
  /\ \A w \in Writers :
       write[w] = NoWrite \/ (write[w].at \in {"begun", "open", "failed"} /\ write[w].img \in State)
  /\ unsettled \in BOOLEAN
  /\ faults \in 0 .. MaxFaults

(* When no update is under way the file is the state in memory, unless        *)
(* updates overlapped or failed: then it may be older, or unreadable.         *)
QuietFile == ~Busy /\ ~unsettled => file = Full(session)
=============================================================================
