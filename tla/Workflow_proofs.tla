--------------------------- MODULE Workflow_proofs ---------------------------
(* Proofs about the phases of a session and its state.json, for any number of *)
(* invocations, clients, calls, failed writes and restarts.                   *)
EXTENDS Workflow, TLAPS

USE FaultBound, BoundsAssumption, IdsAssumption

-----------------------------------------------------------------------------
(* Phases, artifacts and states                                              *)

LEMMA SixPhases ==
  /\ Len(Phases) = 6
  /\ Phases[1] = "proposal" /\ Phases[2] = "design" /\ Phases[3] = "spec"
  /\ Phases[4] = "task" /\ Phases[5] = "implementation" /\ Phases[6] = "review"
  BY DEF Phases

LEMMA ReviewedValues ==
  /\ Reviewed[1] = <<"proposal">> /\ Reviewed[2] = <<"design">> /\ Reviewed[3] = <<"spec">>
  /\ Reviewed[4] = <<"tasks", "task-assignment">>
<1>1. Reviewed[1] = <<"proposal">>
  BY SixPhases DEF Reviewed
<1>2. Reviewed[2] = <<"design">>
  BY SixPhases DEF Reviewed
<1>3. Reviewed[3] = <<"spec">>
  BY SixPhases DEF Reviewed
<1>4. Reviewed[4] = <<"tasks", "task-assignment">>
  BY SixPhases DEF Reviewed
<1> QED
  BY <1>1, <1>2, <1>3, <1>4

LEMMA LastArtifacts ==
  /\ Last(1) = "proposal" /\ Last(2) = "design" /\ Last(3) = "spec"
  /\ Last(4) = "task-assignment"
  /\ \A i \in 1 .. 4 : Last(i) \in Artifacts /\ Reviewed[i][1] \in Artifacts
<1>1. /\ Last(1) = "proposal" /\ Last(2) = "design" /\ Last(3) = "spec"
      /\ Last(4) = "task-assignment"
  BY ReviewedValues DEF Last
<1>2. /\ Reviewed[1][1] = "proposal" /\ Reviewed[2][1] = "design" /\ Reviewed[3][1] = "spec"
      /\ Reviewed[4][1] = "tasks"
  BY ReviewedValues
<1>3. \A i \in 1 .. 4 : i = 1 \/ i = 2 \/ i = 3 \/ i = 4
  OBVIOUS
<1> QED
  BY <1>1, <1>2, <1>3 DEF Artifacts

(* The key of a phase is that of its last artifact, but for nested specs.    *)
LEMMA KeyIsLast ==
  ASSUME NEW i \in 1 .. 4
  PROVE  (Nested /\ Phases[i] = "spec") \/ Key(i) = Last(i)
  BY DEF Key

LEMMA FreshTyped == Fresh \in State
  BY SixPhases DEF Fresh, State

LEMMA StateFields ==
  ASSUME NEW s \in State
  PROVE  /\ s.phase \in 1 .. 6 /\ s.stats \in 0 .. 1
         /\ s.outcome \in [Artifacts -> {"open", "approved"}]
  BY SixPhases DEF State

LEMMA StatesMade ==
  ASSUME session \in State
  PROVE  /\ [session EXCEPT !.stats = 1 - @] \in State
         /\ session.phase < Len(Phases) => NextPhase \in State
         /\ \A a \in Artifacts : \A o \in {"approved", "aborted"} : WithOutcome(a, o) \in State
<1>1. [session EXCEPT !.stats = 1 - @] \in State
  BY SixPhases DEF State
<1>2. session.phase < Len(Phases) => NextPhase \in State
  BY SixPhases DEF State, NextPhase
<1>3. ASSUME NEW a \in Artifacts, NEW o PROVE WithOutcome(a, o) \in State
  BY DEF State, WithOutcome
<1> QED
  BY <1>1, <1>2, <1>3

-----------------------------------------------------------------------------
(* Types, and what a step does to memory, file and updates                   *)

Slot == {NoWrite} \cup [at : {"begun", "open", "failed"}, img : State]

FlowOK ==
  /\ pc \in {"off", "serving", "boot", "review", "recorded", "assigned", "prompt", "advancing",
             "implement", "complete", "failed"}
  /\ pos \in 1 .. 4 /\ artifact \in Artifacts
  /\ result \in {"pending", "approved", "aborted"} /\ option \in {"proposal", "later"}
  /\ call \in [Clients -> {"idle", "review", "resolve", "write"}]
  /\ about \in [Clients -> Artifacts]
  /\ approved \subseteq Artifacts
  /\ refused \in BOOLEAN
  /\ calls \in 0 .. MaxCalls /\ starts \in 0 .. MaxStarts

HistoryOK == revoked \subseteq Artifacts /\ strayed \in BOOLEAN

Typed == StateOK(State) /\ FlowOK /\ HistoryOK /\ write \in [Writers -> Slot]

LEMMA TypedIsTypeOK == Typed => TypeOK
  BY DEF Typed, FlowOK, HistoryOK, TypeOK

(* No update is under way, and no call, when no process runs.                *)
NothingRuns ==
  pc = "off" => \A w \in Writers : write[w] = NoWrite

Forgets(w) == Failed(w) /\ Forget(w) /\ UNCHANGED <<session, file, unsettled, faults>>
Reloads == pc = "off" /\ Loads /\ session' = file.img /\ unsettled' = FALSE
           /\ UNCHANGED <<file, write, faults>>

(* Images of one state: each outcome in it was given once, and no phase is   *)
(* passed in it before its last artifact was approved.                       *)
Earned(s) == PassedIn(s) /\ \A a \in Artifacts : s.outcome[a] = "approved" => a \in approved

EveryImageEarned ==
  /\ Earned(session)
  /\ Loads => Earned(file.img)
  /\ \A w \in Writers : write[w].at # "no" => Earned(write[w].img)

(* The pipeline reviews artifacts of its phase.                              *)
AboutPhase ==
  pc \in {"review", "recorded"} =>
    IF pos = 4 THEN artifact \in {"tasks", "task-assignment"} ELSE artifact = Last(pos)

(* It is in the phase the session is in, and asks about what was approved.   *)
InStep ==
  /\ pc \in {"review", "recorded", "assigned", "prompt"} => session.phase = pos
  /\ pc = "recorded" /\ result = "approved" => artifact \in approved
  /\ pc \in {"assigned", "prompt"} => Last(pos) \in approved

LEMMA MainWrites == Main \in Writers /\ Agents \subseteq Writers /\ Clients \subseteq Writers
  BY WritersAssumption

LEMMA InitTyped == Init => Typed /\ NothingRuns
<1> SUFFICES ASSUME Init PROVE Typed /\ NothingRuns
  OBVIOUS
<1>1. write \in [Writers -> Slot] /\ \A w \in Writers : write[w] = NoWrite
  BY DEF Init, Created, Slot
<1>2. StateOK(State)
  <2>1. Full(Fresh).img = Fresh
    BY DEF Full
  <2>2. session = Fresh /\ file = Full(Fresh) /\ unsettled = FALSE /\ faults = 0
    BY DEF Init, Created
  <2>3. file.img \in State /\ file = Full(file.img)
    BY <2>1, <2>2, FreshTyped
  <2>4. faults \in 0 .. MaxFaults
    BY <2>2
  <2>5. unsettled \in BOOLEAN
    BY <2>2
  <2> QED
    BY <1>1, <2>2, <2>3, <2>4, <2>5, FreshTyped DEF StateOK
<1>3. FlowOK
  <2>1. /\ call \in [Clients -> {"idle", "review", "resolve", "write"}]
        /\ about \in [Clients -> Artifacts]
    BY DEF Init, Artifacts
  <2>2. calls \in 0 .. MaxCalls /\ starts \in 0 .. MaxStarts
    BY DEF Init
  <2>3. artifact \in Artifacts /\ approved \subseteq Artifacts /\ pos \in 1 .. 4
    BY DEF Init, Artifacts
  <2> QED
    BY <2>1, <2>2, <2>3 DEF Init, FlowOK
<1>4. HistoryOK
  <2>1. strayed \in BOOLEAN
    BY Zenon DEF Init
  <2> QED
    BY <2>1 DEF Init, HistoryOK
<1> QED
  BY <1>1, <1>2, <1>3, <1>4 DEF Typed, NothingRuns

(* What each kind of step leaves, as to types.                               *)
LEMMA SlotTyped ==
  ASSUME Typed, NEW w \in Writers
  PROVE  /\ write[w] \in Slot
         /\ write[w].at \in {"no", "begun", "open", "failed"}
         /\ write[w].at = "no" <=> write[w] = NoWrite
         /\ write[w].at # "no" => write[w].img \in State
  BY DEF Typed, Slot, NoWrite

LEMMA StateOKFromSlots ==
  ASSUME session' \in State,
         file' \in {Empty, Mixed} \/ (file'.img \in State /\ file' = Full(file'.img)),
         write' \in [Writers -> Slot], unsettled' \in BOOLEAN, faults' \in 0 .. MaxFaults
  PROVE  StateOK(State)'
<1>1. \A w \in Writers : write'[w] = NoWrite
         \/ (write'[w].at \in {"begun", "open", "failed"} /\ write'[w].img \in State)
  BY DEF Slot
<1> QED
  BY <1>1 DEF StateOK, Empty, Mixed, Full, NoWrite

LEMMA UpdateTyped ==
  ASSUME Typed, NEW w \in Writers, NEW s \in State, Update(w, s)
  PROVE  StateOK(State)' /\ write' \in [Writers -> Slot]
<1>1. write' \in [Writers -> Slot]
  BY DEF Typed, Update, Slot
<1>2. unsettled' \in BOOLEAN
  BY DEF Update, Busy
<1>3. file' \in {Empty, Mixed} \/ (file'.img \in State /\ file' = Full(file'.img))
  BY DEF Typed, StateOK, Update
<1> QED
  BY <1>1, <1>2, <1>3, StateOKFromSlots DEF Typed, StateOK, Update

LEMMA WriteStepTyped ==
  ASSUME Typed, NEW w \in Writers, WriteStep(w)
  PROVE  StateOK(State)' /\ write' \in [Writers -> Slot]
<1>0. write[w].at # "no" => write[w].img \in State
  BY SlotTyped
<1>1. CASE OpenFile(w)
  <2>1. write' \in [Writers -> Slot]
    BY <1>1, <1>0, SlotTyped DEF OpenFile, Typed, Slot
  <2> QED
    BY <1>1, <2>1, StateOKFromSlots DEF OpenFile, Typed, StateOK
<1>2. CASE WriteFile(w)
  <2>1. write' \in [Writers -> Slot]
    BY <1>2 DEF WriteFile, Typed, Slot
  <2>2. file' \in {Full(write[w].img), Mixed} /\ write[w].img \in State
    BY <1>2, <1>0 DEF WriteFile
  <2>3. Full(write[w].img).img = write[w].img
    BY DEF Full
  <2> QED
    BY <1>2, <2>1, <2>2, <2>3, StateOKFromSlots DEF WriteFile, Typed, StateOK
<1>3. CASE WriteFails(w)
  <2>1. write' \in [Writers -> Slot]
    BY <1>3, <1>0, SlotTyped DEF WriteFails, InFlight, Typed, Slot
  <2>2. faults' \in 0 .. MaxFaults
    BY <1>3 DEF WriteFails, Typed, StateOK
  <2>3. file' = file
    BY <1>3 DEF WriteFails
  <2> QED
    BY <1>3, <2>1, <2>2, <2>3, StateOKFromSlots DEF WriteFails, Typed, StateOK
<1> QED
  BY <1>1, <1>2, <1>3 DEF WriteStep

LEMMA ForgetsTyped ==
  ASSUME Typed, NEW w \in Writers, Forgets(w)
  PROVE  StateOK(State)' /\ write' \in [Writers -> Slot]
<1>1. write' \in [Writers -> Slot]
  BY DEF Forgets, Forget, Typed, Slot
<1> QED
  BY <1>1, StateOKFromSlots DEF Forgets, Typed, StateOK

LEMMA DieTyped ==
  ASSUME Typed, Die
  PROVE  StateOK(State)' /\ write' \in [Writers -> Slot]
<1>1. write' \in [Writers -> Slot] /\ unsettled' \in BOOLEAN
  BY DEF Die, Busy, Typed, StateOK, Slot
<1> QED
  BY <1>1, StateOKFromSlots DEF Die, Typed, StateOK

LEMMA ReloadsTyped ==
  ASSUME Typed, Reloads
  PROVE  StateOK(State)' /\ write' \in [Writers -> Slot]
<1>1. session' \in State
  BY DEF Reloads, Loads, Typed, StateOK, Empty, Mixed
<1> QED
  BY <1>1, StateOKFromSlots DEF Reloads, Typed, StateOK

LEMMA StillTyped ==
  ASSUME Typed, UNCHANGED stateVars
  PROVE  StateOK(State)' /\ write' \in [Writers -> Slot]
  BY StateOKFromSlots DEF stateVars, Typed, StateOK

-----------------------------------------------------------------------------
(* The kinds of steps                                                        *)

(* Where the state comes from that an update writes.                         *)
Advanceable ==
  \/ strayed' \/ pc = "prompt" \/ session.phase > 4
  \/ session.phase <= 4 /\ session.outcome[Last(session.phase)] = "approved"
NewState(s) ==
  \/ s = session
  \/ s = [session EXCEPT !.stats = 1 - @]
  \/ \E a \in Artifacts : \E o \in {"approved", "aborted"} :
       s = WithOutcome(a, o) /\ (o = "approved" => a \in approved')
  \/ s = NextPhase /\ Advanceable
  \/ s = file.img /\ Loads

Kind ==
  \/ UNCHANGED stateVars
  \/ \E w \in Writers, s \in State : Update(w, s) /\ NewState(s)
  \/ \E w \in Writers : WriteStep(w)
  \/ \E w \in Writers : Forgets(w)
  \/ Die
  \/ Reloads

ApprovalsKept == approved \subseteq approved'

LEMMA LoadedTyped ==
  ASSUME Typed, Loads PROVE file.img \in State
  BY DEF Typed, StateOK, Loads, Empty, Mixed

LEMMA StateSteps ==
  ASSUME Typed
  PROVE  /\ session \in State
         /\ [session EXCEPT !.stats = 1 - @] \in State
         /\ session.phase < Len(Phases) => NextPhase \in State
         /\ \A a \in Artifacts : \A o \in {"approved", "aborted"} : WithOutcome(a, o) \in State
         /\ session.phase \in 1 .. 6
         /\ session.phase <= 4 => session.phase \in 1 .. 4 /\ Last(session.phase) \in Artifacts
<1>1. session \in State
  BY DEF Typed, StateOK
<1>2. session.phase \in 1 .. 6
  BY <1>1, StateFields
<1> QED
  BY <1>1, <1>2, StatesMade, LastArtifacts

LEMMA NoteTyped ==
  ASSUME approved \subseteq Artifacts, NEW a \in Artifacts, NEW o, Note(a, o)
  PROVE  /\ approved' \subseteq Artifacts /\ approved \subseteq approved'
         /\ o = "approved" => a \in approved'
  BY DEF Note

(* Each step keeps the types and is of a kind.                               *)
LEMMA EnterTyped ==
  ASSUME FlowOK, NEW i \in 1 .. 5, NEW n \in 1 .. 6, EnterPhase(i, n)
  PROVE  /\ pc' \in {"review", "complete"} /\ pos' \in 1 .. 4 /\ artifact' \in Artifacts
         /\ pc' = "review" => n \in i .. 4 /\ pos' = n /\ artifact' = Reviewed[n][1]
<1> DEFINE at == {j \in i .. 4 : j = n}
<1>1. CASE at = {}
  BY <1>1 DEF EnterPhase, FlowOK
<1>2. CASE at # {}
  <2>1. n \in i .. 4 /\ n \in 1 .. 4
    BY <1>2
  <2> QED
    BY <1>2, <2>1, LastArtifacts DEF EnterPhase
<1> QED
  BY <1>1, <1>2

LEMMA StopTyped ==
  ASSUME Typed, Stop
  PROVE  FlowOK' /\ ApprovalsKept /\ Kind
<1>0. FlowOK
  BY DEF Typed
<1>1. /\ call' \in [Clients -> {"idle", "review", "resolve", "write"}]
      /\ about' \in [Clients -> Artifacts] /\ artifact' \in Artifacts
  BY DEF Stop, Artifacts
<1>2. Kind /\ ApprovalsKept
  BY DEF Stop, Kind, ApprovalsKept
<1>3. /\ pc' = "off" /\ pos' = 1 /\ result' = "pending" /\ option' = "later" /\ refused' = FALSE
      /\ UNCHANGED <<calls, approved, starts>>
  BY DEF Stop
<1>4. refused' \in BOOLEAN
  BY <1>3
<1> QED
  BY <1>0, <1>1, <1>2, <1>3, <1>4 DEF FlowOK

LEMMA PipelineTyped ==
  ASSUME Typed, Pipeline \/ Transition
  PROVE  FlowOK' /\ ApprovalsKept /\ Kind
<1> USE MainWrites, StateSteps
<1>0. FlowOK
  BY DEF Typed
<1>1. CASE Boot
  <2>1. pc' \in {"review", "complete"} /\ pos' \in 1 .. 4 /\ artifact' \in Artifacts
    <3>1. CASE option = "proposal" \/ session.phase = 1
      BY <1>1, <3>1 DEF Boot, Artifacts
    <3>2. CASE ~(option = "proposal" \/ session.phase = 1)
      <4>1. EnterPhase(2, session.phase)
        BY <1>1, <3>2 DEF Boot
      <4> QED
        BY <1>0, <4>1, EnterTyped
    <3> QED
      BY <3>1, <3>2
  <2> QED
    BY <1>0, <1>1, <2>1 DEF Boot, FlowOK, Kind, ApprovalsKept, client, history
<1>2. CASE Conclude
  <2>1. PICK o \in {"approved", "aborted"} :
          result' = o /\ Note(artifact, o) /\ Update(Main, WithOutcome(artifact, o))
    BY <1>2 DEF Conclude
  <2>2. /\ approved' \subseteq Artifacts /\ approved \subseteq approved'
        /\ o = "approved" => artifact \in approved'
    BY <1>0, <2>1, NoteTyped DEF FlowOK
  <2>3. Kind
    <3>1. artifact \in Artifacts
      BY <1>0 DEF FlowOK
    <3>2. NewState(WithOutcome(artifact, o))
      BY <3>1, <2>2 DEF NewState
    <3> QED
      BY <2>1, <3>1, <3>2 DEF Kind
  <2> QED
    BY <1>0, <1>2, <2>1, <2>2, <2>3 DEF Conclude, FlowOK, ApprovalsKept, client, history
<1>3. CASE ReviewThrows
  BY <1>0, <1>3 DEF ReviewThrows, FlowOK, Kind, ApprovalsKept, client, history
<1>4. CASE Recorded
  <2>1. /\ pc' \in {"failed", "review", "assigned", "prompt"} /\ artifact' \in Artifacts
        /\ UNCHANGED stateVars \/ Update(Main, session)
    BY <1>0, <1>4 DEF Recorded, PhaseAborted, TasksReviewed, PhaseReviewed, FlowOK, Artifacts
  <2>2. Kind
    BY <2>1 DEF Kind, NewState
  <2> QED
    BY <1>0, <1>4, <2>1, <2>2 DEF Recorded, FlowOK, ApprovalsKept, client, history
<1>5. CASE Assigned
  BY <1>0, <1>5 DEF Assigned, FlowOK, Kind, ApprovalsKept, client, history
<1>6. CASE Advanced
  <2>1. /\ pc' \in {"implement", "complete", "review"} /\ pos' \in 1 .. 4 /\ artifact' \in Artifacts
        /\ UNCHANGED stateVars \/ Update(Main, session)
    <3>1. CASE pos = 4
      BY <1>0, <1>6, <3>1 DEF Advanced, FlowOK
    <3>2. CASE pos # 4
      <4>1. EnterPhase(pos + 1, session.phase) /\ pos + 1 \in 1 .. 5 /\ UNCHANGED stateVars
        BY <1>0, <1>6, <3>2 DEF Advanced, FlowOK
      <4> QED
        BY <1>0, <4>1, EnterTyped
    <3> QED
      BY <3>1, <3>2
  <2>2. Kind
    BY <2>1 DEF Kind, NewState
  <2> QED
    BY <1>0, <1>6, <2>1, <2>2 DEF Advanced, FlowOK, ApprovalsKept, client, history
<1>7. CASE Implement
  BY <1>0, <1>7 DEF Implement, FlowOK, Kind, ApprovalsKept, client, history
<1>8. CASE MainFails
  <2>1. Forgets(Main)
    BY <1>8 DEF MainFails, Forgets
  <2> QED
    BY <1>0, <1>8, <2>1 DEF MainFails, FlowOK, Kind, ApprovalsKept, client, history
<1>9. CASE Stop
  BY <1>9, StopTyped
<1>10. CASE Transition
  <2>1. /\ pc' \in {"failed", "advancing"} /\ refused' \in BOOLEAN
        /\ \/ UNCHANGED stateVars
           \/ Update(Main, NextPhase) /\ pc = "prompt" /\ Advances(Key(pos))
    BY <1>0, <1>10 DEF Transition, FlowOK
  <2>2. Kind
    BY <2>1 DEF Kind, NewState, Advances, Advanceable
  <2> QED
    BY <1>0, <1>10, <2>1, <2>2 DEF Transition, FlowOK, ApprovalsKept, client, history
<1> QED
  BY <1>1, <1>2, <1>3, <1>4, <1>5, <1>6, <1>7, <1>8, <1>9, <1>10 DEF Pipeline, Exit, Leave

LEMMA ClientTyped ==
  ASSUME Typed, NEW c \in Clients, ClientStep(c)
  PROVE  FlowOK' /\ ApprovalsKept /\ Kind /\ UNCHANGED flow
<1> USE MainWrites, StateSteps
<1>0. FlowOK /\ c \in Writers /\ about[c] \in Artifacts
  BY DEF Typed, FlowOK
<1>1. CASE Submit(c)
  <2>1. PICK a \in Artifacts : Called(c, a, "review")
    BY <1>1 DEF Submit
  <2> QED
    BY <1>0, <1>1, <2>1 DEF Submit, Called, flow, FlowOK, Kind, ApprovalsKept, history
<1>2. CASE Resolve(c)
  <2>1. CASE \E a \in Ids, o \in {"approved", "aborted"} :
               /\ Called(c, a, "resolve")
               /\ NoteOfClient(a, o) /\ Update(c, WithOutcome(a, o))
    <3>1. PICK a \in Ids, o \in {"approved", "aborted"} :
               /\ Called(c, a, "resolve")
               /\ NoteOfClient(a, o) /\ Update(c, WithOutcome(a, o))
      BY <2>1
    <3>2. a \in Artifacts
      OBVIOUS
    <3>3. /\ approved' \subseteq Artifacts /\ approved \subseteq approved'
          /\ o = "approved" => a \in approved'
      BY <1>0, <3>1, <3>2, NoteTyped DEF FlowOK, NoteOfClient
    <3>4. NewState(WithOutcome(a, o))
      BY <3>2, <3>3 DEF NewState
    <3>5. Kind
      BY <1>0, <3>1, <3>2, <3>4 DEF Kind
    <3> QED
      BY <1>0, <1>2, <3>1, <3>2, <3>3, <3>5 DEF Resolve, Called, flow, FlowOK, ApprovalsKept
  <2>2. CASE Called(c, "other", "write") /\ Update(c, session) /\ UNCHANGED history
    <3>1. Kind
      BY <1>0, <2>2 DEF Kind, NewState
    <3>2. "other" \in Artifacts
      BY DEF Artifacts
    <3> QED
      BY <1>0, <1>2, <2>2, <3>1, <3>2
         DEF Resolve, Called, flow, FlowOK, ApprovalsKept, history
  <2> QED
    BY <1>2, <2>1, <2>2 DEF Resolve
<1>3. CASE Advance(c)
  <2>1. PICK a \in Ids :
          /\ Advances(a) /\ Called(c, a, "write")
          /\ strayed' = (strayed \/ ~InPlace(a))
    BY <1>3 DEF Advance
  <2>2. a \in Artifacts /\ Update(c, NextPhase) /\ NextPhase \in State
    BY <1>3, <2>1 DEF Advance, Advances
  <2>3. InPlace(a) \/ strayed'
    BY <2>1, Zenon
  <2>4. Advanceable
    BY <2>1, <2>3 DEF InPlace, Advanceable, Advances
  <2>5. Kind
    BY <1>0, <2>2, <2>4 DEF Kind, NewState
  <2> QED
    BY <1>0, <1>3, <2>1, <2>2, <2>5 DEF Advance, Called, flow, FlowOK, ApprovalsKept
<1>4. CASE Submitted(c)
  <2>2. PICK o \in {"approved", "aborted"} :
          NoteOfClient(about[c], o) /\ Update(c, WithOutcome(about[c], o))
    BY <1>4 DEF Submitted
  <2>3. /\ approved' \subseteq Artifacts /\ approved \subseteq approved'
        /\ o = "approved" => about[c] \in approved'
    BY <1>0, <2>2, NoteTyped DEF FlowOK, NoteOfClient
  <2>4. NewState(WithOutcome(about[c], o))
    BY <1>0, <2>3 DEF NewState
  <2>5. Kind
    BY <1>0, <2>2, <2>4 DEF Kind
  <2> QED
    BY <1>0, <1>4, <2>3, <2>5 DEF Submitted, Continues, flow, FlowOK, ApprovalsKept
<1>5. CASE Resolved(c)
  BY <1>0, <1>5 DEF Resolved, Continues, flow, FlowOK, ApprovalsKept, Kind, NewState, history
<1>6. CASE Returns(c)
  <2>1. Kind
    BY <1>0, <1>6 DEF Returns, Kind, Forgets, stateVars
  <2>2. /\ call' \in [Clients -> {"idle", "review", "resolve", "write"}]
        /\ about' \in [Clients -> Artifacts]
    BY <1>0, <1>6 DEF Returns, FlowOK, Artifacts
  <2> QED
    BY <1>0, <1>6, <2>1, <2>2 DEF Returns, flow, FlowOK, ApprovalsKept, history
<1> QED
  BY <1>1, <1>2, <1>3, <1>4, <1>5, <1>6 DEF ClientStep

LEMMA StepTyped ==
  ASSUME Typed, [Next]_vars
  PROVE  FlowOK' /\ ApprovalsKept /\ Kind
<1> USE MainWrites
<1>0. FlowOK
  BY DEF Typed
<1>1. CASE Start
  <2>1. file.img \in State /\ Update(Main, file.img) /\ NewState(file.img)
    BY <1>1, LoadedTyped DEF Start, NewState
  <2>2. PICK o \in Options : option' = o
    BY <1>1 DEF Start
  <2>3. option' \in {"proposal", "later"} /\ starts' \in 0 .. MaxStarts
    BY <1>0, <1>1, <2>2, OptionsAssumption DEF Start, FlowOK
  <2>4. Kind
    BY <2>1 DEF Kind
  <2> QED
    BY <1>0, <1>1, <2>3, <2>4 DEF Start, FlowOK, ApprovalsKept, client, history
<1>2. CASE Serve
  <2>1. Kind
    BY <1>2 DEF Serve, Kind, Reloads
  <2>2. starts' \in 0 .. MaxStarts
    BY <1>0, <1>2 DEF Serve, FlowOK
  <2> QED
    BY <1>0, <1>2, <2>1, <2>2 DEF Serve, FlowOK, ApprovalsKept, client, history
<1>3. CASE Kill
  BY <1>3, StopTyped DEF Kill
<1>4. CASE Pipeline \/ Transition
  BY <1>4, PipelineTyped
<1>5. ASSUME NEW a \in Agents, AgentSaves(a)
      PROVE  FlowOK' /\ ApprovalsKept /\ Kind
  <2>1. Update(a, [session EXCEPT !.stats = 1 - @])
    BY <1>5 DEF AgentSaves
  <2>2. Kind
    BY <2>1, StateSteps DEF Kind, NewState
  <2> QED
    BY <1>0, <1>5, <2>2 DEF AgentSaves, FlowOK, ApprovalsKept, flow, client, history
<1>6. ASSUME NEW a \in Agents, AgentGoesOn(a)
      PROVE  FlowOK' /\ ApprovalsKept /\ Kind
  BY <1>0, <1>6 DEF AgentGoesOn, Forgets, Kind, FlowOK, ApprovalsKept, flow, client, history
<1>7. CASE \E c \in Clients : ClientStep(c)
  BY <1>7, ClientTyped
<1>8. CASE \E w \in Writers : Write(w)
  BY <1>0, <1>8 DEF Write, Kind, FlowOK, ApprovalsKept, flow, client, history
<1>9. CASE UNCHANGED vars
  BY <1>0, <1>9 DEF vars, stateVars, Kind, FlowOK, ApprovalsKept, flow, client, history
<1> QED
  BY <1>1, <1>2, <1>3, <1>4, <1>5, <1>6, <1>7, <1>8, <1>9 DEF Next

\* What the histories of clients do in a step.
LEMMA HistoryKept ==
  ASSUME Typed, [Next]_vars
  PROVE  HistoryOK' /\ (strayed => strayed')
<1>0. HistoryOK /\ FlowOK
  BY DEF Typed
<1>1. CASE revoked' \subseteq revoked /\ strayed' = strayed
  BY <1>0, <1>1 DEF HistoryOK
<1>2. CASE Boot
  <2>1. strayed' = (strayed \/ (option = "proposal" /\ session.phase # 1)) /\ revoked' = revoked
    BY <1>2 DEF Boot
  <2>2. strayed' \in BOOLEAN /\ (strayed => strayed')
    BY <2>1, Zenon
  <2> QED
    BY <1>0, <2>1, <2>2 DEF HistoryOK
<1>3. ASSUME NEW a \in Artifacts, NEW o, NoteOfClient(a, o)
      PROVE  HistoryOK' /\ (strayed => strayed')
  BY <1>0, <1>3 DEF NoteOfClient, HistoryOK
<1>4. ASSUME NEW c \in Clients, Advance(c)
      PROVE  HistoryOK' /\ (strayed => strayed')
  <2>1. PICK a \in Ids : strayed' = (strayed \/ ~InPlace(a))
    BY <1>4 DEF Advance
  <2>2. strayed' \in BOOLEAN /\ (strayed => strayed')
    BY <2>1, Zenon
  <2> QED
    BY <1>0, <1>4, <2>2 DEF Advance, HistoryOK
<1>5. CASE Pipeline \/ Transition \/ Start \/ Serve \/ Kill
  <2>1. CASE Stop
    BY <1>1, <2>1 DEF Stop
  <2>2. CASE Conclude
    BY <1>1, <2>2 DEF Conclude
  <2> QED
    BY <1>1, <1>2, <1>5, <2>1, <2>2
       DEF Pipeline, ReviewThrows, Recorded, Assigned, Advanced, Implement, MainFails, Exit,
           Leave, Transition, Start, Serve, Kill, history
<1>6. ASSUME NEW c \in Clients, ClientStep(c)
      PROVE  HistoryOK' /\ (strayed => strayed')
  <2>1. CASE Submit(c) \/ Resolved(c) \/ Returns(c)
    BY <1>1, <2>1 DEF Submit, Resolved, Returns, history
  <2>2. CASE Submitted(c)
    <3>1. about[c] \in Artifacts
      BY <1>0 DEF FlowOK
    <3> QED
      BY <1>3, <2>2, <3>1 DEF Submitted
  <2>3. CASE Resolve(c)
    <3>1. CASE UNCHANGED history
      BY <1>1, <3>1 DEF history
    <3>2. CASE \E a \in Ids, o \in {"approved", "aborted"} : NoteOfClient(a, o)
      <4>1. PICK a \in Artifacts, o \in {"approved", "aborted"} : NoteOfClient(a, o)
        BY <3>2
      <4> QED
        BY <1>3, <4>1
    <3> QED
      BY <2>3, <3>1, <3>2 DEF Resolve
  <2> QED
    BY <1>4, <1>6, <2>1, <2>2, <2>3 DEF ClientStep
<1>7. CASE \/ \E a \in Agents : AgentSaves(a) \/ AgentGoesOn(a)
           \/ \E w \in Writers : Write(w)
           \/ UNCHANGED vars
  BY <1>1, <1>7 DEF AgentSaves, AgentGoesOn, Write, vars, history
<1> QED
  BY <1>5, <1>6, <1>7 DEF Next

LEMMA TypedKept ==
  ASSUME Typed, [Next]_vars
  PROVE  Typed'
<1>1. FlowOK' /\ Kind /\ HistoryOK'
  BY StepTyped, HistoryKept
<1>2. StateOK(State)' /\ write' \in [Writers -> Slot]
  BY <1>1, UpdateTyped, WriteStepTyped, ForgetsTyped, DieTyped, ReloadsTyped, StillTyped DEF Kind
<1> QED
  BY <1>1, <1>2 DEF Typed

-----------------------------------------------------------------------------
(* The file when nothing is being written                                    *)

(* Since the last update that began alone, no other has begun: at most one   *)
(* update is in flight, that of the state in memory, and until it ends the   *)
(* file is the old one or empty.                                             *)
Settled ==
  ~unsettled =>
    /\ \A w, v \in Writers : InFlight(w) /\ InFlight(v) => w = v
    /\ \A w \in Writers : /\ InFlight(w) => write[w].img = session
                          /\ write[w].at = "open" => file = Empty
    /\ ~Busy => file = Full(session)

FileInv == Typed /\ NothingRuns /\ Settled

LEMMA NothingRunsKept ==
  ASSUME Typed, NothingRuns, [Next]_vars
  PROVE  NothingRuns'
<1> USE MainWrites
<1> SUFFICES ASSUME pc' = "off" PROVE \A w \in Writers : write'[w] = NoWrite
  BY DEF NothingRuns
<1>1. CASE Die
  BY <1>1 DEF Die
<1>2. CASE pc = "off" /\ UNCHANGED write
  BY <1>2 DEF NothingRuns
<1>3. CASE Start \/ Serve
  BY <1>3 DEF Start, Serve
<1>4. CASE Kill \/ Pipeline
  <2>1. CASE Stop
    BY <1>1, <2>1 DEF Stop
  <2>2. CASE Boot \/ Advanced
    BY <2>2 DEF Boot, Advanced, EnterPhase
  <2>3. CASE Conclude \/ ReviewThrows \/ Recorded \/ Assigned \/ Implement \/ MainFails
    BY <2>3 DEF Conclude, ReviewThrows, Recorded, PhaseAborted, TasksReviewed, PhaseReviewed,
                Assigned, Implement, MainFails
  <2> QED
    BY <1>4, <2>1, <2>2, <2>3 DEF Kill, Pipeline, Exit, Leave
<1>5. CASE Transition
  BY <1>5 DEF Transition
<1>6. ASSUME NEW a \in Agents, AgentSaves(a) \/ AgentGoesOn(a)
      PROVE  pc = "off" /\ UNCHANGED write
  <2>1. pc' = pc
    BY <1>6 DEF AgentSaves, AgentGoesOn, flow
  <2>2. write[a] = NoWrite
    BY <2>1 DEF NothingRuns
  <2> QED
    BY <1>6, <2>1, <2>2 DEF AgentSaves, AgentGoesOn, Failed, NoWrite
<1>7. ASSUME NEW c \in Clients, ClientStep(c)
      PROVE  pc = "off" /\ UNCHANGED write
  <2>1. pc' = pc
    BY <1>7, ClientTyped DEF flow
  <2>2. write[c] = NoWrite
    BY <2>1 DEF NothingRuns
  <2> QED
    BY <1>7, <2>1, <2>2 DEF ClientStep, Submit, Resolve, Advance, Submitted, Resolved, Returns,
                            Called, Up, Failed, NoWrite
<1>8. ASSUME NEW w \in Writers, Write(w)
      PROVE  FALSE
  <2>1. write[w] = NoWrite
    BY <1>8 DEF Write, flow, NothingRuns
  <2> QED
    BY <1>8, <2>1 DEF Write, WriteStep, OpenFile, WriteFile, WriteFails, InFlight, NoWrite
<1>9. CASE UNCHANGED vars
  BY <1>2, <1>9 DEF vars, stateVars, flow
<1> QED
  BY <1>2, <1>3, <1>4, <1>5, <1>6, <1>7, <1>8, <1>9 DEF Next

LEMMA UpdateSettles ==
  ASSUME Typed, Settled, NEW w \in Writers, NEW s \in State, Update(w, s)
  PROVE  Settled'
<1> SUFFICES ASSUME ~unsettled' PROVE Settled'
  BY DEF Settled
<1>1. ~Busy
  BY DEF Update
<1>2. /\ write'[w] = [at |-> "begun", img |-> s] /\ session' = s
      /\ \A v \in Writers : v # w => write'[v] = write[v]
  BY DEF Update, Typed
<1>3. \A v \in Writers : (InFlight(v))' <=> v = w
  BY <1>1, <1>2 DEF InFlight, Busy
<1>4. Busy'
  BY <1>3 DEF Busy
<1>5. \A v \in Writers : write'[v].at # "open"
  BY <1>1, <1>2 DEF InFlight, Busy
<1> QED
  BY <1>2, <1>3, <1>4, <1>5 DEF Settled

LEMMA WriteStepSettles ==
  ASSUME Typed, Settled, NEW w \in Writers, WriteStep(w)
  PROVE  Settled'
<1> SUFFICES ASSUME ~unsettled' PROVE Settled'
  BY DEF Settled
<1>1. \A v \in Writers : v # w => write'[v] = write[v]
  BY DEF WriteStep, OpenFile, WriteFile, WriteFails, Typed
<1>2. CASE OpenFile(w)
  <2>1. /\ ~unsettled /\ file' = Empty /\ session' = session /\ InFlight(w)
        /\ write'[w].at = "open" /\ write'[w].img = write[w].img
    BY <1>2, SlotTyped DEF OpenFile, InFlight, Typed, Slot
  <2>2. \A v \in Writers : (InFlight(v))' <=> InFlight(v)
    BY <1>1, <2>1 DEF InFlight
  <2>3. Busy'
    BY <2>1, <2>2 DEF Busy
  <2> QED
    BY <1>1, <2>1, <2>2, <2>3 DEF Settled
<1>3. CASE WriteFile(w)
  <2>1. /\ ~unsettled /\ session' = session /\ InFlight(w) /\ file = Empty
        /\ write[w].img = session
    BY <1>3 DEF WriteFile, InFlight, Settled
  <2>2. file' = Full(session) /\ write'[w] = NoWrite
    BY <1>3, <2>1 DEF WriteFile, Typed
  <2>3. \A v \in Writers : ~(InFlight(v))'
    BY <1>1, <2>1, <2>2 DEF InFlight, Settled, NoWrite
  <2>4. \A v \in Writers : write'[v].at # "open"
    BY <2>3 DEF InFlight
  <2> QED
    BY <2>1, <2>2, <2>3, <2>4 DEF Settled
<1>4. CASE WriteFails(w)
  BY <1>4 DEF WriteFails
<1> QED
  BY <1>2, <1>3, <1>4 DEF WriteStep

LEMMA ForgetsSettles ==
  ASSUME Typed, Settled, NEW w \in Writers, Forgets(w)
  PROVE  Settled'
<1>1. /\ \A v \in Writers : v # w => write'[v] = write[v]
      /\ write'[w] = NoWrite /\ write[w].at = "failed"
  BY DEF Forgets, Forget, Failed, Typed
<1>2. \A v \in Writers : /\ (InFlight(v))' <=> InFlight(v)
                         /\ InFlight(v) => write'[v] = write[v]
                         /\ write'[v].at = "open" <=> write[v].at = "open"
  BY <1>1 DEF InFlight, NoWrite
<1>3. Busy' <=> Busy
  BY <1>2 DEF Busy
<1> QED
  BY <1>2, <1>3 DEF Settled, Forgets

LEMMA DieSettles ==
  ASSUME Settled, Die
  PROVE  Settled'
<1>1. \A v \in Writers : ~(InFlight(v))' /\ write'[v].at # "open"
  BY DEF Die, InFlight, NoWrite
<1>2. ~unsettled' => file = Full(session)
  BY DEF Die, Settled
<1> QED
  BY <1>1, <1>2 DEF Settled, Die

LEMMA ReloadsSettles ==
  ASSUME Typed, NothingRuns, Reloads
  PROVE  Settled'
<1>1. \A v \in Writers : ~(InFlight(v))' /\ write'[v].at # "open"
  BY DEF Reloads, NothingRuns, InFlight, NoWrite
<1>2. file' = Full(session')
  BY DEF Reloads, Loads, Typed, StateOK, Empty, Mixed
<1> QED
  BY <1>1, <1>2 DEF Settled

LEMMA FileInvKept ==
  ASSUME FileInv, [Next]_vars
  PROVE  FileInv'
<1>0. Typed /\ NothingRuns /\ Settled
  BY DEF FileInv
<1>1. CASE UNCHANGED stateVars
  <2>1. Settled'
    BY <1>0, <1>1 DEF stateVars, Settled, InFlight, Busy
  <2> QED
    BY <1>0, <2>1, TypedKept, NothingRunsKept DEF FileInv
<1>2. CASE ~(UNCHANGED stateVars)
  <2>1. Settled'
    BY <1>0, <1>2, StepTyped, UpdateSettles, WriteStepSettles, ForgetsSettles, DieSettles,
       ReloadsSettles DEF Kind
  <2> QED
    BY <1>0, <2>1, TypedKept, NothingRunsKept DEF FileInv
<1> QED
  BY <1>1, <1>2

LEMMA InitFileInv == Init => FileInv
<1> SUFFICES ASSUME Init PROVE FileInv
  OBVIOUS
<1>1. Typed /\ NothingRuns
  BY InitTyped
<1>2. file = Full(session) /\ \A w \in Writers : write[w] = NoWrite
  BY DEF Init, Created
<1>3. Settled
  BY <1>2 DEF Settled, InFlight, NoWrite
<1> QED
  BY <1>1, <1>3 DEF FileInv

LEMMA FileInvAlways == Spec => []FileInv
  BY InitFileInv, FileInvKept, PTL DEF Spec

(* The variables have their types.                                           *)
THEOREM WorkflowTyped == Spec => []TypeOK
<1>1. FileInv => TypeOK
  BY TypedIsTypeOK DEF FileInv
<1> QED
  BY <1>1, FileInvAlways, PTL

(* state.json is the state in memory whenever no update is under way, unless *)
(* updates overlapped or failed since the last one that began alone.         *)
THEOREM FileAlwaysQuiet == Spec => []QuietFile
<1>1. FileInv => QuietFile
  BY DEF FileInv, Settled, QuietFile
<1> QED
  BY <1>1, FileInvAlways, PTL

-----------------------------------------------------------------------------
(* The order of the phases                                                   *)

Ordered == EveryImageEarned /\ InStep
OrderInv == FileInv /\ AboutPhase /\ (strayed \/ Ordered)

LEMMA EnterInStep ==
  ASSUME FlowOK, NEW i \in 1 .. 5, NEW n \in 1 .. 6, EnterPhase(i, n), pc' = "review"
  PROVE  /\ pos' = n /\ n \in 1 .. 4
         /\ IF n = 4 THEN artifact' = "tasks" ELSE artifact' = Last(n)
<1>1. n \in i .. 4 /\ pos' = n /\ artifact' = Reviewed[n][1]
  BY EnterTyped
<1>2. n = 1 \/ n = 2 \/ n = 3 \/ n = 4
  BY <1>1
<1>3. CASE n = 4
  BY <1>1, <1>3, ReviewedValues
<1>4. CASE n # 4
  BY <1>1, <1>2, <1>4, ReviewedValues, LastArtifacts
<1> QED
  BY <1>1, <1>3, <1>4

LEMMA AboutPhaseKept ==
  ASSUME Typed, AboutPhase, [Next]_vars
  PROVE  AboutPhase'
<1>0. FlowOK /\ session.phase \in 1 .. 6
  BY StateSteps DEF Typed
<1>1. CASE Start \/ Serve \/ Kill \/ Exit \/ Leave \/ Transition \/ MainFails \/ Implement
           \/ ReviewThrows \/ Assigned
  BY <1>1 DEF Start, Serve, Kill, Exit, Leave, Stop, Transition, MainFails, Implement, ReviewThrows,
              Assigned, AboutPhase
<1>2. CASE Boot
  <2>1. CASE option = "proposal" \/ session.phase = 1
    BY <1>2, <2>1, LastArtifacts DEF Boot, AboutPhase
  <2>2. CASE ~(option = "proposal" \/ session.phase = 1)
    <3>1. EnterPhase(2, session.phase)
      BY <1>2, <2>2 DEF Boot
    <3> QED
      BY <1>0, <3>1, EnterInStep, EnterTyped DEF AboutPhase
  <2> QED
    BY <2>1, <2>2
<1>3. CASE Conclude
  BY <1>3 DEF Conclude, AboutPhase
<1>4. CASE Recorded
  BY <1>0, <1>4, LastArtifacts
     DEF Recorded, PhaseAborted, TasksReviewed, PhaseReviewed, AboutPhase, FlowOK
<1>5. CASE Advanced
  <2>1. CASE pos = 4
    BY <1>5, <2>1 DEF Advanced, AboutPhase
  <2>2. CASE pos # 4
    <3>1. EnterPhase(pos + 1, session.phase) /\ pos + 1 \in 1 .. 5
      BY <1>0, <1>5, <2>2 DEF Advanced, FlowOK
    <3> QED
      BY <1>0, <3>1, EnterInStep, EnterTyped DEF AboutPhase
  <2> QED
    BY <2>1, <2>2
<1>6. CASE UNCHANGED flow
  BY <1>6 DEF flow, AboutPhase
<1>7. ASSUME NEW c \in Clients, ClientStep(c)
      PROVE  UNCHANGED flow
  BY <1>7, ClientTyped
<1> QED
  BY <1>1, <1>2, <1>3, <1>4, <1>5, <1>6, <1>7
     DEF Next, Pipeline, AgentSaves, AgentGoesOn, Write, vars

LEMMA InStepKept ==
  ASSUME Typed, AboutPhase, InStep, ~strayed', [Next]_vars
  PROVE  InStep'
<1> USE MainWrites
<1>0. FlowOK /\ session \in State /\ session.phase \in 1 .. 6 /\ approved \subseteq approved'
  BY StateSteps, StepTyped DEF Typed, ApprovalsKept
<1>1. CASE Start \/ Serve \/ Kill \/ Exit \/ Leave \/ Transition \/ MainFails \/ Implement \/ ReviewThrows
  BY <1>1 DEF Start, Serve, Kill, Exit, Leave, Stop, Transition, MainFails, Implement, ReviewThrows,
              InStep
<1>2. CASE Boot
  <2>0. ~(option = "proposal" /\ session.phase # 1)
    BY <1>2, Zenon DEF Boot
  <2>1. CASE session.phase = 1
    BY <1>2, <2>1 DEF Boot, InStep, stateVars
  <2>2. CASE session.phase # 1
    <3>1. EnterPhase(2, session.phase) /\ session' = session
      BY <1>2, <2>0, <2>2 DEF Boot, stateVars
    <3> QED
      BY <1>0, <3>1, EnterTyped DEF InStep
  <2> QED
    BY <2>1, <2>2
<1>3. CASE Conclude
  <2>1. PICK o \in {"approved", "aborted"} :
          result' = o /\ Note(artifact, o) /\ session' = WithOutcome(artifact, o)
    BY <1>3 DEF Conclude, Update
  <2>2. session'.phase = session.phase
    BY <1>0, <2>1 DEF WithOutcome, State
  <2> QED
    BY <1>3, <2>1, <2>2 DEF Conclude, InStep, Note
<1>4. CASE Recorded
  <2>1. session' = session /\ pos' = pos /\ result' = result /\ pc = "recorded"
    BY <1>4 DEF Recorded, PhaseAborted, TasksReviewed, PhaseReviewed, Update, stateVars
  <2>2. session.phase = pos /\ (result = "approved" => artifact \in approved')
    BY <1>0, <2>1 DEF InStep
  <2>3. CASE PhaseAborted
    BY <2>3 DEF PhaseAborted, InStep
  <2>4. CASE TasksReviewed \/ PhaseReviewed
    <3>1. artifact \notin {"tasks"} => artifact = Last(pos)
      BY <1>0, <2>1, LastArtifacts DEF AboutPhase, FlowOK
    <3>2. /\ result = "approved" /\ pc' \in {"review", "assigned", "prompt"}
          /\ pc' \in {"assigned", "prompt"} => artifact # "tasks"
      BY <2>4 DEF TasksReviewed, PhaseReviewed
    <3>3. pc' \in {"assigned", "prompt"} => Last(pos) \in approved'
      BY <2>2, <3>1, <3>2
    <3> QED
      BY <2>1, <2>2, <3>2, <3>3 DEF InStep
  <2> QED
    BY <1>4, <2>3, <2>4 DEF Recorded
<1>5. CASE Assigned
  BY <1>0, <1>5 DEF Assigned, InStep, stateVars
<1>6. CASE Advanced
  <2>1. CASE pos = 4
    BY <1>6, <2>1 DEF Advanced, InStep
  <2>2. CASE pos # 4
    <3>1. EnterPhase(pos + 1, session.phase) /\ pos + 1 \in 1 .. 5 /\ session' = session
      BY <1>0, <1>6, <2>2 DEF Advanced, FlowOK, stateVars
    <3> QED
      BY <1>0, <3>1, EnterTyped DEF InStep
  <2> QED
    BY <2>1, <2>2
<1>7. ASSUME NEW a \in Agents, AgentSaves(a) \/ AgentGoesOn(a)
      PROVE  InStep'
  <2>1. session'.phase = session.phase
    BY <1>0, <1>7 DEF AgentSaves, AgentGoesOn, Update, State
  <2> QED
    BY <1>0, <1>7, <2>1 DEF AgentSaves, AgentGoesOn, flow, InStep
<1>8. ASSUME NEW c \in Clients, ClientStep(c)
      PROVE  InStep'
  <2>0. UNCHANGED flow
    BY <1>8, ClientTyped
  <2>1. CASE pc = "serving"
    BY <2>0, <2>1 DEF flow, InStep
  <2>2. CASE pc # "serving"
    <3>0. ~Advance(c)
      <4>1. ASSUME NEW a \in Ids PROVE strayed' # (strayed \/ ~InPlace(a))
        BY <2>2, Zenon DEF InPlace
      <4> QED
        BY <4>1 DEF Advance
    <3>1. session'.phase = session.phase
      BY <1>0, <1>8, <3>0
         DEF ClientStep, Submit, Resolve, Submitted, Resolved, Returns, Update,
             WithOutcome, State, stateVars
    <3> QED
      BY <1>0, <2>0, <3>1 DEF flow, InStep
  <2> QED
    BY <2>1, <2>2
<1>9. ASSUME NEW w \in Writers, Write(w)
      PROVE  InStep'
  BY <1>0, <1>9 DEF Write, WriteStep, OpenFile, WriteFile, WriteFails, flow, InStep
<1>10. CASE UNCHANGED vars
  BY <1>0, <1>10 DEF vars, stateVars, flow, InStep
<1> QED
  BY <1>1, <1>2, <1>3, <1>4, <1>5, <1>6, <1>7, <1>8, <1>9, <1>10 DEF Next, Pipeline

LEMMA EarnedStays ==
  ASSUME ApprovalsKept, NEW s, Earned(s)
  PROVE  Earned(s)'
  BY DEF ApprovalsKept, Earned, PassedIn

LEMMA NewStateEarned ==
  ASSUME Typed, Ordered, ~strayed', ApprovalsKept, NEW s \in State, NewState(s)
  PROVE  PassedIn(s)' /\ \A a \in Artifacts : s.outcome[a] = "approved" => a \in approved'
<1>0. /\ session \in State /\ session.phase \in 1 .. 6 /\ Earned(session)
      /\ session.outcome \in [Artifacts -> {"open", "approved"}]
      /\ s.phase \in 1 .. 6 /\ FlowOK
  BY StateSteps, StateFields DEF Ordered, EveryImageEarned, Typed
<1>1. CASE s = session \/ s = [session EXCEPT !.stats = 1 - @]
  <2>1. s.phase = session.phase /\ s.outcome = session.outcome
    BY <1>0, <1>1 DEF State
  <2> QED
    BY <1>0, <2>1 DEF Earned, PassedIn, ApprovalsKept
<1>2. CASE \E a \in Artifacts : \E o \in {"approved", "aborted"} :
             s = WithOutcome(a, o) /\ (o = "approved" => a \in approved')
  <2>1. PICK a \in Artifacts, o \in {"approved", "aborted"} :
          s = WithOutcome(a, o) /\ (o = "approved" => a \in approved')
    BY <1>2
  <2>2. s.phase = session.phase /\ s.outcome = [session.outcome EXCEPT ![a] = IF o = "approved" THEN "approved" ELSE "open"]
    BY <1>0, <2>1 DEF WithOutcome, State
  <2> QED
    BY <1>0, <2>1, <2>2 DEF Earned, PassedIn, ApprovalsKept
<1>3. CASE s = NextPhase /\ Advanceable
  <2>1. s.phase = session.phase + 1 /\ s.outcome = session.outcome
    BY <1>0, <1>3 DEF NextPhase, State
  <2>2. session.phase <= 4 => Last(session.phase) \in approved
    <3>1. CASE pc = "prompt"
      BY <3>1 DEF Ordered, InStep
    <3>2. CASE session.phase <= 4 /\ session.outcome[Last(session.phase)] = "approved"
      BY <1>0, <3>2, LastArtifacts DEF Earned
    <3> QED
      BY <1>0, <1>3, <3>1, <3>2 DEF Advanceable
  <2>3. \A i \in 1 .. 4 : s.phase > i => Last(i) \in approved
    BY <1>0, <2>1, <2>2 DEF Earned, PassedIn
  <2> QED
    BY <1>0, <2>1, <2>3 DEF Earned, PassedIn, ApprovalsKept
<1>4. CASE s = file.img /\ Loads
  BY <1>4 DEF Ordered, EveryImageEarned, Earned, PassedIn, ApprovalsKept
<1> QED
  BY <1>1, <1>2, <1>3, <1>4 DEF NewState

LEMMA ImagesEarned ==
  ASSUME Typed, Ordered, ~strayed', [Next]_vars
  PROVE  EveryImageEarned'
<1>0. Typed /\ ApprovalsKept /\ Kind /\ EveryImageEarned
  BY StepTyped DEF Ordered
<1>1. ASSUME NEW w \in Writers, NEW s \in State, Update(w, s), NewState(s)
      PROVE  EveryImageEarned'
  <2>1. PassedIn(s)' /\ \A a \in Artifacts : s.outcome[a] = "approved" => a \in approved'
    BY <1>0, <1>1, NewStateEarned
  <2>2. session' = s /\ file' = file /\ write'[w].img = s
        /\ \A v \in Writers : v # w => write'[v] = write[v]
    BY <1>0, <1>1 DEF Update, Typed
  <2>3. Earned(session)' /\ Earned(write[w].img)'
    BY <2>1, <2>2 DEF Earned, PassedIn
  <2>4. (Loads => Earned(file.img))'
    BY <1>0, <2>2 DEF EveryImageEarned, Loads, Earned, PassedIn, ApprovalsKept
  <2>5. \A v \in Writers : v # w => (write[v].at # "no" => Earned(write[v].img))'
    BY <1>0, <2>2 DEF EveryImageEarned, Earned, PassedIn, ApprovalsKept
  <2> QED
    BY <2>3, <2>4, <2>5 DEF EveryImageEarned
<1>2. ASSUME NEW w \in Writers, WriteStep(w)
      PROVE  EveryImageEarned'
  <2>1. /\ session' = session
        /\ \A v \in Writers : write'[v].at # "no" => write[v].at # "no" /\ write'[v].img = write[v].img
    <3>1. CASE OpenFile(w) \/ WriteFails(w)
      <4>1. /\ \A v \in Writers : v # w => write'[v] = write[v]
            /\ write[w].at # "no" /\ write'[w].img = write[w].img
        BY <1>0, <3>1, SlotTyped DEF OpenFile, WriteFails, InFlight, Typed, Slot
      <4> QED
        BY <3>1, <4>1 DEF OpenFile, WriteFails
    <3>2. CASE WriteFile(w)
      <4>1. /\ \A v \in Writers : v # w => write'[v] = write[v]
            /\ write'[w] = NoWrite /\ session' = session
        BY <1>0, <3>2 DEF WriteFile, Typed
      <4> QED
        BY <4>1 DEF NoWrite
    <3> QED
      BY <1>2, <3>1, <3>2 DEF WriteStep
  <2>2. file' = file \/ file'.st # "full" \/ (write[w].at # "no" /\ file'.img = write[w].img)
    BY <1>2 DEF WriteStep, OpenFile, WriteFile, WriteFails, Full, Empty, Mixed
  <2>3. (Loads => Earned(file.img))'
    BY <1>0, <2>2 DEF EveryImageEarned, Loads, Earned, PassedIn, ApprovalsKept
  <2> QED
    BY <1>0, <2>1, <2>3 DEF EveryImageEarned, Earned, PassedIn, ApprovalsKept
<1>3. ASSUME NEW w \in Writers, Forgets(w)
      PROVE  EveryImageEarned'
  <2>1. \A v \in Writers : write'[v].at # "no" => write'[v] = write[v]
    BY <1>0, <1>3 DEF Forgets, Forget, Typed, NoWrite
  <2> QED
    BY <1>0, <1>3, <2>1 DEF Forgets, EveryImageEarned, Loads, Earned, PassedIn, ApprovalsKept
<1>4. CASE Die
  BY <1>0, <1>4 DEF Die, NoWrite, EveryImageEarned, Loads, Earned, PassedIn, ApprovalsKept
<1>5. CASE Reloads
  BY <1>0, <1>5 DEF Reloads, EveryImageEarned, Loads, Earned, PassedIn, ApprovalsKept
<1>6. CASE UNCHANGED stateVars
  BY <1>0, <1>6 DEF stateVars, EveryImageEarned, Loads, Earned, PassedIn, ApprovalsKept
<1> QED
  BY <1>0, <1>1, <1>2, <1>3, <1>4, <1>5, <1>6 DEF Kind

LEMMA InitOrderInv == Init => OrderInv
<1> SUFFICES ASSUME Init PROVE OrderInv
  OBVIOUS
<1>1. /\ session = Fresh /\ file = Full(Fresh) /\ \A w \in Writers : write[w].at = "no"
      /\ pc = "off"
  BY DEF Init, Created, NoWrite
<1>2. Earned(Fresh)
  BY DEF Earned, PassedIn, Fresh
<1>3. EveryImageEarned
  BY <1>1, <1>2 DEF EveryImageEarned, Full
<1> QED
  BY <1>1, <1>3, InitFileInv DEF OrderInv, Ordered, InStep, AboutPhase

LEMMA OrderInvKept ==
  ASSUME OrderInv, [Next]_vars
  PROVE  OrderInv'
<1>1. FileInv' /\ AboutPhase'
  BY FileInvKept, AboutPhaseKept DEF OrderInv, FileInv
<1>2. ASSUME ~strayed' PROVE Ordered'
  <2>1. Typed /\ AboutPhase /\ (strayed => strayed')
    BY HistoryKept DEF OrderInv, FileInv
  <2>2. Ordered
    BY <1>2, <2>1 DEF OrderInv
  <2> QED
    BY <1>2, <2>1, <2>2, InStepKept, ImagesEarned DEF Ordered
<1> QED
  BY <1>1, <1>2 DEF OrderInv

(* No phase is passed, in memory or on disk, before its last artifact was    *)
(* approved: the phase tools of index.ts and workflow.ts, over any kills,    *)
(* resumes, failed or mixed writes, either --workflow, nested specs and any  *)
(* calls of clients, unless a client's advance_phase moved the phase under a *)
(* pipeline or for another phase's artifact, or a later phase was resumed    *)
(* with --workflow proposal.                                                 *)
THEOREM PhasesInOrder == Spec => []ReviewedInOrder
<1>1. OrderInv => ReviewedInOrder
  BY DEF OrderInv, Ordered, EveryImageEarned, Earned, ReviewedInOrder
<1> QED
  BY InitOrderInv, OrderInvKept, <1>1, PTL DEF Spec

-----------------------------------------------------------------------------
(* A run without clients                                                     *)

(* As long as no client has called, the pipeline is the only one to write    *)
(* between a review and the next step of the session.                        *)
Alone ==
  calls = 0 =>
    /\ \A c \in Clients : call[c] = "idle" /\ Saved(c)
    /\ pc \in {"recorded", "assigned", "prompt"} =>
         (\A a \in Agents : Saved(a)) /\ (unsettled => Failed(Main))
    /\ pc = "prompt" => Saved(Main)

LEMMA WithoutClients ==
  ASSUME FileInv, Alone, [Next]_vars, calls' = 0
  PROVE  calls = 0 /\ ~\E c \in Clients : ClientStep(c)
<1> USE MainWrites
<1>0. FlowOK
  BY DEF FileInv, Typed
<1>2. ASSUME NEW c \in Clients, ClientStep(c)
      PROVE  FALSE
  <2>1. calls = 0
    BY <1>0, <1>2 DEF ClientStep, Submit, Resolve, Advance, Submitted, Resolved, Returns, Called,
                      Continues, FlowOK
  <2>2. call[c] = "idle" /\ Saved(c)
    BY <2>1 DEF Alone
  <2> QED
    BY <1>2, <2>1, <2>2
       DEF ClientStep, Submit, Resolve, Advance, Submitted, Resolved, Returns, Called,
           Continues, Saved, Failed, FlowOK
<1>3. ASSUME ~\E c \in Clients : ClientStep(c)
      PROVE  calls = 0
  BY <1>3 DEF Next, Start, Serve, Kill, Stop, Pipeline, Boot, Conclude, ReviewThrows, Recorded, Assigned,
          Advanced, Implement, MainFails, Exit, Leave, Transition, AgentSaves, AgentGoesOn,
          Write, vars, client
<1> QED
  BY <1>2, <1>3

LEMMA AloneKept ==
  ASSUME FileInv, Alone, [Next]_vars
  PROVE  Alone'
<1> USE MainWrites
<1>0. Typed /\ FlowOK /\ NothingRuns /\ Settled
  BY DEF FileInv, Typed
<1> SUFFICES ASSUME calls' = 0 PROVE Alone'
  BY DEF Alone
<1>2. calls = 0 /\ ~\E c \in Clients : ClientStep(c)
  BY WithoutClients
<1>4. calls = 0 /\ \A c \in Clients : call[c] = "idle" /\ Saved(c)
  BY <1>2 DEF Alone
<1>5. ASSUME NEW c \in Clients
      PROVE  (call[c] = "idle" /\ Saved(c))'
  <2>1. c # Main /\ c \notin Agents /\ call[c] = "idle" /\ write[c].at = "no"
    BY <1>4, WritersAssumption DEF Saved
  <2>2. ASSUME NEW w \in Writers, Write(w)
        PROVE  w # c /\ write'[c] = write[c]
    BY <1>0, <2>1, <2>2 DEF Write, WriteStep, OpenFile, WriteFile, WriteFails, InFlight, Typed
  <2>3. ASSUME NEW a \in Agents, AgentSaves(a) \/ AgentGoesOn(a)
        PROVE  write'[c] = write[c]
    BY <1>0, <2>1, <2>3 DEF AgentSaves, AgentGoesOn, Update, Forget, Typed
  <2>4. CASE Stop
    BY <2>4 DEF Stop, Die, NoWrite, Saved
  <2>5. CASE Pipeline \/ Transition \/ Start \/ Serve
    <3>1. CASE ~Stop
      <4>1. write'[c] = write[c]
        BY <1>0, <2>1, <2>5, <3>1
           DEF Pipeline, Boot, Conclude, ReviewThrows, Recorded, PhaseAborted, TasksReviewed,
               PhaseReviewed, Assigned, Advanced, Implement, MainFails, Exit, Leave, Transition,
               Start, Serve, Update, Forget, stateVars, Typed
      <4>2. call' = call
        BY <2>5, <3>1
           DEF Pipeline, Boot, Conclude, ReviewThrows, Recorded, Assigned, Advanced, Implement,
               MainFails, Exit, Leave, Transition, Start, Serve, client
      <4> QED
        BY <2>1, <4>1, <4>2 DEF Saved
    <3> QED
      BY <2>4, <3>1
  <2> QED
    BY <1>2, <2>1, <2>2, <2>3, <2>4, <2>5
       DEF Next, Kill, Write, AgentSaves, AgentGoesOn, client, vars, stateVars, Saved
<1> DEFINE Still == pc \in {"recorded", "assigned", "prompt"}
<1>6. ASSUME Still'
      PROVE  /\ (\A a \in Agents : Saved(a))' /\ (unsettled => Failed(Main))'
             /\ (pc = "prompt" => Saved(Main))'
  <2>1. CASE Conclude
    <3>1. Update(Main, session') /\ \A a \in Agents : write[a].at = "no"
      BY <2>1 DEF Conclude, Update, ReviewDone, Saved
    <3>2. ~Busy
      BY <1>4, <3>1, WritersAssumption DEF Busy, InFlight, Saved, Update
    <3>3. unsettled' = FALSE /\ \A a \in Agents : write'[a] = write[a]
      BY <1>0, <3>1, <3>2, WritersAssumption DEF Update, Typed
    <3> QED
      BY <2>1, <3>1, <3>3 DEF Conclude, Saved
  <2>2. CASE Recorded
    <3>1. (\A a \in Agents : write[a].at = "no") /\ write[Main].at = "no" /\ ~unsettled
      BY <1>4, <2>2 DEF Alone, Recorded, Saved, Failed
    <3>2. ~Busy
      BY <1>4, <3>1, WritersAssumption DEF Busy, InFlight, Saved
    <3>3. CASE UNCHANGED stateVars
      BY <3>1, <3>3 DEF stateVars, Saved, Failed
    <3>4. CASE Update(Main, session) /\ pc' = "assigned"
      <4>1. unsettled' = FALSE /\ \A a \in Agents : write'[a] = write[a]
        BY <1>0, <3>2, <3>4, WritersAssumption DEF Update, Typed
      <4> QED
        BY <3>1, <3>4, <4>1 DEF Saved
    <3> QED
      BY <2>2, <3>3, <3>4 DEF Recorded, PhaseAborted, TasksReviewed, PhaseReviewed
  <2>3. CASE Assigned
    BY <1>4, <2>3 DEF Alone, Assigned, stateVars, Saved, Failed
  <2>4. ASSUME NEW w \in Writers, Write(w)
        PROVE  /\ (\A a \in Agents : Saved(a))' /\ (unsettled => Failed(Main))'
               /\ (pc = "prompt" => Saved(Main))'
    <3>1. Still /\ pc' = pc
      BY <1>6, <2>4 DEF Write, flow
    <3>2. w = Main
      BY <1>4, <2>4, <3>1, WritersAssumption
         DEF Alone, Write, WriteStep, OpenFile, WriteFile, WriteFails, InFlight, Saved
    <3>3. \A a \in Agents : write'[a] = write[a]
      BY <1>0, <2>4, <3>2, WritersAssumption
         DEF Write, WriteStep, OpenFile, WriteFile, WriteFails, Typed
    <3>4. pc # "prompt"
      BY <1>4, <2>4, <3>2
         DEF Alone, Write, WriteStep, OpenFile, WriteFile, WriteFails, InFlight, Saved
    <3>5. (unsettled => Failed(Main))'
      <4>1. CASE WriteFails(Main)
        BY <1>0, <4>1, SlotTyped DEF WriteFails, Failed, Typed, InFlight, Slot
      <4>2. CASE OpenFile(Main) \/ WriteFile(Main)
        BY <1>4, <3>1, <4>2 DEF Alone, OpenFile, WriteFile, Failed
      <4> QED
        BY <2>4, <3>2, <4>1, <4>2 DEF Write, WriteStep
    <3> QED
      BY <1>4, <3>1, <3>3, <3>4, <3>5 DEF Alone, Saved
  <2>5. ASSUME NEW a \in Agents, AgentSaves(a) \/ AgentGoesOn(a)
        PROVE  FALSE
    BY <1>4, <1>6, <2>5 DEF Alone, AgentSaves, AgentGoesOn, flow, Saved, Failed
  <2>6. CASE UNCHANGED vars
    BY <1>4, <1>6, <2>6 DEF Alone, vars, stateVars, flow, client, Saved, Failed
  <2>7. ASSUME Start \/ Serve \/ Stop \/ Boot \/ ReviewThrows \/ Advanced \/ Implement \/ MainFails
               \/ Transition
        PROVE  FALSE
    BY <1>6, <2>7 DEF Start, Serve, Stop, Boot, EnterPhase, ReviewThrows, Advanced, Implement,
                      MainFails, Transition
  <2> QED
    BY <1>2, <2>1, <2>2, <2>3, <2>4, <2>5, <2>6, <2>7 DEF Next, Kill, Pipeline, Exit, Leave
<1> QED
  BY <1>5, <1>6 DEF Alone

LEMMA InitAlone == Init => Alone
<1> SUFFICES ASSUME Init PROVE Alone
  OBVIOUS
<1>1. pc = "off" /\ \A c \in Clients : call[c] = "idle"
  BY DEF Init
<1>2. \A w \in Writers : Saved(w)
  BY DEF Init, Created, Saved, NoWrite
<1> QED
  BY <1>1, <1>2, MainWrites DEF Alone

(* What the operator is asked about is on disk, unless clients write too:    *)
(* the run awaits session.update() after each of its steps, and nothing it   *)
(* has not awaited is still writing.                                         *)
THEOREM AlwaysSavedWhenAsked == Spec => []SavedWhenAsked
<1>1. FileInv /\ Alone /\ [Next]_vars => FileInv' /\ Alone'
  BY FileInvKept, AloneKept
<1>2. ASSUME FileInv, Alone, pc = "prompt", calls = 0
      PROVE  file = Full(session)
  <2>1. \A w \in Writers : Saved(w)
    BY <1>2, WritersAssumption DEF Alone
  <2>2. ~Busy /\ ~unsettled
    BY <1>2, <2>1 DEF Alone, Busy, InFlight, Saved, Failed
  <2> QED
    BY <1>2, <2>2 DEF FileInv, Settled
<1>3. FileInv /\ Alone => SavedWhenAsked
  BY <1>2 DEF SavedWhenAsked
<1> QED
  BY InitFileInv, InitAlone, <1>1, <1>3, PTL DEF Spec

-----------------------------------------------------------------------------
(* What the last review said                                                 *)

(* What the pipeline's review approved is approved in the state, or a client *)
(* has revoked it; a refusal ends the run, so nothing changes after it.      *)
Approves(a) == a \in revoked \/ session.outcome[a] = "approved"
Told ==
  /\ pc = "recorded" /\ result = "approved" => Approves(artifact)
  /\ pc \in {"assigned", "prompt"} => Approves(Last(pos))
Refusals == refused => pc = "failed"

ToldInv == Typed /\ AboutPhase /\ Told /\ Refusals /\ ApprovedAdvances

LEMMA ClientApprovals ==
  ASSUME Typed, NEW c \in Clients, ClientStep(c), NEW b \in Artifacts, Approves(b)
  PROVE  Approves(b)'
<1>0. session \in State /\ about[c] \in Artifacts
  BY StateSteps DEF Typed, FlowOK
<1>1. CASE session'.outcome[b] = session.outcome[b] /\ revoked' = revoked
  BY <1>1 DEF Approves
<1>2. ASSUME NEW a \in Artifacts, NEW o \in {"approved", "aborted"},
             NoteOfClient(a, o), session' = WithOutcome(a, o)
      PROVE  Approves(b)'
  <2>1. session'.outcome[b] = IF a # b THEN session.outcome[b]
                              ELSE IF o = "approved" THEN "approved" ELSE "open"
    BY <1>0, <1>2 DEF WithOutcome, State
  <2> QED
    BY <1>2, <2>1 DEF NoteOfClient, Approves
<1>3. CASE Submit(c) \/ Returns(c) \/ Resolved(c)
  BY <1>1, <1>3 DEF Submit, Returns, Resolved, Update, stateVars, history
<1>4. CASE Submitted(c)
  BY <1>0, <1>2, <1>4 DEF Submitted, Update
<1>5. CASE Resolve(c)
  <2>1. CASE UNCHANGED history /\ Update(c, session)
    BY <1>1, <2>1 DEF history, Update
  <2>2. CASE \E a \in Ids, o \in {"approved", "aborted"} :
               NoteOfClient(a, o) /\ session' = WithOutcome(a, o)
    <3>1. PICK a \in Artifacts, o \in {"approved", "aborted"} :
               NoteOfClient(a, o) /\ session' = WithOutcome(a, o)
      BY <2>2
    <3> QED
      BY <1>2, <3>1
  <2> QED
    BY <1>5, <2>1, <2>2 DEF Resolve, Update
<1>6. CASE Advance(c)
  <2>1. session'.outcome = session.outcome
    BY <1>0, <1>6 DEF Advance, Update, NextPhase, State
  <2> QED
    BY <1>1, <1>6, <2>1 DEF Advance
<1> QED
  BY <1>3, <1>4, <1>5, <1>6 DEF ClientStep

LEMMA ToldKept ==
  ASSUME ToldInv, [Next]_vars
  PROVE  Told'
<1>0. Typed /\ FlowOK /\ session \in State /\ AboutPhase /\ Told /\ Last(pos) \in Artifacts
  BY StateSteps, LastArtifacts DEF ToldInv, Typed, FlowOK
<1>1. CASE Conclude
  <2>1. PICK o \in {"approved", "aborted"} : result' = o /\ session' = WithOutcome(artifact, o)
    BY <1>1 DEF Conclude, Update
  <2>2. o = "approved" => session'.outcome[artifact] = "approved"
    BY <1>0, <2>1 DEF WithOutcome, State, FlowOK
  <2> QED
    BY <1>1, <2>1, <2>2 DEF Conclude, Told, Approves
<1>2. CASE Recorded
  <2>1. /\ session' = session /\ pos' = pos /\ revoked' = revoked /\ pc = "recorded"
        /\ result' = result
    BY <1>2 DEF Recorded, PhaseAborted, TasksReviewed, PhaseReviewed, Update, stateVars, history
  <2>2. CASE PhaseAborted
    BY <2>2 DEF PhaseAborted, Told
  <2>3. CASE TasksReviewed \/ PhaseReviewed
    <3>1. artifact \notin {"tasks"} => artifact = Last(pos)
      BY <1>0, <2>1, LastArtifacts DEF AboutPhase, FlowOK
    <3>2. /\ result = "approved" /\ pc' \in {"review", "assigned", "prompt"}
          /\ pc' \in {"assigned", "prompt"} => artifact # "tasks"
      BY <2>3 DEF TasksReviewed, PhaseReviewed
    <3>3. pc' \in {"assigned", "prompt"} => Approves(Last(pos))
      BY <1>0, <2>1, <3>1, <3>2 DEF Told
    <3> QED
      BY <2>1, <3>2, <3>3 DEF Told, Approves
  <2> QED
    BY <1>2, <2>2, <2>3 DEF Recorded
<1>3. CASE UNCHANGED <<session, flow, history>>
  BY <1>0, <1>3 DEF Told, Approves, flow, history
<1>4. CASE Assigned
  BY <1>0, <1>4 DEF Assigned, Told, Approves, stateVars, history
<1>5. ASSUME NEW a \in Agents, AgentSaves(a)
      PROVE  Told'
  BY <1>5 DEF AgentSaves, flow, Told
<1>6. ASSUME NEW c \in Clients, ClientStep(c)
      PROVE  Told'
  <2>1. UNCHANGED flow
    BY <1>0, <1>6, ClientTyped
  <2>2. /\ artifact \in Artifacts
        /\ Approves(artifact) => Approves(artifact)'
        /\ Approves(Last(pos)) => Approves(Last(pos))'
    <3>1. \A b \in Artifacts : Approves(b) =>
             (b \in revoked' \/ session'.outcome[b] = "approved")
      BY <1>0, <1>6, ClientApprovals DEF Approves
    <3> QED
      BY <1>0, <2>1, <3>1 DEF Approves, FlowOK, flow
  <2> QED
    BY <1>0, <2>1, <2>2 DEF Told, flow
<1>7. CASE Start \/ Serve \/ Stop \/ Boot \/ ReviewThrows \/ Advanced \/ Implement \/ MainFails
           \/ Transition
  BY <1>7 DEF Start, Serve, Stop, Boot, EnterPhase, ReviewThrows, Advanced, Implement,
              MainFails, Transition, Told
<1> QED
  BY <1>1, <1>2, <1>3, <1>4, <1>5, <1>6, <1>7
     DEF Next, Kill, Pipeline, Exit, Leave, AgentGoesOn, Write, WriteStep, OpenFile, WriteFile,
         WriteFails, vars, stateVars

LEMMA RefusalsKept ==
  ASSUME ToldInv, [Next]_vars
  PROVE  Refusals' /\ ApprovedAdvances'
<1>0. /\ Typed /\ FlowOK /\ session \in State /\ session.phase \in 1 .. 6
      /\ Told /\ Refusals /\ ApprovedAdvances
  BY StateSteps DEF ToldInv, Typed
<1>1. CASE Transition
  <2>1. ASSUME ~Advances(Key(pos)), ~(Nested /\ Phases[pos] = "spec")
        PROVE  Last(pos) \in revoked \/ session.phase = Len(Phases)
    <3>1. Key(pos) = Last(pos) /\ Approves(Last(pos))
      BY <1>0, <1>1, <2>1, KeyIsLast DEF Transition, Told, FlowOK
    <3> QED
      BY <1>0, <2>1, <3>1, SixPhases DEF Advances, Approves
  <2>2. ~refused
    BY <1>0, <1>1 DEF Refusals, Transition
  <2>3. CASE UNCHANGED refused
    BY <2>2, <2>3 DEF Refusals, ApprovedAdvances, AdvanceAfterApproval
  <2>4. CASE ~Advances(Key(pos)) /\ pc' = "failed" /\ UNCHANGED stateVars
    BY <1>1, <2>1, <2>4 DEF Transition, Refusals, ApprovedAdvances, AdvanceAfterApproval,
                            stateVars, history
  <2> QED
    BY <1>1, <2>3, <2>4 DEF Transition
<1>2. CASE ~refused'
  BY <1>2 DEF Refusals, ApprovedAdvances, AdvanceAfterApproval
<1>3. CASE Stop
  BY <1>2, <1>3 DEF Stop
<1>4. CASE UNCHANGED <<pc, pos, refused, session, revoked>>
  BY <1>0, <1>4 DEF Refusals, ApprovedAdvances, AdvanceAfterApproval
<1>5. ASSUME pc # "failed", UNCHANGED refused
      PROVE  ~refused'
  BY <1>0, <1>5 DEF Refusals
<1>6. ASSUME NEW c \in Clients, ClientStep(c)
      PROVE  UNCHANGED <<pc, pos, refused, session, revoked>> \/ ~refused'
  <2>1. UNCHANGED flow
    BY <1>0, <1>6, ClientTyped
  <2>2. CASE pc # "failed"
    BY <1>5, <2>1, <2>2 DEF flow
  <2>3. CASE pc = "failed"
    BY <1>6, <2>1, <2>3
       DEF ClientStep, Submit, Submitted, Resolve, Resolved, Advance, Returns, Called, Up, flow,
           history
  <2> QED
    BY <2>2, <2>3
<1>7. CASE \/ Start \/ Serve \/ Boot \/ Conclude \/ ReviewThrows \/ Recorded \/ Assigned
           \/ Advanced \/ Implement \/ MainFails
           \/ \E a \in Agents : AgentSaves(a)
  <2>1. pc # "failed" /\ UNCHANGED refused
    BY <1>7 DEF Start, Serve, Boot, Conclude, ReviewThrows, Recorded, Assigned, Advanced,
                Implement, MainFails, Running, AgentSaves, flow
  <2> QED
    BY <1>2, <1>5, <2>1
<1>8. CASE \/ \E a \in Agents : AgentGoesOn(a)
           \/ \E w \in Writers : Write(w)
           \/ UNCHANGED vars
  BY <1>4, <1>8 DEF AgentGoesOn, Write, WriteStep, OpenFile, WriteFile, WriteFails, vars,
                    stateVars, flow, history
<1> QED
  BY <1>1, <1>2, <1>3, <1>4, <1>6, <1>7, <1>8 DEF Next, Kill, Pipeline, Exit, Leave

(* A phase whose last artifact is approved is not refused the transition by  *)
(* advancePhaseTool, with either --workflow and any calls of clients, unless *)
(* a client has revoked that approval or there is no later phase; specs in   *)
(* directories of their own are the exception, see AdvanceAfterApproval.     *)
THEOREM ApprovalAdvances == Spec => []ApprovedAdvances
<1>1. ToldInv /\ [Next]_vars => ToldInv'
  BY TypedKept, AboutPhaseKept, ToldKept, RefusalsKept DEF ToldInv
<1>2. Init => ToldInv
  <2> SUFFICES ASSUME Init PROVE ToldInv
    OBVIOUS
  <2>1. Typed
    BY InitTyped
  <2>2. pc = "off" /\ ~refused
    BY DEF Init
  <2> QED
    BY <2>1, <2>2 DEF ToldInv, AboutPhase, Told, Refusals, ApprovedAdvances, AdvanceAfterApproval
<1>3. ToldInv => ApprovedAdvances
  BY DEF ToldInv
<1> QED
  BY <1>1, <1>2, <1>3, PTL DEF Spec
=============================================================================
