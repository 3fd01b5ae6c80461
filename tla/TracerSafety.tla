------------------------------ MODULE TracerSafety ------------------------------
(***************************************************************************)
(* The safety of the recorder's streams, proved for every program: the     *)
(* steps are the visits, snapshots are at their location, tables come      *)
(* before mentions, arguments reach their call.  Each property of the      *)
(* writer is first shown to survive every call of the writer's interface,  *)
(* then every action of the recorder.                                      *)
(***************************************************************************)
EXTENDS TracerProofs

LEMMA AppendLast ==
  ASSUME NEW S, NEW s \in Seq(S), NEW e \in S
  PROVE  /\ Append(s, e) # <<>> /\ Append(s, e)[Len(Append(s, e))] = e
         /\ s # <<>> => Tail(Append(s, e)) = Append(Tail(s), e)
         /\ \A k \in 1..Len(s) : Append(s, e)[k] = s[k]
         /\ Len(Append(s, e)) = Len(s) + 1
  OBVIOUS

LEMMA Singleton == ASSUME NEW e PROVE <<e>> # <<>> /\ Tail(<<e>>) = <<>>
  OBVIOUS

(* The parts of the writer's state that most calls leave alone.            *)
SameSteps(a, b) == b.steps = a.steps /\ b.values = a.values
SameTables(a, b) ==
    b.tables = a.tables /\ b.late = a.late /\ b.refused = a.refused /\ b.steps = a.steps
SameCalls(a, b) == b.calls = a.calls /\ b.staged = a.staged

LEMMA ReturnKeeps ==
  ASSUME NEW wr \in WriterType
  PROVE  LET x == Return(wr)
         IN  SameSteps(wr, x) /\ SameTables(wr, x) /\ SameCalls(wr, x)
  BY DEF Return, WriterType, SameSteps, SameTables, SameCalls

LEMMA EventKeeps ==
  ASSUME NEW wr \in WriterType, NEW kind, NEW name
  PROVE  LET x == Event(wr, kind, name)
         IN  SameSteps(wr, x) /\ SameTables(wr, x) /\ SameCalls(wr, x)
  BY DEF Event, WriterType, SameSteps, SameTables, SameCalls

LEMMA StageKeeps ==
  ASSUME NEW wr \in WriterType, NEW s
  PROVE  LET x == AtStage(wr, s)
         IN  SameSteps(wr, x) /\ SameTables(wr, x) /\ SameCalls(wr, x)
  BY DEF AtStage, WriterType, SameSteps, SameTables, SameCalls

LEMMA StageArgsKeeps ==
  ASSUME NEW wr \in WriterType
  PROVE  LET x == StageArgs(wr)
         IN  SameSteps(wr, x) /\ SameTables(wr, x) /\ x.calls = wr.calls /\ x.staged = TRUE
  BY DEF StageArgs, WriterType, SameSteps, SameTables

LEMMA ValuesKeeps ==
  ASSUME NEW wr \in WriterType, NEW pc, NEW operand
  PROVE  LET x == Values(wr, pc, operand)
         IN  /\ SameTables(wr, x) /\ SameCalls(wr, x)
             /\ x.values = Append(wr.values, [pc |-> pc, operand |-> operand, step |-> Len(wr.steps)])
  BY DEF Values, WriterType, SameTables, SameCalls

LEMMA RegisterPathKeeps ==
  ASSUME NEW wr \in WriterType, NEW p \in Paths, NEW known, NEW accepted \in BOOLEAN
  PROVE  LET x == RegisterPath(wr, known, p, accepted)
         IN  SameSteps(wr, x) /\ SameCalls(wr, x)
  BY DEF RegisterPath, Offer, Refuse, WriterType, SameSteps, SameCalls

LEMMA MentionKeeps ==
  ASSUME NEW wr \in WriterType, NEW p \in Paths
  PROVE  LET x == Mention(wr, p)
         IN  /\ SameSteps(wr, x) /\ SameCalls(wr, x)
             /\ x.late = wr.late /\ x.refused = wr.refused
             /\ x.tables = IF wr.tables[p] = Unset THEN [wr.tables EXCEPT ![p] = Default]
                           ELSE wr.tables
  BY DEF Mention, WriterType, SameSteps, SameCalls

LEMMA CallKeeps ==
  ASSUME NEW wr \in WriterType, NEW fn, NEW p \in Paths
  PROVE  LET x == Call(wr, fn, p)
             m == Mention(wr, p)
         IN  /\ SameSteps(m, x) /\ SameTables(m, x)
             /\ SameSteps(wr, x)
             /\ x.staged = FALSE
             /\ x.calls = Append(wr.calls, [fn |-> fn, args |-> wr.staged, step |-> Len(wr.steps)])
<1> DEFINE m == Mention(wr, p)
<1>1. m \in WriterType /\ SameSteps(wr, m) /\ SameCalls(wr, m)
  BY MentionType, MentionKeeps
<1> HIDE DEF m
<1>2. LET x == [m EXCEPT !.frames = Append(@, fn),
                         !.calls = Append(@, [fn |-> fn, args |-> wr.staged, step |-> Len(wr.steps)]),
                         !.staged = FALSE]
      IN  /\ SameSteps(m, x) /\ SameTables(m, x) /\ SameSteps(wr, x) /\ x.staged = FALSE
          /\ x.calls = Append(m.calls, [fn |-> fn, args |-> wr.staged, step |-> Len(wr.steps)])
  BY <1>1 DEF WriterType, SameSteps, SameTables
<1>3. QED
  BY <1>1, <1>2 DEF Call, m, SameCalls

LEMMA StepAtKeeps ==
  ASSUME NEW wr \in WriterType, NEW loc \in Location
  PROVE  LET x == StepAt(wr, loc)
             m == Mention(wr, loc.path)
         IN  /\ x.steps = Append(wr.steps, loc) /\ x.values = wr.values
             /\ x.tables = m.tables /\ x.late = m.late /\ x.refused = m.refused
             /\ SameCalls(wr, x)
<1> DEFINE m == Mention(wr, loc.path)
<1>0. loc.path \in Paths
  BY DEF Location
<1>1. m \in WriterType /\ SameSteps(wr, m) /\ SameCalls(wr, m)
  BY <1>0, MentionType, MentionKeeps
<1> HIDE DEF m
<1>2. LET x == [m EXCEPT !.steps = Append(@, loc)]
      IN  /\ x.steps = Append(m.steps, loc) /\ x.values = m.values
          /\ x.tables = m.tables /\ x.late = m.late /\ x.refused = m.refused
          /\ SameCalls(m, x)
  BY <1>1 DEF WriterType, SameCalls
<1>3. QED
  BY <1>1, <1>2 DEF StepAt, m, SameCalls, SameSteps

-----------------------------------------------------------------------------
(* The steps and the snapshots.  Only StartTrace and OnStep touch them.    *)

Early == {"prepare", "begin", "paths", "start"}

LEMMA HostEventKeeps ==
  ASSUME NEW wr \in WriterType, NEW index
  PROVE  LET x == HostEvent(wr, index)
         IN  SameSteps(wr, x) /\ SameTables(wr, x) /\ SameCalls(wr, x)
<1>1. SameSteps(wr, wr) /\ SameTables(wr, wr) /\ SameCalls(wr, wr)
  BY DEF SameSteps, SameTables, SameCalls
<1>2. CASE index = 4
  BY <1>2, EventKeeps DEF HostEvent
<1>3. CASE index = 28
  BY <1>3, EventKeeps DEF HostEvent
<1>4. CASE index \in {5, 6, 7, 9, 19, 20}
  BY <1>4, EventKeeps DEF HostEvent
<1>5. CASE index \notin {4, 28, 5, 6, 7, 9, 19, 20}
  BY <1>1, <1>5 DEF HostEvent
<1>6. QED
  BY <1>2, <1>3, <1>4, <1>5

(* What an instruction says in the trace is a call, a return or an event,  *)
(* or nothing.                                                             *)
LEMMA NoteInstructionShape ==
  ASSUME NEW wr, NEW pc \in PCs, NEW operand
  PROVE  LET x == NoteInstruction(wr, Code[pc], operand)
         IN  \/ x = wr
             \/ x = Return(wr)
             \/ \E name \in EventNames : x = Event(wr, "Error", name)
             \/ \E t \in PCs : x = Call(wr, FnAt(t), BlobPath)
<1>1. CASE Code[pc].op = "load_imm_and_jump"
  <2>1. PICK t \in PCs : Code[pc].to = {t}
    BY <1>1, CodeAssumption
  <2>2. (CHOOSE u \in Code[pc].to : TRUE) = t
    BY <2>1
  <2>3. NoteInstruction(wr, Code[pc], operand) = Call(wr, FnAt(t), BlobPath)
    BY <1>1, <2>2 DEF NoteInstruction, Listed
  <2>4. QED
    BY <2>3
<1>2. CASE Code[pc].op = "jump_indirect" /\ Code[pc].base = "RA"
  BY <1>2 DEF NoteInstruction, Listed
<1>3. CASE Code[pc].op = "div"
  BY <1>3 DEF NoteInstruction, NoteDivision, Listed, EventNames
<1>4. CASE Listed(Code[pc])
  BY <1>4 DEF NoteInstruction, NoteMisalignment, Listed, EventNames
<1>5. CASE /\ Code[pc].op # "load_imm_and_jump" /\ Code[pc].op # "div"
           /\ ~(Code[pc].op = "jump_indirect" /\ Code[pc].base = "RA")
           /\ ~Listed(Code[pc])
  BY <1>5 DEF NoteInstruction
<1>6. QED
  BY <1>1, <1>2, <1>3, <1>4, <1>5

LEMMA NoteInstructionKeeps ==
  ASSUME NEW wr \in WriterType, NEW pc \in PCs, NEW operand
  PROVE  SameSteps(wr, NoteInstruction(wr, Code[pc], operand))
<1>1. SameSteps(wr, wr) /\ SameSteps(wr, Return(wr))
  BY ReturnKeeps DEF SameSteps
<1>2. ASSUME NEW name PROVE SameSteps(wr, Event(wr, "Error", name))
  BY EventKeeps
<1>3. ASSUME NEW t PROVE SameSteps(wr, Call(wr, FnAt(t), BlobPath))
  BY CallKeeps, TracerAssumption
<1>4. QED
  BY <1>1, <1>2, <1>3, NoteInstructionShape

(* What an action other than StartTrace and OnStep does to the phase and   *)
(* the writer: it calls the writer in one of a few ways.                   *)
LEMMA Shape ==
  ASSUME TypeOK, [Next]_vars, ~StartTrace, ~OnStep, ~RegisterSource, ~RegisterBlob
  PROVE  /\ UNCHANGED <<registered, prev_line, visited>>
         /\ \/ w' = w
            \/ \E s \in {"begun", "described", "closed"} : w' = AtStage(w, s)
            \/ w' = Return(w)
            \/ w' = AtStage(Return(w), "finished")
            \/ \E name \in TerminalErrors : w' = Return(Event(w, "Error", name))
            \/ /\ phase = "run"
               /\ \E index \in Nat :
                    LET r == Return(HostEvent(Call(StageArgs(w), HostFn(index), BlobPath), index))
                    IN  w' = r \/ w' = Event(r, "Error", "unhandled_host_function")
         /\ phase' \in {"prepare", "begin"} => phase \in {"prepare", "begin"}
         /\ phase' = "paths" => phase \in {"begin", "paths"}
         /\ phase' = "start" => phase = "start"
         /\ phase' \in {"instantiate", "run"} => phase \in {"instantiate", "run"}
<1>1. CASE UNCHANGED vars
  BY <1>1 DEF vars
<1>2. CASE Prepare \/ Begin \/ Instantiate \/ WriteMeta \/ Close
  BY <1>2 DEF Prepare, Begin, Instantiate, WriteMeta, Close, Fails
<1>3. CASE RunGuest
  BY <1>3 DEF RunGuest
<1>4. CASE OnRunError \/ Finish
  BY <1>4 DEF OnRunError, Finish, Fails
<1>5. CASE OnFinished
  BY <1>5 DEF OnFinished, LeaveLoop
<1>6. CASE OnTrap \/ OnSegfault \/ OnNotEnoughGas
  BY <1>6 DEF OnTrap, OnSegfault, OnNotEnoughGas, LeaveLoop, TrapName, TerminalErrors
<1>7. CASE OnEcalli
  <2>1. interrupt.index \in Nat
    BY DEF TypeOK, VmTypeOK
  <2>2. QED
    BY <1>7, <2>1 DEF OnEcalli, LeaveLoop
<1>8. CASE Returned
  BY <1>1, <1>8 DEF Returned
<1>9. QED
  BY <1>1, <1>2, <1>3, <1>4, <1>5, <1>6, <1>7, <1>8 DEF Next

LEMMA ShapeKeepsSteps ==
  ASSUME TypeOK, [Next]_vars, ~StartTrace, ~OnStep
  PROVE  SameSteps(w, w')
<1>1. w \in WriterType /\ SameSteps(w, w)
  BY DEF TypeOK, SameSteps
<1>2. BlobPath \in Paths /\ MappedPaths \subseteq Paths
  BY TracerAssumption DEF MappedPaths, Location
<1>3. CASE RegisterSource \/ RegisterBlob
  BY <1>1, <1>2, <1>3, RegisterPathKeeps DEF RegisterSource, RegisterBlob
<1>4. Return(w) \in WriterType /\ SameSteps(w, Return(w))
  BY <1>1, ReturnType, ReturnKeeps
<1>5. ASSUME NEW s PROVE SameSteps(w, AtStage(w, s)) /\ SameSteps(w, AtStage(Return(w), s))
  BY <1>1, <1>4, StageKeeps DEF SameSteps
<1>6. ASSUME NEW name \in TerminalErrors
      PROVE  SameSteps(w, Return(Event(w, "Error", name)))
  <2>1. Event(w, "Error", name) \in WriterType
    BY <1>1, EventType DEF EventKinds, EventNames
  <2>2. QED
    BY <1>1, <2>1, EventKeeps, ReturnKeeps DEF SameSteps
<1>7. ASSUME NEW index \in Nat
      PROVE  LET r == Return(HostEvent(Call(StageArgs(w), HostFn(index), BlobPath), index))
             IN  SameSteps(w, r) /\ SameSteps(w, Event(r, "Error", "unhandled_host_function"))
  <2> DEFINE c == Call(StageArgs(w), HostFn(index), BlobPath)
             h == HostEvent(c, index)
  <2>1. HostFn(index) \in Fn
    BY DEF HostFn, Fn
  <2> DEFINE a == StageArgs(w)
  <2>0. a \in WriterType /\ SameSteps(w, a)
    BY <1>1, StageArgsType, StageArgsKeeps
  <2> HIDE DEF a
  <2>2. c \in WriterType /\ SameSteps(a, c)
    BY <1>2, <2>0, <2>1, CallType, CallKeeps DEF a
  <2> HIDE DEF c
  <2>3. h \in WriterType /\ SameSteps(c, h)
    BY <2>2, HostEventType, HostEventKeeps
  <2> HIDE DEF h
  <2>4. Return(h) \in WriterType /\ SameSteps(h, Return(h))
    BY <2>3, ReturnType, ReturnKeeps
  <2>5. SameSteps(Return(h), Event(Return(h), "Error", "unhandled_host_function"))
    BY <2>4, EventKeeps
  <2>6. QED
    BY <2>0, <2>2, <2>3, <2>4, <2>5 DEF SameSteps, c, h
<1>8. QED
  BY <1>1, <1>3, <1>4, <1>5, <1>6, <1>7, Shape

(* prev_line is the last visit and, once there is one, the last step.      *)
StepInv ==
    /\ prev_line = NoLine <=> visited = <<>>
    /\ visited # <<>> => prev_line = visited[Len(visited)]
    /\ visited # <<>> => w.steps # <<>> /\ w.steps[Len(w.steps)] = prev_line
    /\ phase \in Early => w.steps = <<>>
    /\ phase \in {"instantiate", "run"} => w.steps # <<>>

(* The writer an OnStep leaves: its steps and snapshots.                   *)
LEMMA OnStepSteps ==
  ASSUME TypeOK, OnStep
  PROVE  LET here == LocationOf(vm.pc)
         IN  /\ here \in Location /\ vm.pc \in PCs /\ vm.operand \in Nat
             /\ prev_line' = here /\ visited' = Append(visited, here)
             /\ w'.steps = IF here = prev_line THEN w.steps ELSE Append(w.steps, here)
             /\ w'.values = Append(w.values, [pc |-> vm.pc, operand |-> vm.operand, step |-> Len(w'.steps)])
<1> DEFINE here == LocationOf(vm.pc)
<1>1. /\ vm.pc \in PCs /\ vm.operand \in Nat /\ w \in WriterType
      /\ here \in Location /\ here.path \in Paths
  BY LocationOfType DEF TypeOK, VmTypeOK, Location
<1>2. PICK accepted \in BOOLEAN :
        w' = NoteInstruction(Values(NoteStep(w, here, accepted), vm.pc, vm.operand), Current, vm.operand)
  BY DEF OnStep
<1> DEFINE s == NoteStep(w, here, accepted)
           v == Values(s, vm.pc, vm.operand)
<1>3. /\ s \in WriterType /\ s.values = w.values
      /\ s.steps = IF here = prev_line THEN w.steps ELSE Append(w.steps, here)
  <2> DEFINE r == RegisterPath(w, registered, here.path, accepted)
  <2>1. r \in WriterType /\ SameSteps(w, r)
    BY <1>1, RegisterPathType, RegisterPathKeeps
  <2> HIDE DEF r
  <2>2. /\ StepAt(r, here) \in WriterType /\ StepAt(r, here).values = r.values
        /\ StepAt(r, here).steps = Append(r.steps, here)
    BY <1>1, <2>1, StepAtType, StepAtKeeps
  <2>3. s = IF here = prev_line THEN w ELSE StepAt(r, here)
    BY DEF NoteStep, r
  <2>4. QED
    BY <1>1, <2>1, <2>2, <2>3 DEF SameSteps
<1>4. prev_line' = here /\ visited' = Append(visited, here)
  BY DEF OnStep
<1> HIDE DEF s
<1>5. /\ v \in WriterType /\ v.steps = s.steps
      /\ v.values = Append(s.values, [pc |-> vm.pc, operand |-> vm.operand, step |-> Len(s.steps)])
  <2>1. v \in WriterType
    BY <1>1, <1>3, ValuesType
  <2>2. QED
    BY <1>3, <2>1, ValuesKeeps DEF SameTables
<1> HIDE DEF v
<1>6. SameSteps(v, NoteInstruction(v, Current, vm.operand))
  BY <1>1, <1>5, NoteInstructionKeeps DEF Current
<1>7. QED
  BY <1>1, <1>2, <1>3, <1>4, <1>5, <1>6 DEF SameSteps, s, v

LEMMA StartTraceSteps ==
  ASSUME TypeOK, StartTrace, w.steps = <<>>
  PROVE  /\ UNCHANGED <<prev_line, visited>> /\ phase' = "instantiate"
         /\ w'.values = w.values
         /\ w'.steps = <<At(BlobPath, 1, 0)>>
<1> DEFINE loc == At(BlobPath, 1, 0)
           c == Call(w, Toplevel, loc.path)
           s == StepAt(c, loc)
<1>1. /\ w \in WriterType /\ loc \in Location /\ loc.path \in Paths /\ BlobPath \in Paths
      /\ Toplevel \in Fn /\ EntryFn \in Fn
  BY TracerAssumption DEF TypeOK, At, Location, Toplevel, EntryFn, Fn
<1>2. w' = Call(s, EntryFn, BlobPath)
  BY DEF StartTrace, Start
<1> HIDE DEF loc
<1>3. c \in WriterType /\ SameSteps(w, c)
  BY <1>1, CallType, CallKeeps
<1> HIDE DEF c
<1>4. s \in WriterType /\ s.steps = Append(c.steps, loc) /\ s.values = c.values
  BY <1>1, <1>3, StepAtType, StepAtKeeps
<1> HIDE DEF s
<1>5. SameSteps(s, Call(s, EntryFn, BlobPath))
  BY <1>1, <1>4, CallKeeps
<1>6. w'.steps = Append(<<>>, loc) /\ w'.values = w.values
  BY <1>2, <1>3, <1>4, <1>5 DEF SameSteps
<1>7. QED
  BY <1>1, <1>6 DEF StartTrace, loc

LEMMA StepInvStep ==
  ASSUME TypeOK, StepInv, [Next]_vars
  PROVE  StepInv'
<1>1. CASE StartTrace
  <2>1. w.steps = <<>>
    BY <1>1 DEF StartTrace, StepInv, Early
  <2>2. visited = <<>>
    BY <2>1 DEF StepInv
  <2>3. w'.steps # <<>>
    BY <1>1, <2>1, StartTraceSteps, Singleton
  <2>4. QED
    BY <1>1, <2>1, <2>2, <2>3, StartTraceSteps DEF StepInv, Early
<1>2. CASE OnStep
  <2> DEFINE here == LocationOf(vm.pc)
  <2>1. /\ here \in Location /\ here # NoLine
        /\ prev_line' = here /\ visited' = Append(visited, here)
        /\ w'.steps = IF here = prev_line THEN w.steps ELSE Append(w.steps, here)
    BY <1>2, OnStepSteps, TracerAssumption
  <2>2. /\ w.steps \in Seq(Location) /\ visited \in Seq(Location) /\ w.steps # <<>>
    BY <1>2, WriterFields DEF TypeOK, OnStep, StepInv
  <2> HIDE DEF here
  <2>3. visited' # <<>> /\ visited'[Len(visited')] = here
    BY <2>1, <2>2
  <2>4. w'.steps # <<>> /\ w'.steps[Len(w'.steps)] = here
    <3>1. CASE here = prev_line
      <4>1. visited # <<>>
        BY <2>1, <3>1 DEF StepInv
      <4>2. QED
        BY <2>1, <2>2, <3>1, <4>1 DEF StepInv
    <3>2. CASE here # prev_line
      <4>1. w'.steps = Append(w.steps, here)
        BY <2>1, <3>2
      <4>2. QED
        BY <2>1, <2>2, <4>1, AppendLast
    <3>3. QED
      BY <3>1, <3>2
  <2>5. phase' = "run"
    BY <1>2 DEF OnStep
  <2>6. QED
    BY <2>1, <2>3, <2>4, <2>5 DEF StepInv, Early
<1>3. CASE ~StartTrace /\ ~OnStep
  <2>1. w'.steps = w.steps
    BY <1>3, ShapeKeepsSteps DEF SameSteps
  <2>2. UNCHANGED <<prev_line, visited>>
    BY <1>3, Shape DEF RegisterSource, RegisterBlob
  <2>3. /\ phase' \in Early => phase \in Early
        /\ phase' \in {"instantiate", "run"} => phase \in {"instantiate", "run"}
    BY <1>3, Shape DEF RegisterSource, RegisterBlob, Early
  <2>4. QED
    BY <2>1, <2>2, <2>3 DEF StepInv
<1>4. QED
  BY <1>1, <1>2, <1>3

LEMMA StepInvInit == Init => StepInv
  BY DEF Init, NewWriter, StepInv, Early

(* prev_line always is the last visit and the last step.                   *)
THEOREM StepInvariant == Spec => []StepInv
<1>1. TypeOK /\ StepInv /\ [Next]_vars => StepInv'
  BY StepInvStep
<1>2. QED
  BY <1>1, StepInvInit, TypeCorrect, PTL DEF Spec

(* The recorded steps are the visited locations with repetitions told      *)
(* once: the recorder implements StepTrace.                                *)
THEOREM StepsImplementVisits == Spec => StepsAreTheVisits
<1>1. Init => Steps!Init
  BY DEF Init, NewWriter, Steps!Init, RecordedSteps
<1>2. TypeOK /\ StepInv /\ [Next]_vars => [Steps!Next]_<<visited, RecordedSteps>>
  <2> SUFFICES ASSUME TypeOK, StepInv, [Next]_vars
               PROVE  Steps!Next \/ UNCHANGED <<visited, RecordedSteps>>
    OBVIOUS
  <2>1. CASE StartTrace
    <3>1. w.steps = <<>>
      BY <2>1 DEF StartTrace, StepInv, Early
    <3>2. RecordedSteps = <<>> /\ RecordedSteps' = <<>>
      BY <2>1, <3>1, StartTraceSteps, Singleton DEF RecordedSteps
    <3>3. QED
      BY <2>1, <3>1, <3>2, StartTraceSteps
  <2>2. CASE OnStep
    <3> DEFINE here == LocationOf(vm.pc)
    <3>1. /\ here \in Location /\ here # NoLine /\ vm.pc \in PCs
          /\ prev_line' = here /\ visited' = Append(visited, here)
          /\ w'.steps = IF here = prev_line THEN w.steps ELSE Append(w.steps, here)
      BY <2>2, OnStepSteps, TracerAssumption
    <3>2. /\ w.steps \in Seq(Location) /\ visited \in Seq(Location) /\ w.steps # <<>>
      BY <2>2, WriterFields DEF TypeOK, OnStep, StepInv
    <3>3. here \in {LocationOf(pc) : pc \in PCs}
      BY <3>1
    <3> HIDE DEF here
    <3>4. Steps!Ends(visited, here) <=> here = prev_line
      BY <3>1, <3>2 DEF StepInv, Steps!Ends
    <3>5. RecordedSteps' = IF here = prev_line THEN RecordedSteps ELSE Append(RecordedSteps, here)
      <4>1. Append(w.steps, here) # <<>> /\ Tail(Append(w.steps, here)) = Append(Tail(w.steps), here)
        BY <3>1, <3>2, AppendLast
      <4>2. QED
        BY <3>1, <3>2, <4>1 DEF RecordedSteps
    <3>6. Steps!Visit(here)
      BY <3>1, <3>4, <3>5 DEF Steps!Visit
    <3>7. QED
      BY <3>3, <3>6 DEF Steps!Next
  <2>3. CASE ~StartTrace /\ ~OnStep
    <3>1. w'.steps = w.steps /\ UNCHANGED visited
      BY <2>3, ShapeKeepsSteps, Shape DEF SameSteps, RegisterSource, RegisterBlob
    <3>2. QED
      BY <3>1 DEF RecordedSteps
  <2>4. QED
    BY <2>1, <2>2, <2>3
<1>3. QED
  BY <1>1, <1>2, TypeCorrect, StepInvariant, PTL DEF Spec, Steps!Spec, StepsAreTheVisits

LEMMA SnapshotsStep ==
  ASSUME TypeOK, StepInv, SnapshotsAtTheirLocation, [Next]_vars
  PROVE  SnapshotsAtTheirLocation'
<1>1. CASE StartTrace
  <2>1. w.steps = <<>>
    BY <1>1 DEF StartTrace, StepInv, Early
  <2>2. w'.values = w.values
    BY <1>1, <2>1, StartTraceSteps
  <2>3. ASSUME NEW k \in 1..Len(w.values) PROVE FALSE
    <3>1. Len(w.steps) = 0 /\ w.values[k].step \in 1..Len(w.steps)
      BY <2>1 DEF SnapshotsAtTheirLocation
    <3>2. QED
      BY <3>1
  <2>4. QED
    BY <2>2, <2>3 DEF SnapshotsAtTheirLocation
<1>2. CASE OnStep
  <2> DEFINE here == LocationOf(vm.pc)
             shot == [pc |-> vm.pc, operand |-> vm.operand, step |-> Len(w'.steps)]
  <2>1. /\ here \in Location /\ vm.pc \in PCs /\ vm.operand \in Nat
        /\ w'.steps = IF here = prev_line THEN w.steps ELSE Append(w.steps, here)
        /\ w'.values = Append(w.values, shot)
        /\ visited' # <<>> /\ prev_line' = here
    BY <1>2, OnStepSteps, AppendLast DEF TypeOK
  <2>2. /\ w.steps \in Seq(Location) /\ w.values \in Seq([pc : PCs, operand : Nat, step : Nat])
        /\ w'.steps \in Seq(Location) /\ w'.values \in Seq([pc : PCs, operand : Nat, step : Nat])
    <3>1. w \in WriterType /\ w' \in WriterType
      BY <1>2, OnStepType DEF TypeOK
    <3>2. QED
      BY <3>1, WriterFields
  <2>3. StepInv'
    BY StepInvStep
  <2>4. w'.steps # <<>> /\ w'.steps[Len(w'.steps)] = here
    BY <2>1, <2>3 DEF StepInv
  <2>5. ASSUME NEW k \in 1..Len(w.steps)
        PROVE  k \in 1..Len(w'.steps) /\ w'.steps[k] = w.steps[k]
    BY <2>1, <2>2, AppendLast
  <2>6. SUFFICES ASSUME NEW k \in 1..Len(w'.values)
                 PROVE  /\ w'.values[k].step \in 1..Len(w'.steps)
                        /\ w'.steps[w'.values[k].step] = LocationOf(w'.values[k].pc)
    BY DEF SnapshotsAtTheirLocation
  <2>7. shot \in [pc : PCs, operand : Nat, step : Nat] /\ shot.step = Len(w'.steps) /\ shot.pc = vm.pc
    BY <2>1, <2>2
  <2>8. CASE k \in 1..Len(w.values)
    <3>1. w'.values[k] = w.values[k]
      BY <2>1, <2>2, <2>7, <2>8, AppendLast
    <3>2. QED
      BY <2>5, <2>8, <3>1 DEF SnapshotsAtTheirLocation
  <2>9. CASE k \notin 1..Len(w.values)
    <3>1. Len(w'.values) = Len(w.values) + 1 /\ w'.values[Len(w'.values)] = shot
      BY <2>1, <2>2, <2>7, AppendLast
    <3>2. k = Len(w'.values)
      BY <2>2, <2>9, <3>1
    <3>3. Len(w'.steps) \in 1..Len(w'.steps)
      BY <2>2, <2>4
    <3>4. QED
      BY <2>4, <2>7, <3>1, <3>2, <3>3
  <2>10. QED
    BY <2>8, <2>9
<1>3. CASE ~StartTrace /\ ~OnStep
  BY <1>3, ShapeKeepsSteps DEF SameSteps, SnapshotsAtTheirLocation
<1>4. QED
  BY <1>1, <1>2, <1>3

(* A register snapshot is shown at the step it was recorded under, and     *)
(* that step is at the location of the snapshot's own instruction.         *)
THEOREM SnapshotsCorrect == Spec => []SnapshotsAtTheirLocation
<1>1. Init => SnapshotsAtTheirLocation
  BY DEF Init, NewWriter, SnapshotsAtTheirLocation
<1>2. TypeOK /\ StepInv /\ SnapshotsAtTheirLocation /\ [Next]_vars => SnapshotsAtTheirLocation'
  BY SnapshotsStep
<1>3. QED
  BY <1>1, <1>2, TypeCorrect, StepInvariant, PTL DEF Spec

-----------------------------------------------------------------------------
(* Arguments reach their call.                                             *)

CallsPaired(wr) == \A k \in 1..Len(wr.calls) : wr.calls[k].args <=> wr.calls[k].fn.kind = "host"

Argued(wr) == ~wr.staged /\ CallsPaired(wr)

LEMMA SameCallsArgued ==
  ASSUME NEW a, NEW b, SameCalls(a, b), Argued(a)
  PROVE  Argued(b)
  BY DEF SameCalls, Argued, CallsPaired

LEMMA CallArgued ==
  ASSUME NEW wr \in WriterType, NEW fn \in Fn, NEW p \in Paths,
         CallsPaired(wr), wr.staged <=> fn.kind = "host"
  PROVE  Argued(Call(wr, fn, p))
<1> DEFINE S == [fn : Fn, args : BOOLEAN, step : Nat]
           c == [fn |-> fn, args |-> wr.staged, step |-> Len(wr.steps)]
           x == Call(wr, fn, p)
<1>1. /\ c \in S /\ wr.calls \in Seq(S)
      /\ c.args = wr.staged /\ c.fn = fn
  BY WriterFields
<1>2. x.staged = FALSE /\ x.calls = Append(wr.calls, c)
  BY CallKeeps
<1> HIDE DEF S, c, x
<1>3. ASSUME NEW k \in 1..Len(x.calls)
      PROVE  x.calls[k].args <=> x.calls[k].fn.kind = "host"
  <2>1. CASE k \in 1..Len(wr.calls)
    <3>1. x.calls[k] = wr.calls[k]
      BY <1>1, <1>2, <2>1, AppendLast
    <3>2. QED
      BY <2>1, <3>1 DEF CallsPaired
  <2>2. CASE k \notin 1..Len(wr.calls)
    <3>1. Len(x.calls) = Len(wr.calls) + 1 /\ x.calls[Len(x.calls)] = c
      BY <1>1, <1>2, AppendLast
    <3>2. k = Len(x.calls)
      BY <1>1, <2>2, <3>1
    <3>3. QED
      BY <1>1, <3>1, <3>2
  <2>3. QED
    BY <2>1, <2>2
<1>4. QED
  BY <1>2, <1>3 DEF Argued, CallsPaired, x

LEMMA ArguedStep ==
  ASSUME TypeOK, Argued(w), [Next]_vars
  PROVE  Argued(w')
<1>1. w \in WriterType /\ SameCalls(w, w)
  BY DEF TypeOK, SameCalls
<1>2. BlobPath \in Paths /\ MappedPaths \subseteq Paths
  BY TracerAssumption DEF MappedPaths, Location
<1>3. CASE RegisterSource \/ RegisterBlob
  <2>1. SameCalls(w, w')
    BY <1>1, <1>2, <1>3, RegisterPathKeeps DEF RegisterSource, RegisterBlob
  <2>2. QED
    BY <2>1, SameCallsArgued
<1>4. CASE StartTrace
  <2> DEFINE loc == At(BlobPath, 1, 0)
             c == Call(w, Toplevel, loc.path)
             s == StepAt(c, loc)
  <2>1. /\ loc \in Location /\ loc.path \in Paths
        /\ Toplevel \in Fn /\ EntryFn \in Fn
        /\ Toplevel.kind = "toplevel" /\ EntryFn.kind = "entry"
    BY <1>2 DEF At, Location, Toplevel, EntryFn, Fn
  <2>2. w' = Call(s, EntryFn, BlobPath)
    BY <1>4 DEF StartTrace, Start
  <2> HIDE DEF loc
  <2>3. c \in WriterType /\ Argued(c)
    BY <1>1, <2>1, CallType, CallArgued DEF Argued
  <2> HIDE DEF c
  <2>4. s \in WriterType /\ Argued(s)
    BY <2>1, <2>3, StepAtType, StepAtKeeps, SameCallsArgued
  <2> HIDE DEF s
  <2>5. QED
    BY <1>2, <2>1, <2>2, <2>4, CallArgued DEF Argued
<1>5. CASE OnStep
  <2> DEFINE here == LocationOf(vm.pc)
  <2>1. /\ vm.pc \in PCs /\ vm.operand \in Nat /\ here \in Location /\ here.path \in Paths
    BY LocationOfType DEF TypeOK, VmTypeOK, Location
  <2>2. PICK accepted \in BOOLEAN :
          w' = NoteInstruction(Values(NoteStep(w, here, accepted), vm.pc, vm.operand), Current, vm.operand)
    BY <1>5 DEF OnStep
  <2> DEFINE r == RegisterPath(w, registered, here.path, accepted)
             s == NoteStep(w, here, accepted)
             v == Values(s, vm.pc, vm.operand)
  <2>3. r \in WriterType /\ Argued(r)
    BY <1>1, <2>1, RegisterPathType, RegisterPathKeeps, SameCallsArgued
  <2>4. s = IF here = prev_line THEN w ELSE StepAt(r, here)
    BY DEF NoteStep
  <2> HIDE DEF r, s, here
  <2>5. StepAt(r, here) \in WriterType /\ Argued(StepAt(r, here))
    BY <2>1, <2>3, StepAtType, StepAtKeeps, SameCallsArgued
  <2>6. s \in WriterType /\ Argued(s)
    BY <1>1, <2>4, <2>5
  <2>7. v \in WriterType /\ Argued(v)
    BY <2>1, <2>6, ValuesType, ValuesKeeps, SameCallsArgued
  <2>8. w' = NoteInstruction(v, Code[vm.pc], vm.operand)
    BY <2>2 DEF Current, s
  <2> HIDE DEF v
  <2>9. Argued(Return(v)) /\ \A name : Argued(Event(v, "Error", name))
    BY <2>7, ReturnKeeps, EventKeeps, SameCallsArgued
  <2>10. ASSUME NEW t \in PCs PROVE Argued(Call(v, FnAt(t), BlobPath))
    <3>1. FnAt(t) \in Fn /\ FnAt(t).kind = "pc"
      BY CodeAssumption DEF FnAt, Fn
    <3>2. QED
      BY <1>2, <2>7, <3>1, CallArgued DEF Argued
  <2>11. QED
    BY <2>1, <2>7, <2>8, <2>9, <2>10, NoteInstructionShape
<1>6. CASE ~StartTrace /\ ~OnStep /\ ~RegisterSource /\ ~RegisterBlob
  <2>1. Return(w) \in WriterType /\ Argued(Return(w))
    BY <1>1, ReturnType, ReturnKeeps, SameCallsArgued
  <2>2. ASSUME NEW s PROVE Argued(AtStage(w, s)) /\ Argued(AtStage(Return(w), s))
    BY <1>1, <2>1, StageKeeps, SameCallsArgued
  <2>3. ASSUME NEW name \in TerminalErrors PROVE Argued(Return(Event(w, "Error", name)))
    <3>1. Event(w, "Error", name) \in WriterType /\ Argued(Event(w, "Error", name))
      BY <1>1, EventType, EventKeeps, SameCallsArgued DEF EventKinds, EventNames
    <3>2. QED
      BY <3>1, ReturnKeeps, SameCallsArgued
  <2>4. ASSUME NEW index \in Nat
        PROVE  LET x == Return(HostEvent(Call(StageArgs(w), HostFn(index), BlobPath), index))
               IN  Argued(x) /\ Argued(Event(x, "Error", "unhandled_host_function"))
    <3> DEFINE a == StageArgs(w)
               c == Call(a, HostFn(index), BlobPath)
               h == HostEvent(c, index)
    <3>1. HostFn(index) \in Fn /\ HostFn(index).kind = "host"
      BY DEF HostFn, Fn
    <3>2. a \in WriterType /\ a.staged = TRUE /\ CallsPaired(a)
      BY <1>1, StageArgsType, StageArgsKeeps DEF Argued, CallsPaired
    <3> HIDE DEF a
    <3>3. c \in WriterType /\ Argued(c)
      BY <1>2, <3>1, <3>2, CallType, CallArgued
    <3> HIDE DEF c
    <3>4. h \in WriterType /\ Argued(h)
      BY <3>3, HostEventType, HostEventKeeps, SameCallsArgued
    <3> HIDE DEF h
    <3>5. Return(h) \in WriterType /\ Argued(Return(h))
      BY <3>4, ReturnType, ReturnKeeps, SameCallsArgued
    <3>6. Argued(Event(Return(h), "Error", "unhandled_host_function"))
      BY <3>5, EventKeeps, SameCallsArgued
    <3>7. QED
      BY <3>5, <3>6 DEF h, c, a
  <2>5. QED
    BY <1>6, <2>1, <2>2, <2>3, <2>4, Shape
<1>7. QED
  BY <1>3, <1>4, <1>5, <1>6

(* No argument is ever left waiting, and exactly the host calls carry      *)
(* arguments: what run_step_loop stages goes to the call it is for.        *)
THEOREM ArgumentsCorrect == Spec => []ArgumentsReachTheirCall
<1>1. Init => Argued(w)
  BY DEF Init, NewWriter, Argued, CallsPaired
<1>2. TypeOK /\ Argued(w) /\ [Next]_vars => Argued(w)'
  BY ArguedStep
<1>3. Argued(w) <=> ArgumentsReachTheirCall
  BY DEF Argued, CallsPaired, ArgumentsReachTheirCall
<1>4. QED
  BY <1>1, <1>2, <1>3, TypeCorrect, PTL DEF Spec

-----------------------------------------------------------------------------
(* Tables before mentions.                                                 *)

Tabled(wr, reg) ==
    /\ wr.late = {}
    /\ \A p \in Paths : wr.tables[p] # Unset =>
            p \in reg /\ (wr.tables[p] = OfferedTable(p) \/ p \in wr.refused)
    /\ \A p \in reg : wr.tables[p] = Unset => p \in wr.refused
    /\ \A k \in 1..Len(wr.steps) : wr.steps[k].path \in reg

Registering ==
    /\ phase \in {"prepare", "begin"} => registered = {}
    /\ phase = "paths" => registered \subseteq MappedPaths
    /\ phase \in {"start", "instantiate", "run"} => registered = MappedPaths \cup {BlobPath}

LEMMA SameTablesTabled ==
  ASSUME NEW a, NEW b, NEW reg, SameTables(a, b), Tabled(a, reg)
  PROVE  Tabled(b, reg)
  BY DEF SameTables, Tabled

LEMMA MentionTabled ==
  ASSUME NEW wr \in WriterType, NEW reg \in SUBSET Paths, NEW p \in reg, Tabled(wr, reg)
  PROVE  Tabled(Mention(wr, p), reg)
<1> DEFINE x == Mention(wr, p)
<1>1. /\ x.steps = wr.steps /\ x.late = wr.late /\ x.refused = wr.refused
      /\ x.tables = IF wr.tables[p] = Unset THEN [wr.tables EXCEPT ![p] = Default] ELSE wr.tables
      /\ wr.tables \in [Paths -> Tables \cup {Unset, Default}]
  BY MentionKeeps, WriterFields DEF SameSteps
<1> HIDE DEF x
<1>2. Default # Unset
  BY TracerAssumption
<1>3. Tabled(x, reg)
  BY <1>1, <1>2 DEF Tabled
<1>4. QED
  BY <1>3 DEF x

LEMMA RegisterTabled ==
  ASSUME NEW wr \in WriterType, NEW reg \in SUBSET Paths, NEW p \in Paths,
         NEW accepted \in BOOLEAN, Tabled(wr, reg)
  PROVE  Tabled(RegisterPath(wr, reg, p, accepted), reg \cup {p})
<1>1. CASE p \in reg
  BY <1>1 DEF RegisterPath, Tabled
<1>2. CASE p \notin reg /\ accepted
  <2> DEFINE x == [wr EXCEPT !.tables[p] = OfferedTable(p)]
  <2>1. wr.tables[p] = Unset
    BY <1>2 DEF Tabled
  <2>2. RegisterPath(wr, reg, p, accepted) = x
    BY <1>2, <2>1 DEF RegisterPath, Offer
  <2>3. /\ x.tables = [wr.tables EXCEPT ![p] = OfferedTable(p)]
        /\ x.late = wr.late /\ x.refused = wr.refused /\ x.steps = wr.steps
    BY DEF WriterType
  <2>4. wr.tables \in [Paths -> Tables \cup {Unset, Default}]
    BY WriterFields
  <2>5. OfferedTable(p) # Unset
    BY TracerAssumption DEF OfferedTable, TableFor, Tables
  <2> HIDE DEF x
  <2>6. Tabled(x, reg \cup {p})
    BY <2>3, <2>4, <2>5 DEF Tabled
  <2>7. QED
    BY <2>2, <2>6
<1>3. CASE p \notin reg /\ ~accepted
  <2> DEFINE x == Refuse(wr, p)
  <2>1. RegisterPath(wr, reg, p, accepted) = x
    BY <1>3 DEF RegisterPath
  <2>2. /\ x.tables = wr.tables /\ x.late = wr.late /\ x.steps = wr.steps
        /\ x.refused = wr.refused \cup {p}
    BY DEF Refuse, WriterType
  <2> HIDE DEF x
  <2>3. Tabled(x, reg \cup {p})
    BY <2>2 DEF Tabled
  <2>4. QED
    BY <2>1, <2>3
<1>4. QED
  BY <1>1, <1>2, <1>3

LEMMA CallTabled ==
  ASSUME NEW wr \in WriterType, NEW reg \in SUBSET Paths, NEW p \in reg, NEW fn,
         Tabled(wr, reg)
  PROVE  Tabled(Call(wr, fn, p), reg)
<1>1. SameTables(Mention(wr, p), Call(wr, fn, p))
  BY CallKeeps
<1>2. QED
  BY <1>1, MentionTabled, SameTablesTabled

LEMMA StepAtTabled ==
  ASSUME NEW wr \in WriterType, NEW reg \in SUBSET Paths, NEW loc \in Location,
         loc.path \in reg, Tabled(wr, reg)
  PROVE  Tabled(StepAt(wr, loc), reg)
<1> DEFINE m == Mention(wr, loc.path)
           x == StepAt(wr, loc)
<1>1. /\ Tabled(m, reg) /\ m.steps = wr.steps
  BY MentionTabled, MentionKeeps DEF SameSteps
<1>2. /\ x.steps = Append(wr.steps, loc)
      /\ x.tables = m.tables /\ x.late = m.late /\ x.refused = m.refused
  BY StepAtKeeps
<1>3. wr.steps \in Seq(Location)
  BY WriterFields
<1> HIDE DEF x, m
<1>4. ASSUME NEW k \in 1..Len(x.steps) PROVE x.steps[k].path \in reg
  <2>1. /\ \A j \in 1..Len(wr.steps) : x.steps[j] = wr.steps[j]
        /\ Len(x.steps) = Len(wr.steps) + 1 /\ x.steps[Len(x.steps)] = loc
    BY <1>2, <1>3, AppendLast
  <2>2. CASE k \in 1..Len(wr.steps)
    BY <2>1, <2>2 DEF Tabled
  <2>3. CASE k \notin 1..Len(wr.steps)
    <3>1. k = Len(x.steps)
      BY <1>3, <2>1, <2>3
    <3>2. QED
      BY <2>1, <3>1
  <2>4. QED
    BY <2>2, <2>3
<1>5. Tabled(x, reg)
  BY <1>1, <1>2, <1>4 DEF Tabled
<1>6. QED
  BY <1>5 DEF x

(* Where the guest can be is in a mapped file or in the blob.              *)
LEMMA PathsOfLocations ==
  ASSUME NEW pc \in PCs
  PROVE  LocationOf(pc).path \in MappedPaths \cup {BlobPath}
  BY DEF LocationOf, MappedPaths, At

LEMMA RegisteringStep ==
  ASSUME TypeOK, Registering, [Next]_vars
  PROVE  Registering'
<1>1. CASE RegisterSource
  BY <1>1 DEF RegisterSource, Registering
<1>2. CASE RegisterBlob
  BY <1>2 DEF RegisterBlob, Registering
<1>3. CASE StartTrace
  BY <1>3 DEF StartTrace, Registering
<1>4. CASE OnStep
  <2>1. LocationOf(vm.pc).path \in MappedPaths \cup {BlobPath}
    BY PathsOfLocations DEF TypeOK, VmTypeOK
  <2>2. QED
    BY <1>4, <2>1 DEF OnStep, Registering
<1>5. CASE ~StartTrace /\ ~OnStep /\ ~RegisterSource /\ ~RegisterBlob
  <2>1. /\ registered' = registered
        /\ phase' \in {"prepare", "begin"} => phase \in {"prepare", "begin"}
        /\ phase' = "paths" => phase \in {"begin", "paths"}
        /\ phase' = "start" => phase = "start"
        /\ phase' \in {"instantiate", "run"} => phase \in {"instantiate", "run"}
    BY <1>5, Shape
  <2>2. QED
    BY <2>1 DEF Registering
<1>6. QED
  BY <1>1, <1>2, <1>3, <1>4, <1>5

LEMMA TabledStep ==
  ASSUME TypeOK, Registering, Tabled(w, registered), [Next]_vars
  PROVE  Tabled(w', registered')
<1>1. w \in WriterType /\ registered \in SUBSET Paths /\ SameTables(w, w)
  BY DEF TypeOK, SameTables
<1>2. BlobPath \in Paths /\ MappedPaths \subseteq Paths
  BY TracerAssumption DEF MappedPaths, Location
<1>3. CASE RegisterSource \/ RegisterBlob
  BY <1>1, <1>2, <1>3, RegisterTabled DEF RegisterSource, RegisterBlob
<1>4. CASE StartTrace
  <2> DEFINE loc == At(BlobPath, 1, 0)
             c == Call(w, Toplevel, loc.path)
             s == StepAt(c, loc)
  <2>1. /\ loc \in Location /\ loc.path = BlobPath
        /\ Toplevel \in Fn /\ EntryFn \in Fn
        /\ BlobPath \in registered /\ registered' = registered
    BY <1>2, <1>4 DEF At, Location, Toplevel, EntryFn, Fn, Registering, StartTrace
  <2>2. w' = Call(s, EntryFn, BlobPath)
    BY <1>4 DEF StartTrace, Start
  <2> HIDE DEF loc
  <2>3. c \in WriterType /\ Tabled(c, registered)
    BY <1>1, <1>2, <2>1, CallType, CallTabled
  <2> HIDE DEF c
  <2>4. s \in WriterType /\ Tabled(s, registered)
    BY <1>1, <2>1, <2>3, StepAtType, StepAtTabled
  <2> HIDE DEF s
  <2>5. QED
    BY <1>1, <2>1, <2>2, <2>4, CallTabled
<1>5. CASE OnStep
  <2> DEFINE here == LocationOf(vm.pc)
  <2>1. /\ vm.pc \in PCs /\ vm.operand \in Nat /\ here \in Location /\ here.path \in Paths
        /\ here.path \in registered /\ BlobPath \in registered
    BY <1>5, LocationOfType, PathsOfLocations
       DEF TypeOK, VmTypeOK, Location, Registering, OnStep
  <2>2. PICK accepted \in BOOLEAN :
          w' = NoteInstruction(Values(NoteStep(w, here, accepted), vm.pc, vm.operand), Current, vm.operand)
    BY <1>5 DEF OnStep
  <2> DEFINE r == RegisterPath(w, registered, here.path, accepted)
             s == NoteStep(w, here, accepted)
             v == Values(s, vm.pc, vm.operand)
  <2>3. registered \cup {here.path} = registered /\ registered' = registered
    BY <1>5, <2>1 DEF OnStep
  <2>4. s = IF here = prev_line THEN w ELSE StepAt(r, here)
    BY DEF NoteStep
  <2> HIDE DEF s, here
  <2>5. r \in WriterType /\ Tabled(r, registered)
    BY <1>1, <2>1, <2>3, RegisterPathType, RegisterTabled
  <2> HIDE DEF r
  <2>6. StepAt(r, here) \in WriterType /\ Tabled(StepAt(r, here), registered)
    BY <1>1, <2>1, <2>5, StepAtType, StepAtTabled
  <2>7. s \in WriterType /\ Tabled(s, registered)
    BY <1>1, <2>4, <2>6
  <2>8. v \in WriterType /\ Tabled(v, registered)
    <3>1. v \in WriterType
      BY <2>1, <2>7, ValuesType
    <3>2. SameTables(s, v)
      BY <2>7, ValuesKeeps
    <3>3. QED
      BY <2>7, <3>1, <3>2, SameTablesTabled
  <2>9. w' = NoteInstruction(v, Code[vm.pc], vm.operand)
    BY <2>2 DEF Current, s
  <2> HIDE DEF v
  <2>10. /\ Tabled(Return(v), registered)
         /\ \A name : Tabled(Event(v, "Error", name), registered)
    BY <2>8, ReturnKeeps, EventKeeps, SameTablesTabled
  <2>11. ASSUME NEW t \in PCs PROVE Tabled(Call(v, FnAt(t), BlobPath), registered)
    BY <1>1, <2>1, <2>8, CallTabled
  <2>12. QED
    BY <2>1, <2>3, <2>8, <2>9, <2>10, <2>11, NoteInstructionShape
<1>6. CASE ~StartTrace /\ ~OnStep /\ ~RegisterSource /\ ~RegisterBlob
  <2>1. Return(w) \in WriterType /\ Tabled(Return(w), registered)
    BY <1>1, ReturnType, ReturnKeeps, SameTablesTabled
  <2>2. ASSUME NEW s
        PROVE  Tabled(AtStage(w, s), registered) /\ Tabled(AtStage(Return(w), s), registered)
    BY <1>1, <2>1, StageKeeps, SameTablesTabled
  <2>3. ASSUME NEW name \in TerminalErrors
        PROVE  Tabled(Return(Event(w, "Error", name)), registered)
    <3> DEFINE e == Event(w, "Error", name)
    <3>1. e \in WriterType /\ Tabled(e, registered)
      BY <1>1, EventType, EventKeeps, SameTablesTabled DEF EventKinds, EventNames
    <3> HIDE DEF e
    <3>2. Tabled(Return(e), registered)
      BY <3>1, ReturnKeeps, SameTablesTabled
    <3>3. QED
      BY <3>2 DEF e
  <2>4. ASSUME phase = "run", NEW index \in Nat
        PROVE  LET x == Return(HostEvent(Call(StageArgs(w), HostFn(index), BlobPath), index))
               IN  /\ Tabled(x, registered)
                   /\ Tabled(Event(x, "Error", "unhandled_host_function"), registered)
    <3> DEFINE a == StageArgs(w)
               c == Call(a, HostFn(index), BlobPath)
               h == HostEvent(c, index)
    <3>1. HostFn(index) \in Fn /\ BlobPath \in registered
      BY <2>4 DEF HostFn, Fn, Registering
    <3>2. a \in WriterType /\ Tabled(a, registered)
      BY <1>1, StageArgsType, StageArgsKeeps, SameTablesTabled
    <3> HIDE DEF a
    <3>3. c \in WriterType /\ Tabled(c, registered)
      BY <1>1, <1>2, <3>1, <3>2, CallType, CallTabled
    <3> HIDE DEF c
    <3>4. h \in WriterType /\ Tabled(h, registered)
      BY <3>3, HostEventType, HostEventKeeps, SameTablesTabled
    <3> HIDE DEF h
    <3>5. Return(h) \in WriterType /\ Tabled(Return(h), registered)
      BY <3>4, ReturnType, ReturnKeeps, SameTablesTabled
    <3>6. Tabled(Event(Return(h), "Error", "unhandled_host_function"), registered)
      BY <3>5, EventKeeps, SameTablesTabled
    <3>7. QED
      BY <3>5, <3>6 DEF h, c, a
  <2>5. registered' = registered
    BY <1>6, Shape
  <2>6. QED
    BY <1>6, <2>1, <2>2, <2>3, <2>4, <2>5, Shape
<1>7. QED
  BY <1>3, <1>4, <1>5, <1>6

(* Every file a step, a function or a call names carries the line table    *)
(* the recorder offered for it, unless the writer refused that table, and  *)
(* no file is offered a second: line_table_for_path comes before every     *)
(* mention.                                                                *)
THEOREM TablesCorrect == Spec => []TablesBeforeMentions
<1>1. Init => Registering /\ Tabled(w, registered)
  BY DEF Init, NewWriter, Registering, Tabled
<1>2. TypeOK /\ Registering /\ [Next]_vars => Registering'
  BY RegisteringStep
<1>3. TypeOK /\ Registering /\ Tabled(w, registered) /\ [Next]_vars => Tabled(w, registered)'
  BY TabledStep
<1>4. Registering /\ Tabled(w, registered) => TablesBeforeMentions
  BY DEF Registering, Tabled, TablesBeforeMentions
<1>5. QED
  BY <1>1, <1>2, <1>3, <1>4, TypeCorrect, PTL DEF Spec
=============================================================================
