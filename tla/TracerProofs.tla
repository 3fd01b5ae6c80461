------------------------------ MODULE TracerProofs ------------------------------
(***************************************************************************)
(* What holds of Tracer for every program, every debug information and     *)
(* every gas budget.                                                       *)
(***************************************************************************)
EXTENDS TracerProps, TLAPS

-----------------------------------------------------------------------------
(* Each call of the writer's interface keeps a writer well-formed.         *)

LEMMA AppendType ==
  ASSUME NEW S, NEW s \in Seq(S), NEW e \in S
  PROVE  Append(s, e) \in Seq(S)
  OBVIOUS

LEMMA ElementType ==
  ASSUME NEW S, NEW s \in Seq(S), NEW k \in 1..Len(s)
  PROVE  s[k] \in S
  OBVIOUS

LEMMA FrontType ==
  ASSUME NEW S, NEW s \in Seq(S)
  PROVE  SubSeq(s, 1, Len(s) - 1) \in Seq(S)
  OBVIOUS

LEMMA WriterFields ==
  ASSUME NEW wr \in WriterType
  PROVE  /\ wr.tables \in [Paths -> Tables \cup {Unset, Default}]
         /\ wr.steps \in Seq(Location) /\ wr.frames \in Seq(Fn)
         /\ wr.calls \in Seq([fn : Fn, args : BOOLEAN, step : Nat])
         /\ wr.events \in Seq([kind : EventKinds, name : EventNames, step : Nat])
         /\ wr.values \in Seq([pc : PCs, operand : Nat, step : Nat])
         /\ wr.staged \in BOOLEAN
         /\ Len(wr.steps) \in Nat
  BY DEF WriterType

LEMMA NewWriterType == NewWriter \in WriterType
  BY DEF NewWriter, WriterType

LEMMA StageType ==
  ASSUME NEW wr \in WriterType,
         NEW s \in {"new", "begun", "finished", "described", "closed"}
  PROVE  AtStage(wr, s) \in WriterType
  BY DEF AtStage, WriterType

LEMMA MentionType ==
  ASSUME NEW wr \in WriterType, NEW p \in Paths
  PROVE  Mention(wr, p) \in WriterType
  BY DEF Mention, WriterType

LEMMA RegisterPathType ==
  ASSUME NEW wr \in WriterType, NEW p \in Paths, NEW known, NEW accepted \in BOOLEAN
  PROVE  RegisterPath(wr, known, p, accepted) \in WriterType
  BY DEF RegisterPath, Offer, Refuse, OfferedTable, TableFor, Tables, WriterType

LEMMA StepAtType ==
  ASSUME NEW wr \in WriterType, NEW loc \in Location
  PROVE  StepAt(wr, loc) \in WriterType
<1>1. loc.path \in Paths
  BY DEF Location
<1> DEFINE m == Mention(wr, loc.path)
<1>2. m \in WriterType
  BY <1>1, MentionType
<1> HIDE DEF m
<1>3. Append(m.steps, loc) \in Seq(Location)
  BY <1>2, WriterFields
<1>4. [m EXCEPT !.steps = Append(@, loc)] \in WriterType
  BY <1>2, <1>3 DEF WriterType
<1>5. QED
  BY <1>4 DEF StepAt, m

LEMMA CallType ==
  ASSUME NEW wr \in WriterType, NEW fn \in Fn, NEW p \in Paths
  PROVE  Call(wr, fn, p) \in WriterType
<1>1. Mention(wr, p) \in WriterType
  BY MentionType
<1>2. [fn |-> fn, args |-> wr.staged, step |-> Len(wr.steps)]
        \in [fn : Fn, args : BOOLEAN, step : Nat]
  BY DEF WriterType
<1> DEFINE m == Mention(wr, p)
           c == [fn |-> fn, args |-> wr.staged, step |-> Len(wr.steps)]
<1>3. m \in WriterType /\ c \in [fn : Fn, args : BOOLEAN, step : Nat]
  BY <1>1, <1>2
<1> HIDE DEF m, c
<1>4. /\ Append(m.frames, fn) \in Seq(Fn)
      /\ Append(m.calls, c) \in Seq([fn : Fn, args : BOOLEAN, step : Nat])
  BY <1>3, WriterFields, AppendType
<1>5. [m EXCEPT !.frames = Append(@, fn), !.calls = Append(@, c), !.staged = FALSE]
        \in WriterType
  BY <1>3, <1>4 DEF WriterType
<1>6. QED
  BY <1>5 DEF Call, m, c

LEMMA ReturnType ==
  ASSUME NEW wr \in WriterType
  PROVE  Return(wr) \in WriterType
<1>1. CASE wr.frames = <<>>
  BY <1>1 DEF Return, WriterType
<1>2. CASE wr.frames # <<>>
  <2>1. SubSeq(wr.frames, 1, Len(wr.frames) - 1) \in Seq(Fn)
    BY <1>2 DEF WriterType
  <2>2. QED
    BY <1>2, <2>1 DEF Return, WriterType
<1>3. QED
  BY <1>1, <1>2

LEMMA EventType ==
  ASSUME NEW wr \in WriterType, NEW kind \in EventKinds, NEW name \in EventNames
  PROVE  Event(wr, kind, name) \in WriterType
<1> DEFINE e == [kind |-> kind, name |-> name, step |-> Len(wr.steps)]
<1>1. e \in [kind : EventKinds, name : EventNames, step : Nat]
  BY WriterFields
<1> HIDE DEF e
<1>2. Append(wr.events, e) \in Seq([kind : EventKinds, name : EventNames, step : Nat])
  BY <1>1, WriterFields, AppendType
<1>3. [wr EXCEPT !.events = Append(@, e)] \in WriterType
  BY <1>2 DEF WriterType
<1>4. QED
  BY <1>3 DEF Event, e

LEMMA ValuesType ==
  ASSUME NEW wr \in WriterType, NEW pc \in PCs, NEW operand \in Nat
  PROVE  Values(wr, pc, operand) \in WriterType
<1> DEFINE v == [pc |-> pc, operand |-> operand, step |-> Len(wr.steps)]
<1>1. v \in [pc : PCs, operand : Nat, step : Nat]
  BY WriterFields
<1> HIDE DEF v
<1>2. Append(wr.values, v) \in Seq([pc : PCs, operand : Nat, step : Nat])
  BY <1>1, WriterFields, AppendType
<1>3. [wr EXCEPT !.values = Append(@, v)] \in WriterType
  BY <1>2 DEF WriterType
<1>4. QED
  BY <1>3 DEF Values, v

LEMMA LocationOfType ==
  ASSUME NEW pc \in PCs
  PROVE  LocationOf(pc) \in Location
  BY CodeAssumption, TracerAssumption DEF LocationOf, Location, At

LEMMA StageArgsType ==
  ASSUME NEW wr \in WriterType
  PROVE  StageArgs(wr) \in WriterType
  BY DEF StageArgs, WriterType

(* The target of a direct call is a program counter.                       *)
LEMMA CalleeType ==
  ASSUME NEW pc \in PCs, Code[pc].op = "load_imm_and_jump"
  PROVE  FnAt(CHOOSE t \in Code[pc].to : TRUE) \in Fn
<1>1. PICK t \in PCs : Code[pc].to = {t}
  BY CodeAssumption
<1>2. (CHOOSE u \in Code[pc].to : TRUE) = t
  BY <1>1
<1>3. QED
  BY <1>2, CodeAssumption DEF FnAt, Fn

LEMMA NoteInstructionType ==
  ASSUME NEW wr \in WriterType, NEW pc \in PCs, NEW operand \in Nat
  PROVE  NoteInstruction(wr, Code[pc], operand) \in WriterType
<1>1. CASE Code[pc].op = "load_imm_and_jump"
  <2>1. NoteInstruction(wr, Code[pc], operand)
          = Call(wr, FnAt(CHOOSE t \in Code[pc].to : TRUE), BlobPath)
    BY <1>1 DEF NoteInstruction, Listed
  <2>2. QED
    BY <1>1, <2>1, CalleeType, CallType, TracerAssumption
<1>2. CASE Code[pc].op = "jump_indirect" /\ Code[pc].base = "RA"
  BY <1>2, ReturnType DEF NoteInstruction, Listed
<1>3. CASE Code[pc].op = "div"
  BY <1>3, EventType DEF NoteInstruction, NoteDivision, Listed, EventKinds, EventNames, TerminalErrors
<1>4. CASE Listed(Code[pc])
  BY <1>4, EventType DEF NoteInstruction, NoteMisalignment, Listed, EventKinds, EventNames, TerminalErrors
<1>5. CASE /\ Code[pc].op # "load_imm_and_jump" /\ Code[pc].op # "div"
           /\ ~(Code[pc].op = "jump_indirect" /\ Code[pc].base = "RA")
           /\ ~Listed(Code[pc])
  BY <1>5 DEF NoteInstruction
<1>6. QED
  BY <1>1, <1>2, <1>3, <1>4, <1>5

LEMMA HostEventType ==
  ASSUME NEW wr \in WriterType, NEW index \in Nat
  PROVE  HostEvent(wr, index) \in WriterType
<1>1. CASE index = 4
  BY <1>1, EventType DEF HostEvent, EventKinds, EventNames
<1>2. CASE index = 28
  BY <1>2, EventType DEF HostEvent, EventKinds, EventNames
<1>3. CASE index \in {5, 6, 7, 9, 19, 20}
  BY <1>3, EventType DEF HostEvent, EventKinds, EventNames
<1>4. CASE index \notin {4, 28, 5, 6, 7, 9, 19, 20}
  BY <1>4 DEF HostEvent
<1>5. QED
  BY <1>1, <1>2, <1>3, <1>4

-----------------------------------------------------------------------------
(* The engine's own state.                                                 *)

LEMMA PreparedType == VmTypeOK => (vm' = Prepared /\ UNCHANGED interrupt => VmTypeOK')
<1>1. Prepared \in [pc : PCs, stage : {"fetch", "exec", "halted"}, operand : Nat,
                   activations : Seq([fn : PCs, ret : PCs]), gas : Int, cause : Causes]
  BY CodeAssumption, EngineAssumption DEF Prepared, Metered, Causes
<1>2. QED
  BY <1>1 DEF VmTypeOK

LEMMA GasType == VmTypeOK => Gas \in Int
<1> SUFFICES ASSUME VmTypeOK PROVE Gas \in Int
  OBVIOUS
<1>1. vm.pc \in PCs /\ vm.gas \in Int
  BY DEF VmTypeOK
<1>2. BlockCost[vm.pc] \in Nat
  BY <1>1, CodeAssumption
<1>3. vm.gas - BlockCost[vm.pc] \in Int
  BY <1>1, <1>2
<1>4. QED
  BY <1>1, <1>3 DEF Gas

LEMMA GoesType ==
  ASSUME VmTypeOK, NEW pc \in PCs, NEW a \in Seq([fn : PCs, ret : PCs]), Goes(pc, a)
  PROVE  VmTypeOK'
<1>1. Gas \in Int
  BY GasType
<1>2. NoInterrupt \in [kind : {"none", "Step", "Finished", "Trap", "Ecalli",
                              "Segfault", "NotEnoughGas", "Error"}, index : Nat]
  BY DEF NoInterrupt, Interrupt
<1>3. QED
  BY <1>1, <1>2 DEF Goes, VmTypeOK

LEMMA HaltsType ==
  ASSUME VmTypeOK, NEW cause \in Causes,
         NEW kind \in {"Finished", "Trap", "Segfault", "NotEnoughGas"}, Halts(kind, cause)
  PROVE  VmTypeOK'
  BY DEF Halts, Interrupt, VmTypeOK

LEMMA RunType ==
  ASSUME VmTypeOK, Run
  PROVE  VmTypeOK'
<1>1. /\ vm.pc \in PCs /\ Current \in Instructions
      /\ vm.activations \in Seq([fn : PCs, ret : PCs])
  BY CodeAssumption DEF VmTypeOK, Current
<1>2. ASSUME ReportStep PROVE VmTypeOK'
  <2>1. Operands(Current) \subseteq Nat
    BY <1>1, EngineAssumption DEF Operands
  <2>2. QED
    BY <1>2, <2>1 DEF ReportStep, Interrupt, VmTypeOK
<1>3. ASSUME FallThrough PROVE VmTypeOK'
  <2>1. vm.pc + 1 \in PCs
    BY <1>1, <1>3, CodeAssumption DEF FallThrough, FallsThrough, Current
  <2>2. QED
    BY <1>1, <1>3, <2>1, GoesType DEF FallThrough
<1>4. ASSUME Jump PROVE VmTypeOK'
  <2>1. PICK t \in Current.to : Goes(t, vm.activations)
    BY <1>4 DEF Jump
  <2>2. t \in PCs
    BY <1>1 DEF Instructions
  <2>3. QED
    BY <1>1, <2>1, <2>2, GoesType
<1>5. ASSUME EnterSubroutine PROVE VmTypeOK'
  <2>1. PICK t \in Current.to :
           Goes(t, Append(vm.activations, [fn |-> t, ret |-> vm.pc + 1]))
    BY <1>5 DEF EnterSubroutine
  <2>2. t \in PCs
    BY <1>1 DEF Instructions
  <2>3. vm.pc + 1 \in PCs
    BY <1>1, <1>5, CodeAssumption DEF EnterSubroutine, FallsThrough, Current
  <2>4. [fn |-> t, ret |-> vm.pc + 1] \in [fn : PCs, ret : PCs]
    BY <2>2, <2>3
  <2>5. Append(vm.activations, [fn |-> t, ret |-> vm.pc + 1]) \in Seq([fn : PCs, ret : PCs])
    BY <1>1, <2>4, AppendType
  <2>6. QED
    BY <2>1, <2>2, <2>5, GoesType
<1>6. ASSUME LeaveSubroutine PROVE VmTypeOK'
  <2> DEFINE n == Len(vm.activations)
  <2>1. n \in Nat /\ n > 0 /\ n \in 1..Len(vm.activations)
    BY <1>1, <1>6 DEF LeaveSubroutine
  <2>2. SubSeq(vm.activations, 1, n - 1) \in Seq([fn : PCs, ret : PCs])
    BY <1>1, FrontType
  <2> HIDE DEF n
  <2>3. vm.activations[n] \in [fn : PCs, ret : PCs]
    BY <1>1, <2>1, ElementType
  <2>4. vm.activations[n].ret \in PCs
    BY <2>3
  <2>5. QED
    BY <1>6, <2>2, <2>4, GoesType DEF LeaveSubroutine, n
<1>7. ASSUME LeaveProgram PROVE VmTypeOK'
  BY <1>7, HaltsType DEF LeaveProgram, Causes
<1>8. ASSUME Fault PROVE VmTypeOK'
  BY <1>8, HaltsType DEF Fault, Causes
<1>9. ASSUME CallHost PROVE VmTypeOK'
  <2>1. vm.pc + 1 \in PCs
    BY <1>1, <1>9, CodeAssumption DEF CallHost, FallsThrough, Current
  <2>2. Gas \in Int
    BY GasType
  <2>3. Current.index \in Nat
    BY <1>1 DEF Instructions
  <2>4. QED
    BY <1>9, <2>1, <2>2, <2>3 DEF CallHost, Interrupt, VmTypeOK
<1>10. ASSUME Execute PROVE VmTypeOK'
  BY <1>3, <1>4, <1>5, <1>6, <1>7, <1>8, <1>9, <1>10, HaltsType DEF Execute, Causes
<1>11. ASSUME EngineFails PROVE VmTypeOK'
  BY <1>11 DEF EngineFails, Interrupt, VmTypeOK
<1>12. QED
  BY <1>2, <1>10, <1>11 DEF Run

-----------------------------------------------------------------------------
(* The recorder's handlers.                                                *)

LEMMA LeaveLoopType ==
  ASSUME TypeOK, NEW wr \in WriterType, LeaveLoop(wr)
  PROVE  TypeOK'
  BY DEF LeaveLoop, TypeOK, VmTypeOK, NoInterrupt, Interrupt, Phases

LEMMA OnStepType ==
  ASSUME TypeOK, OnStep
  PROVE  TypeOK'
<1> DEFINE here == LocationOf(vm.pc)
<1>1. /\ vm.pc \in PCs /\ vm.operand \in Nat /\ w \in WriterType
      /\ here \in Location /\ here.path \in Paths
  BY LocationOfType DEF TypeOK, VmTypeOK, Location
<1>2. PICK accepted \in BOOLEAN :
        w' = NoteInstruction(Values(NoteStep(w, here, accepted), vm.pc, vm.operand), Current, vm.operand)
  BY DEF OnStep
<1>3. NoteStep(w, here, accepted) \in WriterType
  BY <1>1, RegisterPathType, StepAtType DEF NoteStep
<1>4. Values(NoteStep(w, here, accepted), vm.pc, vm.operand) \in WriterType
  BY <1>1, <1>3, ValuesType
<1>5. w' \in WriterType
  BY <1>1, <1>2, <1>4, NoteInstructionType DEF Current
<1>6. Append(visited, here) \in Seq(Location)
  BY <1>1, AppendType DEF TypeOK
<1>7. registered' \in SUBSET Paths
  BY <1>1 DEF OnStep, TypeOK
<1>8. QED
  BY <1>1, <1>5, <1>6, <1>7 DEF OnStep, TypeOK, VmTypeOK, NoInterrupt, Interrupt

LEMMA OnEcalliType ==
  ASSUME TypeOK, OnEcalli
  PROVE  TypeOK'
<1> DEFINE index == interrupt.index
           called == HostEvent(Call(StageArgs(w), HostFn(index), BlobPath), index)
<1>1. index \in Nat /\ w \in WriterType
  BY DEF TypeOK, VmTypeOK
<1>2. HostFn(index) \in Fn
  BY <1>1 DEF HostFn, Fn
<1>3. called \in WriterType
  BY <1>1, <1>2, StageArgsType, CallType, HostEventType, TracerAssumption
<1>4. Return(called) \in WriterType
  BY <1>3, ReturnType
<1>5. Event(Return(called), "Error", "unhandled_host_function") \in WriterType
  BY <1>4, EventType DEF EventKinds, EventNames, TerminalErrors
<1>6. CASE KnownHost(index)
  BY <1>4, <1>6 DEF OnEcalli, TypeOK, VmTypeOK, NoInterrupt, Interrupt
<1>7. CASE ~KnownHost(index)
  BY <1>5, <1>7, LeaveLoopType DEF OnEcalli
<1>8. QED
  BY <1>6, <1>7

LEMMA EndingsType ==
  ASSUME TypeOK, OnFinished \/ OnTrap \/ OnSegfault \/ OnNotEnoughGas
  PROVE  TypeOK'
<1>1. w \in WriterType
  BY DEF TypeOK
<1>2. ASSUME NEW name \in {"polkavm_trap", "polkavm_segfault", "polkavm_out_of_gas"}
      PROVE  Return(Event(w, "Error", name)) \in WriterType
  BY <1>1, EventType, ReturnType DEF EventKinds, EventNames, TerminalErrors
<1>3. CASE OnFinished
  BY <1>1, <1>3, ReturnType, LeaveLoopType DEF OnFinished
<1>4. CASE OnTrap
  BY <1>2, <1>4, LeaveLoopType DEF OnTrap, TrapName
<1>5. CASE OnSegfault
  BY <1>2, <1>5, LeaveLoopType DEF OnSegfault
<1>6. CASE OnNotEnoughGas
  BY <1>2, <1>6, LeaveLoopType DEF OnNotEnoughGas
<1>7. QED
  BY <1>3, <1>4, <1>5, <1>6

LEMMA FailsType ==
  ASSUME TypeOK, Fails
  PROVE  TypeOK'
  BY DEF Fails, TypeOK, VmTypeOK, Phases

LEMMA SetUpType ==
  ASSUME TypeOK,
         Prepare \/ Begin \/ RegisterSource \/ RegisterBlob \/ StartTrace \/ Instantiate
  PROVE  TypeOK'
<1>1. w \in WriterType /\ registered \in SUBSET Paths
  BY DEF TypeOK
<1>2. MappedPaths \subseteq Paths /\ BlobPath \in Paths
  BY TracerAssumption DEF MappedPaths, Location
<1>3. CASE Prepare
  BY <1>3, FailsType DEF Prepare, TypeOK, VmTypeOK, Phases
<1>4. CASE Begin
  BY <1>1, <1>4, FailsType, StageType DEF Begin, TypeOK, VmTypeOK, Phases
<1>5. CASE RegisterSource
  <2>1. PICK p \in MappedPaths, accepted \in BOOLEAN :
           /\ w' = RegisterPath(w, registered, p, accepted)
           /\ registered' = registered \cup {p}
    BY <1>5 DEF RegisterSource
  <2>2. w' \in WriterType
    BY <1>1, <1>2, <2>1, RegisterPathType
  <2>3. QED
    BY <1>1, <1>2, <1>5, <2>1, <2>2 DEF RegisterSource, TypeOK, VmTypeOK
<1>6. CASE RegisterBlob
  <2>1. w' \in WriterType
    BY <1>1, <1>2, <1>6, RegisterPathType DEF RegisterBlob
  <2>2. QED
    BY <1>1, <1>2, <1>6, <2>1 DEF RegisterBlob, TypeOK, VmTypeOK, Phases
<1>7. CASE StartTrace
  <2>1. At(BlobPath, 1, 0) \in Location /\ At(BlobPath, 1, 0).path = BlobPath
    BY <1>2 DEF At, Location
  <2>2. Toplevel \in Fn /\ EntryFn \in Fn
    BY DEF Toplevel, EntryFn, Fn
  <2>3. Start(w, At(BlobPath, 1, 0)) \in WriterType
    BY <1>1, <1>2, <2>1, <2>2, CallType, StepAtType DEF Start
  <2>4. w' \in WriterType
    BY <1>2, <1>7, <2>2, <2>3, CallType DEF StartTrace
  <2>5. QED
    BY <1>7, <2>4 DEF StartTrace, TypeOK, VmTypeOK, Phases
<1>8. CASE Instantiate
  <2>1. ASSUME vm' = Prepared /\ UNCHANGED interrupt PROVE VmTypeOK'
    BY <2>1, PreparedType DEF TypeOK
  <2>2. QED
    BY <1>8, <2>1, FailsType DEF Instantiate, TypeOK, Phases
<1>9. QED
  BY <1>3, <1>4, <1>5, <1>6, <1>7, <1>8

LEMMA TearDownType ==
  ASSUME TypeOK, Finish \/ WriteMeta \/ Close
  PROVE  TypeOK'
<1>1. w \in WriterType /\ Return(w) \in WriterType
  BY ReturnType DEF TypeOK
<1>2. CASE Finish
  <2>1. w' \in WriterType
    BY <1>1, <1>2, StageType DEF Finish
  <2>2. QED
    BY <1>2, <2>1 DEF Finish, TypeOK, VmTypeOK, Phases
<1>3. CASE WriteMeta
  BY <1>1, <1>3, FailsType, StageType DEF WriteMeta, TypeOK, VmTypeOK, Phases
<1>4. CASE Close
  BY <1>1, <1>4, FailsType, StageType DEF Close, TypeOK, VmTypeOK, Phases
<1>5. QED
  BY <1>2, <1>3, <1>4

(* trace_program and run_step_loop build well-formed traces from every     *)
(* program and every debug information.                                    *)
THEOREM TypeCorrect == Spec => []TypeOK
<1>1. Init => TypeOK
  <2> SUFFICES ASSUME Init PROVE TypeOK
    OBVIOUS
  <2>1. VmTypeOK
    BY CodeAssumption, EngineAssumption
       DEF Init, VmTypeOK, Prepared, Metered, Causes, NoInterrupt, Interrupt
  <2>2. QED
    BY <2>1, NewWriterType DEF Init, TypeOK, Phases
<1>2. TypeOK /\ [Next]_vars => TypeOK'
  <2> SUFFICES ASSUME TypeOK, [Next]_vars PROVE TypeOK'
    OBVIOUS
  <2>1. CASE UNCHANGED vars
    BY <2>1 DEF vars, TypeOK, VmTypeOK
  <2>2. CASE RunGuest
    BY <2>2, RunType DEF RunGuest, TypeOK
  <2>3. CASE OnRunError
    BY <2>3, FailsType DEF OnRunError
  <2>4. CASE Returned
    BY <2>1, <2>4 DEF Returned
  <2>5. QED
    BY <2>1, <2>2, <2>3, <2>4, SetUpType, OnStepType, OnEcalliType, EndingsType, TearDownType
       DEF Next
<1>3. QED
  BY <1>1, <1>2, PTL DEF Spec
=============================================================================
