--------------------------------- MODULE Tracer ---------------------------------
(***************************************************************************)
(* PolkaVmTracer of tracer.rs: trace_program, phase by phase, and          *)
(* run_step_loop, one action per interrupt of the engine.  The program is  *)
(* one thread: a handler runs from the interrupt to the next call of       *)
(* run(), so it is one action, and every call it makes on the writer is    *)
(* composed into the writer's next value.                                  *)
(*                                                                         *)
(* `visited' is a history variable: the locations of the Steps handled so  *)
(* far.  Nothing reads it but the properties.                              *)
(***************************************************************************)
EXTENDS PolkaVm, TraceWriter

CONSTANTS
    Locations,  \* SourceMapper.locations: the locations the debug info gives
    BlobPath,   \* the path of the program blob itself
    Readable,   \* the source files present on the recording host
    NoLine      \* prev_line's None

Location == [path : Paths, line : Nat, column : Nat]

(* Column 0 is "no column": DWARF's columns start at 1.                    *)
At(path, line, column) == [path |-> path, line |-> line, column |-> column]

Tables == {"own", "conventional"}

ASSUME TracerAssumption ==
    /\ BlobPath \in Paths
    /\ Readable \subseteq Paths
    /\ DOMAIN Locations \subseteq PCs
    /\ \A pc \in DOMAIN Locations :
          Locations[pc] \in Location /\ Locations[pc].path # BlobPath
    /\ NoLine \notin Location
    /\ Unset \notin Tables /\ Default \notin Tables /\ Unset # Default

VARIABLES
    phase,       \* where trace_program is
    w,           \* the writer
    registered,  \* registered_paths
    prev_line,   \* the location of the last recorded step, or NoLine
    visited      \* history: the locations of the handled Steps

vars == <<vm, interrupt, phase, w, registered, prev_line, visited>>

Phases == {"prepare", "begin", "paths", "start", "instantiate", "run", "finish",
           "meta", "close", "ok", "err"}

-----------------------------------------------------------------------------
(* The paths of the debug information, and the program counters.           *)

TableFor(p) == IF p \in Readable THEN "own" ELSE "conventional"

(* line_table_for_path for source files; the blob is no source.            *)
OfferedTable(p) == IF p = BlobPath THEN "conventional" ELSE TableFor(p)

LocationOf(pc) ==
    IF pc \in DOMAIN Locations THEN Locations[pc] ELSE At(BlobPath, pc + 1, 0)

MappedPaths == {Locations[pc].path : pc \in DOMAIN Locations}

(* distinct_paths: by the lowest program counter that maps to the path.    *)
NextPath(p) ==
    \E pc \in DOMAIN Locations :
        /\ Locations[pc].path = p
        /\ \A q \in DOMAIN Locations : q < pc => Locations[q].path \in registered

(* Mutant: the set of registered paths is not consulted.                   *)
RegisterPathAgain(wr, known, p, accepted) ==
    IF accepted THEN Offer(wr, p, OfferedTable(p)) ELSE Refuse(wr, p)

(* ensure_path_with_line_lengths and register_path_with_table: marked as   *)
(* registered first, so that a refused table is not offered again.         *)
RegisterPath(wr, known, p, accepted) ==
    IF p \in known THEN wr
    ELSE IF accepted THEN Offer(wr, p, OfferedTable(p)) ELSE Refuse(wr, p)

EntryFn == [kind |-> "entry", n |-> 0]

(* Mutant: the callee is named by its distance from the call.              *)
FnAtDistance(pc) == [kind |-> "pc", n |-> pc - vm.pc]

FnAt(pc) == [kind |-> "pc", n |-> pc]
HostFn(index) == [kind |-> "host", n |-> index]

(* resolve_host_function: the pallet-revive table.                         *)
KnownHost(index) == index \in 0..29

-----------------------------------------------------------------------------
Init ==
    /\ phase = "prepare"
    /\ vm = Prepared /\ interrupt = NoInterrupt
    /\ w = NewWriter
    /\ registered = {}
    /\ prev_line = NoLine
    /\ visited = <<>>

Fails ==
    /\ phase' = "err"
    /\ UNCHANGED <<vm, interrupt, w, registered, prev_line, visited>>

(* Parse the blob, compile it, find the entry point.                       *)
Prepare ==
    /\ phase = "prepare"
    /\ \/ Fails
       \/ /\ phase' = "begin"
          /\ UNCHANGED <<vm, interrupt, w, registered, prev_line, visited>>

(* Create the directory and the events file.                               *)
Begin ==
    /\ phase = "begin"
    /\ \/ Fails
       \/ /\ phase' = "paths"
          /\ w' = AtStage(w, "begun")
          /\ UNCHANGED <<vm, interrupt, registered, prev_line, visited>>

(* Mutant: a file whose table was refused is offered it again.             *)
RegisterSourceUntilTaken ==
    /\ phase = "paths"
    /\ \E p \in MappedPaths \ registered, accepted \in BOOLEAN :
          /\ NextPath(p)
          /\ w' = RegisterPath(w, registered, p, accepted)
          /\ registered' = IF accepted THEN registered \cup {p} ELSE registered
    /\ UNCHANGED <<vm, interrupt, phase, prev_line, visited>>

(* Every source file of the debug information, then the blob.              *)
RegisterSource ==
    /\ phase = "paths"
    /\ \E p \in MappedPaths \ registered, accepted \in BOOLEAN :
          /\ NextPath(p)
          /\ w' = RegisterPath(w, registered, p, accepted)
          /\ registered' = registered \cup {p}
    /\ UNCHANGED <<vm, interrupt, phase, prev_line, visited>>

RegisterBlob ==
    /\ phase = "paths"
    /\ MappedPaths \subseteq registered
    /\ \E accepted \in BOOLEAN : w' = RegisterPath(w, registered, BlobPath, accepted)
    /\ registered' = registered \cup {BlobPath}
    /\ phase' = "start"
    /\ UNCHANGED <<vm, interrupt, prev_line, visited>>

(* start, then the frame of the entry point.                               *)
StartTrace ==
    /\ phase = "start"
    /\ w' = Call(Start(w, At(BlobPath, 1, 0)), EntryFn, BlobPath)
    /\ phase' = "instantiate"
    /\ UNCHANGED <<vm, interrupt, registered, prev_line, visited>>

Instantiate ==
    /\ phase = "instantiate"
    /\ \/ Fails
       \/ /\ phase' = "run"
          /\ vm' = Prepared
          /\ UNCHANGED <<interrupt, w, registered, prev_line, visited>>

-----------------------------------------------------------------------------
(* run_step_loop.                                                          *)

RunGuest ==
    /\ phase = "run"
    /\ Run
    /\ UNCHANGED <<phase, w, registered, prev_line, visited>>

(* The divisor register is read before the division executes.              *)
NoteDivision(wr, divisor) ==
    IF divisor = 0 THEN Event(wr, "Error", "polkavm_divide_by_zero") ELSE wr

(* The families of memory accesses the code lists: stores of an immediate  *)
(* are in neither of its lists.                                            *)
Listed(instr) == instr.op = "mem" /\ instr.form = "register"

NoteMisalignment(wr, instr, address) ==
    IF instr.size > 1 /\ address % instr.size # 0
    THEN Event(wr, "Error", "polkavm_misaligned_access") ELSE wr

(* Mutant: no Return for a jump through RA.                                *)
NoteCallsOnly(wr, instr, operand) ==
    IF instr.op = "load_imm_and_jump"
    THEN Call(wr, FnAt(CHOOSE t \in instr.to : TRUE), BlobPath) ELSE wr

(* Mutant: every indirect jump is a return.                                *)
NoteAnyIndirect(wr, instr, operand) ==
    CASE instr.op = "load_imm_and_jump" ->
            Call(wr, FnAt(CHOOSE t \in instr.to : TRUE), BlobPath)
      [] instr.op = "jump_indirect" -> Return(wr)
      [] OTHER -> wr

(* Mutant: a call tells its callee's first step too.                       *)
NoteCallWithStep(wr, instr, operand) ==
    IF instr.op = "load_imm_and_jump"
    THEN LET callee == CHOOSE t \in instr.to : TRUE
         IN  StepAt(Call(wr, FnAt(callee), BlobPath), LocationOf(callee))
    ELSE wr

(* What the instruction about to execute says in the trace: the call and   *)
(* return patterns and the two soft errors.                                *)
NoteInstruction(wr, instr, operand) ==
    CASE instr.op = "load_imm_and_jump" ->
            Call(wr, FnAt(CHOOSE t \in instr.to : TRUE), BlobPath)
      [] instr.op = "jump_indirect" /\ instr.base = "RA" -> Return(wr)
      [] instr.op = "div" -> NoteDivision(wr, operand)
      [] Listed(instr) -> NoteMisalignment(wr, instr, operand)
      [] OTHER -> wr

(* Mutant: the column is left out of the comparison.                       *)
NoteStepOfLine(wr, here, accepted) ==
    IF prev_line # NoLine /\ [here EXCEPT !.column = 0] = [prev_line EXCEPT !.column = 0]
    THEN wr
    ELSE StepAt(RegisterPath(wr, registered, here.path, accepted), here)

(* Mutant: only the line number is compared.                               *)
NoteStepOfLineNumber(wr, here, accepted) ==
    IF prev_line # NoLine /\ here.line = prev_line.line THEN wr
    ELSE StepAt(RegisterPath(wr, registered, here.path, accepted), here)

(* A step is recorded when the location is not the previous one.           *)
NoteStep(wr, here, accepted) ==
    IF here = prev_line THEN wr
    ELSE StepAt(RegisterPath(wr, registered, here.path, accepted), here)

(* Mutant: the instruction is noted before the step it belongs to.         *)
OnStepNotesFirst ==
    /\ phase = "run"
    /\ interrupt.kind = "Step"
    /\ LET here == LocationOf(vm.pc)
       IN  /\ \E accepted \in BOOLEAN :
                w' = Values(NoteStep(NoteInstruction(w, Current, vm.operand), here, accepted),
                            vm.pc, vm.operand)
           /\ registered' =
                IF here = prev_line THEN registered ELSE registered \cup {here.path}
           /\ prev_line' = here
           /\ visited' = Append(visited, here)
    /\ interrupt' = NoInterrupt
    /\ UNCHANGED <<vm, phase>>

OnStep ==
    /\ phase = "run"
    /\ interrupt.kind = "Step"
    /\ LET here == LocationOf(vm.pc)
       IN  /\ \E accepted \in BOOLEAN :
                w' = NoteInstruction(Values(NoteStep(w, here, accepted), vm.pc, vm.operand),
                                     Current, vm.operand)
           /\ registered' =
                IF here = prev_line THEN registered ELSE registered \cup {here.path}
           /\ prev_line' = here
           /\ visited' = Append(visited, here)
    /\ interrupt' = NoInterrupt
    /\ UNCHANGED <<vm, phase>>

(* The loop ends: the interrupt is handled and trace_program goes on.      *)
LeaveLoop(wr) ==
    /\ w' = wr
    /\ phase' = "finish"
    /\ interrupt' = NoInterrupt
    /\ UNCHANGED <<vm, registered, prev_line, visited>>

OnFinished ==
    /\ phase = "run"
    /\ interrupt.kind = "Finished"
    /\ LeaveLoop(Return(w))

(* Mutant: every trap is reported alike.                                   *)
TrapNamePlain(instr) == "polkavm_trap"

(* describe_memory_access: a trap at a memory access is a segfault.        *)
TrapName(instr) == IF Listed(instr) THEN "polkavm_segfault" ELSE "polkavm_trap"

OnTrap ==
    /\ phase = "run"
    /\ interrupt.kind = "Trap"
    /\ LeaveLoop(Return(Event(w, "Error", TrapName(Current))))

(* Mutant: the segfault arm reports the generic name.                      *)
OnSegfaultAsTrap ==
    /\ phase = "run"
    /\ interrupt.kind = "Segfault"
    /\ LeaveLoop(Return(Event(w, "Error", "polkavm_trap")))

(* Mutant: the segfault arm closes no frame.                               *)
OnSegfaultUnreturned ==
    /\ phase = "run"
    /\ interrupt.kind = "Segfault"
    /\ LeaveLoop(Event(w, "Error", "polkavm_segfault"))

OnSegfault ==
    /\ phase = "run"
    /\ interrupt.kind = "Segfault"
    /\ LeaveLoop(Return(Event(w, "Error", "polkavm_segfault")))

(* Mutant: the out-of-gas arm does not break out of the loop.              *)
OnNotEnoughGasLoops ==
    /\ phase = "run"
    /\ interrupt.kind = "NotEnoughGas"
    /\ w' = Return(Event(w, "Error", "polkavm_out_of_gas"))
    /\ interrupt' = NoInterrupt
    /\ UNCHANGED <<vm, phase, registered, prev_line, visited>>

OnNotEnoughGas ==
    /\ phase = "run"
    /\ interrupt.kind = "NotEnoughGas"
    /\ LeaveLoop(Return(Event(w, "Error", "polkavm_out_of_gas")))

(* The structured event some host functions are mirrored to.               *)
HostEvent(wr, index) ==
    CASE index = 4 -> Event(wr, "EvmEvent", "ink_deposit_event")
      [] index = 28 -> Event(wr, "Write", "seal_debug_message")
      [] index \in {5, 6, 7, 9, 19, 20} -> Event(wr, "TraceLogEvent", "host")
      [] OTHER -> wr

(* Mutant: the arguments are staged after register_call.                   *)
OnEcalliStagesLate ==
    /\ phase = "run"
    /\ interrupt.kind = "Ecalli"
    /\ LET index == interrupt.index
       IN  w' = Return(HostEvent(StageArgs(Call(w, HostFn(index), BlobPath)), index))
    /\ interrupt' = NoInterrupt
    /\ UNCHANGED <<vm, phase, registered, prev_line, visited>>

(* The host call's frame holds its event and closes before the guest runs  *)
(* on; a function the handler does not know ends the loop.                 *)
OnEcalli ==
    /\ phase = "run"
    /\ interrupt.kind = "Ecalli"
    /\ LET index == interrupt.index
           called == HostEvent(Call(StageArgs(w), HostFn(index), BlobPath), index)
       IN  IF KnownHost(index)
           THEN /\ w' = Return(called)
                /\ interrupt' = NoInterrupt
                /\ UNCHANGED <<vm, phase, registered, prev_line, visited>>
           ELSE LeaveLoop(Event(Return(called), "Error", "unhandled_host_function"))

OnRunError ==
    /\ phase = "run"
    /\ interrupt.kind = "Error"
    /\ Fails

-----------------------------------------------------------------------------
(* Mutant: the final Return is left out.                                   *)
FinishUnreturned ==
    /\ phase = "finish"
    /\ \/ /\ phase' = "meta"
          /\ w' = AtStage(w, "finished")
       \/ Fails
    /\ UNCHANGED <<vm, interrupt, registered, prev_line, visited>>

(* The Return meant for <toplevel>, then the bundle's own steps.           *)
Finish ==
    /\ phase = "finish"
    /\ \/ /\ phase' = "meta"
          /\ w' = AtStage(Return(w), "finished")
       \/ /\ phase' = "err"
          /\ w' = Return(w)
    /\ UNCHANGED <<vm, interrupt, registered, prev_line, visited>>

WriteMeta ==
    /\ phase = "meta"
    /\ \/ Fails
       \/ /\ phase' = "close"
          /\ w' = AtStage(w, "described")
          /\ UNCHANGED <<vm, interrupt, registered, prev_line, visited>>

(* Mutant: the error of close() is dropped.                                *)
CloseUnchecked ==
    /\ phase = "close"
    /\ phase' = "ok"
    /\ w' \in {w, AtStage(w, "closed")}
    /\ UNCHANGED <<vm, interrupt, registered, prev_line, visited>>

Close ==
    /\ phase = "close"
    /\ \/ Fails
       \/ /\ phase' = "ok"
          /\ w' = AtStage(w, "closed")
          /\ UNCHANGED <<vm, interrupt, registered, prev_line, visited>>

(* trace_program has returned.                                             *)
Returned == phase \in {"ok", "err"} /\ UNCHANGED vars

Next ==
    \/ Prepare \/ Begin \/ RegisterSource \/ RegisterBlob \/ StartTrace \/ Instantiate
    \/ RunGuest
    \/ OnStep \/ OnFinished \/ OnTrap \/ OnSegfault \/ OnNotEnoughGas \/ OnEcalli \/ OnRunError
    \/ Finish \/ WriteMeta \/ Close
    \/ Returned

Spec == Init /\ [][Next]_vars

(* One thread runs trace_program; it is never held up for ever.            *)
FairSpec == Spec /\ WF_vars(Next)
=============================================================================
