------------------------------ MODULE TracerProps ------------------------------
(***************************************************************************)
(* What a recording made by trace_program is to satisfy.                   *)
(***************************************************************************)
EXTENDS Tracer, FiniteSets

Past(p) == phase \in {"finish", "meta", "close", "ok"} /\ p

EventKinds == {"Error", "EvmEvent", "TraceLogEvent", "Write"}

TerminalErrors ==
    {"polkavm_trap", "polkavm_segfault", "polkavm_out_of_gas", "unhandled_host_function"}

EventNames == TerminalErrors \cup
    {"polkavm_divide_by_zero", "polkavm_misaligned_access", "ink_deposit_event",
     "seal_debug_message", "host"}

WriterType ==
    [stage : {"new", "begun", "finished", "described", "closed"},
     tables : [Paths -> Tables \cup {Unset, Default}],
     steps : Seq(Location), frames : Seq(Fn),
     calls : Seq([fn : Fn, args : BOOLEAN, step : Nat]),
     events : Seq([kind : EventKinds, name : EventNames, step : Nat]),
     values : Seq([pc : PCs, operand : Nat, step : Nat]),
     staged : BOOLEAN, late : SUBSET Paths, refused : SUBSET Paths,
     underflow : BOOLEAN]

(* Every variable stays in its domain: trace_program and run_step_loop     *)
(* build well-formed steps, calls, events and snapshots.                   *)
TypeOK ==
    /\ VmTypeOK
    /\ phase \in Phases
    /\ w \in WriterType
    /\ registered \in SUBSET Paths
    /\ prev_line \in Location \cup {NoLine}
    /\ visited \in Seq(Location)

-----------------------------------------------------------------------------
(* The step stream after `start''s own entry step.                         *)
RecordedSteps == IF w.steps = <<>> THEN <<>> ELSE Tail(w.steps)

Steps == INSTANCE StepTrace
            WITH Places <- {LocationOf(pc) : pc \in PCs}, steps <- RecordedSteps

(* The recorded steps are the visited locations with repetitions told      *)
(* once, across calls, host calls and events: the prev_line test of        *)
(* run_step_loop neither loses a transition nor repeats a location.        *)
StepsAreTheVisits == Steps!Spec

(* A register snapshot is shown at the step it was recorded under: that    *)
(* step is at the location of the snapshot's own instruction, although     *)
(* snapshots are taken on every Step and steps are recorded only on        *)
(* transitions.                                                            *)
SnapshotsAtTheirLocation ==
    \A k \in 1..Len(w.values) :
        /\ w.values[k].step \in 1..Len(w.steps)
        /\ w.steps[w.values[k].step] = LocationOf(w.values[k].pc)

(* A file's table is fixed at its first mention, so every file a step, a   *)
(* function or a call has named carries the table the recorder made for it *)
(* unless the writer refused it, and no file was ever offered a second.    *)
TablesBeforeMentions ==
    /\ w.late = {}
    /\ \A p \in Paths : w.tables[p] # Unset =>
            w.tables[p] = OfferedTable(p) \/ p \in w.refused
    /\ \A k \in 1..Len(w.steps) : w.steps[k].path \in registered
    /\ phase = "run" => registered = MappedPaths \cup {BlobPath}

(* The error an instruction that goes on all the same is to leave behind:  *)
(* a division by zero or an access at no multiple of its size.             *)
SoftError(value) ==
    LET instr == Code[value.pc]
    IN  CASE instr.op = "div" /\ value.operand = 0 -> "polkavm_divide_by_zero"
          [] instr.op = "mem" /\ value.operand % instr.size # 0 -> "polkavm_misaligned_access"
          [] OTHER -> "none"

SoftErrors == {"polkavm_divide_by_zero", "polkavm_misaligned_access"}

Due(wr, name, step) ==
    {k \in 1..Len(wr.values) : wr.values[k].step = step /\ SoftError(wr.values[k]) = name}

Told(wr, name, step) ==
    {k \in 1..Len(wr.events) : wr.events[k].step = step /\ wr.events[k].name = name}

(* Every division by zero and every misaligned access the registers show   *)
(* is told once, by the error event of its kind, at the step where the     *)
(* registers are shown, also when it is in the middle of a line or is the  *)
(* guest's last instruction; and nothing else is told as such.             *)
SoftErrorsAreTold ==
    \A name \in SoftErrors, step \in 0..Len(w.steps) :
        Cardinality(Told(w, name, step)) = Cardinality(Due(w, name, step))

-----------------------------------------------------------------------------
(* The guest's activations as frames of the trace.                         *)
GuestFrames ==
    <<Toplevel, EntryFn>> \o [k \in 1..Len(vm.activations) |-> FnAt(vm.activations[k].fn)]

(* The current instruction's Step was handled and it has not executed.     *)
Noted == vm.stage # "fetch" /\ interrupt.kind # "Step"

NotedFrames ==
    CASE Current.op = "load_imm_and_jump" ->
            GuestFrames \o <<FnAt(CHOOSE t \in Current.to : TRUE)>>
      [] Current.op = "jump_indirect" /\ Current.base = "RA" ->
            SubSeq(GuestFrames, 1, Len(GuestFrames) - 1)
      [] OTHER -> GuestFrames

(* While the guest runs, the open frames of the trace are <toplevel>, the  *)
(* entry point and the subroutines the guest is in: the "in-program        *)
(* subroutine call / return patterns" of run_step_loop find every call and *)
(* every return, and a host call never leaves a frame behind.              *)
FramesMirrorGuest ==
    (phase = "run" /\ interrupt.kind # "Error") =>
        w.frames = IF Noted THEN NotedFrames ELSE GuestFrames

(* Arguments staged for a host call go to that call and to no other: none  *)
(* is left waiting for the next subroutine call.                           *)
ArgumentsReachTheirCall ==
    /\ ~w.staged
    /\ \A k \in 1..Len(w.calls) : w.calls[k].args <=> w.calls[k].fn.kind = "host"

-----------------------------------------------------------------------------
Ending == CASE vm.cause = "trap" -> {"polkavm_trap"}
            [] vm.cause = "memory" -> {"polkavm_segfault"}
            [] vm.cause = "gas" -> {"polkavm_out_of_gas"}
            [] vm.cause = "running" -> {"unhandled_host_function"}
            [] OTHER -> {}

TerminalEvents == {k \in 1..Len(w.events) : w.events[k].name \in TerminalErrors}

(* A finished recording tells how the guest ended: nothing for a normal    *)
(* end; otherwise exactly one terminal error, of the right kind, which is  *)
(* the last event and is followed by no step.                              *)
EndIsReported ==
    Past(TRUE) =>
        IF vm.cause = "exit" THEN TerminalEvents = {}
        ELSE /\ TerminalEvents = {Len(w.events)}
             /\ w.events[Len(w.events)].name \in Ending
             /\ w.events[Len(w.events)].step = Len(w.steps)

Recorded == INSTANCE Recording
    WITH stage  <- CASE phase = "prepare" -> "parse"
                     [] phase \in {"begin", "ok", "err"} -> phase
                     [] OTHER -> "record",
         bundle <- CASE w.stage = "new" -> "none"
                     [] w.stage = "closed" -> "complete"
                     [] OTHER -> "partial"

(* Whatever the guest, the writer and the file system do, trace_program    *)
(* keeps the promise its callers in Session rely on.                       *)
TracerIsARecording == Recorded!Spec

(* The frames open when the loop ends: none after a normal end; after an   *)
(* abnormal one the guest's but the one the arm's Return closes; at an     *)
(* unknown host function, which has closed its own, all of the guest's.    *)
EndFrames ==
    CASE vm.cause = "exit" -> <<>>
      [] vm.cause = "running" -> GuestFrames
      [] OTHER -> SubSeq(NotedFrames, 1, Len(NotedFrames) - 1)

(* Of those the final Return of trace_program closes one if there is one.  *)
(* So a bundle that is reported complete has its frames closed after a     *)
(* normal end, when that Return finds none, and after any other it leaves  *)
(* open exactly the guest's but the innermost (an unknown host function)   *)
(* or the innermost two.                                                   *)
OpenAtTheEnd ==
    phase = "ok" =>
        /\ w.frames = SubSeq(EndFrames, 1, Len(EndFrames) - 1)
        /\ w.underflow = (EndFrames = <<>>)

(* What a budget of gas still buys with the guest at pc: after the block   *)
(* it is in has been paid for, so many instructions at most.               *)
LastPc == CHOOSE last \in PCs : \A pc \in PCs : pc <= last

Fuel(gas, pc) ==
    IF gas < BlockCost[pc] THEN 0
    ELSE (gas - BlockCost[pc]) * (LastPc + 1) + (LastPc - pc) + 1

(* An instruction is reported, noted and executed; a host call is reported *)
(* and noted too.                                                          *)
Turn ==
    (CASE vm.stage = "fetch" -> 4 [] vm.stage = "exec" -> 2 [] OTHER -> 0)
    + (IF interrupt = NoInterrupt THEN 0 ELSE 1)

PhasesLeft ==
    CASE phase = "prepare" -> 9 [] phase = "begin" -> 8 [] phase = "paths" -> 7
      [] phase = "start" -> 6 [] phase = "instantiate" -> 5 [] phase = "run" -> 4
      [] phase = "finish" -> 3 [] phase = "meta" -> 2 [] phase = "close" -> 1
      [] OTHER -> 0

(* The steps of trace_program there can be yet.                            *)
Distance ==
    PhasesLeft + Cardinality(MappedPaths \ registered) + 4 * Fuel(vm.gas, vm.pc) + Turn

(* With a gas budget every step of trace_program, the guest's included,    *)
(* brings it nearer to its return, a distance that is never negative: no   *)
(* arm of the loop goes round without the guest having paid, and nothing   *)
(* is done twice.                                                          *)
RecordingComesNearer == [][Distance' \in 0..(Distance - 1)]_vars

(* A gas budget is also one of the trace: there are no more snapshots than *)
(* instructions it pays for and the one it does not, and no more steps     *)
(* than snapshots beside the entry step.                                   *)
TraceFitsTheBudget ==
    /\ Len(w.values) <= Fuel(GasLimit, EntryPc) + 1
    /\ Len(w.steps) <= Len(w.values) + 1

(* With a gas budget every recording comes to an end, whatever the guest   *)
(* does.                                                                   *)
RecordingReturns == <>(phase \in {"ok", "err"})

-----------------------------------------------------------------------------
(* "Close the synthetic <toplevel> Call frame opened above": the last      *)
(* Return of trace_program has that frame to close.                        *)
FinalReturnHasAFrame == ~w.underflow

(* "emits a final Return event so the trace closes cleanly": a successful  *)
(* recording leaves no frame open, however the guest ended.                *)
TraceClosesCleanly == phase = "ok" => w.frames = <<>>

(* "If the trap PC points at a memory load/store instruction, the trap was *)
(* an out-of-bounds access": it is reported as a segfault.                 *)
MemoryTrapIsSegfault ==
    (Past(vm.cause = "memory")) => w.events[Len(w.events)].name = "polkavm_segfault"
=============================================================================
