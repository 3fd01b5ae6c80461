-------------------------------- MODULE PolkaVm --------------------------------
(***************************************************************************)
(* The PolkaVM engine with step tracing (the external polkavm crate), as   *)
(* run_step_loop of tracer.rs meets it: RawInstance::run executes the      *)
(* guest until it has an interrupt to report.  A Step is reported before   *)
(* its instruction executes.  Blocks are charged when their first          *)
(* instruction executes, after its Step was reported.                      *)
(*                                                                         *)
(* Of the guest's data only what the recorder can tell apart is kept: the  *)
(* operand of the instruction about to execute (the divisor of a division, *)
(* the effective address of a memory access), chosen when its Step is      *)
(* reported, and the activations, that is, the subroutines the guest is in *)
(* and the addresses they return to.                                       *)
(***************************************************************************)
EXTENDS Integers, Sequences

CONSTANTS
    Code,           \* the program: an instruction for every program counter
    EntryPc,        \* where the exported entry point starts
    BlockCost,      \* gas of the block a program counter starts, 0 inside one
    GasLimit,       \* the gas budget, or NoGas: no metering
    NoGas,
    Addresses,      \* effective addresses a memory access may have
    MemLimit,       \* accesses from here on are out of bounds
    DynamicPaging   \* out-of-bounds accesses are Segfaults, not Traps

PCs == DOMAIN Code

Ops == {"plain", "branch", "load_imm_and_jump", "load_imm_and_jump_indirect",
        "jump_indirect", "div", "mem", "trap", "ecalli"}

(* One shape for all instructions; a field an opcode has no use for holds  *)
(* anything.                                                               *)
(*   to      where control may go (branch, calls, computed jumps)          *)
(*   base    the register a call links or an indirect jump goes through    *)
(*   role    what an indirect jump is for: to return, or to go elsewhere   *)
(*   size    the bytes a memory access touches                             *)
(*   form    whether a store writes a register or an immediate             *)
(*   index   the host function of an ecalli                                *)
Instructions ==
    [op : Ops, to : SUBSET PCs, base : {"RA", "other"}, role : {"return", "goto"},
     size : {1, 2, 4, 8}, form : {"register", "immediate"}, index : Nat]

Calling == {"load_imm_and_jump", "load_imm_and_jump_indirect"}

FallsThrough == {"plain", "div", "mem", "ecalli"} \cup Calling

ASSUME CodeAssumption ==
    /\ PCs \subseteq Nat
    /\ EntryPc \in PCs
    /\ Code \in [PCs -> Instructions]
    /\ \A pc \in PCs : Code[pc].op \in FallsThrough => pc + 1 \in PCs
    /\ \A pc \in PCs : Code[pc].op = "load_imm_and_jump" => \E t \in PCs : Code[pc].to = {t}
    /\ BlockCost \in [PCs -> Nat]

ASSUME EngineAssumption ==
    /\ NoGas \notin Int
    /\ GasLimit \in Int \cup {NoGas}
    /\ Addresses \subseteq Nat
    /\ 0 \in Addresses
    /\ MemLimit \in Nat
    /\ DynamicPaging \in BOOLEAN

(* A program ends somewhere, and control enters a block at its start, where *)
(* it is charged: a target of a jump or call, and where a call returns to, *)
(* cost gas.                                                               *)
ASSUME BlockAssumption ==
    /\ \E last \in PCs : \A pc \in PCs : pc <= last
    /\ \A pc \in PCs :
          /\ \/ Code[pc].op \in {"branch"} \cup Calling
             \/ Code[pc].op = "jump_indirect" /\ Code[pc].role = "goto"
             => \A t \in Code[pc].to : BlockCost[t] > 0
          /\ Code[pc].op \in Calling => BlockCost[pc + 1] > 0

VARIABLES
    vm,         \* the instance
    interrupt   \* what run() has just reported, until the recorder handles it

Interrupt(kind, index) == [kind |-> kind, index |-> index]

NoInterrupt == Interrupt("none", 0)

Metered == GasLimit # NoGas

(* Why the guest stopped, which the recorder has to find out.              *)
Causes == {"running", "exit", "trap", "memory", "gas"}

VmTypeOK ==
    /\ vm \in [pc : PCs, stage : {"fetch", "exec", "halted"}, operand : Nat,
               activations : Seq([fn : PCs, ret : PCs]), gas : Int, cause : Causes]
    /\ interrupt \in [kind : {"none", "Step", "Finished", "Trap", "Ecalli",
                              "Segfault", "NotEnoughGas", "Error"}, index : Nat]

(* prepare_call_typed and set_gas.                                         *)
Prepared ==
    [pc |-> EntryPc, stage |-> "fetch", operand |-> 0, activations |-> <<>>,
     gas |-> IF Metered THEN GasLimit ELSE 0, cause |-> "running"]

-----------------------------------------------------------------------------
Current == Code[vm.pc]

Operands(instr) ==
    CASE instr.op = "div" -> {0, 1}
      [] instr.op = "mem" -> Addresses
      [] OTHER -> {0}

Gas == IF Metered THEN vm.gas - BlockCost[vm.pc] ELSE vm.gas

(* The engine reports the next instruction.                                *)
ReportStep ==
    /\ vm.stage = "fetch"
    /\ \E v \in Operands(Current) : vm' = [vm EXCEPT !.stage = "exec", !.operand = v]
    /\ interrupt' = Interrupt("Step", 0)

Goes(pc, activations) ==
    /\ vm' = [vm EXCEPT !.pc = pc, !.stage = "fetch", !.activations = activations, !.gas = Gas]
    /\ interrupt' = NoInterrupt

Halts(kind, cause) ==
    /\ vm' = [vm EXCEPT !.stage = "halted", !.cause = cause]
    /\ interrupt' = Interrupt(kind, 0)

OutOfBounds == Current.op = "mem" /\ vm.operand >= MemLimit

FallThrough ==
    /\ Current.op \in {"plain", "div", "mem"}
    /\ ~OutOfBounds
    /\ Goes(vm.pc + 1, vm.activations)

Jump ==
    /\ \/ Current.op = "branch"
       \/ Current.op = "jump_indirect" /\ Current.role = "goto"
    /\ \E t \in Current.to : Goes(t, vm.activations)

EnterSubroutine ==
    /\ Current.op \in Calling
    /\ \E t \in Current.to :
          Goes(t, Append(vm.activations, [fn |-> t, ret |-> vm.pc + 1]))

LeaveSubroutine ==
    /\ Current.op = "jump_indirect" /\ Current.role = "return"
    /\ vm.activations # <<>>
    /\ LET n == Len(vm.activations)
       IN  Goes(vm.activations[n].ret, SubSeq(vm.activations, 1, n - 1))

LeaveProgram ==
    /\ Current.op = "jump_indirect" /\ Current.role = "return"
    /\ vm.activations = <<>>
    /\ Halts("Finished", "exit")

(* A trap instruction, a jump to no valid address, a bad memory access.     *)
Fault ==
    \/ Current.op = "trap" /\ Halts("Trap", "trap")
    \/ /\ Current.op = "jump_indirect" /\ Current.role = "goto" /\ Current.to = {}
       /\ Halts("Trap", "trap")
    \/ OutOfBounds /\ Halts(IF DynamicPaging THEN "Segfault" ELSE "Trap", "memory")

(* The host function runs outside the engine; run() resumes after it.      *)
CallHost ==
    /\ Current.op = "ecalli"
    /\ vm' = [vm EXCEPT !.pc = @ + 1, !.stage = "fetch", !.gas = Gas]
    /\ interrupt' = Interrupt("Ecalli", Current.index)

Execute ==
    /\ vm.stage = "exec"
    /\ IF Metered /\ vm.gas < BlockCost[vm.pc]
       THEN Halts("NotEnoughGas", "gas")
       ELSE \/ FallThrough
            \/ Jump
            \/ EnterSubroutine
            \/ LeaveSubroutine
            \/ LeaveProgram
            \/ Fault
            \/ CallHost

(* run() itself fails.                                                     *)
EngineFails ==
    /\ vm.stage # "halted"
    /\ vm' = [vm EXCEPT !.stage = "halted"]
    /\ interrupt' = Interrupt("Error", 0)

Run ==
    /\ interrupt = NoInterrupt
    /\ ReportStep \/ Execute \/ EngineFails
=============================================================================
