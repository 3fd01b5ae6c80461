# A TLA+ development of the PolkaVM recorder

The recorder loads a PolkaVM program blob, runs it in the `polkavm` engine with
step tracing on, and writes what it sees to a CodeTracer trace bundle. These
modules model what it keeps, in which order it writes it and what can go wrong
between the two, check that on small programs with TLC, and prove the parts that
matter most for every program with TLAPS.

## 1. Inventory

The program is one process and, as far as its own code goes, one thread. What is
hard about it is not parallelism but *order*: one writer with sticky state is
driven from two dozen places, the guest decides which of them runs next, every
call may fail, and much of what the trace says is inferred from instructions
that have not executed yet.

| component | state | operations | talks to |
|---|---|---|---|
| `trace_program` (`tracer.rs` 92-333) | phase, the writer, `registered_paths` | parse, compile, choose the entry point, begin the bundle, register the paths, `start`, instantiate, run, finish, describe, close | engine, writer, source mapper |
| `run_step_loop` (`tracer.rs` 335-1046) | `prev_line` | one arm per interrupt: Step, Finished, Trap, Ecalli, Segfault, NotEnoughGas, and `run()` failing | engine, writer, host handler |
| line tables (`tracer.rs` 1109-1163) | `lines`, `current_len` | one pass over the bytes of a source file | file system |
| trace writer (external crate) | path tables, steps, frames, calls, events, snapshots, staged arguments | the calls of `TraceWriter` | bundle on disk |
| PolkaVM engine (external crate) | program counter, registers, gas | `run()` until the next interrupt | guest |
| source mapper (`source_map.rs`) | map from program counter to location | build from the blob, resolve, list the paths | tracer |
| variable names (`dwarf_variables.rs`) | functions by export | which function, which name a register has | tracer |
| Solidity support (`solidity.rs`) | none | detect, read resolc's debug information, name EVM functions | tracer |
| host function table (`host_functions.rs`) | none | names, and the handler that does nothing | tracer |
| ink! host handler (`ink_testing.rs` 208-354) | storage, input, returned data, the contract's memory | `seal_input`, `seal_return`, `seal_get_storage`, `seal_set_storage`, others | contract memory; the program does not install it yet |
| ink! metadata (`ink_testing.rs` 1-202) | none | parse JSON, hash names | - |
| replay (`replay.rs`) | a blob file in the output directory | fetch or load, validate, write, record | file system, recorder |
| command line (`main.rs`, `recorder.rs`) | none | validate, obey the disabling variable, create the directory, record | everything |

What makes each correct:

- *step loop*: the step stream is what was visited; a snapshot sits under the
  step it belongs to, and so does each soft error, once; the open frames are the guest's activations; arguments
  reach the call they were staged for; the end of the guest is told once and
  rightly; the loop ends;
- *trace_program*: success and a complete bundle coincide; a file's line table
  is given before anything names the file, since the first mention fixes it;
- *line tables*: one entry per line, of the right width, and never an empty table;
- *ink! handler*: through pointers and status codes the contract sees a map;
- *command line and replay*: what is traced is what was fetched; no trace is
  begun of what is no program; success and a complete trace coincide; a disabled
  recorder leaves nothing behind; every invocation exits, unless its guest never
  ends;
- *debug information*: the right function for a program counter, argument names
  where there are arguments, an entry point of the blob's own kind, and three
  maps built apart from one source that agree.

`PROJECT.json` lists the hazards behind these, each at its line.

## 2. Modules

| module | models | kind |
|---|---|---|
| `PolkaVm` | the engine: program, gas, activations, interrupts | component (external) |
| `TraceWriter` | the writer, as a record and operators on it | component (external) |
| `Tracer` | `trace_program` and `run_step_loop`; extends the two above | composition |
| `TracerProps` | what a recording is to satisfy | properties |
| `StepTrace` | what the step stream promises | abstract specification |
| `Recording` | what `trace_program` promises whoever calls it | abstract specification |
| `MCTracer` | guests and locations for TLC | instance |
| `TracerProofs`, `TracerSafety` | type correctness; the streams: steps, snapshots, calls, tables | proofs |
| `TracerReports` | soft errors, frames, completion, the guest's end, what a gas budget bounds | proofs |
| `AbstractProofs` | what follows from the promises of `StepTrace` and `Recording` | proofs |
| `LineTable`, `MCLineTable`, `LineTableProofs` | `line_table_for_path` | component, instance, proofs |
| `DebugInfo`, `MCDebugInfo`, `DebugInfoProofs` | what `trace_program` learns of a blob before it runs it: `SourceMapper`, `DwarfVariableInfo`, Solidity detection, the resolc map, the entry point | component, instance, proofs |
| `InkHost`, `MCInkHost`, `InkHostProofs` | `InkHostHandler` and the contract's memory | component, instance, proofs |
| `KeyValue` | what a contract may expect of its storage | abstract specification |
| `HexText` | the decoding of calldata | operators |
| `Session`, `MCSession`, `SessionProofs` | invocations of `record`, `trace-ink` and `replay` over one file system; extends `HexText` | composition, instance, proofs |

### Tracer

A handler of `run_step_loop` runs from one return of `instance.run()` to the
next call, with nothing in between, so each handler is one action, and the calls
it makes on the writer are composed into the writer's next value in the order
the code makes them. `OnStep` is: register the path of the location if it is
new, record a step if the location is not `prev_line`, take the register
snapshot, then note what the instruction about to execute says (a call, a
return, a division by zero, a misaligned access). A snapshot keeps, of the
registers, the operand the instruction goes by, so that a soft error can be held
against the registers the trace shows.

| variable | code |
|---|---|
| `vm`, `interrupt` | `instance` and the value `instance.run()` returned |
| `phase` | the numbered steps of `trace_program` |
| `w` | `self.writer` |
| `registered` | `registered_paths` |
| `prev_line` | `prev_line` |
| `visited` | none: a history variable, read only by properties |

`\E accepted \in BOOLEAN` is the writer taking or refusing a path table, which
the recorder logs and survives; `Fails` is any `?`. `Prepare` and `Begin` each
stand for several calls that can only succeed or leave with an error before the
bundle says anything.

The engine is modelled from how the loop uses it. A Step is reported before its
instruction executes. A block is charged when its first instruction executes,
after that instruction's Step. An instruction has the shape the loop can tell
apart: its family, where it goes, the register it goes through, the size and
form of an access. The operand the loop reads (a divisor, an address) is chosen
when the Step is reported. Activations are kept by the engine model, not by the
recorder, so that the frames the recorder infers can be compared with them.

`DynamicPaging` says whether a bad access is a Segfault or a Trap. The recorder
builds the engine without dynamic paging (`tracer.rs` 127-135), so the Segfault
arm is not taken by today's program; run `tracer_host` turns it on so that the
arm is checked all the same.

### LineTable

One action per turn of the byte loop, one for the last line, one for the fix of
a blank file. The `u32` counter saturates at `MaxLen`. `panic` is the index
`lines[0]` of an empty table, shown not to happen.

### DebugInfo

One action per part, in the order of `trace_program`: detect Solidity, read the
resolc map, map the sources, name functions and frames, choose the entry point,
name it. Debug information is what the code asks the blob for: line programs
that serve a range of instructions, regions of a line program, frames of a
region, each with or without a name, a path, a line. The parts do not see each
other's results; each scans the blob anew and by its own rules, which is why they
may disagree: detection runs one region of each line program, the maps run to the
region of the instruction; the resolc map keeps frames that name no file,
`SourceMapper` does not; the innermost frame gives a location, the outermost a
name. The stable sort of the exports is defined by rank.

### InkHost

One action per arm of `handle_ecalli`, plus `Poke`, the contract's own stores.
Memory is a few cells; the four bytes of a length are one cell. A read or write
through a bad pointer does what the code does: reads nothing, writes nothing,
says success. The contract may pass any pointers at any time, overlapping and
read-only ones too. A property is about an answer only if its buffers were
*sound*: writable, large enough, and apart from the cell of the length; the
handler ignores the capacity a contract passes, so nothing could be promised
otherwise. `Setups` are the storages a test fills with `set_storage` beforehand.

### Session

Each subcommand is a sequence of actions of its process, cut where another
process or the user can come between: look at the path, make the directory,
fetch, open the copy, write it piece by piece, read it back piece by piece,
parse, begin, run, close. Any call the operating system serves may be refused,
which ends the invocation with an error, and leaves a copy as far as it was
written. A file is a sequence of pieces. Opening the copy truncates it; each
writer has its own position in it (`written`), and `Written` is what a write
there makes of a file others have truncated or written since: a hole reads as
`Zero`, what lies behind stays. So two replays with one directory may leave a
mixture of their contracts, which may even parse (`Valid` holds one in the run).
`Leftovers` is what an earlier replay may have left. The user's builds put
another file under the name, so that a blob is read in one step.

`trace_program` is here four steps; `Tracer` has the rest, and `Parse` and
`Begin` here are its `Prepare` and `Begin`. `Run` is the guest's run, all of
`run_step_loop`: one step, but only for an invocation of `Metered` (those with a
gas limit in their environment) does `FairSpec` say that it ends. The address of a
replay is a file, since today's code never asks a node. What joins the two modules is `Recording`,
which both implement: `Tracer` as a whole, and each invocation of `Session` that
is not disabled and has a directory of its own, so that what `Session` says of a
call of `trace_program` is what `Tracer` does. What two recordings into one
directory make of one trace file is up to the external writer; a bundle of a
shared directory is that of the last to write it, and no property relies on it.
The calldata option of a replay is a text of byte classes, decoded by `HexText`
as the closure does: pairs in order, up to the first that is no byte, a slice
that leaves the text or cuts a character being a panic.

## 3. Runs

| run | shows | bound |
|---|---|---|
| `tracer_calls` | all properties of a recording for a recursive guest, two refinements among them | 10 units of gas |
| `tracer_host` | frames and ends through every arm of the loop, and what is left open | none: the guest is finite |
| `line_table` | the table of every file of up to six bytes | `MaxLen` 3 |
| `debug_info` | functions, maps, names and entry points of 3845 blobs | five instructions, up to three exports, five line programs |
| `ink_host` | the handler implements `KeyValue` | 4 cells, data of one byte |
| `session` | what invocations do to each other and to the files; that each is a `Recording`; what calldata does to a replay | two invocations, one of them with a gas limit, two directories, one contract, files of up to two pieces, one edit, four texts |
| `toplevel_return`, `abnormal_end`, `store_imm_trap`, `indirect_call` | where the recorder's code and its comments or tests part | as `tracer_calls`, or a guest of four instructions |
| `solidity_paths`, `replay_calldata` | the same, of detection and of calldata | as `debug_info`; texts of up to five bytes |

`tracer_calls` runs a guest whose subroutine at 4 calls itself or stops, makes a
host call after it returns, divides by a register that may be zero and reads an
address that may be misaligned or out of bounds. Caller and callee share a
location, one location differs from another only in its column, two program
counters have none, one of the source files is not readable, and any path table
may be refused. Gas bounds the recursion at three activations under the entry
point: one return more than is needed to see a frame lost or closed twice. The
budget runs out at every depth. `tracer_host` has no gas: it goes through known
and unknown host calls, in and out of a subroutine, traps, faults and a jump to
nowhere. `line_table` needs lines longer than the counter can count, hence
`MaxLen` 3 with files of six bytes. `ink_host` has three keys and three values
(the empty one among them), one cell that cannot be written, and starts with an
empty storage or one a test has filled. `debug_info` takes three exports because
a function has a predecessor, a successor and possibly a rival at its own
address; of its line programs one is empty, one puts an inlined function around
everything, one names a `.sol` file in its second region only, one lacks names, and
one has frames without a file or a line.

`session` has two invocations because every property is about one of them and
what another may do to it; with two directories they may or may not share one.
One edit suffices for each hazard, a rebuild or a deletion between two steps.
Files of two pieces can be torn, have a hole, and be mixed: one contract has two,
the other one, a third file is the beginning of the first and no program, and the
shorter contract with the tail of the longer one parses. Both mixtures and holes
are read in the run. An earlier run may have left the longer contract. Its
four texts have the four things calldata can do: decode, be refused, end inside
a pair, cut a character. `replay_calldata` takes every text of up to five bytes:
room for the prefix, a pair and an odd digit.

Fairness is used by two properties, `RecordingReturns` and
`EveryInvocationExits`. `RecordingReturns` takes weak fairness of
`Next`: the one thread that runs `trace_program` is not held up for ever. It
says that with a gas budget every recording returns; without one a guest may
loop for ever and so does its recording, by design. `RecordingComesNearer` is
the part of it that needs no fairness: every step shortens a distance to the
return. `EveryInvocationExits` takes
weak fairness of each invocation's own steps (`Work`), which is the operating
system's scheduler, and none of the user's edits. A guest's run (`Guest`) is fair
only with a gas limit, where `RecordingReturns` is the reason; the limit is off
by default (`tracer.rs` 150-157), and the property then allows what the code
does: to stay with a guest that never ends, and nowhere else.

### Where the code and its words part

1. *toplevel_return.* The Return that is commented "Close the synthetic
   `<toplevel>` Call frame opened above" finds no frame on the ordinary path:
   the guest's own `ret` closed the entry frame and the Finished arm closed
   `<toplevel>`. `OpenAtTheEnd` says so of every such end.
2. *abnormal_end.* A trap, out of gas or a refused host call leaves frames open;
   the tests' comments say the trace closes cleanly. `OpenAtTheEnd` says which:
   the guest's own, but for the innermost two, or the innermost one at an unknown
   host function.
3. *store_imm_trap.* An out-of-bounds store of an immediate is reported as
   `polkavm_trap`, since neither list of memory instructions has that family.
4. *indirect_call.* A subroutine called through a register opens no frame and
   its return closes its caller's.
5. *solidity_paths.* Detection runs the first region of each line program only,
   so a `.sol` path in a later region, which "any debug line-program frame"
   includes, is not seen: a blob that also exports `main` is then recorded from
   there as Rust.
6. *replay_calldata.* Calldata that ends inside a pair panics instead of being
   reported as invalid; a sign and a digit pass as a byte.

`FramesMirrorGuest` holds for the guests of `tracer_calls` and `tracer_host`,
which call directly and return through RA, and is violated by the fourth. A
computed jump through RA is taken for a return; a test records that as a known
limit (`tests/test_recorder_coverage.rs` 3341-3361), so it is not listed again.

## 4. Proofs

All hold for every program, debug information, gas budget and choice of what the
writer refuses, under the named assumptions of the modules: `CodeAssumption`
(control stays in the program), `EngineAssumption`, `TracerAssumption` (the
blob is not one of its own source files, locations are well-formed, the
sentinels are no values), `BlockAssumption` (a program has a last instruction,
and wherever control may be sent other than to the next instruction a block
begins, which costs gas), `LineTableAssumption`, `DebugInfoAssumption` (a symbol
is exported once), `InkHostAssumption` and `SessionAssumption`.

| theorem | says |
|---|---|
| `TracerProofs.TypeCorrect` | every reachable state of the recorder is well-formed |
| `StepsImplementVisits` | the recorder implements `StepTrace` |
| `SnapshotsCorrect` | a snapshot is under a step at its own location |
| `ArgumentsCorrect` | exactly the host calls carry arguments |
| `TablesCorrect` | line tables come before mentions, once |
| `StreamsAreDestuttered` | `StepTrace` loses and repeats nothing |
| `SoftErrorsDiagnosed` | the soft errors the recorder looks for are told once, at their step |
| `SoftErrorsCorrect` | so all are (`NoImmediateStores`) |
| `EndsDiagnosed` | the terminal error is what the cause and the form of the last instruction make of it, single and last |
| `EndsCorrect` | so it is the right one (`NoImmediateStores`) |
| `FramesCorrect` | the open frames are the guest's activations (`Disciplined`) |
| `OpenFramesCorrect` | which frames a complete bundle leaves open: none after a normal end, and which after any other (`Disciplined`) |
| `TracerImplementsRecording` | `trace_program` implements `Recording` |
| `OutcomeTellsTheBundle` | how a `Recording` returns tells what it has left: success is a complete bundle |
| `RecordingAlwaysComesNearer` | every step shortens the distance to the return (`Metered`) |
| `BudgetBoundsTheTrace` | the budget bounds the snapshots and steps of a trace (`Metered`) |
| `TableDescribesEveryFile`, `TableIsAlwaysUsable`, `WidthsNeverOverflow` | line tables, for a file of any content and length |
| `DebugInfoProofs.TypeCorrect` | the maps are well-formed |
| `LastExportIsFound` | `function_at` finds the last export at or before an instruction |
| `ViewsAlwaysAgree` | resolc map, source map and functions agree everywhere |
| `EntryIsAlwaysRight`, `ArgumentsAreAlwaysNamed` | entry point and argument names |
| `InkTypeCorrect`, `InputAlwaysArrives` | the handler's state; the input is found where it was asked for |
| `StorageImplementsMap` | the handler implements `KeyValue`, for data of any size and any pointers |
| `OnlyProgramsAreTraced` | no trace is begun of what does not parse, whoever overwrote it |
| `ReplaysTraceWhatTheyFetched` | a replay traces exactly what it fetched, or another has its directory; every piece it reads is in its place in a contract of one of them, or in a hole |
| `InvocationsImplementRecording` | so does every invocation with a directory of its own, whatever the others do |
| `SuccessLeavesItsTrace` | success in a directory of one's own is a complete trace there |
| `DisabledIsQuiet`, `SessionTypeCorrect` | a disabled invocation touches no file; every state is well-formed |
| `HexIsSafe` | calldata of whole pairs of digits, of any length, decodes |

Three hypotheses name the guests a theorem is about. `NoImmediateStores`: the
program has no store of an immediate, the family the recorder's lists lack
(`store_imm_trap` shows what happens otherwise). `Disciplined`: it calls its
subroutines directly, and jumps through RA exactly to return (`indirect_call`).
`Metered`: it has a gas budget; without one a guest may loop for ever. They are
hypotheses of the theorems, not of the modules. Where a hypothesis excludes what
the code gets wrong, a theorem without it says what the code does instead:
`SoftErrorsDiagnosed` and `EndsDiagnosed` hold for stores of immediates too.

The argument for steps and snapshots goes through `StepInv` (`TracerSafety`):
once the loop has handled a Step, `prev_line` is the last location visited *and*
the last step recorded; before, both are empty and the only step is the one
`start` makes. The properties alone are not inductive: a recorder whose
`prev_line` had drifted from the last step would satisfy them until the next
Step. With it a skipped step (`here = prev_line`) is one whose location is
already the last, which is both the stutter `StepTrace` allows and the reason a
snapshot may be taken without a step. Every other handler leaves `steps` and
`values` alone (`Shape`), whatever else it writes.

Arguments: no handler ends with arguments staged, and `register_call` is made
with none staged except in the Ecalli arm. Tables (`Tabled`): a file that has
a table is registered, and a registered file that has none was refused by the
writer; so the file of a new location is registered in the handler that takes the
step, before that step names it.

Soft errors: at every step number and for each kind, as many events as snapshots
that call for one (`Soft`). A handled Step adds a snapshot and, under the same
step number, the event it calls for or none; no other handler adds a soft error
or a snapshot. Counting is by cardinality of index sets, one element at a time.

Frames and ends both rest on `VmInv`: what the last interrupt says of the guest,
its stage, why it stopped and at which instruction. The frames run ahead of the
guest between a handled Step and the execution of its instruction, so `FrameInv`
carries both views: `GuestFrames` when the guest is to fetch, `NotedFrames` when
its instruction has been noted; `RunFrames` is the proof that executing brings
the second to the first, for each way an instruction can go. After Finished the
guest has no activation, and the two remaining frames are closed by the return
already noted and by the Finished arm. `EndFrames` are the frames as the loop
leaves them: each arm that tells a terminal error closes one of `NotedFrames`
(`ErrorFrames`), and the final Return one of what is then left (`ReturnAny`), or
none, which is when it underflows. For the ends, no terminal error is in the
events while the loop runs, and `VmInv` says which cause the arm that leaves it
must report, also that a Trap for a bad access comes only without dynamic paging
and a Segfault only with it; what follows the loop adds neither an event nor a
step.

Refining `Recording`: `StageInv` ties the writer's stage to the phase, so that a
step of `trace_program` is a step of the promise where it begins or closes the
bundle or leaves with an error, and a stutter elsewhere (`StageMoves`); the loop,
for all it writes, moves neither. An invocation's refinement is relative to the
others: they may touch its directory only if it is theirs too, so `OwnInv` says
what an invocation that has it alone has made of it, and a step of anyone else is
a stutter (`InvocationRecords`).

Coming nearer: the distance is the phases left, the source files not yet
registered, and for the guest four times `Fuel` and the turn of its current
instruction. `Fuel` is what the remaining gas still buys, at most a whole
program's instructions for each unit, and the rest of the block already paid for.
An instruction that goes on to the next spends one of that rest; one that goes
elsewhere enters a block, and pays for it with a unit (`RunPays`), by
`BlockAssumption`. `ChargedInv` is the strengthening: where an activation returns
to, however deep, a block begins, and until it runs the guest is as it was
prepared. The turn orders what happens to one
instruction: reported, noted, executed, and for a host call reported and noted
again. The same fuel bounds the trace (`BudgetInv`): a snapshot is taken out of
what was owed for the Step it belongs to.

Debug information: `Built` (the lemma `BuiltAlways`) says that each variable is either untouched or what
its part builds from the blob alone, so that every property reduces to one about
exports and line programs. `SortingPermutes` is the lemma behind them: ranking
by address and position is a bijection, so the sorted list has every export once
and in order, whatever their number, and `partition_point` counts those before.

ink! handler: `InkInv` needs little beside the types, since an answer is checked
when it is given; the refinement proof is the case analysis of `handle_ecalli`,
with the two writes of an answer shown not to disturb each other when the
buffers are sound.

Invocations: `Effect` says what one step of one invocation does to its own
label, to what it holds and to its directory, and `StepIsOwn` that it does nothing
else; every invariant is then kept for the invocation that moves and for the
others. A replay needs two strengthenings. `OwnCopyInv` is about one with a copy of
its own: while it writes, the copy is the first `written` pieces of its contract
(`Begins`), whatever was there before, since opening has truncated it; while it
reads, the copy is the contract and what it has read is its beginning, so that
the end of the file is the end of the contract. `CopyInv` holds whoever writes:
from the moment a replay has opened the copy, each of its pieces is in its place
in a contract some replay of that directory holds, or in a hole, since writes go
to positions of their own (`WrittenPiece`). That explanation lasts because a
fetched contract is never fetched again (`SharingKept`, `ExplainedKept`).

Line tables: `ScanInv` says that the recorded ends are exactly the newlines
scanned so far, that each finished line's entry is its saturated width, and that
`current_len` is the width of the line being scanned.

Left to TLC: `RecordingReturns` and `EveryInvocationExits`, which are liveness
under fairness and out of this prover's reach. Of the first, everything but the
fairness is proved: `RecordingAlwaysComesNearer` gives the natural number that
every step lowers; what TLC adds is that a step is always possible before the
return (ENABLED) and the induction over that number. Every other property of a
passing run is a theorem, those about frames, ends, soft errors and budgets under
the hypothesis named beside them.

## 5. Not modelled

- The bytes of the bundle, event texts and register values other than the operand
  an instruction goes by.
- ink! metadata: JSON parsing, hashing of names and selectors (`ink_testing.rs`
  1-202), and the table of EVM names in `solidity.rs`. They keep no state and
  decide nothing.
- Which half of a register a 32-bit division uses: the recorder tests the whole
  register, and what the engine divides by is the engine's.
- Argument parsing by clap, and how the output directory and the disabling
  variable are looked up; `Session` starts from their values.
- `None => continue` for a Step without a program counter (`tracer.rs` 361-364):
  the engine always has one when it reports a Step.
- Two recordings writing one `trace.bin` at once: what becomes of the bytes is the
  external writer's. `Session` counts the last writer as the owner and promises
  nothing of a shared directory.
- `VariableValue` and `function_name_at` have no caller.

## 6. Plan

1. Byte positions: the bundle's global line index as the sum of line tables, to
   cover locations past the conventional table's 100000 lines.
2. The composition of `DebugInfo` and `Tracer`: `Locations` and `EntryPc` as the
   results of the former instead of constants.
3. `InkHostHandler` behind the Ecalli arm of `Tracer`, once the program installs it.
