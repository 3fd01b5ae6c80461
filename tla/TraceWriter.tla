------------------------------ MODULE TraceWriter ------------------------------
(***************************************************************************)
(* The CTFS trace writer the recorder drives (the external crate           *)
(* codetracer_trace_writer_nim), as tracer.rs and the tests use it.  A     *)
(* writer is one record and every call of its interface is an operator     *)
(* from writer to writer, so that a handler of the recorder is a           *)
(* composition of writer calls.                                            *)
(*                                                                         *)
(*   stage    how far the bundle has got on disk                           *)
(*   tables   the line table of each file, fixed at its first mention      *)
(*   steps    the step stream: source locations                            *)
(*   frames   the functions of the call frames still open, outermost first *)
(*   calls    the call stream; `args' says that staged arguments went in   *)
(*   events   the special (structured log) events, at their step           *)
(*   values   the register snapshots, at their step                        *)
(*   staged   arguments wait for the next call                             *)
(*                                                                         *)
(* Three fields only remember what went wrong on the interface: `late',    *)
(* the files that were offered a table after their table was fixed,        *)
(* `refused', those whose table the writer did not take, and `underflow',  *)
(* that a Return arrived when no frame was open.                           *)
(***************************************************************************)
EXTENDS Naturals, Sequences

CONSTANTS
    Paths,    \* the files a trace can name
    Unset,    \* the table of a file not mentioned yet
    Default   \* the table of a file first mentioned without one

(* A function the trace names: the synthetic toplevel, the program's entry *)
(* point, a subroutine named after its address, a host function.           *)
Fn == [kind : {"toplevel", "entry", "pc", "host"}, n : Nat]

Toplevel == [kind |-> "toplevel", n |-> 0]

NewWriter ==
    [stage |-> "new", tables |-> [p \in Paths |-> Unset], steps |-> <<>>,
     frames |-> <<>>, calls |-> <<>>, events |-> <<>>, values |-> <<>>,
     staged |-> FALSE, late |-> {}, refused |-> {}, underflow |-> FALSE]

(* The bundle moves on: begun, events finished, metadata written, closed.  *)
AtStage(w, s) == [w EXCEPT !.stage = s]

(* An explicit registration: honoured only before the first mention.       *)
Offer(w, p, table) ==
    IF w.tables[p] = Unset
    THEN [w EXCEPT !.tables[p] = table]
    ELSE [w EXCEPT !.late = @ \cup {p}]

(* The writer does not take the table (a soft failure for the recorder).   *)
Refuse(w, p) == [w EXCEPT !.refused = @ \cup {p}]

(* A step, a function or a call names a file.                              *)
Mention(w, p) ==
    IF w.tables[p] = Unset THEN [w EXCEPT !.tables[p] = Default] ELSE w

StepAt(w, loc) == [Mention(w, loc.path) EXCEPT !.steps = Append(@, loc)]

StageArgs(w) == [w EXCEPT !.staged = TRUE]

(* ensure_function_id + register_call: the staged arguments, if any, go to *)
(* this call.                                                              *)
Call(w, fn, p) ==
    [Mention(w, p) EXCEPT
        !.frames = Append(@, fn),
        !.calls  = Append(@, [fn |-> fn, args |-> w.staged, step |-> Len(w.steps)]),
        !.staged = FALSE]

(* A Return closes the innermost frame; with none open it is dropped.      *)
Return(w) ==
    IF w.frames = <<>>
    THEN [w EXCEPT !.underflow = TRUE]
    ELSE [w EXCEPT !.frames = SubSeq(@, 1, Len(@) - 1)]

Event(w, kind, name) ==
    [w EXCEPT !.events =
        Append(@, [kind |-> kind, name |-> name, step |-> Len(w.steps)])]

(* Of the registers, the one the instruction goes by.                      *)
Values(w, pc, operand) ==
    [w EXCEPT !.values =
        Append(@, [pc |-> pc, operand |-> operand, step |-> Len(w.steps)])]

(* start: the <toplevel> function, its frame and the entry step.           *)
Start(w, loc) == StepAt(Call(w, Toplevel, loc.path), loc)
=============================================================================
