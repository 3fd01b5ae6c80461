------------------------------- MODULE DebugInfo -------------------------------
(***************************************************************************)
(* What trace_program of tracer.rs learns of a blob before it runs it:     *)
(* whether it is Solidity (detect_solidity_blob), the map of resolc        *)
(* (parse_resolc_debug_info), the source locations (SourceMapper), the     *)
(* functions and names (DwarfVariableInfo) and the entry point.  Each is   *)
(* built on its own, from the same exports and line programs.              *)
(***************************************************************************)
EXTENDS Integers, Sequences, FiniteSets

CONSTANTS
    Blobs,      \* the programs recorded
    Symbols,    \* the names an export may have
    SolPaths,   \* the paths that end in .sol
    NoPath,     \* the path of a frame that has none
    NoName,     \* the function of a frame that has none
    MaxPc,      \* u32::MAX
    None        \* Rust's None

(* A line program serves a range of instructions and describes it region   *)
(* by region; a region's frames go from the function to what is inlined in *)
(* it.  Line 0 is "no line", column 0 "no column".                         *)
Region(from, to, frames) == [from |-> from, to |-> to, frames |-> frames]
LineProgram(from, to, regions) == [from |-> from, to |-> to, regions |-> regions]
Frame(fn, path, line, column) ==
    [fn |-> fn, path |-> path, line |-> line, column |-> column]

Pcs == 0..(MaxPc - 1)

Function == [name : Symbols, start_pc : Pcs, end_pc : Nat \cup {None}]

(* A symbol is exported once; several may be exported at one address.      *)
ASSUME DebugInfoAssumption ==
    /\ MaxPc \in Nat
    /\ {"call", "deploy", "main"} \subseteq Symbols
    /\ None \notin Nat \cup Symbols \cup Function
    /\ \A b \in Blobs :
          /\ b.offsets \subseteq Pcs
          /\ b.exports \in Seq([name : Symbols, pc : Pcs])
          /\ \A j, k \in DOMAIN b.exports : b.exports[j].name = b.exports[k].name => j = k

VARIABLES
    blob,
    stage,          \* the part of trace_program to come
    is_solidity,
    resolc,         \* SoliditySourceMap, or None
    locations,      \* SourceMapper.locations
    functions,      \* DwarfVariableInfo.functions
    frame_functions,
    entry,          \* entry_point
    entry_name

vars == <<blob, stage, is_solidity, resolc, locations, functions, frame_functions,
          entry, entry_name>>

-----------------------------------------------------------------------------
(* The debug information of one instruction.                               *)

(* get_debug_line_program_at: the regions of the program that serves pc.   *)
Regions(pc) ==
    LET serving == {k \in DOMAIN blob.programs :
                        pc \in blob.programs[k].from..(blob.programs[k].to - 1)}
    IN  IF serving = {} THEN <<>> ELSE blob.programs[CHOOSE k \in serving : TRUE].regions

(* The program is run until a region covers the instruction.               *)
FramesAt(pc) ==
    LET rs == Regions(pc)
        covering == {k \in DOMAIN rs : pc \in rs[k].from..(rs[k].to - 1)}
    IN  IF covering = {} THEN <<>>
        ELSE rs[CHOOSE k \in covering : \A j \in covering : k <= j].frames

Innermost(pc) == FramesAt(pc)[Len(FramesAt(pc))]
Outermost(pc) == FramesAt(pc)[1]

(* Mutant: a frame without a line has line 0.                              *)
Described == {pc \in blob.offsets : FramesAt(pc) # <<>>}

Lined == {pc \in blob.offsets : FramesAt(pc) # <<>> /\ Innermost(pc).line > 0}

-----------------------------------------------------------------------------
(* Exports, and the functions they start.                                  *)

Exported(name) == \E k \in DOMAIN blob.exports : blob.exports[k].name = name

Precedes(s, j, k) == s[j].pc < s[k].pc \/ (s[j].pc = s[k].pc /\ j < k)

(* Mutant: the exports are left in the order of the blob.                  *)
Unsorted(s) == s

(* sort_by_key, which is stable.                                           *)
SortedByPc(s) ==
    [r \in DOMAIN s |->
        s[CHOOSE k \in DOMAIN s : Cardinality({j \in DOMAIN s : Precedes(s, j, k)}) = r - 1]]

(* A function ends where the next begins; the last one's end is not known. *)
FunctionInfo(s, last) ==
    [k \in DOMAIN s |->
        [name |-> s[k].name, start_pc |-> s[k].pc,
         end_pc |-> IF k + 1 \in DOMAIN s THEN s[k + 1].pc ELSE last]]

(* Mutant: a function does not hold its first instruction.                 *)
PartitionPointAfter(fs, pc) == Cardinality({k \in DOMAIN fs : fs[k].start_pc < pc})

(* partition_point: as many as start at pc or before.                      *)
PartitionPoint(fs, pc) == Cardinality({k \in DOMAIN fs : fs[k].start_pc <= pc})

FunctionAt(pc) ==
    LET idx == PartitionPoint(functions, pc)
    IN  IF idx = 0 THEN None
        ELSE IF functions[idx].end_pc # None /\ pc >= functions[idx].end_pc THEN None
        ELSE functions[idx]

(* Mutant: only an export gives names, not a frame.                        *)
RenamesInExports(pc) == FunctionAt(pc) # None

(* display_name_for_register: A0 to A5 are called arg0 to arg5.            *)
RenamesArguments(pc) ==
    \/ FunctionAt(pc) # None
    \/ pc \in DOMAIN frame_functions /\ functions # <<>>

-----------------------------------------------------------------------------
(* trace_program, steps 2 and 4.                                           *)

Empty == [pc \in {} |-> None]

Init ==
    /\ blob \in Blobs
    /\ stage = "detect"
    /\ is_solidity = FALSE /\ resolc = None
    /\ locations = Empty /\ functions = <<>> /\ frame_functions = Empty
    /\ entry = None /\ entry_name = None

(* Only the first region of each instruction's line program is run.        *)
HasSolidityDebugPaths ==
    \E pc \in blob.offsets :
        /\ 1 \in DOMAIN Regions(pc)
        /\ LET frames == Regions(pc)[1].frames
           IN  \E k \in DOMAIN frames : frames[k].path \in SolPaths

(* Mutant: a main export does not speak against Solidity.                  *)
LooksLikeReviveAnyway == Exported("call") \/ Exported("deploy")

LooksLikeRevive == (Exported("call") \/ Exported("deploy")) /\ ~Exported("main")

DetectSolidity ==
    /\ stage = "detect"
    /\ is_solidity' = (LooksLikeRevive \/ HasSolidityDebugPaths)
    /\ stage' = "resolc"
    /\ UNCHANGED <<blob, resolc, locations, functions, frame_functions, entry, entry_name>>

RangeOf(name) ==
    LET fs == FunctionInfo(SortedByPc(blob.exports), MaxPc)
        ks == {k \in DOMAIN fs : fs[k].name = name}
    IN  IF ks = {} THEN None ELSE fs[CHOOSE k \in ks : TRUE]

(* is_constructor and is_runtime.                                          *)
InRange(range, pc) == range # None /\ range.start_pc <= pc /\ pc < range.end_pc

Context(pc) ==
    IF InRange(RangeOf("deploy"), pc) THEN "constructor" ELSE Innermost(pc).fn

(* parse_resolc_debug_info, of a blob taken for Solidity.                  *)
ResolcMap ==
    [deploy_range |-> RangeOf("deploy"), call_range |-> RangeOf("call"),
     locations |-> [pc \in Lined |->
                      [path |-> Innermost(pc).path, line |-> Innermost(pc).line,
                       context |-> Context(pc)]]]

ParseResolc ==
    /\ stage = "resolc"
    /\ resolc' = IF is_solidity THEN ResolcMap ELSE None
    /\ stage' = "map"
    /\ UNCHANGED <<blob, is_solidity, locations, functions, frame_functions, entry, entry_name>>

(* Mutant: the function's frame stands for what is inlined in it.          *)
OutermostLocations ==
    [pc \in {p \in Lined : Outermost(p).path # NoPath} |->
        [path |-> Outermost(pc).path, line |-> Outermost(pc).line,
         column |-> Outermost(pc).column]]

(* SourceMapper::from_blob: a frame without a path names no file.          *)
SourceLocations ==
    [pc \in {p \in Lined : Innermost(p).path # NoPath} |->
        [path |-> Innermost(pc).path, line |-> Innermost(pc).line,
         column |-> Innermost(pc).column]]

MapSources ==
    /\ stage = "map"
    /\ locations' = SourceLocations
    /\ stage' = "names"
    /\ UNCHANGED <<blob, is_solidity, resolc, functions, frame_functions, entry, entry_name>>

(* DwarfVariableInfo::from_blob: functions by export, names by frame.      *)
ExportFunctions == FunctionInfo(SortedByPc(blob.exports), None)

FrameFunctions ==
    [pc \in {p \in blob.offsets : FramesAt(p) # <<>> /\ Outermost(p).fn # NoName} |->
        Outermost(pc).fn]

NameVariables ==
    /\ stage = "names"
    /\ functions' = ExportFunctions /\ frame_functions' = FrameFunctions
    /\ stage' = "entry"
    /\ UNCHANGED <<blob, is_solidity, resolc, locations, entry, entry_name>>

(* The exports an entry point is looked for among, first come first.       *)
Wanted == IF is_solidity THEN {"call", "deploy"} ELSE {"main"}

First(S) == CHOOSE k \in S : \A j \in S : k <= j

Candidates == {k \in DOMAIN blob.exports : blob.exports[k].name \in Wanted}

ChooseEntry ==
    /\ stage = "entry"
    /\ IF Candidates = {} THEN stage' = "err" /\ UNCHANGED entry
       ELSE stage' = "name" /\ entry' = blob.exports[First(Candidates)].pc
    /\ UNCHANGED <<blob, is_solidity, resolc, locations, functions, frame_functions, entry_name>>

(* The frame of the entry point is named after the first export there.     *)
ExportsAtEntry == {k \in DOMAIN blob.exports : blob.exports[k].pc = entry}

NameEntry ==
    /\ stage = "name"
    /\ entry_name' = blob.exports[First(ExportsAtEntry)].name
    /\ stage' = "ready"
    /\ UNCHANGED <<blob, is_solidity, resolc, locations, functions, frame_functions, entry>>

Ready == stage \in {"ready", "err"} /\ UNCHANGED vars

Next ==
    \/ DetectSolidity \/ ParseResolc \/ MapSources \/ NameVariables
    \/ ChooseEntry \/ NameEntry \/ Ready

Spec == Init /\ [][Next]_vars

-----------------------------------------------------------------------------
(* A frame of any region of a line program that serves an instruction.     *)
HasSolidityFrames ==
    \E pc \in blob.offsets : \E k \in DOMAIN Regions(pc) :
        \E j \in DOMAIN Regions(pc)[k].frames : Regions(pc)[k].frames[j].path \in SolPaths

Named == stage \in {"entry", "name", "ready", "err"}

(* The debug information is well-formed when the tracer gets it: every     *)
(* location SourceMapper caches has a line and a path, as the steps of     *)
(* run_step_loop need, and every function starts below its end.            *)
TypeOK ==
    /\ blob \in Blobs
    /\ stage \in {"detect", "resolc", "map", "names", "entry", "name", "ready", "err"}
    /\ is_solidity \in BOOLEAN
    /\ resolc # None => /\ DOMAIN resolc.locations \subseteq blob.offsets
                        /\ \A pc \in DOMAIN resolc.locations : resolc.locations[pc].line > 0
    /\ DOMAIN locations \subseteq blob.offsets
    /\ \A pc \in DOMAIN locations : locations[pc].line > 0 /\ locations[pc].path # NoPath
    /\ functions \in Seq(Function)
    /\ DOMAIN frame_functions \subseteq blob.offsets
    /\ entry \in Pcs \cup {None} /\ entry_name \in Symbols \cup {None}

(* function_at finds, by binary search over the sorted exports, the export *)
(* an instruction belongs to: the last one at or before it, of several at  *)
(* one address the one the blob lists last; and none only before them all. *)
FunctionAtIsTheLastExport ==
    Named => \A pc \in blob.offsets :
        LET before == {k \in DOMAIN blob.exports : blob.exports[k].pc <= pc}
        IN  IF before = {} THEN FunctionAt(pc) = None
            ELSE \E k \in before :
                    /\ \A j \in before \ {k} : Precedes(blob.exports, j, k)
                    /\ FunctionAt(pc) # None
                    /\ FunctionAt(pc).name = blob.exports[k].name
                    /\ FunctionAt(pc).start_pc = blob.exports[k].pc

NameAt(pc) == IF FunctionAt(pc) = None THEN None ELSE FunctionAt(pc).name

(* The two maps a Solidity blob gets, and the functions, are built apart   *)
(* and agree on every instruction: it is in deploy_range or call_range     *)
(* exactly when function_at finds deploy or call, only there it has a      *)
(* constructor's context unless its frame is called so, and where          *)
(* SourceMapper resolves it the resolc map gives the same line; the resolc *)
(* map alone keeps frames that name no file.                               *)
ViewsAgree ==
    (Named /\ resolc # None) => \A pc \in blob.offsets :
        /\ InRange(resolc.deploy_range, pc) <=> NameAt(pc) = "deploy"
        /\ InRange(resolc.call_range, pc) <=> NameAt(pc) = "call"
        /\ pc \in DOMAIN locations =>
              /\ pc \in DOMAIN resolc.locations
              /\ resolc.locations[pc].path = locations[pc].path
              /\ resolc.locations[pc].line = locations[pc].line
        /\ pc \in DOMAIN resolc.locations \ DOMAIN locations =>
              resolc.locations[pc].path = NoPath
        /\ pc \in DOMAIN resolc.locations =>
              resolc.locations[pc].context =
                 IF NameAt(pc) = "deploy" THEN "constructor" ELSE Innermost(pc).fn

(* The entry point is an export of the blob's own kind, where function_at   *)
(* begins a function; its frame has the export's name unless another is at *)
(* the same address.  A blob with main and no .sol path is not taken for   *)
(* Solidity, one with call or deploy and no main is; and a blob is refused *)
(* only for having none of the three, or main alone with .sol paths.       *)
EntryIsRight ==
    /\ stage = "ready" =>
          /\ FunctionAt(entry) # None /\ FunctionAt(entry).start_pc = entry
          /\ \E k \in DOMAIN blob.exports :
                blob.exports[k].name = entry_name /\ blob.exports[k].pc = entry
          /\ (\A j, k \in DOMAIN blob.exports : blob.exports[j].pc = blob.exports[k].pc => j = k)
                => entry_name \in Wanted
    /\ (Named /\ Exported("main") /\ ~HasSolidityFrames) => ~is_solidity /\ stage # "err"
    /\ (Named /\ LooksLikeRevive) => is_solidity /\ stage # "err"
    /\ stage = "err" =>
          /\ ~Exported("call") /\ ~Exported("deploy")
          /\ Exported("main") => HasSolidityFrames

(* "If we have frame function info for this PC, treat it as being inside a *)
(* function": in a recording, an instruction at or after the entry point   *)
(* and one whose frame has a name both call A0 to A5 by argument names,    *)
(* and an instruction before every export without such a frame does not.   *)
ArgumentsAreNamed ==
    stage = "ready" => \A pc \in blob.offsets :
        /\ pc >= entry => RenamesArguments(pc)
        /\ (FramesAt(pc) # <<>> /\ Outermost(pc).fn # NoName) => RenamesArguments(pc)
        /\ RenamesArguments(pc) =>
              \/ \E k \in DOMAIN blob.exports : blob.exports[k].pc <= pc
              \/ FramesAt(pc) # <<>> /\ Outermost(pc).fn # NoName

-----------------------------------------------------------------------------
(* "Check whether any debug line-program frame references a `.sol` source  *)
(* file": a blob with such a frame that is recorded is recorded as         *)
(* Solidity.                                                               *)
SolidityIsDetected == stage = "ready" /\ HasSolidityFrames => is_solidity
=============================================================================
