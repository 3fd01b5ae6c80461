-------------------------------- MODULE Session --------------------------------
(***************************************************************************)
(* Invocations of the command line (main.rs, recorder.rs, replay.rs) over  *)
(* one file system, with a user who rebuilds and deletes the blobs while   *)
(* they run.  record and trace-ink differ only in what they print, so      *)
(* "record" is both.  trace_program is four steps: parse, begin, run,      *)
(* close; module Tracer has the rest.                                      *)
(***************************************************************************)
EXTENDS HexText

CONSTANTS
    Procs,      \* invocations
    Blobs,      \* the files the user keeps, programs and contracts
    Dirs,       \* output directories
    Pieces,     \* what one call writes to a file or reads from it
    Zero,       \* the piece read where nobody wrote
    Contents,   \* what the user's files may hold
    Valid,      \* what parses as a program, a mixture of two perhaps
    Leftovers,  \* what an earlier replay may have left as its copy
    Missing,    \* no file, no bundle, nothing fetched
    MaxEdits,   \* how often the user interferes
    Texts,      \* what replay may be given as calldata
    Metered     \* the invocations with a gas limit in their environment

(* Only replay has calldata; without the option it is the empty text.      *)
Jobs ==
    [cmd : {"record"}, blob : Blobs, dir : Dirs, disabled : BOOLEAN, calldata : {<<>>}]
    \cup [cmd : {"replay"}, blob : Blobs, dir : Dirs, disabled : BOOLEAN,
          calldata : Texts \cup {<<>>}]

ASSUME SessionAssumption ==
    /\ Zero \in Pieces
    /\ Contents \subseteq Seq(Pieces) /\ Valid \subseteq Seq(Pieces)
    /\ Leftovers \subseteq {Missing} \cup Seq(Pieces)
    /\ Missing \notin Seq(Pieces)
    /\ Missing \notin [of : Seq(Pieces), complete : BOOLEAN]
    /\ MaxEdits \in Nat /\ Metered \subseteq Procs
    /\ \A text \in Texts : text \in Seq(Bytes) /\ IsText(text)

VARIABLES
    job,      \* the command line and environment of each invocation
    pc,       \* where each is, or how it exited
    fetched,  \* the contract code each replay holds
    written,  \* how much of it each has written to its copy
    read,     \* what each has read of the file to trace
    blobs,    \* the user's files
    copies,   \* replayed_contract.polkavm in each directory
    made,     \* the directories that exist
    bundles,  \* the trace in each directory
    edits

held == <<fetched, written, read>>
files == <<copies, made, bundles>>
vars == <<job, pc, held, blobs, files, edits>>

Exits == {"ok", "err", "panic"}

Bundle(content, complete) == [of |-> content, complete |-> complete]

Init ==
    /\ job \in [Procs -> Jobs]
    /\ pc = [p \in Procs |-> "start"]
    /\ fetched = [p \in Procs |-> Missing]
    /\ written = [p \in Procs |-> 0]
    /\ read = [p \in Procs |-> <<>>]
    /\ blobs \in [Blobs -> Contents]
    /\ copies \in [Dirs -> Leftovers]
    /\ made = {d \in Dirs : copies[d] # Missing}
    /\ bundles = [d \in Dirs |-> Missing]
    /\ edits = 0

Goto(p, label) == pc' = [pc EXCEPT ![p] = label]

(* A call the operating system may refuse.                                 *)
Refused(p) == Goto(p, "err") /\ UNCHANGED <<held, files>>

Quiet == UNCHANGED <<held, files>>

(* The path is made canonical before the disabling variable is looked at.  *)
StartRecord(p) ==
    /\ pc[p] = "start" /\ job[p].cmd = "record"
    /\ Goto(p, CASE blobs[job[p].blob] = Missing -> "err"
                 [] job[p].disabled -> "ok"
                 [] OTHER -> "make")
    /\ Quiet

(* Mutant: only record obeys the disabling variable.                       *)
StartReplayAnyway(p) ==
    /\ pc[p] = "start" /\ job[p].cmd = "replay"
    /\ Goto(p, CASE Decode(job[p].calldata) # "bytes" -> Decode(job[p].calldata)
                 [] OTHER -> "make")
    /\ Quiet

(* Calldata is decoded first.                                              *)
StartReplay(p) ==
    /\ pc[p] = "start" /\ job[p].cmd = "replay"
    /\ Goto(p, CASE Decode(job[p].calldata) # "bytes" -> Decode(job[p].calldata)
                 [] job[p].disabled -> "ok"
                 [] OTHER -> "make")
    /\ Quiet

MakeDir(p) ==
    /\ pc[p] = "make"
    /\ \/ Refused(p)
       \/ /\ made' = made \cup {job[p].dir}
          /\ Goto(p, IF job[p].cmd = "replay" THEN "fetch" ELSE "read")
          /\ UNCHANGED <<held, copies, bundles>>

(* Mutant: a contract that is not there is looked for again.               *)
FetchAgain(p) ==
    /\ pc[p] = "fetch"
    /\ fetched' = [fetched EXCEPT ![p] = blobs[job[p].blob]]
    /\ Goto(p, CASE fetched'[p] = Missing -> "fetch"
                 [] fetched'[p] \in Valid -> "save"
                 [] OTHER -> "err")
    /\ UNCHANGED <<written, read, files>>

(* The node is never asked: the address is a file.  What it holds must     *)
(* parse before anything is written.                                       *)
Fetch(p) ==
    /\ pc[p] = "fetch"
    /\ \/ Refused(p)
       \/ /\ blobs[job[p].blob] # Missing
          /\ fetched' = [fetched EXCEPT ![p] = blobs[job[p].blob]]
          /\ Goto(p, IF fetched'[p] \in Valid THEN "save" ELSE "err")
          /\ UNCHANGED <<written, read, files>>

(* Mutant: an older copy is opened as it is.                               *)
OpenCopyKeeping(p) ==
    /\ pc[p] = "save"
    /\ copies' = [copies EXCEPT ![job[p].dir] = IF @ = Missing THEN <<>> ELSE @]
    /\ Goto(p, "fill")
    /\ UNCHANGED <<held, made, bundles>>

(* fs::write opens the copy, which truncates it ...                        *)
OpenCopy(p) ==
    /\ pc[p] = "save"
    /\ \/ Refused(p)
       \/ /\ copies' = [copies EXCEPT ![job[p].dir] = <<>>]
          /\ Goto(p, "fill")
          /\ UNCHANGED <<held, made, bundles>>

(* A file of which the k-th piece is written, whatever its length: what    *)
(* lies between is a hole, what lies behind stays.                         *)
Written(file, k, piece) ==
    [j \in 1..(IF k < Len(file) THEN Len(file) ELSE k) |->
        IF j = k THEN piece ELSE IF j <= Len(file) THEN file[j] ELSE Zero]

(* ... and writes from its own position on, piece by piece, also if        *)
(* another replay has opened the file since.                               *)
WriteCopy(p) ==
    LET k == written[p] + 1
    IN  /\ pc[p] = "fill"
        /\ \/ Refused(p)
           \/ /\ k <= Len(fetched[p])
              /\ copies' = [copies EXCEPT ![job[p].dir] = Written(@, k, fetched[p][k])]
              /\ written' = [written EXCEPT ![p] = k]
              /\ UNCHANGED <<pc, fetched, read, made, bundles>>
           \/ k > Len(fetched[p]) /\ Goto(p, "read") /\ Quiet

(* The user's builds put another file under the name, so that a blob is    *)
(* read in one step.                                                       *)
ReadBlob(p) ==
    /\ pc[p] = "read" /\ job[p].cmd = "record"
    /\ \/ Refused(p)
       \/ /\ blobs[job[p].blob] # Missing
          /\ read' = [read EXCEPT ![p] = blobs[job[p].blob]]
          /\ Goto(p, "parse")
          /\ UNCHANGED <<fetched, written, files>>

(* A copy may change while it is read, up to where it ends by then.        *)
ReadCopy(p) ==
    LET copy == copies[job[p].dir]
        k == Len(read[p]) + 1
    IN  /\ pc[p] = "read" /\ job[p].cmd = "replay"
        /\ \/ Refused(p)
           \/ /\ copy # Missing /\ k <= Len(copy)
              /\ read' = [read EXCEPT ![p] = Append(@, copy[k])]
              /\ UNCHANGED <<pc, fetched, written, files>>
           \/ copy # Missing /\ k > Len(copy) /\ Goto(p, "parse") /\ Quiet

(* Mutant: what a replay saved is not parsed again.                        *)
ParseOnce(p) ==
    /\ pc[p] = "parse"
    /\ Goto(p, IF read[p] \in Valid \/ job[p].cmd = "replay" THEN "begin" ELSE "err")
    /\ Quiet

Parse(p) ==
    /\ pc[p] = "parse"
    /\ \/ Refused(p)
       \/ read[p] \in Valid /\ Goto(p, "begin") /\ Quiet

(* Mutant: the trace is named after the fetched code.                      *)
BeginOfFetched(p) ==
    /\ pc[p] = "begin"
    /\ bundles' = [bundles EXCEPT ![job[p].dir] = Bundle(fetched[p], FALSE)]
    /\ Goto(p, "run")
    /\ UNCHANGED <<held, copies, made>>

Begin(p) ==
    /\ pc[p] = "begin"
    /\ \/ Refused(p)
       \/ /\ bundles' = [bundles EXCEPT ![job[p].dir] = Bundle(read[p], FALSE)]
          /\ Goto(p, "run")
          /\ UNCHANGED <<held, copies, made>>

(* The guest runs until it ends, if it does.                               *)
Run(p) ==
    /\ pc[p] = "run"
    /\ \/ Refused(p)
       \/ Goto(p, "close") /\ Quiet

(* Mutant: the recording's error is not propagated.                        *)
CloseUnchecked(p) ==
    /\ pc[p] = "close"
    /\ \/ UNCHANGED bundles
       \/ bundles' = [bundles EXCEPT ![job[p].dir] = Bundle(read[p], TRUE)]
    /\ Goto(p, "ok")
    /\ UNCHANGED <<held, copies, made>>

Close(p) ==
    /\ pc[p] = "close"
    /\ \/ Refused(p)
       \/ /\ bundles' = [bundles EXCEPT ![job[p].dir] = Bundle(read[p], TRUE)]
          /\ Goto(p, "ok")
          /\ UNCHANGED <<held, copies, made>>

Work(p) ==
    /\ \/ StartRecord(p) \/ StartReplay(p)
       \/ MakeDir(p) \/ Fetch(p) \/ OpenCopy(p) \/ WriteCopy(p)
       \/ ReadBlob(p) \/ ReadCopy(p) \/ Parse(p) \/ Begin(p) \/ Close(p)
    /\ UNCHANGED <<job, blobs, edits>>

Guest(p) == Run(p) /\ UNCHANGED <<job, blobs, edits>>

Invocation(p) == Work(p) \/ Guest(p)

(* The user rebuilds or deletes a blob.                                    *)
Edit ==
    /\ edits < MaxEdits
    /\ edits' = edits + 1
    /\ \E b \in Blobs, c \in Contents \cup {Missing} : blobs' = [blobs EXCEPT ![b] = c]
    /\ UNCHANGED <<job, pc, held, files>>

Done == (\A p \in Procs : pc[p] \in Exits) /\ UNCHANGED vars

Next == Edit \/ Done \/ \E p \in Procs : Invocation(p)

Spec == Init /\ [][Next]_vars

(* The operating system runs every invocation, not the user's edits.  That *)
(* a guest ends is certain only with a gas limit, which is off by default. *)
FairSpec ==
    /\ Spec
    /\ \A p \in Procs : WF_vars(Work(p))
    /\ \A p \in Metered : WF_vars(Guest(p))

-----------------------------------------------------------------------------
(* Every variable stays in its domain: in particular a trace, even of two  *)
(* invocations in one directory, is of some file's contents.               *)
TypeOK ==
    /\ job \in [Procs -> Jobs]
    /\ pc \in [Procs -> {"start", "make", "fetch", "save", "fill", "read", "parse",
                         "begin", "run", "close"} \cup Exits]
    /\ fetched \in [Procs -> {Missing} \cup Contents]
    /\ written \in [Procs -> Nat]
    /\ read \in [Procs -> Seq(Pieces)]
    /\ blobs \in [Blobs -> {Missing} \cup Contents]
    /\ copies \in [Dirs -> {Missing} \cup Seq(Pieces)]
    /\ made \subseteq Dirs
    /\ bundles \in [Dirs -> {Missing} \cup [of : Seq(Pieces), complete : BOOLEAN]]
    /\ edits \in 0..MaxEdits

(* A replay that writes its copy where p does.                             *)
Sharing(p, q) ==
    /\ job[p].cmd = "replay" /\ job[q].cmd = "replay" /\ job[q].dir = job[p].dir
    /\ fetched[q] \in Valid

(* The k-th piece of a copy p reads is that of a contract written there,   *)
(* or of none.                                                             *)
Explained(p, k, piece) ==
    \/ piece = Zero
    \/ \E q \in Procs : Sharing(p, q) /\ k <= Len(fetched[q]) /\ piece = fetched[q][k]

(* What a replay traces is what it fetched and validated, though it reads  *)
(* it back from its copy and the user may have rebuilt the contract since, *)
(* and whatever an earlier replay has left; if not, another replay is      *)
(* using the same output directory.  Even then each piece is in its place  *)
(* in one of their contracts, or in a hole.                                *)
ReplayTracesWhatItFetched ==
    \A p \in Procs : job[p].cmd = "replay" =>
        /\ pc[p] \in {"parse", "begin", "run", "close"} =>
              read[p] = fetched[p] \/ \E q \in Procs \ {p} : Sharing(p, q)
        /\ \A k \in 1..Len(read[p]) : Explained(p, k, read[p][k])

(* Whatever invocations and the user do to each other, no trace is begun   *)
(* of a file that is not a program: trace_program parses what it was given *)
(* and relies on no earlier look at the file.                              *)
TracesAreOfPrograms ==
    \A d \in Dirs : bundles[d] # Missing => bundles[d].of \in Valid

(* An invocation whose output directory is its own.                        *)
Alone(p) == \A q \in Procs \ {p} : job[q].dir # job[p].dir

(* An invocation with a directory of its own succeeds exactly when it      *)
(* leaves a complete trace of the bytes it read there, unless recording is *)
(* disabled.                                                               *)
SuccessIsItsOwnTrace ==
    \A p \in Procs : Alone(p) =>
        LET d == job[p].dir
        IN  /\ (pc[p] = "ok" /\ ~job[p].disabled)
                 <=> bundles[d] # Missing /\ bundles[d].complete
            /\ bundles[d] # Missing => bundles[d].of = read[p] /\ d \in made

(* How far an invocation's call of trace_program is, up to which it only   *)
(* prepares, and the trace in its directory.                               *)
StageOf(p) ==
    CASE pc[p] \in {"run", "close"} -> "record"
      [] pc[p] \in {"begin", "ok"} -> pc[p]
      [] pc[p] \in {"err", "panic"} -> "err"
      [] OTHER -> "parse"

TraceOf(p) ==
    LET b == bundles[job[p].dir]
    IN  CASE b = Missing -> "none"
          [] b # Missing /\ b.complete -> "complete"
          [] OTHER -> "partial"

Recorded(p) == INSTANCE Recording WITH stage <- StageOf(p), bundle <- TraceOf(p)

(* Whatever the other invocations and the user do meanwhile, an invocation *)
(* with a directory of its own is a Recording, as trace_program is (see    *)
(* TracerProps), unless recording is disabled.                             *)
InvocationsAreRecordings ==
    /\ \A p \in Procs : Recorded(p)!Init
    /\ [][\A p \in Procs : Alone(p) /\ ~job[p].disabled =>
             [Recorded(p)!Next]_(Recorded(p)!vars)]_vars

(* "skip recording entirely": a disabled invocation makes no directory, no *)
(* copy of a contract and no trace.                                        *)
DisabledTouchesNothing ==
    [][\A p \in Procs : (job[p].disabled /\ pc'[p] # pc[p]) => UNCHANGED files]_vars

(* An invocation whose calldata is hexadecimal never panics: whatever is   *)
(* missing, torn, rebuilt or refused on its way is an error it reports.    *)
HexNeverPanics ==
    \A p \in Procs : pc[p] = "panic" => ~IsHex(job[p].calldata)

(* "invalid hex in calldata": a replay that is given calldata which is no  *)
(* hexadecimal reports an error and does nothing else.                     *)
InvalidHexIsReported ==
    \A p \in Procs : ~IsHex(job[p].calldata) => pc[p] \in {"start", "err"}

(* Every invocation exits, whatever is missing, refused, rebuilt or        *)
(* overwritten on its way, unless it has no gas limit and stays with a     *)
(* guest that never ends.                                                  *)
EveryInvocationExits ==
    \A p \in Procs :
        <>(pc[p] \in Exits) \/ (p \notin Metered /\ <>[](pc[p] = "run"))
=============================================================================
