----------------------------- MODULE SessionProofs -----------------------------
(***************************************************************************)
(* Proofs about Session: for any invocations, files and directories, and   *)
(* however often the user interferes.                                      *)
(***************************************************************************)
EXTENDS Session, SequenceTheorems, TLAPS

Labels == {"start", "make", "fetch", "save", "fill", "read", "parse", "begin", "run",
           "close"} \cup Exits

(* What an invocation holds at its labels: a replay writes nothing before  *)
(* it has fetched a program, nothing is read before it is written, and     *)
(* what is traced is a program.                                            *)
HoldsInv ==
    \A p \in Procs :
        /\ pc[p] \in {"start", "make", "fetch"} => fetched[p] = Missing
        /\ pc[p] \in {"save", "fill"} => fetched[p] \in Valid
        /\ pc[p] \in {"start", "make", "fetch", "save"} => written[p] = 0
        /\ pc[p] \in {"start", "make", "fetch", "save", "fill"} => read[p] = <<>>
        /\ pc[p] \in {"begin", "run", "close"} => read[p] \in Valid
        /\ pc[p] = "ok" => job[p].disabled \/ read[p] \in Valid

(* A disabled invocation exits from its start.                             *)
DisabledInv == \A p \in Procs : job[p].disabled => pc[p] \in {"start"} \cup Exits

(* The steps between the fetch and the end of the writing are a replay's,  *)
(* and a copy once opened is there.                                        *)
ReplayInv ==
    \A p \in Procs :
        /\ pc[p] \in {"fetch", "save", "fill"} => job[p].cmd = "replay"
        /\ (job[p].cmd = "replay" /\ pc[p] \in {"fill", "read"}) => copies[job[p].dir] # Missing

SessionInv ==
    /\ TypeOK /\ HoldsInv /\ DisabledInv /\ ReplayInv
    /\ TracesAreOfPrograms

-----------------------------------------------------------------------------
LEMMA JobFields ==
  ASSUME TypeOK, NEW p \in Procs
  PROVE  /\ job[p].cmd \in {"record", "replay"} /\ job[p].dir \in Dirs
         /\ job[p].blob \in Blobs /\ job[p].disabled \in BOOLEAN
         /\ job[p].calldata \in Seq(Bytes)
<1>1. job[p].calldata \in Texts \cup {<<>>} /\ <<>> \in Seq(Bytes)
  BY DEF TypeOK, Jobs
<1>2. QED
  BY <1>1, SessionAssumption DEF TypeOK, Jobs

(* Decoding has three outcomes, and whole pairs of digits have one.        *)
LEMMA DecodeOutcome ==
  ASSUME NEW text
  PROVE  Decode(text) \in {"bytes", "err", "panic"}
BY DEF Decode

LEMMA HexDecodes ==
  ASSUME NEW text \in Seq(Bytes), IsHex(text)
  PROVE  Decode(text) = "bytes"
<1>1. PICK s : s = Strip(text)
  OBVIOUS
<1>2. Len(s) \in Nat
  BY <1>1 DEF Strip, HasPrefix
<1>3. Len(s) % 2 = 0 /\ \A k \in 1..Len(s) : s[k] \in Digits
  BY <1>1 DEF IsHex
<1>4. ASSUME NEW k \in Starts(s) PROVE Pair(s, k) = "byte"
  <2>1. k \in 1..Len(s) /\ k + 1 \in 1..Len(s) /\ (k + 2 = Len(s) + 1 \/ k + 2 \in 1..Len(s))
    BY <1>2, <1>3, <1>4 DEF Starts
  <2>2. Boundary(s, k) /\ Boundary(s, k + 2)
    BY <1>3, <2>1 DEF Boundary, Digits
  <2>3. s[k] \in Digits /\ s[k + 1] \in Digits
    BY <1>3, <2>1
  <2>4. QED
    BY <2>2, <2>3 DEF Pair
<1>5. QED
  BY <1>1, <1>4 DEF Decode

(* A contract is a sequence of pieces, and so is a copy however written.   *)
LEMMA FetchedIsASequence ==
  ASSUME TypeOK, NEW p \in Procs, fetched[p] # Missing
  PROVE  fetched[p] \in Seq(Pieces) /\ Len(fetched[p]) \in Nat
<1>1. fetched[p] \in Seq(Pieces)
  BY SessionAssumption DEF TypeOK
<1>2. QED
  BY <1>1

LEMMA WrittenIsASequence ==
  ASSUME NEW file \in Seq(Pieces), NEW k \in Nat \ {0}, NEW piece \in Pieces
  PROVE  /\ Written(file, k, piece) \in Seq(Pieces)
         /\ Len(Written(file, k, piece)) = k \/ Len(Written(file, k, piece)) = Len(file)
         /\ k <= Len(Written(file, k, piece)) /\ Len(file) <= Len(Written(file, k, piece))
<1>1. PICK n \in Nat : n = IF k < Len(file) THEN Len(file) ELSE k
  OBVIOUS
<1>2. PICK s : s = [j \in 1..n |->
                      IF j = k THEN piece ELSE IF j <= Len(file) THEN file[j] ELSE Zero]
  OBVIOUS
<1>3. Written(file, k, piece) = s
  BY <1>1, <1>2 DEF Written
<1>4. ASSUME NEW j \in 1..n
      PROVE  (IF j = k THEN piece ELSE IF j <= Len(file) THEN file[j] ELSE Zero) \in Pieces
  BY SessionAssumption
<1>5. s \in [1..n -> Pieces]
  BY <1>2, <1>4
<1>6. s \in Seq(Pieces) /\ Len(s) = n
  BY <1>1, <1>5
<1>7. QED
  BY <1>1, <1>3, <1>6

LEMMA WrittenPiece ==
  ASSUME NEW file \in Seq(Pieces), NEW k \in Nat \ {0}, NEW piece \in Pieces,
         NEW j \in Nat \ {0}, j <= Len(Written(file, k, piece))
  PROVE  /\ j = k => Written(file, k, piece)[j] = piece
         /\ j # k /\ j <= Len(file) => Written(file, k, piece)[j] = file[j]
         /\ j # k /\ ~(j <= Len(file)) => Written(file, k, piece)[j] = Zero
<1>1. PICK n \in Nat : n = IF k < Len(file) THEN Len(file) ELSE k
  OBVIOUS
<1>2. Written(file, k, piece) = [i \in 1..n |->
        IF i = k THEN piece ELSE IF i <= Len(file) THEN file[i] ELSE Zero]
  BY <1>1 DEF Written
<1>3. j \in 1..n
  <2>1. Len(Written(file, k, piece)) = k \/ Len(Written(file, k, piece)) = Len(file)
    BY WrittenIsASequence
  <2>2. Len(file) \in Nat
    OBVIOUS
  <2>3. QED
    BY <1>1, <2>1, <2>2
<1>4. QED
  BY <1>2, <1>3

(* An invocation's step changes what is its own, and of the files only     *)
(* those of its directory.                                                 *)
LEMMA StepIsOwn ==
  ASSUME SessionInv, NEW p \in Procs, Invocation(p)
  PROVE  /\ job' = job /\ blobs' = blobs /\ edits' = edits
         /\ pc' = [pc EXCEPT ![p] = pc'[p]]
         /\ fetched' = [fetched EXCEPT ![p] = fetched'[p]]
         /\ written' = [written EXCEPT ![p] = written'[p]]
         /\ read' = [read EXCEPT ![p] = read'[p]]
         /\ copies' = [copies EXCEPT ![job[p].dir] = copies'[job[p].dir]]
         /\ bundles' = [bundles EXCEPT ![job[p].dir] = bundles'[job[p].dir]]
BY JobFields DEF SessionInv, TypeOK, Invocation, Work, Guest, StartRecord, StartReplay, MakeDir,
     Fetch, OpenCopy, WriteCopy, ReadBlob, ReadCopy, Parse, Begin, Run, Close, Refused, Quiet,
     Goto, files, held

(* What it changes of its own.                                             *)
Effect(p) ==
    LET d == job[p].dir
    IN  \/ /\ pc[p] = "start" /\ pc'[p] \in {"make"} \cup Exits
           /\ job[p].disabled => pc'[p] # "make"
           /\ pc'[p] = "ok" => job[p].disabled
           /\ pc'[p] = "panic" => ~IsHex(job[p].calldata)
           /\ UNCHANGED <<held, files>>
        \/ /\ pc[p] \notin Exits /\ pc'[p] = "err"
           /\ UNCHANGED <<held, files>>
        \/ /\ pc[p] = "make" /\ pc'[p] = IF job[p].cmd = "replay" THEN "fetch" ELSE "read"
           /\ made' = made \cup {d} /\ UNCHANGED <<held, copies, bundles>>
        \/ /\ pc[p] = "fetch" /\ fetched'[p] \in Contents
           /\ pc'[p] = IF fetched'[p] \in Valid THEN "save" ELSE "err"
           /\ UNCHANGED <<written, read, files>>
        \/ /\ pc[p] = "save" /\ pc'[p] = "fill" /\ copies'[d] = <<>>
           /\ UNCHANGED <<held, made, bundles>>
        \/ /\ pc[p] = "fill" /\ written[p] + 1 <= Len(fetched[p])
           /\ copies'[d] = Written(copies[d], written[p] + 1, fetched[p][written[p] + 1])
           /\ written'[p] = written[p] + 1
           /\ UNCHANGED <<pc, fetched, read, made, bundles>>
        \/ /\ pc[p] = "fill" /\ pc'[p] = "read" /\ written[p] + 1 > Len(fetched[p])
           /\ UNCHANGED <<held, files>>
        \/ /\ pc[p] = "read" /\ pc'[p] = "parse" /\ job[p].cmd = "record"
           /\ read'[p] \in Contents /\ UNCHANGED <<fetched, written, files>>
        \/ /\ pc[p] = "read" /\ job[p].cmd = "replay" /\ copies[d] # Missing
           /\ Len(read[p]) + 1 <= Len(copies[d])
           /\ read'[p] = Append(read[p], copies[d][Len(read[p]) + 1])
           /\ UNCHANGED <<pc, fetched, written, files>>
        \/ /\ pc[p] = "read" /\ pc'[p] = "parse" /\ job[p].cmd = "replay" /\ copies[d] # Missing
           /\ Len(read[p]) + 1 > Len(copies[d]) /\ UNCHANGED <<held, files>>
        \/ /\ \/ pc[p] = "parse" /\ pc'[p] = "begin" /\ read[p] \in Valid
              \/ pc[p] = "run" /\ pc'[p] = "close"
           /\ UNCHANGED <<held, files>>
        \/ /\ \/ pc[p] = "begin" /\ pc'[p] = "run" /\ bundles'[d] = Bundle(read[p], FALSE)
              \/ pc[p] = "close" /\ pc'[p] = "ok" /\ bundles'[d] = Bundle(read[p], TRUE)
           /\ UNCHANGED <<held, copies, made>>

LEMMA StepHasEffect ==
  ASSUME SessionInv, NEW p \in Procs, Invocation(p)
  PROVE  Effect(p)
<1> USE JobFields DEF SessionInv, TypeOK, Invocation, Work, Guest, Refused, Quiet, Goto, Effect,
    files, held, Exits
<1>1. CASE StartRecord(p)
  BY <1>1 DEF StartRecord
<1>2. CASE StartReplay(p)
  <2>1. Decode(job[p].calldata) \in {"bytes", "err", "panic"}
    BY DecodeOutcome
  <2>2. Decode(job[p].calldata) = "panic" => ~IsHex(job[p].calldata)
    BY HexDecodes
  <2>3. QED
    BY <1>2, <2>1, <2>2 DEF StartReplay
<1>3. CASE MakeDir(p)
  BY <1>3 DEF MakeDir
<1>4. CASE Fetch(p)
  BY <1>4 DEF Fetch
<1>5. CASE OpenCopy(p)
  BY <1>5 DEF OpenCopy
<1>6. CASE WriteCopy(p)
  BY <1>6 DEF WriteCopy
<1>7. CASE ReadBlob(p)
  BY <1>7 DEF ReadBlob
<1>8. CASE ReadCopy(p)
  BY <1>8 DEF ReadCopy
<1>9. CASE Parse(p)
  BY <1>9 DEF Parse
<1>10. CASE Begin(p)
  BY <1>10 DEF Begin
<1>11. CASE Run(p)
  BY <1>11 DEF Run
<1>12. CASE Close(p)
  BY <1>12 DEF Close
<1>13. QED
  BY <1>1, <1>2, <1>3, <1>4, <1>5, <1>6, <1>7, <1>8, <1>9, <1>10, <1>11, <1>12

-----------------------------------------------------------------------------
(* What it holds and what it makes of its directory stay well-formed.      *)
LEMMA EffectTyped ==
  ASSUME SessionInv, NEW p \in Procs, Effect(p)
  PROVE  /\ pc'[p] \in Labels
         /\ fetched'[p] \in {Missing} \cup Contents
         /\ written'[p] \in Nat
         /\ read'[p] \in Seq(Pieces)
         /\ copies'[job[p].dir] = copies[job[p].dir] \/ copies'[job[p].dir] \in Seq(Pieces)
         /\ made' \subseteq Dirs
         /\ bundles'[job[p].dir] \in {Missing} \cup [of : Valid, complete : BOOLEAN]
<1>1. TypeOK /\ HoldsInv /\ ReplayInv /\ TracesAreOfPrograms
  BY DEF SessionInv
<1>2. job[p].dir \in Dirs /\ job[p].cmd \in {"record", "replay"}
  BY <1>1, JobFields
<1>3. pc'[p] \in Labels /\ made' \subseteq Dirs
  BY <1>1, <1>2 DEF Effect, TypeOK, Exits, files, Labels
<1>4. fetched'[p] \in {Missing} \cup Contents /\ written'[p] \in Nat
  <2>1. fetched[p] \in {Missing} \cup Contents /\ written[p] \in Nat
    BY <1>1 DEF TypeOK
  <2>2. fetched'[p] = fetched[p] \/ fetched'[p] \in Contents
    BY DEF Effect, held
  <2>3. written'[p] = written[p] \/ written'[p] = written[p] + 1
    BY DEF Effect, held
  <2>4. QED
    BY <2>1, <2>2, <2>3
<1>5. read'[p] \in Seq(Pieces)
  <2>1. CASE read'[p] = read[p]
    BY <1>1, <2>1 DEF TypeOK
  <2>2. CASE read'[p] \in Contents
    BY <2>2, SessionAssumption
  <2>3. CASE /\ copies[job[p].dir] # Missing
             /\ Len(read[p]) + 1 <= Len(copies[job[p].dir])
             /\ read'[p] = Append(read[p], copies[job[p].dir][Len(read[p]) + 1])
    <3>1. read[p] \in Seq(Pieces) /\ copies[job[p].dir] \in Seq(Pieces)
      BY <1>1, <1>2, <2>3 DEF TypeOK
    <3>2. copies[job[p].dir][Len(read[p]) + 1] \in Pieces
      BY <2>3, <3>1
    <3>3. QED
      BY <2>3, <3>1, <3>2
  <2>4. QED
    BY <2>1, <2>2, <2>3 DEF Effect, held
<1>6. copies'[job[p].dir] = copies[job[p].dir] \/ copies'[job[p].dir] \in Seq(Pieces)
  <2>1. CASE copies'[job[p].dir] = copies[job[p].dir]
    BY <2>1
  <2>2. CASE copies'[job[p].dir] = <<>>
    BY <2>2
  <2>3. CASE /\ pc[p] = "fill" /\ written[p] + 1 <= Len(fetched[p])
             /\ copies'[job[p].dir]
                  = Written(copies[job[p].dir], written[p] + 1, fetched[p][written[p] + 1])
    <3>1. copies[job[p].dir] \in Seq(Pieces)
      BY <1>1, <1>2, <2>3 DEF SessionInv, ReplayInv, TypeOK
    <3>2. fetched[p] \in Seq(Pieces) /\ written[p] \in Nat
      BY <1>1, <2>3, SessionAssumption DEF HoldsInv, TypeOK
    <3>3. written[p] + 1 \in Nat \ {0} /\ fetched[p][written[p] + 1] \in Pieces
      BY <2>3, <3>2
    <3>4. QED
      BY <2>3, <3>1, <3>3, WrittenIsASequence
  <2>4. QED
    BY <2>1, <2>2, <2>3 DEF Effect, files
<1>7. bundles'[job[p].dir] \in {Missing} \cup [of : Valid, complete : BOOLEAN]
  <2>1. CASE bundles' = bundles
    BY <1>1, <1>2, <2>1 DEF TypeOK, TracesAreOfPrograms
  <2>2. CASE /\ pc[p] \in {"begin", "close"}
             /\ bundles'[job[p].dir] \in {Bundle(read[p], FALSE), Bundle(read[p], TRUE)}
    <3>1. read[p] \in Valid
      BY <1>1, <2>2 DEF HoldsInv
    <3>2. \A b \in BOOLEAN : Bundle(read[p], b) \in [of : Valid, complete : BOOLEAN]
      BY <3>1 DEF Bundle
    <3>3. QED
      BY <2>2, <3>2
  <2>3. QED
    BY <2>1, <2>2 DEF Effect, files
<1>8. QED
  BY <1>3, <1>4, <1>5, <1>6, <1>7

LEMMA InvocationInv ==
  ASSUME SessionInv, NEW p \in Procs, Invocation(p)
  PROVE  SessionInv'
<1>1. Effect(p)
  BY StepHasEffect
<1>2. /\ job' = job /\ blobs' = blobs /\ edits' = edits
      /\ pc' = [pc EXCEPT ![p] = pc'[p]]
      /\ fetched' = [fetched EXCEPT ![p] = fetched'[p]]
      /\ written' = [written EXCEPT ![p] = written'[p]]
      /\ read' = [read EXCEPT ![p] = read'[p]]
      /\ copies' = [copies EXCEPT ![job[p].dir] = copies'[job[p].dir]]
      /\ bundles' = [bundles EXCEPT ![job[p].dir] = bundles'[job[p].dir]]
  BY StepIsOwn
<1>3. TypeOK /\ HoldsInv /\ DisabledInv /\ ReplayInv /\ TracesAreOfPrograms
  BY DEF SessionInv
<1>4. job[p].dir \in Dirs /\ job[p].cmd \in {"record", "replay"} /\ job[p].blob \in Blobs
      /\ job[p].disabled \in BOOLEAN
  BY <1>3, JobFields
<1>5. /\ pc'[p] \in Labels
      /\ fetched'[p] \in {Missing} \cup Contents
      /\ written'[p] \in Nat
      /\ read'[p] \in Seq(Pieces)
      /\ copies'[job[p].dir] = copies[job[p].dir] \/ copies'[job[p].dir] \in Seq(Pieces)
      /\ made' \subseteq Dirs
      /\ bundles'[job[p].dir] \in {Missing} \cup [of : Valid, complete : BOOLEAN]
  BY <1>1, EffectTyped
<1>6. TypeOK'
  <2>1. bundles'[job[p].dir] \in {Missing} \cup [of : Seq(Pieces), complete : BOOLEAN]
    BY <1>5, SessionAssumption
  <2>2. QED
    BY <1>2, <1>3, <1>5, <2>1 DEF TypeOK, Labels, Exits
<1>7. TracesAreOfPrograms'
  BY <1>2, <1>3, <1>4, <1>5 DEF TypeOK, TracesAreOfPrograms
<1>8. HoldsInv'
  <2>1. ASSUME NEW q \in Procs, q # p
        PROVE  /\ pc'[q] = pc[q] /\ fetched'[q] = fetched[q] /\ written'[q] = written[q]
               /\ read'[q] = read[q]
    BY <1>2, <1>3, <2>1 DEF TypeOK
  <2>2. /\ pc'[p] \in {"start", "make", "fetch"} => fetched'[p] = Missing
        /\ pc'[p] \in {"save", "fill"} => fetched'[p] \in Valid
        /\ pc'[p] \in {"start", "make", "fetch", "save"} => written'[p] = 0
        /\ pc'[p] \in {"start", "make", "fetch", "save", "fill"} => read'[p] = <<>>
    BY <1>1, <1>3, <1>4 DEF Effect, HoldsInv, Exits, held
  <2>3. /\ pc'[p] \in {"begin", "run", "close"} => read'[p] \in Valid
        /\ pc'[p] = "ok" => job[p].disabled \/ read'[p] \in Valid
    BY <1>1, <1>3, <1>4 DEF Effect, HoldsInv, Exits, held
  <2>4. QED
    BY <1>2, <1>3, <2>1, <2>2, <2>3 DEF HoldsInv
<1>9. DisabledInv' /\ ReplayInv'
  <2>1. \A q \in Procs : q # p => pc'[q] = pc[q]
    BY <1>2, <1>3 DEF TypeOK
  <2>2. job[p].disabled => pc'[p] \in {"start"} \cup Exits
    BY <1>1, <1>3, <1>4 DEF Effect, DisabledInv, Exits
  <2>3. pc'[p] \in {"fetch", "save", "fill"} => job[p].cmd = "replay"
    BY <1>1, <1>3, <1>4 DEF Effect, ReplayInv, Exits
  <2>4. \A d \in Dirs : copies[d] # Missing => copies'[d] # Missing
    BY <1>2, <1>3, <1>4, <1>5, SessionAssumption DEF TypeOK
  <2>5. (job[p].cmd = "replay" /\ pc'[p] \in {"fill", "read"}) => copies'[job[p].dir] # Missing
    <3>1. CASE pc[p] \in {"fill", "read"}
      BY <1>3, <1>4, <2>4, <3>1 DEF ReplayInv
    <3>2. CASE pc[p] \notin {"fill", "read"}
      <4>1. <<>> \in Seq(Pieces)
        OBVIOUS
      <4>2. <<>> # Missing
        BY <4>1, SessionAssumption
      <4>3. QED
        BY <1>1, <3>2, <4>2 DEF Effect, Exits
    <3>3. QED
      BY <3>1, <3>2
  <2>6. ASSUME NEW q \in Procs, q # p, job[q].cmd = "replay", pc[q] \in {"fill", "read"}
        PROVE  copies'[job[q].dir] # Missing
    BY <1>3, <2>4, <2>6, JobFields DEF ReplayInv
  <2>7. DisabledInv'
    BY <1>2, <1>3, <2>1, <2>2 DEF DisabledInv
  <2>8. QED
    BY <1>2, <1>3, <2>1, <2>3, <2>5, <2>6, <2>7 DEF ReplayInv
<1>10. QED
  BY <1>6, <1>7, <1>8, <1>9 DEF SessionInv

(* The user changes no more than a blob.                                   *)
LEMMA EditInv ==
  ASSUME SessionInv, Edit \/ UNCHANGED vars
  PROVE  SessionInv'
<1>1. UNCHANGED <<job, pc, fetched, written, read, copies, made, bundles>>
  BY DEF Edit, vars, files, held
<1>2. blobs' \in [Blobs -> {Missing} \cup Contents] /\ edits' \in 0..MaxEdits
  <2>1. blobs \in [Blobs -> {Missing} \cup Contents] /\ edits \in 0..MaxEdits
    BY DEF SessionInv, TypeOK
  <2>2. CASE Edit
    <3>1. PICK b \in Blobs, c \in {Missing} \cup Contents : blobs' = [blobs EXCEPT ![b] = c]
      BY <2>2 DEF Edit
    <3>2. blobs' \in [Blobs -> {Missing} \cup Contents]
      BY <2>1, <3>1
    <3>3. QED
      BY <2>1, <2>2, <3>2, SessionAssumption DEF Edit
  <2>3. CASE UNCHANGED vars
    BY <2>1, <2>3 DEF vars
  <2>4. QED
    BY <2>2, <2>3
<1>3. QED
  BY <1>1, <1>2 DEF SessionInv, TypeOK, HoldsInv, DisabledInv, ReplayInv, TracesAreOfPrograms

LEMMA SessionInvariant == Spec => []SessionInv
<1>1. Init => SessionInv
  BY SessionAssumption DEF Init, SessionInv, TypeOK, HoldsInv, DisabledInv, ReplayInv,
     TracesAreOfPrograms, Exits
<1>2. SessionInv /\ [Next]_vars => SessionInv'
  BY InvocationInv, EditInv DEF Next, Done
<1>3. QED
  BY <1>1, <1>2, PTL DEF Spec

(* Every reachable state of any number of invocations is well-formed.      *)
THEOREM SessionTypeCorrect == Spec => []TypeOK
BY SessionInvariant, PTL DEF SessionInv

(* No trace is ever begun of what is not a program: trace_program trusts   *)
(* no earlier look at the file.                                            *)
THEOREM OnlyProgramsAreTraced == Spec => []TracesAreOfPrograms
BY SessionInvariant, PTL DEF SessionInv

(* Whatever happens on its way, an invocation whose calldata is whole      *)
(* pairs of digits, or that has none, does not panic.                      *)
THEOREM HexIsSafe == Spec => []HexNeverPanics
<1>1. Init => HexNeverPanics
  BY DEF Init, HexNeverPanics
<1>2. SessionInv /\ HexNeverPanics /\ [Next]_vars => HexNeverPanics'
  <2>1. ASSUME Edit \/ UNCHANGED vars, HexNeverPanics PROVE HexNeverPanics'
    BY <2>1 DEF Edit, vars, HexNeverPanics
  <2>2. ASSUME SessionInv, HexNeverPanics, NEW p \in Procs, Invocation(p) PROVE HexNeverPanics'
    <3>1. Effect(p) /\ job' = job /\ pc' = [pc EXCEPT ![p] = pc'[p]]
      BY <2>2, StepHasEffect, StepIsOwn
    <3>2. pc'[p] = "panic" => ~IsHex(job[p].calldata)
      BY <2>2, <3>1 DEF Effect
    <3>3. QED
      BY <2>2, <3>1, <3>2 DEF HexNeverPanics, SessionInv, TypeOK
  <2>3. QED
    BY <2>1, <2>2 DEF Next, Done
<1>3. QED
  BY <1>1, <1>2, SessionInvariant, PTL DEF Spec

(* A disabled invocation exits without touching a directory, a copy or a   *)
(* trace.                                                                  *)
THEOREM DisabledIsQuiet == Spec => DisabledTouchesNothing
<1>1. ASSUME SessionInv, [Next]_vars, NEW p \in Procs, job[p].disabled, pc'[p] # pc[p]
      PROVE  UNCHANGED files
  <2>1. PICK q \in Procs : Invocation(q)
    BY <1>1 DEF Next, Edit, Done, vars
  <2>2. q = p
    BY <1>1, <2>1, StepIsOwn DEF SessionInv, TypeOK
  <2>3. Effect(p) /\ pc[p] \in {"start"} \cup Exits
    BY <1>1, <2>1, <2>2, StepHasEffect DEF SessionInv, DisabledInv
  <2>4. pc[p] = "start" /\ pc'[p] # "make"
    BY <1>1, <2>3 DEF Effect, Exits
  <2>5. QED
    BY <2>3, <2>4 DEF Effect, files
<1>2. SessionInv /\ [Next]_vars =>
        [\A p \in Procs : (job[p].disabled /\ pc'[p] # pc[p]) => UNCHANGED files]_vars
  BY <1>1
<1>3. QED
  BY <1>2, SessionInvariant, PTL DEF Spec, DisabledTouchesNothing

-----------------------------------------------------------------------------
(* The other replays that write p's copy.                                  *)
Shared(p) == \E q \in Procs \ {p} : Sharing(p, q)

(* The first n pieces of a contract, and no more.                          *)
Begins(file, contract, n) ==
    Len(file) = n /\ n <= Len(contract) /\ \A j \in 1..n : file[j] = contract[j]

(* Whoever else writes it, a copy's pieces are in their places.            *)
CopyInv ==
    \A p \in Procs : (job[p].cmd = "replay" /\ pc[p] \in {"fill", "read"}) =>
        LET copy == copies[job[p].dir]
        IN  \A k \in 1..Len(copy) : Explained(p, k, copy[k])

ReadInv ==
    \A p \in Procs : job[p].cmd = "replay" =>
        \A k \in 1..Len(read[p]) : Explained(p, k, read[p][k])

(* What a replay with a copy of its own writes and reads back.             *)
OwnCopy(p) ==
    LET copy == copies[job[p].dir]
    IN  /\ pc[p] = "fill" => Begins(copy, fetched[p], written[p])
        /\ pc[p] = "read" => copy = fetched[p] /\ Begins(read[p], fetched[p], Len(read[p]))
        /\ pc[p] \in {"parse", "begin", "run", "close"} => read[p] = fetched[p]

OwnCopyInv == \A p \in Procs : (job[p].cmd = "replay" /\ ~Shared(p)) => OwnCopy(p)

(* A contract once fetched is kept, so an explanation stays one, and who   *)
(* shares a copy does so for good.                                         *)
LEMMA SharingKept ==
  ASSUME SessionInv, NEW p \in Procs, Invocation(p), NEW r \in Procs, NEW q \in Procs,
         Sharing(r, q)
  PROVE  Sharing(r, q)' /\ fetched'[q] = fetched[q]
<1>1. job' = job /\ Effect(p) /\ fetched' = [fetched EXCEPT ![p] = fetched'[p]]
  BY StepIsOwn, StepHasEffect
<1>2. fetched[q] \in Valid /\ fetched[q] # Missing
  BY SessionAssumption DEF Sharing
<1>3. fetched'[q] = fetched[q]
  <2>1. CASE q = p
    <3>1. pc[p] # "fetch"
      BY <1>2, <2>1 DEF SessionInv, HoldsInv
    <3>2. QED
      BY <1>1, <2>1, <3>1 DEF Effect, held
  <2>2. CASE q # p
    BY <1>1, <2>2 DEF SessionInv, TypeOK
  <2>3. QED
    BY <2>1, <2>2
<1>4. QED
  BY <1>1, <1>3 DEF Sharing

LEMMA ExplainedKept ==
  ASSUME SessionInv, NEW p \in Procs, Invocation(p), NEW r \in Procs, NEW k, NEW piece,
         Explained(r, k, piece)
  PROVE  Explained(r, k, piece)'
<1>1. CASE piece = Zero
  BY <1>1 DEF Explained
<1>2. CASE \E q \in Procs : Sharing(r, q) /\ k <= Len(fetched[q]) /\ piece = fetched[q][k]
  BY <1>2, SharingKept DEF Explained
<1>3. QED
  BY <1>1, <1>2 DEF Explained

(* What a step makes of the pieces of a copy.                              *)
LEMMA CopyStep ==
  ASSUME SessionInv, NEW p \in Procs, Invocation(p), NEW r \in Procs,
         job[r].cmd = "replay", copies'[job[r].dir] # copies[job[r].dir]
  PROVE  LET copy == copies[job[r].dir]
             k == written[p] + 1
         IN  /\ job[p].dir = job[r].dir /\ Sharing(r, p)
             /\ fetched' = fetched /\ read' = read
             /\ \/ pc[p] = "save" /\ pc'[p] = "fill" /\ copies'[job[r].dir] = <<>>
                   /\ written' = written
                \/ /\ pc[p] = "fill" /\ pc'[p] = "fill"
                   /\ copy \in Seq(Pieces) /\ k \in Nat \ {0} /\ k <= Len(fetched[p])
                   /\ fetched[p][k] \in Pieces /\ written'[p] = k
                   /\ copies'[job[r].dir] = Written(copy, k, fetched[p][k])
<1>1. /\ job' = job /\ Effect(p)
      /\ copies' = [copies EXCEPT ![job[p].dir] = copies'[job[p].dir]]
  BY StepIsOwn, StepHasEffect
<1>2. job[p].dir \in Dirs /\ job[r].dir \in Dirs /\ TypeOK
  BY JobFields DEF SessionInv
<1>3. job[p].dir = job[r].dir /\ copies' # copies
  BY <1>1, <1>2 DEF TypeOK
<1>4. \/ /\ pc[p] = "save" /\ pc'[p] = "fill" /\ copies'[job[p].dir] = <<>>
         /\ UNCHANGED held
      \/ /\ pc[p] = "fill" /\ written[p] + 1 <= Len(fetched[p])
         /\ copies'[job[p].dir]
              = Written(copies[job[p].dir], written[p] + 1, fetched[p][written[p] + 1])
         /\ written'[p] = written[p] + 1
         /\ UNCHANGED <<pc, fetched, read>>
  BY <1>1, <1>3 DEF Effect, files
<1>5. fetched[p] \in Valid /\ job[p].cmd = "replay"
      /\ (pc[p] = "fill" => copies[job[p].dir] # Missing)
  BY <1>4 DEF SessionInv, HoldsInv, ReplayInv
<1>6. Sharing(r, p)
  BY <1>3, <1>5 DEF Sharing
<1>7. fetched[p] \in Seq(Pieces) /\ written[p] \in Nat
  BY <1>2, <1>5, SessionAssumption DEF TypeOK
<1>8. CASE pc[p] = "save"
  BY <1>3, <1>4, <1>6, <1>8 DEF held
<1>9. CASE pc[p] = "fill"
  <2>1. copies[job[r].dir] \in Seq(Pieces)
    BY <1>2, <1>3, <1>5, <1>9 DEF TypeOK
  <2>2. written[p] + 1 \in Nat \ {0} /\ written[p] + 1 <= Len(fetched[p])
    BY <1>4, <1>7, <1>9
  <2>3. fetched[p][written[p] + 1] \in Pieces
    BY <1>7, <2>2
  <2>4. QED
    BY <1>3, <1>4, <1>6, <1>9, <2>1, <2>2, <2>3
<1>10. QED
  BY <1>4, <1>8, <1>9

LEMMA InvocationCopies ==
  ASSUME SessionInv, CopyInv, NEW p \in Procs, Invocation(p)
  PROVE  CopyInv'
<1>1. job' = job /\ Effect(p) /\ pc' = [pc EXCEPT ![p] = pc'[p]]
  BY StepIsOwn, StepHasEffect
<1>2. \A q \in Procs : q # p => pc'[q] = pc[q]
  BY <1>1 DEF SessionInv, TypeOK
<1>3. SUFFICES ASSUME NEW r \in Procs, job[r].cmd = "replay", pc'[r] \in {"fill", "read"},
                      NEW k \in 1..Len(copies'[job[r].dir])
               PROVE  Explained(r, k, copies[job[r].dir][k])'
  BY <1>1 DEF CopyInv
<1>4. PICK piece : piece = copies'[job[r].dir][k]
  OBVIOUS
<1>5. CASE copies'[job[r].dir] = copies[job[r].dir]
  <2>1. CASE pc[r] \in {"fill", "read"}
    <3>1. Explained(r, k, piece)
      BY <1>3, <1>4, <1>5, <2>1 DEF CopyInv
    <3>2. Explained(r, k, piece)'
      BY <3>1, ExplainedKept
    <3>3. QED
      BY <1>1, <1>4, <3>2 DEF Explained
  <2>2. CASE pc[r] \notin {"fill", "read"}
    <3>1. r = p
      BY <1>2, <1>3, <2>2
    <3>2. copies'[job[r].dir] = <<>>
      BY <1>1, <1>3, <2>2, <3>1 DEF Effect, SessionInv, ReplayInv, Exits
    <3>3. QED
      BY <1>3, <3>2
  <2>3. QED
    BY <2>1, <2>2
<1>6. CASE copies'[job[r].dir] # copies[job[r].dir]
  <2>1. Sharing(r, p) /\ fetched' = fetched
    BY <1>3, <1>6, CopyStep
  <2>2. CASE copies'[job[r].dir] = <<>>
    BY <1>3, <2>2
  <2>3. CASE copies'[job[r].dir] # <<>>
    <3>1. PICK copy : copy = copies[job[r].dir]
      OBVIOUS
    <3>2. PICK n : n = written[p] + 1
      OBVIOUS
    <3>3. /\ pc[p] = "fill" /\ pc'[p] = "fill"
          /\ copy \in Seq(Pieces) /\ n \in Nat \ {0} /\ n <= Len(fetched[p])
          /\ fetched[p][n] \in Pieces
          /\ copies'[job[r].dir] = Written(copy, n, fetched[p][n])
      BY <1>3, <1>6, <2>3, <3>1, <3>2, CopyStep
    <3>4. /\ k = n => piece = fetched[p][n]
          /\ k # n /\ k <= Len(copy) => piece = copy[k]
          /\ k # n /\ ~(k <= Len(copy)) => piece = Zero
      <4>1. k \in Nat \ {0} /\ k <= Len(Written(copy, n, fetched[p][n]))
        BY <1>3, <3>3, WrittenIsASequence
      <4>2. piece = Written(copy, n, fetched[p][n])[k]
        BY <1>4, <3>3
      <4>3. PICK q \in Pieces : q = fetched[p][n]
        BY <3>3
      <4>4. /\ k = n => Written(copy, n, q)[k] = q
            /\ k # n /\ k <= Len(copy) => Written(copy, n, q)[k] = copy[k]
            /\ k # n /\ ~(k <= Len(copy)) => Written(copy, n, q)[k] = Zero
        BY <3>3, <4>1, <4>3, WrittenPiece
      <4>5. QED
        BY <4>2, <4>3, <4>4
    <3>5. pc[r] \in {"fill", "read"}
      BY <1>2, <1>3, <3>3
    <3>6. Explained(r, k, piece)
      <4>1. CASE k = n
        BY <2>1, <3>3, <3>4, <4>1 DEF Explained
      <4>2. CASE k # n /\ k <= Len(copy)
        <5>1. k \in 1..Len(copies[job[r].dir]) /\ piece = copies[job[r].dir][k]
          BY <1>3, <3>1, <3>3, <3>4, <4>2
        <5>2. QED
          BY <1>3, <3>5, <5>1 DEF CopyInv
      <4>3. CASE k # n /\ ~(k <= Len(copy))
        BY <3>4, <4>3 DEF Explained
      <4>4. QED
        BY <4>1, <4>2, <4>3
    <3>7. Explained(r, k, piece)'
      BY <3>6, ExplainedKept
    <3>8. QED
      BY <1>1, <1>4, <3>7 DEF Explained
  <2>4. QED
    BY <2>2, <2>3
<1>7. QED
  BY <1>5, <1>6

LEMMA InvocationReads ==
  ASSUME SessionInv, CopyInv, ReadInv, NEW p \in Procs, Invocation(p)
  PROVE  ReadInv'
<1>1. job' = job /\ Effect(p) /\ read' = [read EXCEPT ![p] = read'[p]] /\ TypeOK
  BY StepIsOwn, StepHasEffect DEF SessionInv
<1>2. SUFFICES ASSUME NEW r \in Procs, job[r].cmd = "replay", NEW k \in 1..Len(read'[r])
               PROVE  Explained(r, k, read[r][k])'
  BY <1>1 DEF ReadInv
<1>3. PICK piece : piece = read'[r][k]
  OBVIOUS
<1>4. SUFFICES Explained(r, k, piece)
  <2>1. Explained(r, k, piece)'
    BY <1>4, ExplainedKept
  <2>2. QED
    BY <1>3, <2>1 DEF Explained
<1>5. CASE read'[r] = read[r]
  BY <1>2, <1>3, <1>5 DEF ReadInv
<1>6. CASE read'[r] # read[r]
  <2>1. r = p
    BY <1>1, <1>6 DEF TypeOK
  <2>2. PICK copy : copy = copies[job[p].dir]
    OBVIOUS
  <2>3. PICK s : s = read[p]
    OBVIOUS
  <2>4. /\ pc[p] = "read" /\ copy # Missing /\ Len(s) + 1 <= Len(copy)
        /\ read'[p] = Append(s, copy[Len(s) + 1])
    BY <1>1, <1>2, <1>6, <2>1, <2>2, <2>3 DEF Effect, held
  <2>5. copy \in Seq(Pieces) /\ s \in Seq(Pieces)
    BY <1>1, <2>2, <2>3, <2>4, JobFields DEF TypeOK
  <2>6. Len(s) \in Nat /\ Len(s) + 1 \in 1..Len(copy)
    BY <2>4, <2>5
  <2>7. k \in 1..(Len(s) + 1) /\ piece = IF k = Len(s) + 1 THEN copy[k] ELSE s[k]
    BY <1>2, <1>3, <2>1, <2>4, <2>5
  <2>8. CASE k = Len(s) + 1
    BY <1>2, <2>1, <2>2, <2>4, <2>6, <2>7, <2>8 DEF CopyInv
  <2>9. CASE k # Len(s) + 1
    <3>1. k \in 1..Len(s)
      BY <2>6, <2>7, <2>9
    <3>2. QED
      BY <1>2, <2>1, <2>3, <2>7, <2>9, <3>1 DEF ReadInv
  <2>10. QED
    BY <2>8, <2>9
<1>7. QED
  BY <1>5, <1>6

(* Steps of a replay on a copy nobody else writes.                         *)
LEMMA BeginsGrows ==
  ASSUME NEW file \in Seq(Pieces), NEW contract \in Seq(Pieces), NEW n \in Nat,
         Begins(file, contract, n), n + 1 <= Len(contract)
  PROVE  /\ Begins(Written(file, n + 1, contract[n + 1]), contract, n + 1)
         /\ Begins(Append(file, contract[n + 1]), contract, n + 1)
<1>1. Len(file) = n /\ \A j \in 1..n : file[j] = contract[j]
  BY DEF Begins
<1>2. PICK k \in Nat \ {0} : k = n + 1
  OBVIOUS
<1>3. PICK piece \in Pieces : piece = contract[k]
  BY <1>2
<1>4. PICK s : s = Written(file, k, piece)
  OBVIOUS
<1>5. Len(s) = k
  BY <1>1, <1>2, <1>4, WrittenIsASequence
<1>6. ASSUME NEW j \in 1..k PROVE s[j] = contract[j]
  <2>1. j \in Nat \ {0} /\ j <= Len(Written(file, k, piece))
    BY <1>4, <1>5
  <2>2. CASE j = k
    BY <1>3, <1>4, <2>1, <2>2, WrittenPiece
  <2>3. CASE j # k
    <3>1. j \in 1..n /\ j <= Len(file)
      BY <1>1, <1>2, <2>3
    <3>2. s[j] = file[j]
      BY <1>4, <2>1, <2>3, <3>1, WrittenPiece
    <3>3. QED
      BY <1>1, <3>1, <3>2
  <2>4. QED
    BY <2>2, <2>3
<1>7. Begins(s, contract, k)
  BY <1>2, <1>5, <1>6 DEF Begins
<1>8. Begins(Append(file, piece), contract, k)
  BY <1>1, <1>2, <1>3, AppendProperties DEF Begins
<1>9. QED
  BY <1>2, <1>3, <1>4, <1>7, <1>8

LEMMA BeginsAll ==
  ASSUME NEW file \in Seq(Pieces), NEW contract \in Seq(Pieces), NEW n \in Nat,
         Begins(file, contract, n), n + 1 > Len(contract)
  PROVE  file = contract
<1>1. Len(file) = Len(contract) /\ \A j \in 1..Len(file) : file[j] = contract[j]
  BY DEF Begins
<1>2. QED
  BY <1>1, SeqEqual

LEMMA InvocationOwnCopies ==
  ASSUME SessionInv, OwnCopyInv, NEW p \in Procs, Invocation(p)
  PROVE  OwnCopyInv'
<1>1. /\ job' = job /\ Effect(p) /\ TypeOK
      /\ pc' = [pc EXCEPT ![p] = pc'[p]]
      /\ fetched' = [fetched EXCEPT ![p] = fetched'[p]]
      /\ written' = [written EXCEPT ![p] = written'[p]]
      /\ read' = [read EXCEPT ![p] = read'[p]]
  BY StepIsOwn, StepHasEffect DEF SessionInv
<1>2. SUFFICES ASSUME NEW r \in Procs, job[r].cmd = "replay", ~Shared(r)'
               PROVE  OwnCopy(r)'
  BY <1>1 DEF OwnCopyInv
<1>3. ~Shared(r)
  BY <1>2, SharingKept DEF Shared
<1>4. OwnCopy(r)
  BY <1>2, <1>3 DEF OwnCopyInv
<1>5. CASE r # p
  <2>1. pc'[r] = pc[r] /\ fetched'[r] = fetched[r] /\ written'[r] = written[r]
        /\ read'[r] = read[r]
    BY <1>1, <1>5 DEF TypeOK
  <2>2. copies'[job[r].dir] = copies[job[r].dir]
    BY <1>2, <1>3, <1>5, CopyStep DEF Shared
  <2>3. QED
    BY <1>1, <1>4, <2>1, <2>2 DEF OwnCopy, Begins
<1>6. CASE r = p
  <2>1. PICK c : c = fetched[p]
    OBVIOUS
  <2>2. PICK copy : copy = copies[job[p].dir]
    OBVIOUS
  <2>3. CASE pc[p] = "save" /\ pc'[p] = "fill"
    <3>1. copies'[job[p].dir] = <<>> /\ fetched'[p] = c /\ written'[p] = 0 /\ c \in Seq(Pieces)
      BY <1>1, <2>1, <2>3, SessionAssumption DEF Effect, SessionInv, HoldsInv, Exits, held
    <3>2. Begins(<<>>, c, 0)
      BY <3>1 DEF Begins
    <3>3. QED
      BY <1>1, <1>6, <2>3, <3>1, <3>2 DEF OwnCopy, Begins
  <2>4. CASE pc[p] = "fill" /\ pc'[p] \in {"fill", "read"}
    <3>1. c \in Seq(Pieces) /\ copy \in Seq(Pieces) /\ written[p] \in Nat /\ read[p] = <<>>
      BY <1>1, <2>1, <2>2, <2>4, SessionAssumption, JobFields
         DEF SessionInv, HoldsInv, ReplayInv, TypeOK
    <3>2. Begins(copy, c, written[p])
      BY <1>4, <1>6, <2>1, <2>2, <2>4 DEF OwnCopy
    <3>3. CASE pc'[p] = "fill"
      <4>1. /\ written'[p] = written[p] + 1 /\ fetched'[p] = c
            /\ written[p] + 1 <= Len(c)
            /\ copies'[job[p].dir] = Written(copy, written[p] + 1, c[written[p] + 1])
        BY <1>1, <2>1, <2>2, <2>4, <3>3 DEF Effect, Exits
      <4>2. Begins(Written(copy, written[p] + 1, c[written[p] + 1]), c, written[p] + 1)
        BY <3>1, <3>2, <4>1, BeginsGrows
      <4>3. QED
        BY <1>1, <1>6, <3>3, <4>1, <4>2 DEF OwnCopy, Begins
    <3>4. CASE pc'[p] = "read"
      <4>1. /\ written[p] + 1 > Len(c) /\ fetched'[p] = c /\ read'[p] = <<>>
            /\ copies'[job[p].dir] = copy
        BY <1>1, <2>1, <2>2, <2>4, <3>1, <3>4 DEF Effect, Exits, held, files
      <4>2. copy = c
        BY <3>1, <3>2, <4>1, BeginsAll
      <4>3. Begins(<<>>, c, 0) /\ Len(<<>>) = 0
        BY <3>1 DEF Begins
      <4>4. QED
        BY <1>1, <1>6, <3>4, <4>1, <4>2, <4>3 DEF OwnCopy, Begins
    <3>5. QED
      BY <2>4, <3>3, <3>4
  <2>5. CASE pc[p] = "read" /\ pc'[p] \in {"read", "parse"}
    <3>1. PICK s : s = read[p]
      OBVIOUS
    <3>2. copy = c /\ Begins(s, c, Len(s))
      BY <1>4, <1>6, <2>1, <2>2, <2>5, <3>1 DEF OwnCopy
    <3>3. c # Missing /\ fetched'[p] = c /\ copies'[job[p].dir] = copy
      BY <1>1, <1>2, <1>6, <2>1, <2>2, <2>5, <3>2 DEF Effect, Exits, held, files
    <3>4. c \in Seq(Pieces) /\ s \in Seq(Pieces) /\ Len(s) \in Nat
      BY <1>1, <2>1, <3>1, <3>3, SessionAssumption DEF TypeOK
    <3>5. CASE pc'[p] = "read"
      <4>1. Len(s) + 1 <= Len(c) /\ read'[p] = Append(s, c[Len(s) + 1])
        BY <1>1, <1>2, <1>6, <2>1, <2>2, <2>5, <3>1, <3>2, <3>5 DEF Effect, Exits, held, files
      <4>2. Begins(read'[p], c, Len(s) + 1)
        BY <3>2, <3>4, <4>1, BeginsGrows
      <4>3. Begins(read'[p], c, Len(read'[p]))
        BY <4>2 DEF Begins
      <4>4. QED
        BY <1>1, <1>6, <3>2, <3>3, <3>5, <4>3 DEF OwnCopy, Begins
    <3>6. CASE pc'[p] = "parse"
      <4>1. Len(s) + 1 > Len(c) /\ read'[p] = s
        BY <1>1, <1>2, <1>6, <2>1, <2>2, <2>5, <3>1, <3>2, <3>6 DEF Effect, Exits, held, files
      <4>2. s = c
        BY <3>2, <3>4, <4>1, BeginsAll
      <4>3. QED
        BY <1>1, <1>6, <3>3, <3>6, <4>1, <4>2 DEF OwnCopy
    <3>7. QED
      BY <2>5, <3>5, <3>6
  <2>6. CASE pc'[p] \notin {"fill", "read", "parse", "begin", "run", "close"}
    BY <1>6, <2>6 DEF OwnCopy
  <2>7. CASE /\ pc[p] \in {"parse", "begin", "run", "close"}
             /\ pc'[p] \in {"begin", "run", "close"}
    <3>1. read'[p] = read[p] /\ fetched'[p] = fetched[p]
      BY <1>1, <2>7 DEF Effect, Exits, held
    <3>2. QED
      BY <1>4, <1>6, <2>7, <3>1 DEF OwnCopy
  <2>8. QED
    BY <1>1, <1>2, <1>6, <2>3, <2>4, <2>5, <2>6, <2>7 DEF Effect, Exits
<1>7. QED
  BY <1>5, <1>6

(* A replay traces the contract it fetched and validated, whatever the     *)
(* user does to the file since, unless another replay has its directory.   *)
THEOREM ReplaysTraceWhatTheyFetched == Spec => []ReplayTracesWhatItFetched
<1>1. Init => CopyInv /\ ReadInv /\ OwnCopyInv
  BY DEF Init, CopyInv, ReadInv, OwnCopyInv, OwnCopy
<1>2. SessionInv /\ CopyInv /\ ReadInv /\ OwnCopyInv /\ [Next]_vars
        => CopyInv' /\ ReadInv' /\ OwnCopyInv'
  <2>1. ASSUME Edit \/ UNCHANGED vars, CopyInv, ReadInv, OwnCopyInv
        PROVE  CopyInv' /\ ReadInv' /\ OwnCopyInv'
    <3>1. UNCHANGED <<job, pc, fetched, written, read, copies>>
      BY <2>1 DEF Edit, vars, files, held
    <3>2. CopyInv' /\ ReadInv'
      BY <2>1, <3>1 DEF CopyInv, ReadInv, Explained, Sharing
    <3>3. OwnCopyInv'
      BY <2>1, <3>1 DEF OwnCopyInv, OwnCopy, Begins, Shared, Sharing
    <3>4. QED
      BY <3>2, <3>3
  <2>2. QED
    BY <2>1, InvocationCopies, InvocationReads, InvocationOwnCopies DEF Next, Done
<1>3. ReadInv /\ OwnCopyInv => ReplayTracesWhatItFetched
  BY DEF ReadInv, OwnCopyInv, OwnCopy, Shared, ReplayTracesWhatItFetched
<1>4. QED
  BY <1>1, <1>2, <1>3, SessionInvariant, PTL DEF Spec

-----------------------------------------------------------------------------
(* The trace in an invocation's own directory, at each of its labels.      *)
OwnTrace(p) ==
    LET d == job[p].dir
    IN  /\ pc[p] \notin Exits \cup {"run", "close"} => bundles[d] = Missing
        /\ pc[p] = "panic" => bundles[d] = Missing
        /\ pc[p] \in {"run", "close"} => bundles[d] = Bundle(read[p], FALSE)
        /\ pc[p] = "err" => bundles[d] \in {Missing, Bundle(read[p], FALSE)}
        /\ pc[p] = "ok" => bundles[d] = IF job[p].disabled THEN Missing ELSE Bundle(read[p], TRUE)
        /\ pc[p] \notin Exits \cup {"start", "make"} => d \in made
        /\ bundles[d] # Missing => d \in made

OwnInv == \A p \in Procs : Alone(p) => OwnTrace(p)

LEMMA InvocationOwn ==
  ASSUME SessionInv, OwnInv, NEW p \in Procs, Invocation(p), NEW r \in Procs, Alone(r)
  PROVE  OwnTrace(r)'
<1>1. /\ job' = job /\ Effect(p)
      /\ pc' = [pc EXCEPT ![p] = pc'[p]]
      /\ read' = [read EXCEPT ![p] = read'[p]]
      /\ bundles' = [bundles EXCEPT ![job[p].dir] = bundles'[job[p].dir]]
  BY StepIsOwn, StepHasEffect
<1>2. job[r].dir \in Dirs /\ job[r].disabled \in BOOLEAN /\ OwnTrace(r) /\ TypeOK
  BY JobFields DEF SessionInv, OwnInv
<1>3. made \subseteq made'
  BY <1>1 DEF Effect, files
<1>4. CASE r # p
  <2>1. pc'[r] = pc[r] /\ read'[r] = read[r]
    BY <1>1, <1>2, <1>4 DEF TypeOK
  <2>2. bundles'[job[r].dir] = bundles[job[r].dir]
    BY <1>1, <1>2, <1>4 DEF TypeOK, Alone
  <2>3. QED
    BY <1>1, <1>2, <1>3, <2>1, <2>2 DEF OwnTrace
<1>5. CASE r = p
  <2> DEFINE d == job[p].dir
  <2>1. CASE pc[p] \notin Exits /\ pc'[p] = "err" /\ UNCHANGED <<read, files>>
    BY <1>1, <1>2, <1>5, <2>1 DEF OwnTrace, Exits, files
  <2>2. CASE /\ pc[p] \notin Exits \cup {"begin", "close"}
             /\ pc[p] # "run" /\ pc'[p] \notin {"run", "close", "err"} /\ UNCHANGED bundles
    <3>1. bundles[d] = Missing
      BY <1>2, <1>5, <2>2 DEF OwnTrace
    <3>2. pc'[p] = "ok" => job[p].disabled
      BY <1>1, <2>2 DEF Effect, Exits
    <3>3. pc'[p] \notin Exits \cup {"start", "make"} => d \in made'
      BY <1>1, <1>2, <1>5, <2>2 DEF Effect, OwnTrace, Exits, files
    <3>4. QED
      BY <1>1, <1>5, <2>2, <3>1, <3>2, <3>3 DEF OwnTrace, Exits
  <2>3. CASE /\ \/ pc[p] = "begin" /\ pc'[p] = "run" /\ bundles'[d] = Bundle(read[p], FALSE)
                \/ pc[p] = "close" /\ pc'[p] = "ok" /\ bundles'[d] = Bundle(read[p], TRUE)
                \/ pc[p] = "run" /\ pc'[p] = "close" /\ UNCHANGED bundles
             /\ UNCHANGED <<held, made>>
    <3>1. ~job[p].disabled
      BY <2>3 DEF SessionInv, DisabledInv, Exits
    <3>2. QED
      BY <1>1, <1>2, <1>5, <2>3, <3>1 DEF OwnTrace, Exits, held
  <2>4. QED
    <3>1. pc'[p] = "err" => pc[p] \notin Exits
      BY <1>1 DEF Effect, Exits
    <3>2. QED
      BY <1>1, <3>1, <2>1, <2>2, <2>3 DEF Effect, Exits, files, held
<1>6. QED
  BY <1>4, <1>5

LEMMA OwnInvInit == Init => OwnInv
BY SessionAssumption DEF Init, OwnInv, OwnTrace, Exits, Jobs

LEMMA OwnInvStep == SessionInv /\ OwnInv /\ [Next]_vars => OwnInv'
<1>1. ASSUME Edit \/ UNCHANGED vars, OwnInv PROVE OwnInv'
  BY <1>1 DEF Edit, vars, files, held, OwnInv, OwnTrace, Alone
<1>2. ASSUME SessionInv, OwnInv, NEW p \in Procs, Invocation(p) PROVE OwnInv'
  <2>1. job' = job
    BY <1>2, StepIsOwn
  <2>2. ASSUME NEW r \in Procs, Alone(r)' PROVE OwnTrace(r)'
    BY <1>2, <2>1, <2>2, InvocationOwn DEF Alone
  <2>3. QED
    BY <2>2 DEF OwnInv
<1>3. QED
  BY <1>1, <1>2 DEF Next, Done

(* An invocation with a directory of its own succeeds exactly when it      *)
(* leaves there a complete trace of what it read, or is disabled.          *)
THEOREM SuccessLeavesItsTrace == Spec => []SuccessIsItsOwnTrace
<1>1. SessionInv /\ OwnInv => SuccessIsItsOwnTrace
  <2>1. ASSUME SessionInv, NEW p \in Procs, OwnTrace(p)
        PROVE  LET d == job[p].dir
               IN  /\ (pc[p] = "ok" /\ ~job[p].disabled)
                        <=> bundles[d] # Missing /\ bundles[d].complete
                   /\ bundles[d] # Missing => bundles[d].of = read[p] /\ d \in made
    <3> DEFINE d == job[p].dir
    <3>2. \A b \in BOOLEAN : Bundle(read[p], b).complete = b /\ Bundle(read[p], b).of = read[p]
      BY DEF Bundle
    <3>3. CASE bundles[d] = Missing
      <4>1. ~(pc[p] = "ok" /\ ~job[p].disabled)
        <5>1. SUFFICES ASSUME pc[p] = "ok", ~job[p].disabled PROVE FALSE
          OBVIOUS
        <5>2. bundles[d] = Bundle(read[p], TRUE) /\ read[p] \in Seq(Pieces)
          BY <2>1, <5>1 DEF OwnTrace, SessionInv, TypeOK
        <5>3. QED
          BY <3>3, <5>2, SessionAssumption DEF Bundle
      <4>2. QED
        BY <3>3, <4>1
    <3>4. CASE bundles[d] # Missing
      <4>1. d \in made
        BY <2>1, <3>4 DEF OwnTrace
      <4>2. \/ bundles[d] = Bundle(read[p], FALSE) /\ pc[p] # "ok"
            \/ bundles[d] = Bundle(read[p], TRUE) /\ pc[p] = "ok" /\ ~job[p].disabled
        BY <2>1, <3>4 DEF OwnTrace, Exits
      <4>3. QED
        BY <3>2, <3>4, <4>1, <4>2
    <3>5. QED
      BY <3>3, <3>4
  <2>2. QED
    BY <2>1 DEF OwnInv, Alone, SuccessIsItsOwnTrace
<1>2. QED
  BY <1>1, OwnInvInit, OwnInvStep, SessionInvariant, PTL DEF Spec

-----------------------------------------------------------------------------
(* Invocations as calls of trace_program.                                  *)

(* What an invocation's step does to its own call, and to no other's.      *)
LEMMA InvocationRecords ==
  ASSUME SessionInv, NEW p \in Procs, Invocation(p),
         NEW r \in Procs, Alone(r), ~job[r].disabled
  PROVE  [Recorded(r)!Next]_(Recorded(r)!vars)
<1>1. /\ job' = job /\ Effect(p) /\ TypeOK
      /\ pc' = [pc EXCEPT ![p] = pc'[p]]
      /\ bundles' = [bundles EXCEPT ![job[p].dir] = bundles'[job[p].dir]]
  BY StepIsOwn, StepHasEffect DEF SessionInv
<1>2. job[r].dir \in Dirs /\ job[p].dir \in Dirs
  BY <1>1, JobFields
<1>3. CASE r # p
  <2>1. pc'[r] = pc[r] /\ bundles'[job[r].dir] = bundles[job[r].dir]
    BY <1>1, <1>2, <1>3 DEF TypeOK, Alone
  <2>2. StageOf(r)' = StageOf(r) /\ TraceOf(r)' = TraceOf(r)
    BY <1>1, <2>1 DEF StageOf, TraceOf
  <2>3. QED
    BY <2>2 DEF Recorded!vars
<1>4. CASE r = p
  <2>1. ASSUME bundles' = bundles PROVE TraceOf(r)' = TraceOf(r)
    BY <1>1, <2>1 DEF TraceOf
  <2>2. CASE pc[p] \notin Exits /\ pc'[p] \in {"err", "panic"} /\ bundles' = bundles
    <3>1. StageOf(r) \in {"parse", "begin", "record"} /\ StageOf(r)' = "err"
      BY <1>4, <2>2 DEF StageOf, Exits
    <3>2. QED
      BY <2>1, <2>2, <3>1 DEF Recorded!Next, Recorded!Fail
  <2>3. CASE /\ pc[p] \in {"start", "make", "fetch", "save", "fill", "read"}
             /\ pc'[p] \in {"make", "fetch", "save", "fill", "read", "parse"}
             /\ bundles' = bundles
    <3>1. StageOf(r) = "parse" /\ StageOf(r)' = "parse"
      BY <1>4, <2>3 DEF StageOf
    <3>2. QED
      BY <2>1, <2>3, <3>1 DEF Recorded!vars
  <2>4. CASE pc[p] = "parse" /\ pc'[p] = "begin" /\ bundles' = bundles
    <3>1. StageOf(r) = "parse" /\ StageOf(r)' = "begin"
      BY <1>4, <2>4 DEF StageOf
    <3>2. QED
      BY <2>1, <2>4, <3>1 DEF Recorded!Next, Recorded!Parse
  <2>5. CASE pc[p] = "run" /\ pc'[p] = "close" /\ bundles' = bundles
    <3>1. StageOf(r) = "record" /\ StageOf(r)' = "record"
      BY <1>4, <2>5 DEF StageOf
    <3>2. QED
      BY <2>1, <2>5, <3>1 DEF Recorded!vars
  <2>6. CASE pc[p] \in {"begin", "close"}
    <3>1. \A b \in BOOLEAN : Bundle(read[p], b) # Missing /\ Bundle(read[p], b).complete = b
      <4>1. read[p] \in Seq(Pieces)
        BY <1>1 DEF TypeOK
      <4>2. QED
        BY <4>1, SessionAssumption DEF Bundle
    <3>2. CASE pc[p] = "begin" /\ pc'[p] = "run"
               /\ bundles'[job[p].dir] = Bundle(read[p], FALSE)
      <4>1. StageOf(r) = "begin" /\ StageOf(r)' = "record"
        BY <1>4, <3>2 DEF StageOf
      <4>2. TraceOf(r)' = "partial"
        BY <1>1, <1>4, <3>1, <3>2 DEF TraceOf
      <4>3. QED
        BY <4>1, <4>2 DEF Recorded!Next, Recorded!Begin
    <3>3. CASE pc[p] = "close" /\ pc'[p] = "ok"
               /\ bundles'[job[p].dir] = Bundle(read[p], TRUE)
      <4>1. StageOf(r) = "record" /\ StageOf(r)' = "ok"
        BY <1>4, <3>3 DEF StageOf
      <4>2. TraceOf(r)' = "complete"
        BY <1>1, <1>4, <3>1, <3>3 DEF TraceOf
      <4>3. QED
        BY <4>1, <4>2 DEF Recorded!Next, Recorded!Complete
    <3>4. QED
      BY <1>1, <2>2, <2>6, <3>2, <3>3 DEF Effect, Exits, files
  <2>7. QED
    BY <1>1, <1>4, <2>2, <2>3, <2>4, <2>5, <2>6 DEF Effect, Exits, files
<1>5. QED
  BY <1>3, <1>4

(* The invocations whose calls are Recordings.                             *)
AllRecord ==
    \A p \in Procs : Alone(p) /\ ~job[p].disabled => [Recorded(p)!Next]_(Recorded(p)!vars)

(* However many invocations there are and whatever the user does to the    *)
(* files they read, one with a directory of its own is a Recording.        *)
THEOREM InvocationsImplementRecording == Spec => InvocationsAreRecordings
<1>1. Init => \A p \in Procs : Recorded(p)!Init
  <2>1. SUFFICES ASSUME Init, NEW p \in Procs PROVE Recorded(p)!Init
    OBVIOUS
  <2>2. pc[p] = "start" /\ bundles[job[p].dir] = Missing
    BY <2>1 DEF Init, Jobs
  <2>3. QED
    BY <2>2 DEF Recorded!Init, StageOf, TraceOf
<1>2. SessionInv /\ [Next]_vars => [AllRecord]_vars
  <2>1. SUFFICES ASSUME SessionInv, [Next]_vars PROVE AllRecord
    OBVIOUS
  <2>2. ASSUME Edit \/ UNCHANGED vars, NEW p \in Procs PROVE UNCHANGED Recorded(p)!vars
    <3>1. UNCHANGED <<job, pc, bundles>>
      BY <2>2 DEF Edit, vars, files, held
    <3>2. QED
      BY <3>1 DEF Recorded!vars, StageOf, TraceOf
  <2>3. ASSUME NEW p \in Procs, Invocation(p) PROVE AllRecord
    BY <2>1, <2>3, InvocationRecords DEF AllRecord
  <2>4. QED
    BY <2>1, <2>2, <2>3 DEF Next, Done, AllRecord
<1>3. QED
  BY <1>1, <1>2, SessionInvariant, PTL DEF Spec, InvocationsAreRecordings, AllRecord
=============================================================================
