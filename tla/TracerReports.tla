------------------------------ MODULE TracerReports ------------------------------
(***************************************************************************)
(* What the recording reports beside its steps, proved for every program:  *)
(* the soft errors, the open frames, the bundle's completion and the way   *)
(* the guest ended.  As in TracerSafety each property is first followed    *)
(* through the writer's calls and then through the recorder's actions;     *)
(* VmInv says what an interrupt tells of the guest, which the frames and   *)
(* the ends need.                                                          *)
(***************************************************************************)
EXTENDS TracerSafety, FiniteSetTheorems, SequenceTheorems

(* Stores of an immediate are in neither list of the recorder's, so what   *)
(* is said of errors at memory accesses is said of programs without any.   *)
NoImmediateStores == \A pc \in PCs : Code[pc].op = "mem" => Code[pc].form = "register"

(* What the recorder sees of the soft errors: it does not look at a store  *)
(* of an immediate.                                                        *)
Noticed(value) ==
    LET instr == Code[value.pc]
    IN  IF instr.op = "mem" /\ instr.form # "register" THEN "none" ELSE SoftError(value)

Noticeable(wr, name, step) ==
    {k \in 1..Len(wr.values) : wr.values[k].step = step /\ Noticed(wr.values[k]) = name}

(* Every soft error the recorder looks for is told once and at its step,   *)
(* and nothing else is told as one.                                        *)
SoftErrorsAreDiagnosed ==
    \A name \in SoftErrors, step \in 0..Len(w.steps) :
        Cardinality(Told(w, name, step)) = Cardinality(Noticeable(w, name, step))

-----------------------------------------------------------------------------
(* The writer's calls and the event stream.                                *)

SameEvents(a, b) == b.events = a.events

(* A Return is no event.                                                   *)
LEMMA QuietReturn ==
  ASSUME NEW wr \in WriterType
  PROVE  SameEvents(wr, Return(wr))
BY DEF SameEvents, Return, WriterType

(* Nor is a move of the bundle.                                            *)
LEMMA QuietStage ==
  ASSUME NEW wr \in WriterType, NEW s
  PROVE  SameEvents(wr, AtStage(wr, s))
BY DEF SameEvents, AtStage, WriterType

(* Nor are staged arguments.                                               *)
LEMMA QuietArgs ==
  ASSUME NEW wr \in WriterType
  PROVE  SameEvents(wr, StageArgs(wr))
BY DEF SameEvents, StageArgs, WriterType

(* Nor is a snapshot.                                                      *)
LEMMA QuietValues ==
  ASSUME NEW wr \in WriterType, NEW pc, NEW operand
  PROVE  SameEvents(wr, Values(wr, pc, operand))
BY DEF SameEvents, Values, WriterType

(* Nor is the registration of a path.                                      *)
LEMMA QuietRegister ==
  ASSUME NEW wr \in WriterType, NEW known, NEW p \in Paths, NEW accepted \in BOOLEAN
  PROVE  SameEvents(wr, RegisterPath(wr, known, p, accepted))
BY DEF SameEvents, RegisterPath, Offer, Refuse, WriterType

(* Nor is a first mention.                                                 *)
LEMMA QuietMention ==
  ASSUME NEW wr \in WriterType, NEW p \in Paths
  PROVE  SameEvents(wr, Mention(wr, p))
BY DEF SameEvents, Mention, WriterType

(* Nor is a call.                                                          *)
LEMMA QuietCall ==
  ASSUME NEW wr \in WriterType, NEW fn, NEW p \in Paths
  PROVE  SameEvents(wr, Call(wr, fn, p))
<1>1. PICK m : m = Mention(wr, p)
  OBVIOUS
<1>2. m \in WriterType /\ m.events = wr.events
  BY <1>1, MentionType, QuietMention DEF SameEvents
<1>3. Call(wr, fn, p).events = m.events
  BY <1>1, <1>2 DEF Call, WriterType
<1>4. QED
  BY <1>2, <1>3 DEF SameEvents

(* Nor is a step.                                                          *)
LEMMA QuietStep ==
  ASSUME NEW wr \in WriterType, NEW loc \in Location
  PROVE  SameEvents(wr, StepAt(wr, loc))
<1>1. PICK m : m = Mention(wr, loc.path)
  OBVIOUS
<1>2. m \in WriterType /\ m.events = wr.events
  BY <1>1, MentionType, QuietMention DEF SameEvents, Location
<1>3. StepAt(wr, loc).events = m.events
  BY <1>1, <1>2 DEF StepAt, WriterType
<1>4. QED
  BY <1>2, <1>3 DEF SameEvents

(* An event is appended, at the last step.                                 *)
LEMMA EventAppends ==
  ASSUME NEW wr \in WriterType, NEW kind, NEW name
  PROVE  Event(wr, kind, name).events =
           Append(wr.events, [kind |-> kind, name |-> name, step |-> Len(wr.steps)])
BY DEF Event, WriterType

-----------------------------------------------------------------------------
(* The soft errors.                                                        *)

Soft(wr) ==
    \A name \in SoftErrors, step \in Nat :
        Cardinality(Told(wr, name, step)) = Cardinality(Noticeable(wr, name, step))

SoftInv == Soft(w)

(* The property reads the events and the snapshots only.                   *)
LEMMA SoftSame ==
  ASSUME NEW a, NEW b, Soft(a), b.events = a.events, b.values = a.values
  PROVE  Soft(b)
BY DEF Soft, Told, Noticeable

EventRecord == [kind : EventKinds, name : EventNames, step : Nat]
ValueRecord == [pc : PCs, operand : Nat, step : Nat]

(* One more event: counted where it belongs and nowhere else.              *)
LEMMA ToldMore ==
  ASSUME NEW a \in WriterType, NEW b, NEW e \in EventRecord, b.events = Append(a.events, e),
         NEW name, NEW step
  PROVE  /\ e.name = name /\ e.step = step =>
              Cardinality(Told(b, name, step)) = Cardinality(Told(a, name, step)) + 1
         /\ ~(e.name = name /\ e.step = step) => Told(b, name, step) = Told(a, name, step)
<1>1. PICK s : s = a.events
  OBVIOUS
<1>2. s \in Seq(EventRecord)
  BY <1>1, WriterFields DEF EventRecord
<1>3. PICK n : n = Len(s)
  OBVIOUS
<1>4. n \in Nat
  BY <1>2, <1>3
<1>5. PICK t : t = Append(s, e)
  OBVIOUS
<1>6. Len(t) = n + 1 /\ t[n + 1] = e /\ \A k \in 1..n : t[k] = s[k]
  BY <1>2, <1>3, <1>5
<1>7. PICK T : T = {k \in 1..n : s[k].step = step /\ s[k].name = name}
  OBVIOUS
<1>8. Told(a, name, step) = T
  BY <1>1, <1>3, <1>7 DEF Told
<1>9. Told(b, name, step) = {k \in 1..(n + 1) : t[k].step = step /\ t[k].name = name}
  BY <1>1, <1>5, <1>6 DEF Told
<1>10. ASSUME e.name = name, e.step = step
       PROVE  Told(b, name, step) = T \cup {n + 1}
  BY <1>4, <1>6, <1>7, <1>9, <1>10
<1>11. ASSUME ~(e.name = name /\ e.step = step)
       PROVE  Told(b, name, step) = T
  BY <1>4, <1>6, <1>7, <1>9, <1>11
<1>12. IsFiniteSet(T) /\ n + 1 \notin T
  <2>1. IsFiniteSet(1..n)
    BY <1>4, FS_Interval
  <2>2. QED
    BY <1>4, <1>7, <2>1, FS_Subset
<1>13. Cardinality(T \cup {n + 1}) = Cardinality(T) + 1
  BY <1>12, FS_AddElement
<1>14. QED
  BY <1>8, <1>10, <1>11, <1>13

(* One more snapshot.                                                      *)
LEMMA NoticedMore ==
  ASSUME NEW a \in WriterType, NEW b, NEW v \in ValueRecord, b.values = Append(a.values, v),
         NEW name, NEW step
  PROVE  /\ Noticed(v) = name /\ v.step = step =>
              Cardinality(Noticeable(b, name, step)) = Cardinality(Noticeable(a, name, step)) + 1
         /\ ~(Noticed(v) = name /\ v.step = step) => Noticeable(b, name, step) = Noticeable(a, name, step)
<1>1. PICK s : s = a.values
  OBVIOUS
<1>2. s \in Seq(ValueRecord)
  BY <1>1, WriterFields DEF ValueRecord
<1>3. PICK n : n = Len(s)
  OBVIOUS
<1>4. n \in Nat
  BY <1>2, <1>3
<1>5. PICK t : t = Append(s, v)
  OBVIOUS
<1>6. Len(t) = n + 1 /\ t[n + 1] = v /\ \A k \in 1..n : t[k] = s[k]
  BY <1>2, <1>3, <1>5
<1>7. PICK T : T = {k \in 1..n : s[k].step = step /\ Noticed(s[k]) = name}
  OBVIOUS
<1>8. Noticeable(a, name, step) = T
  BY <1>1, <1>3, <1>7 DEF Noticeable
<1>9. Noticeable(b, name, step) = {k \in 1..(n + 1) : t[k].step = step /\ Noticed(t[k]) = name}
  BY <1>1, <1>5, <1>6 DEF Noticeable
<1>10. ASSUME Noticed(v) = name, v.step = step
       PROVE  Noticeable(b, name, step) = T \cup {n + 1}
  BY <1>4, <1>6, <1>7, <1>9, <1>10
<1>11. ASSUME ~(Noticed(v) = name /\ v.step = step)
       PROVE  Noticeable(b, name, step) = T
  BY <1>4, <1>6, <1>7, <1>9, <1>11
<1>12. IsFiniteSet(T) /\ n + 1 \notin T
  <2>1. IsFiniteSet(1..n)
    BY <1>4, FS_Interval
  <2>2. QED
    BY <1>4, <1>7, <2>1, FS_Subset
<1>13. Cardinality(T \cup {n + 1}) = Cardinality(T) + 1
  BY <1>12, FS_AddElement
<1>14. QED
  BY <1>8, <1>10, <1>11, <1>13

(* An event that is no soft error.                                         *)
LEMMA SoftOther ==
  ASSUME NEW wr \in WriterType, Soft(wr), NEW kind \in EventKinds,
         NEW name \in EventNames \ SoftErrors
  PROVE  Soft(Event(wr, kind, name))
<1>1. PICK b : b = Event(wr, kind, name)
  OBVIOUS
<1>2. PICK e : e = [kind |-> kind, name |-> name, step |-> Len(wr.steps)]
  OBVIOUS
<1>3. e \in EventRecord /\ e.name = name
  BY <1>2, WriterFields DEF EventRecord
<1>4. b.events = Append(wr.events, e) /\ b.values = wr.values
  BY <1>1, <1>2, EventAppends, EventKeeps DEF SameSteps
<1>5. ASSUME NEW n \in SoftErrors, NEW step \in Nat
      PROVE  Told(b, n, step) = Told(wr, n, step) /\ Noticeable(b, n, step) = Noticeable(wr, n, step)
  <2>1. Told(b, n, step) = Told(wr, n, step)
    <3>1. e.name # n
      BY <1>3, <1>5
    <3>2. e \in EventRecord /\ b.events = Append(wr.events, e)
      BY <1>3, <1>4
    <3>3. QED
      BY <3>1, <3>2, ToldMore
  <2>2. Noticeable(b, n, step) = Noticeable(wr, n, step)
    BY <1>4 DEF Noticeable
  <2>3. QED
    BY <2>1, <2>2
<1>6. QED
  BY <1>1, <1>5 DEF Soft

(* A snapshot of an instruction that is no soft error.                     *)
LEMMA SoftShown ==
  ASSUME NEW a \in WriterType, NEW b, NEW v \in ValueRecord, Soft(a),
         b.values = Append(a.values, v), b.events = a.events, Noticed(v) \notin SoftErrors
  PROVE  Soft(b)
<1>1. ASSUME NEW n \in SoftErrors, NEW step \in Nat
      PROVE  Told(b, n, step) = Told(a, n, step) /\ Noticeable(b, n, step) = Noticeable(a, n, step)
  BY NoticedMore DEF Told
<1>2. QED
  BY <1>1 DEF Soft

(* A snapshot of one that is, and its event.                               *)
LEMMA SoftTold ==
  ASSUME NEW a \in WriterType, NEW b, NEW v \in ValueRecord, NEW e \in EventRecord, Soft(a),
         b.values = Append(a.values, v), b.events = Append(a.events, e),
         Noticed(v) = e.name, v.step = e.step
  PROVE  Soft(b)
<1>1. SUFFICES ASSUME NEW n \in SoftErrors, NEW step \in Nat
               PROVE  Cardinality(Told(b, n, step)) = Cardinality(Noticeable(b, n, step))
  BY DEF Soft
<1>2. Cardinality(Told(a, n, step)) = Cardinality(Noticeable(a, n, step))
  BY DEF Soft
<1>3. /\ e.name = n /\ e.step = step =>
            Cardinality(Told(b, n, step)) = Cardinality(Told(a, n, step)) + 1
      /\ ~(e.name = n /\ e.step = step) => Told(b, n, step) = Told(a, n, step)
  BY ToldMore, SMTT(30)
<1>4. /\ Noticed(v) = n /\ v.step = step =>
            Cardinality(Noticeable(b, n, step)) = Cardinality(Noticeable(a, n, step)) + 1
      /\ ~(Noticed(v) = n /\ v.step = step) => Noticeable(b, n, step) = Noticeable(a, n, step)
  BY NoticedMore
<1>5. CASE e.name = n /\ e.step = step
  BY <1>2, <1>3, <1>4, <1>5
<1>6. CASE ~(e.name = n /\ e.step = step)
  BY <1>2, <1>3, <1>4, <1>6
<1>7. QED
  BY <1>5, <1>6

-----------------------------------------------------------------------------
(* The instruction a handled Step shows.                                   *)
LEMMA OnStepSoft ==
  ASSUME TypeOK, OnStep, Soft(w)
  PROVE  Soft(w')
<1>1. /\ vm.pc \in PCs /\ vm.operand \in Nat /\ w \in WriterType
      /\ LocationOf(vm.pc) \in Location /\ Current = Code[vm.pc]
  BY LocationOfType DEF TypeOK, VmTypeOK, Current
<1>2. PICK accepted \in BOOLEAN :
        w' = NoteInstruction(Values(NoteStep(w, LocationOf(vm.pc), accepted), vm.pc, vm.operand),
                             Current, vm.operand)
  BY DEF OnStep
<1>3. PICK here \in Location : here = LocationOf(vm.pc)
  BY <1>1
<1>4. PICK s : s = NoteStep(w, here, accepted)
  OBVIOUS
<1>5. s \in WriterType /\ s.events = w.events /\ s.values = w.values
  <2>1. PICK r : r = RegisterPath(w, registered, here.path, accepted)
    OBVIOUS
  <2>2. here.path \in Paths
    BY DEF Location
  <2>3. r \in WriterType /\ r.events = w.events /\ r.values = w.values
    BY <1>1, <2>1, <2>2, RegisterPathType, RegisterPathKeeps, QuietRegister
       DEF SameSteps, SameEvents
  <2>4. StepAt(r, here) \in WriterType
    BY <2>3, StepAtType
  <2>5. StepAt(r, here).events = r.events /\ StepAt(r, here).values = r.values
    BY <2>3, StepAtKeeps, QuietStep DEF SameEvents
  <2>6. QED
    BY <1>1, <1>4, <2>1, <2>3, <2>4, <2>5 DEF NoteStep
<1>6. Soft(s)
  BY <1>5, SoftSame
<1>7. PICK v : v = Values(s, vm.pc, vm.operand)
  OBVIOUS
<1>8. PICK shot : shot = [pc |-> vm.pc, operand |-> vm.operand, step |-> Len(s.steps)]
  OBVIOUS
<1>9. /\ v \in WriterType
      /\ v.events = s.events /\ v.steps = s.steps /\ v.values = Append(s.values, shot)
  <2>1. v \in WriterType
    BY <1>1, <1>5, <1>7, ValuesType
  <2>2. v.steps = s.steps /\ v.values = Append(s.values, shot)
    <3>1. SameTables(s, v) /\ v.values = Append(s.values, shot)
      BY <1>5, <1>7, <1>8, ValuesKeeps
    <3>2. QED
      BY <3>1 DEF SameTables
  <2>3. v.events = s.events
    BY <1>5, <1>7, QuietValues DEF SameEvents
  <2>4. QED
    BY <2>1, <2>2, <2>3
<1>10. shot \in ValueRecord /\ shot.pc = vm.pc /\ shot.operand = vm.operand
       /\ shot.step = Len(s.steps)
  BY <1>1, <1>5, <1>8, WriterFields DEF ValueRecord
<1>11. PICK instr \in Instructions : instr = Code[vm.pc]
  BY <1>1, CodeAssumption
<1>12. w' = NoteInstruction(v, instr, vm.operand)
  BY <1>1, <1>2, <1>3, <1>4, <1>7, <1>11
<1>13. instr.size \in {1, 2, 4, 8}
  BY <1>11 DEF Instructions
<1>14. CASE instr.op = "load_imm_and_jump"
  <2>1. Noticed(shot) \notin SoftErrors
    BY <1>10, <1>11, <1>14 DEF Noticed, SoftError, SoftErrors
  <2>2. PICK fn : w' = Call(v, fn, BlobPath)
    BY <1>12, <1>14 DEF NoteInstruction, Listed
  <2>3. w'.events = s.events /\ w'.values = v.values
    <3>1. v \in WriterType /\ BlobPath \in Paths
      BY <1>9, TracerAssumption
    <3>2. SameSteps(v, Call(v, fn, BlobPath))
      BY <3>1, CallKeeps
    <3>3. SameEvents(v, Call(v, fn, BlobPath))
      BY <3>1, QuietCall
    <3>4. QED
      BY <1>9, <2>2, <3>2, <3>3 DEF SameEvents, SameSteps
  <2>4. QED
    BY <1>5, <1>6, <1>9, <1>10, <2>1, <2>3, SoftShown
<1>15. CASE instr.op = "jump_indirect" /\ instr.base = "RA"
  <2>1. Noticed(shot) \notin SoftErrors
    BY <1>10, <1>11, <1>15 DEF Noticed, SoftError, SoftErrors
  <2>2. w' = Return(v)
    BY <1>12, <1>15 DEF NoteInstruction, Listed
  <2>3. w'.events = s.events /\ w'.values = v.values
    BY <1>9, <2>2, ReturnKeeps, QuietReturn DEF SameEvents, SameSteps
  <2>4. QED
    BY <1>5, <1>6, <1>9, <1>10, <2>1, <2>3, SoftShown
<1>16. CASE instr.op = "div" \/ Listed(instr)
  <2>1. PICK name : name = Noticed(shot)
    OBVIOUS
  <2>2. name \in SoftErrors \cup {"none"}
    BY <2>1 DEF Noticed, SoftError, SoftErrors
  <2>3. w' = IF name = "none" THEN v ELSE Event(v, "Error", name)
    <3>1. CASE instr.op = "div"
      BY <1>10, <1>11, <1>12, <2>1, <3>1 DEF NoteInstruction, NoteDivision, Noticed, SoftError, Listed
    <3>2. CASE Listed(instr)
      <4>1. instr.size = 1 => vm.operand % instr.size = 0
        BY <1>1
      <4>2. w' = NoteMisalignment(v, instr, vm.operand)
        BY <1>12, <1>13, <3>2 DEF NoteInstruction
      <4>3. name = IF vm.operand % instr.size # 0 THEN "polkavm_misaligned_access" ELSE "none"
        <5>1. Noticed(shot) = SoftError(shot) /\ instr.op = "mem"
          BY <1>10, <1>11, <3>2 DEF Noticed, Listed
        <5>2. QED
          BY <1>10, <1>11, <2>1, <5>1 DEF SoftError
      <4>4. QED
        BY <1>13, <4>1, <4>2, <4>3 DEF NoteMisalignment
    <3>3. QED
      BY <1>16, <3>1, <3>2
  <2>4. CASE name = "none"
    <3>1. Noticed(shot) \notin SoftErrors
      BY <2>1, <2>4 DEF SoftErrors
    <3>2. QED
      BY <1>5, <1>6, <1>9, <1>10, <2>3, <2>4, <3>1, SoftShown
  <2>5. CASE name # "none"
    <3>1. PICK e : e = [kind |-> "Error", name |-> name, step |-> Len(s.steps)]
      OBVIOUS
    <3>2. e \in EventRecord /\ e.name = name /\ e.step = Len(s.steps)
      BY <1>5, <2>2, <2>5, <3>1, WriterFields DEF EventRecord, EventNames, EventKinds, SoftErrors
    <3>3. w'.events = Append(s.events, e)
      BY <1>9, <2>3, <2>5, <3>1, EventAppends
    <3>4. w'.values = Append(s.values, shot)
      BY <1>9, <2>3, <2>5, EventKeeps DEF SameSteps
    <3>5. QED
      BY <1>5, <1>6, <1>10, <2>1, <3>2, <3>3, <3>4, SoftTold
  <2>6. QED
    BY <2>4, <2>5
<1>17. CASE /\ instr.op \notin {"div", "load_imm_and_jump"} /\ ~Listed(instr)
            /\ ~(instr.op = "jump_indirect" /\ instr.base = "RA")
  <2>1. Noticed(shot) \notin SoftErrors
    BY <1>10, <1>11, <1>17 DEF Noticed, SoftError, SoftErrors, Listed
  <2>2. w' = v
    BY <1>12, <1>17 DEF NoteInstruction, Listed
  <2>3. QED
    BY <1>5, <1>6, <1>9, <1>10, <2>1, <2>2, SoftShown
<1>18. QED
  BY <1>14, <1>15, <1>16, <1>17

(* The trace's beginning has no event and no snapshot.                     *)
LEMMA StartTraceQuiet ==
  ASSUME TypeOK, StartTrace
  PROVE  w'.events = w.events /\ w'.values = w.values
<1>1. PICK loc \in Location : loc = At(BlobPath, 1, 0)
  BY TracerAssumption DEF At, Location
<1>2. w \in WriterType /\ loc.path = BlobPath /\ BlobPath \in Paths
  BY <1>1, TracerAssumption DEF TypeOK, At
<1>3. Toplevel \in Fn
  BY DEF Toplevel, Fn
<1>4. PICK c : c = Call(w, Toplevel, BlobPath)
  OBVIOUS
<1>5. c \in WriterType /\ c.events = w.events /\ c.values = w.values
  <2>1. c \in WriterType
    BY <1>2, <1>3, <1>4, CallType
  <2>2. SameSteps(w, c) /\ SameEvents(w, c)
    BY <1>2, <1>4, CallKeeps, QuietCall
  <2>3. QED
    BY <2>1, <2>2 DEF SameSteps, SameEvents
<1>6. PICK s : s = StepAt(c, loc)
  OBVIOUS
<1>7. s \in WriterType
  BY <1>5, <1>6, StepAtType
<1>8. s.events = c.events /\ s.values = c.values
  BY <1>5, <1>6, StepAtKeeps, QuietStep DEF SameEvents
<1>9. w' = Call(s, EntryFn, BlobPath)
  BY <1>1, <1>2, <1>4, <1>6 DEF StartTrace, Start
<1>10. SameSteps(s, w') /\ SameEvents(s, w')
  BY <1>2, <1>7, <1>9, CallKeeps, QuietCall
<1>11. QED
  BY <1>5, <1>8, <1>10 DEF SameSteps, SameEvents

(* Registering paths leaves events and snapshots alone.                    *)
LEMMA RegisterQuiet ==
  ASSUME TypeOK, RegisterSource \/ RegisterBlob
  PROVE  w'.events = w.events /\ w'.values = w.values
<1>1. w \in WriterType /\ BlobPath \in Paths /\ MappedPaths \subseteq Paths
  BY TracerAssumption DEF TypeOK, MappedPaths, Location
<1>2. PICK p \in Paths, accepted \in BOOLEAN : w' = RegisterPath(w, registered, p, accepted)
  BY <1>1 DEF RegisterSource, RegisterBlob
<1>3. QED
  BY <1>1, <1>2, RegisterPathKeeps, QuietRegister DEF SameSteps, SameEvents

(* No event of a host call is a soft error.                                *)
LEMMA HostEventSoft ==
  ASSUME NEW wr \in WriterType, Soft(wr), NEW index \in Nat
  PROVE  Soft(HostEvent(wr, index))
<1>1. /\ "EvmEvent" \in EventKinds /\ "ink_deposit_event" \in EventNames \ SoftErrors
      /\ "Write" \in EventKinds /\ "seal_debug_message" \in EventNames \ SoftErrors
      /\ "TraceLogEvent" \in EventKinds /\ "host" \in EventNames \ SoftErrors
  BY DEF EventKinds, EventNames, SoftErrors
<1>2. CASE index = 4
  BY <1>1, <1>2, SoftOther DEF HostEvent
<1>3. CASE index = 28
  BY <1>1, <1>3, SoftOther DEF HostEvent
<1>4. CASE index \in {5, 6, 7, 9, 19, 20}
  BY <1>1, <1>4, SoftOther DEF HostEvent
<1>5. CASE index \notin {4, 28, 5, 6, 7, 9, 19, 20}
  BY <1>5 DEF HostEvent
<1>6. QED
  BY <1>2, <1>3, <1>4, <1>5

(* Neither are the other entries of a host call.                           *)
LEMMA HostCallSoft ==
  ASSUME NEW wr \in WriterType, Soft(wr), NEW index \in Nat
  PROVE  LET r == Return(HostEvent(Call(StageArgs(wr), HostFn(index), BlobPath), index))
         IN  Soft(r) /\ Soft(Event(r, "Error", "unhandled_host_function"))
<1>1. BlobPath \in Paths /\ HostFn(index) \in Fn
  BY TracerAssumption DEF HostFn, Fn
<1>2. PICK a : a = StageArgs(wr)
  OBVIOUS
<1>3. a \in WriterType /\ Soft(a)
  BY <1>2, StageArgsType, StageArgsKeeps, QuietArgs, SoftSame DEF SameSteps, SameEvents
<1>4. PICK c : c = Call(a, HostFn(index), BlobPath)
  OBVIOUS
<1>5. c \in WriterType /\ Soft(c)
  <2>1. c \in WriterType
    BY <1>1, <1>3, <1>4, CallType
  <2>2. SameSteps(a, c) /\ SameEvents(a, c)
    BY <1>1, <1>3, <1>4, CallKeeps, QuietCall
  <2>3. QED
    BY <1>3, <2>1, <2>2, SoftSame DEF SameSteps, SameEvents
<1>6. PICK h : h = HostEvent(c, index)
  OBVIOUS
<1>7. h \in WriterType /\ Soft(h)
  BY <1>5, <1>6, HostEventType, HostEventSoft
<1>8. PICK r : r = Return(h)
  OBVIOUS
<1>9. r \in WriterType /\ Soft(r)
  BY <1>7, <1>8, ReturnType, ReturnKeeps, QuietReturn, SoftSame DEF SameSteps, SameEvents
<1>10. Soft(Event(r, "Error", "unhandled_host_function"))
  BY <1>9, SoftOther DEF EventKinds, EventNames, TerminalErrors, SoftErrors
<1>11. QED
  BY <1>2, <1>4, <1>6, <1>8, <1>9, <1>10

(* Every step keeps the soft errors told.                                  *)
LEMMA SoftStep ==
  ASSUME TypeOK, [Next]_vars, Soft(w)
  PROVE  Soft(w')
<1>1. w \in WriterType
  BY DEF TypeOK
<1>2. CASE OnStep
  BY <1>2, OnStepSoft
<1>3. CASE StartTrace
  BY <1>3, StartTraceQuiet, SoftSame
<1>4. CASE RegisterSource \/ RegisterBlob
  BY <1>4, RegisterQuiet, SoftSame
<1>5. CASE ~OnStep /\ ~StartTrace /\ ~RegisterSource /\ ~RegisterBlob
  <2>1. Return(w) \in WriterType /\ Soft(Return(w))
    BY <1>1, ReturnType, ReturnKeeps, QuietReturn, SoftSame DEF SameSteps, SameEvents
  <2>2. ASSUME NEW s PROVE Soft(AtStage(w, s)) /\ Soft(AtStage(Return(w), s))
    BY <1>1, <2>1, StageKeeps, QuietStage, SoftSame DEF SameSteps, SameEvents
  <2>3. ASSUME NEW name \in TerminalErrors PROVE Soft(Return(Event(w, "Error", name)))
    <3>1. PICK e : e = Event(w, "Error", name)
      OBVIOUS
    <3>2. name \in EventNames \ SoftErrors /\ "Error" \in EventKinds
      BY DEF TerminalErrors, EventNames, SoftErrors, EventKinds
    <3>3. e \in WriterType /\ Soft(e)
      BY <1>1, <3>1, <3>2, EventType, SoftOther
    <3>4. QED
      BY <3>1, <3>3, ReturnKeeps, QuietReturn, SoftSame DEF SameSteps, SameEvents
  <2>4. QED
    BY <1>1, <1>5, <2>1, <2>2, <2>3, HostCallSoft, Shape
<1>6. QED
  BY <1>2, <1>3, <1>4, <1>5

(* In every program each soft error the recorder looks for is told once,   *)
(* at its own step.                                                        *)
THEOREM SoftErrorsDiagnosed == Spec => []SoftErrorsAreDiagnosed
<1>1. Init => SoftInv
  <2>1. SUFFICES ASSUME Init PROVE Soft(w)
    BY DEF SoftInv
  <2>2. w.events = <<>> /\ w.values = <<>>
    BY <2>1 DEF Init, NewWriter
  <2>3. \A name, step : Told(w, name, step) = {} /\ Noticeable(w, name, step) = {}
    BY <2>2 DEF Told, Noticeable
  <2>4. QED
    BY <2>3 DEF Soft
<1>2. TypeOK /\ SoftInv /\ [Next]_vars => SoftInv'
  BY SoftStep DEF SoftInv
<1>3. TypeOK /\ SoftInv => SoftErrorsAreDiagnosed
  <2>1. ASSUME TypeOK PROVE 0..Len(w.steps) \subseteq Nat
    OBVIOUS
  <2>2. QED
    BY <2>1 DEF SoftInv, Soft, SoftErrorsAreDiagnosed
<1>4. QED
  BY <1>1, <1>2, <1>3, TypeCorrect, PTL DEF Spec

(* In every program without stores of immediates, each division by zero    *)
(* and each misaligned access is told once, at its own step.               *)
THEOREM SoftErrorsCorrect ==
  ASSUME NoImmediateStores
  PROVE  Spec => []SoftErrorsAreTold
<1>1. ASSUME TypeOK, NEW name, NEW step
      PROVE  Due(w, name, step) = Noticeable(w, name, step)
  <2>1. \A k \in 1..Len(w.values) : w.values[k].pc \in PCs
    <3>1. PICK s : s = w.values
      OBVIOUS
    <3>2. s \in Seq(ValueRecord)
      <4>1. w \in WriterType
        BY <1>1 DEF TypeOK
      <4>2. QED
        BY <3>1, <4>1, WriterFields DEF ValueRecord
    <3>3. \A k \in 1..Len(s) : s[k] \in ValueRecord
      BY <3>2
    <3>4. QED
      BY <3>1, <3>3 DEF ValueRecord
  <2>2. \A k \in 1..Len(w.values) : Noticed(w.values[k]) = SoftError(w.values[k])
    BY <2>1 DEF Noticed, NoImmediateStores
  <2>3. QED
    BY <2>2 DEF Due, Noticeable
<1>2. TypeOK /\ SoftErrorsAreDiagnosed => SoftErrorsAreTold
  BY <1>1 DEF SoftErrorsAreDiagnosed, SoftErrorsAreTold
<1>3. QED
  BY <1>2, SoftErrorsDiagnosed, TypeCorrect, PTL

-----------------------------------------------------------------------------
(* The engine and the recorder keep step: what run() has just reported     *)
(* says where the guest stands and, once it has stopped, why.              *)
VmInv ==
    /\ phase \in Early \cup {"instantiate"} => interrupt = NoInterrupt
    /\ phase = "run" =>
        CASE interrupt.kind = "none" -> vm.stage \in {"fetch", "exec"} /\ vm.cause = "running"
          [] interrupt.kind = "Step" -> vm.stage = "exec" /\ vm.cause = "running"
          [] interrupt.kind = "Ecalli" -> vm.stage = "fetch" /\ vm.cause = "running"
          [] interrupt.kind = "Finished" ->
                /\ vm.stage = "halted" /\ vm.cause = "exit" /\ vm.activations = <<>>
                /\ Current.op = "jump_indirect" /\ Current.role = "return"
          [] interrupt.kind = "Trap" ->
                /\ vm.stage = "halted"
                /\ \/ vm.cause = "trap" /\ Current.op # "mem"
                   \/ vm.cause = "memory" /\ Current.op = "mem" /\ ~DynamicPaging
          [] interrupt.kind = "Segfault" ->
                vm.stage = "halted" /\ vm.cause = "memory" /\ DynamicPaging
          [] interrupt.kind = "NotEnoughGas" -> vm.stage = "halted" /\ vm.cause = "gas"
          [] OTHER -> vm.stage = "halted"

(* What a halt leaves alone.                                               *)
LEMMA HaltsFields ==
  ASSUME TypeOK, NEW kind, NEW cause, Halts(kind, cause)
  PROVE  /\ vm'.stage = "halted" /\ vm'.cause = cause /\ vm'.activations = vm.activations
         /\ Current' = Current /\ interrupt'.kind = kind
BY DEF TypeOK, VmTypeOK, Halts, Interrupt, Current

(* What going on leaves alone.                                             *)
LEMMA GoesFields ==
  ASSUME TypeOK, NEW pc, NEW activations, Goes(pc, activations)
  PROVE  /\ vm'.stage = "fetch" /\ vm'.cause = vm.cause /\ vm'.activations = activations
         /\ interrupt'.kind = "none"
BY DEF TypeOK, VmTypeOK, Goes, NoInterrupt, Interrupt

(* The engine's steps keep VmInv.                                          *)
LEMMA RunVmInv ==
  ASSUME TypeOK, VmInv, RunGuest
  PROVE  VmInv'
<1>1. /\ phase = "run" /\ phase' = "run" /\ interrupt.kind = "none"
      /\ vm.stage \in {"fetch", "exec"} /\ vm.cause = "running"
  BY DEF RunGuest, Run, VmInv, NoInterrupt, Interrupt
<1>2. CASE ReportStep
  <2>1. vm'.stage = "exec" /\ vm'.cause = "running" /\ interrupt'.kind = "Step"
    BY <1>1, <1>2 DEF ReportStep, TypeOK, VmTypeOK, Interrupt
  <2>2. QED
    BY <1>1, <2>1 DEF VmInv, Early
<1>3. CASE EngineFails
  <2>1. vm'.stage = "halted" /\ interrupt'.kind = "Error"
    BY <1>1, <1>3 DEF EngineFails, TypeOK, VmTypeOK, Interrupt
  <2>2. QED
    BY <1>1, <2>1 DEF VmInv, Early
<1>4. CASE Execute
  <2>1. CASE FallThrough \/ Jump \/ EnterSubroutine \/ LeaveSubroutine
    <3>1. PICK pc, acts : Goes(pc, acts)
      BY <2>1 DEF FallThrough, Jump, EnterSubroutine, LeaveSubroutine
    <3>2. vm'.stage = "fetch" /\ vm'.cause = "running" /\ interrupt'.kind = "none"
      BY <1>1, <3>1, GoesFields
    <3>3. QED
      BY <1>1, <3>2 DEF VmInv, Early
  <2>2. CASE LeaveProgram
    BY <1>1, <2>2, HaltsFields DEF LeaveProgram, VmInv, Early
  <2>3. CASE Fault
    <3>1. CASE Current.op = "trap" /\ Halts("Trap", "trap")
      BY <1>1, <3>1, HaltsFields DEF VmInv, Early
    <3>2. CASE Current.op = "jump_indirect" /\ Halts("Trap", "trap")
      BY <1>1, <3>2, HaltsFields DEF VmInv, Early
    <3>3. CASE OutOfBounds /\ ~DynamicPaging /\ Halts("Trap", "memory")
      BY <1>1, <3>3, HaltsFields DEF VmInv, Early, OutOfBounds
    <3>4. CASE OutOfBounds /\ DynamicPaging /\ Halts("Segfault", "memory")
      BY <1>1, <3>4, HaltsFields DEF VmInv, Early
    <3>5. QED
      BY <2>3, <3>1, <3>2, <3>3, <3>4 DEF Fault
  <2>4. CASE CallHost
    <3>1. vm'.stage = "fetch" /\ vm'.cause = "running" /\ interrupt'.kind = "Ecalli"
      BY <1>1, <2>4 DEF CallHost, TypeOK, VmTypeOK, Interrupt
    <3>2. QED
      BY <1>1, <3>1 DEF VmInv, Early
  <2>5. CASE Halts("NotEnoughGas", "gas")
    BY <1>1, <2>5, HaltsFields DEF VmInv, Early
  <2>6. QED
    BY <1>4, <2>1, <2>2, <2>3, <2>4, <2>5 DEF Execute
<1>5. QED
  BY <1>2, <1>3, <1>4 DEF RunGuest, Run

(* Every step keeps VmInv.                                                 *)
LEMMA VmInvStep ==
  ASSUME TypeOK, VmInv, [Next]_vars
  PROVE  VmInv'
<1>1. CASE RunGuest
  BY <1>1, RunVmInv
<1>2. CASE Prepare \/ Begin \/ RegisterSource \/ RegisterBlob \/ StartTrace
  BY <1>2 DEF Prepare, Begin, RegisterSource, RegisterBlob, StartTrace, Fails, VmInv, Early
<1>3. CASE Instantiate
  <2>1. interrupt' = interrupt /\ interrupt.kind = "none"
    BY <1>3 DEF Instantiate, Fails, VmInv, NoInterrupt, Interrupt
  <2>2. CASE vm' = Prepared
    <3>1. vm'.stage = "fetch" /\ vm'.cause = "running"
      BY <2>2 DEF Prepared
    <3>2. QED
      BY <1>3, <2>1, <3>1 DEF Instantiate, Fails, VmInv, Early
  <2>3. QED
    BY <1>3, <2>2 DEF Instantiate, Fails, VmInv, Early
<1>4. CASE OnStep
  <2>1. vm' = vm /\ phase' = "run" /\ interrupt'.kind = "none" /\ vm.stage = "exec" /\ vm.cause = "running"
    BY <1>4 DEF OnStep, VmInv, NoInterrupt, Interrupt
  <2>2. QED
    BY <2>1 DEF VmInv, Early
<1>5. CASE OnEcalli
  <2>1. vm' = vm /\ interrupt'.kind = "none" /\ vm.stage = "fetch" /\ vm.cause = "running"
        /\ phase' \in {"run", "finish"}
    BY <1>5 DEF OnEcalli, LeaveLoop, VmInv, NoInterrupt, Interrupt
  <2>2. QED
    BY <2>1 DEF VmInv, Early
<1>6. CASE OnFinished \/ OnTrap \/ OnSegfault \/ OnNotEnoughGas
  BY <1>6 DEF OnFinished, OnTrap, OnSegfault, OnNotEnoughGas, LeaveLoop, VmInv, Early
<1>7. CASE OnRunError \/ Finish \/ WriteMeta \/ Close
  BY <1>7 DEF OnRunError, Finish, WriteMeta, Close, Fails, VmInv, Early
<1>8. CASE UNCHANGED vars \/ Returned
  BY <1>8 DEF Returned, vars, VmInv, Current
<1>9. QED
  BY <1>1, <1>2, <1>3, <1>4, <1>5, <1>6, <1>7, <1>8 DEF Next

-----------------------------------------------------------------------------
(* The frames.                                                             *)

(* A guest that calls its subroutines directly and returns, and nothing    *)
(* else, through RA.                                                       *)
Disciplined ==
    \A pc \in PCs :
        /\ Code[pc].op # "load_imm_and_jump_indirect"
        /\ Code[pc].op = "jump_indirect" =>
              (Code[pc].base = "RA" <=> Code[pc].role = "return")

Activation == [fn : PCs, ret : PCs]

FramesOf(acts) == <<Toplevel, EntryFn>> \o [k \in 1..Len(acts) |-> FnAt(acts[k].fn)]

(* The frames, one by one.                                                 *)
LEMMA FramesShape ==
  ASSUME NEW acts \in Seq(Activation)
  PROVE  /\ FramesOf(acts) \in Seq(Fn)
         /\ Len(FramesOf(acts)) = Len(acts) + 2
         /\ FramesOf(acts)[1] = Toplevel /\ FramesOf(acts)[2] = EntryFn
         /\ \A k \in 1..Len(acts) : FramesOf(acts)[k + 2] = FnAt(acts[k].fn)
<1>1. PICK n \in Nat : n = Len(acts)
  OBVIOUS
<1>2. PICK t : t = [k \in 1..n |-> FnAt(acts[k].fn)]
  OBVIOUS
<1>3. \A k \in 1..n : acts[k] \in Activation
  BY <1>1
<1>4. /\ Toplevel \in Fn /\ EntryFn \in Fn
      /\ \A k \in 1..n : FnAt(acts[k].fn) \in Fn
  BY <1>3, CodeAssumption DEF Toplevel, EntryFn, FnAt, Fn, Activation
<1>5. t \in Seq(Fn) /\ Len(t) = n
  BY <1>1, <1>2, <1>4
<1>6. PICK head : head = <<Toplevel, EntryFn>>
  OBVIOUS
<1>7. head \in Seq(Fn) /\ Len(head) = 2 /\ head[1] = Toplevel /\ head[2] = EntryFn
  BY <1>4, <1>6
<1>8. PICK u : u = head \o t
  OBVIOUS
<1>9. u = FramesOf(acts)
  BY <1>1, <1>2, <1>6, <1>8 DEF FramesOf
<1>10. /\ u \in Seq(Fn) /\ Len(u) = 2 + n
       /\ \A k \in 1..(2 + n) : u[k] = IF k <= 2 THEN head[k] ELSE t[k - 2]
  <2>1. /\ head \o t \in Seq(Fn) /\ Len(head \o t) = Len(head) + Len(t)
        /\ \A k \in 1..(Len(head) + Len(t)) :
              (head \o t)[k] = IF k <= Len(head) THEN head[k] ELSE t[k - Len(head)]
    BY <1>5, <1>7, ConcatProperties
  <2>2. QED
    BY <1>5, <1>7, <1>8, <2>1
<1>11. \A k \in 1..n : u[k + 2] = t[k] /\ t[k] = FnAt(acts[k].fn)
  BY <1>2, <1>10
<1>12. u[1] = Toplevel /\ u[2] = EntryFn
  BY <1>7, <1>10
<1>13. QED
  BY <1>1, <1>9, <1>10, <1>11, <1>12

(* A frame more for an activation more.                                    *)
LEMMA FramesMore ==
  ASSUME NEW acts \in Seq(Activation), NEW a \in Activation
  PROVE  FramesOf(Append(acts, a)) = Append(FramesOf(acts), FnAt(a.fn))
<1>1. PICK n \in Nat : n = Len(acts)
  OBVIOUS
<1>2. PICK more : more = Append(acts, a)
  OBVIOUS
<1>3. /\ more \in Seq(Activation) /\ Len(more) = n + 1
      /\ \A k \in 1..n : more[k] = acts[k]
      /\ more[n + 1] = a
  BY <1>1, <1>2, AppendProperties
<1>4. FnAt(a.fn) \in Fn
  BY CodeAssumption DEF FnAt, Fn, Activation
<1>5. PICK f : f = FramesOf(acts)
  OBVIOUS
<1>6. /\ f \in Seq(Fn) /\ Len(f) = n + 2 /\ f[1] = Toplevel /\ f[2] = EntryFn
      /\ \A k \in 1..n : f[k + 2] = FnAt(acts[k].fn)
  BY <1>1, <1>5, FramesShape
<1>7. PICK g : g = FramesOf(more)
  OBVIOUS
<1>8. /\ g \in Seq(Fn) /\ Len(g) = n + 3 /\ g[1] = Toplevel /\ g[2] = EntryFn
      /\ \A k \in 1..(n + 1) : g[k + 2] = FnAt(more[k].fn)
  <2>1. /\ g \in Seq(Fn) /\ Len(g) = Len(more) + 2 /\ g[1] = Toplevel /\ g[2] = EntryFn
        /\ \A k \in 1..Len(more) : g[k + 2] = FnAt(more[k].fn)
    BY <1>3, <1>7, FramesShape
  <2>2. Len(more) + 2 = n + 3
    BY <1>3
  <2>3. QED
    BY <1>3, <2>1, <2>2
<1>9. PICK h : h = Append(f, FnAt(a.fn))
  OBVIOUS
<1>10. /\ h \in Seq(Fn) /\ Len(h) = n + 3 /\ h[n + 3] = FnAt(a.fn)
       /\ \A k \in 1..(n + 2) : h[k] = f[k]
  BY <1>4, <1>6, <1>9, AppendProperties
<1>11. ASSUME NEW k \in 1..(n + 3) PROVE g[k] = h[k]
  <2>1. CASE k \in {1, 2}
    BY <1>6, <1>8, <1>10, <2>1
  <2>2. CASE k = n + 3
    <3>1. g[(n + 1) + 2] = FnAt(more[n + 1].fn)
      BY <1>8
    <3>2. QED
      BY <1>3, <1>10, <2>2, <3>1
  <2>3. CASE k \in 3..(n + 2)
    <3>1. k - 2 \in 1..n
      BY <2>3
    <3>2. g[(k - 2) + 2] = FnAt(more[k - 2].fn) /\ f[(k - 2) + 2] = FnAt(acts[k - 2].fn)
      BY <1>6, <1>8, <3>1
    <3>3. more[k - 2] = acts[k - 2]
      BY <1>3, <3>1
    <3>4. h[k] = f[k]
      BY <1>10, <2>3
    <3>5. (k - 2) + 2 = k
      BY <2>3
    <3>6. QED
      BY <3>2, <3>3, <3>4, <3>5
  <2>4. QED
    BY <2>1, <2>2, <2>3
<1>12. g = h
  BY <1>8, <1>10, <1>11, SeqEqual
<1>13. QED
  BY <1>2, <1>5, <1>7, <1>9, <1>12

(* Two frames, one after the other.                                        *)
LEMMA TwoElements ==
  ASSUME NEW S, NEW a \in S, NEW b \in S
  PROVE  Append(<<a>>, b) = <<a, b>>
<1>1. PICK s : s = <<a>>
  OBVIOUS
<1>2. s \in Seq(S) /\ Len(s) = 1 /\ s[1] = a
  BY <1>1
<1>3. PICK t : t = Append(s, b)
  OBVIOUS
<1>4. t \in Seq(S) /\ Len(t) = 2 /\ t[1] = a /\ t[2] = b
  <2>1. /\ Append(s, b) \in Seq(S) /\ Len(Append(s, b)) = Len(s) + 1
        /\ \A i \in 1..Len(s) : Append(s, b)[i] = s[i]
        /\ Append(s, b)[Len(s) + 1] = b
    <3>1. s \in Seq(S)
      BY <1>2
    <3>2. QED
      BY <3>1, AppendProperties
  <2>2. QED
    BY <1>2, <1>3, <2>1
<1>5. PICK u : u = <<a, b>>
  OBVIOUS
<1>6. u \in Seq(S) /\ Len(u) = 2 /\ u[1] = a /\ u[2] = b
  BY <1>5
<1>7. t = u
  BY <1>4, <1>6, SeqEqual
<1>8. QED
  BY <1>1, <1>3, <1>5, <1>7

(* The front of a sequence and an element is the sequence.                 *)
LEMMA Shorten ==
  ASSUME NEW S, NEW s \in Seq(S), NEW e \in S
  PROVE  SubSeq(Append(s, e), 1, Len(Append(s, e)) - 1) = s
<1>1. PICK n \in Nat : n = Len(s)
  OBVIOUS
<1>2. PICK t : t = Append(s, e)
  OBVIOUS
<1>3. Len(t) = n + 1 /\ \A k \in 1..n : t[k] = s[k] /\ s[k] \in S
  BY <1>1, <1>2, AppendProperties, ElementOfSeq
<1>4. PICK u : u = SubSeq(t, 1, n)
  OBVIOUS
<1>5. u \in Seq(S) /\ Len(u) = n /\ \A k \in 1..n : u[k] = t[k]
  BY <1>3, <1>4, SubSeqProperties
<1>6. u = s
  BY <1>1, <1>3, <1>5, SeqEqual
<1>7. QED
  BY <1>2, <1>3, <1>4, <1>6

(* A frame less for an activation less.                                    *)
LEMMA FramesLess ==
  ASSUME NEW acts \in Seq(Activation), acts # <<>>
  PROVE  /\ FramesOf(SubSeq(acts, 1, Len(acts) - 1)) =
              SubSeq(FramesOf(acts), 1, Len(FramesOf(acts)) - 1)
         /\ SubSeq(acts, 1, Len(acts) - 1) \in Seq(Activation)
<1>1. PICK rest \in Seq(Activation), a \in Activation : acts = Append(rest, a)
  BY SequenceEmptyOrAppend
<1>2. SubSeq(acts, 1, Len(acts) - 1) = rest
  BY <1>1, Shorten
<1>3. FramesOf(acts) = Append(FramesOf(rest), FnAt(a.fn))
  BY <1>1, FramesMore
<1>4. FramesOf(rest) \in Seq(Fn) /\ FnAt(a.fn) \in Fn
  BY FramesShape, CodeAssumption DEF FnAt, Fn, Activation
<1>5. SubSeq(FramesOf(acts), 1, Len(FramesOf(acts)) - 1) = FramesOf(rest)
  <2>1. PICK f \in Seq(Fn) : f = FramesOf(rest)
    BY <1>4
  <2>2. PICK g : g = FramesOf(acts)
    OBVIOUS
  <2>3. g = Append(f, FnAt(a.fn))
    BY <1>3, <2>1, <2>2
  <2>4. SubSeq(g, 1, Len(g) - 1) = f
    BY <1>4, <2>3, Shorten
  <2>5. QED
    BY <2>1, <2>2, <2>4
<1>6. QED
  BY <1>2, <1>5

-----------------------------------------------------------------------------
(* The writer's calls and the open frames.                                 *)

SameFrames(a, b) == b.frames = a.frames /\ b.underflow = a.underflow

(* A Return takes the innermost frame.                                     *)
LEMMA FramesReturn ==
  ASSUME NEW wr \in WriterType
  PROVE  /\ Return(wr).frames =
              IF wr.frames = <<>> THEN <<>> ELSE SubSeq(wr.frames, 1, Len(wr.frames) - 1)
         /\ Return(wr).underflow = (wr.underflow \/ wr.frames = <<>>)
<1>1. wr.underflow \in BOOLEAN
  BY DEF WriterType
<1>2. CASE wr.frames = <<>>
  BY <1>1, <1>2 DEF Return, WriterType
<1>3. CASE wr.frames # <<>>
  BY <1>1, <1>3 DEF Return, WriterType
<1>4. QED
  BY <1>2, <1>3

(* Stages, arguments, snapshots and events touch no frame.                 *)
LEMMA FramesQuiet ==
  ASSUME NEW wr \in WriterType, NEW s, NEW pc, NEW operand, NEW kind, NEW name
  PROVE  /\ SameFrames(wr, AtStage(wr, s)) /\ SameFrames(wr, StageArgs(wr))
         /\ SameFrames(wr, Values(wr, pc, operand)) /\ SameFrames(wr, Event(wr, kind, name))
BY DEF SameFrames, AtStage, StageArgs, Values, Event, WriterType

(* Nor does a registration.                                                *)
LEMMA FramesRegister ==
  ASSUME NEW wr \in WriterType, NEW known, NEW p \in Paths, NEW accepted \in BOOLEAN
  PROVE  SameFrames(wr, RegisterPath(wr, known, p, accepted))
BY DEF SameFrames, RegisterPath, Offer, Refuse, WriterType

(* Nor does a first mention.                                               *)
LEMMA FramesMention ==
  ASSUME NEW wr \in WriterType, NEW p \in Paths
  PROVE  SameFrames(wr, Mention(wr, p))
BY DEF SameFrames, Mention, WriterType

(* A call opens a frame.                                                   *)
LEMMA FramesCall ==
  ASSUME NEW wr \in WriterType, NEW fn, NEW p \in Paths
  PROVE  Call(wr, fn, p).frames = Append(wr.frames, fn) /\ Call(wr, fn, p).underflow = wr.underflow
<1>1. PICK m : m = Mention(wr, p)
  OBVIOUS
<1>2. m \in WriterType /\ m.frames = wr.frames /\ m.underflow = wr.underflow
  BY <1>1, MentionType, FramesMention DEF SameFrames
<1>3. Call(wr, fn, p).frames = Append(m.frames, fn) /\ Call(wr, fn, p).underflow = m.underflow
  BY <1>1, <1>2 DEF Call, WriterType
<1>4. QED
  BY <1>2, <1>3

(* A step touches none.                                                    *)
LEMMA FramesStep ==
  ASSUME NEW wr \in WriterType, NEW loc \in Location
  PROVE  SameFrames(wr, StepAt(wr, loc))
<1>1. PICK m : m = Mention(wr, loc.path)
  OBVIOUS
<1>2. m \in WriterType /\ m.frames = wr.frames /\ m.underflow = wr.underflow
  BY <1>1, MentionType, FramesMention DEF SameFrames, Location
<1>3. StepAt(wr, loc).frames = m.frames /\ StepAt(wr, loc).underflow = m.underflow
  BY <1>1, <1>2 DEF StepAt, WriterType
<1>4. QED
  BY <1>2, <1>3 DEF SameFrames

(* Nor does the event of a host call.                                      *)
LEMMA FramesHostEvent ==
  ASSUME NEW wr \in WriterType, NEW index
  PROVE  SameFrames(wr, HostEvent(wr, index))
<1>1. SameFrames(wr, wr)
  BY DEF SameFrames
<1>2. CASE index = 4
  BY <1>2, FramesQuiet DEF HostEvent
<1>3. CASE index = 28
  BY <1>3, FramesQuiet DEF HostEvent
<1>4. CASE index \in {5, 6, 7, 9, 19, 20}
  BY <1>4, FramesQuiet DEF HostEvent
<1>5. CASE index \notin {4, 28, 5, 6, 7, 9, 19, 20}
  BY <1>1, <1>5 DEF HostEvent
<1>6. QED
  BY <1>2, <1>3, <1>4, <1>5

(* A host call leaves no frame behind.                                     *)
LEMMA FramesHostCall ==
  ASSUME NEW wr \in WriterType, NEW index \in Nat
  PROVE  LET r == Return(HostEvent(Call(StageArgs(wr), HostFn(index), BlobPath), index))
         IN  SameFrames(wr, r) /\ SameFrames(wr, Event(r, "Error", "unhandled_host_function"))
<1>1. BlobPath \in Paths /\ HostFn(index) \in Fn /\ wr.frames \in Seq(Fn)
  BY TracerAssumption, WriterFields DEF HostFn, Fn
<1>2. PICK a : a = StageArgs(wr)
  OBVIOUS
<1>3. a \in WriterType /\ a.frames = wr.frames /\ a.underflow = wr.underflow
  BY <1>2, StageArgsType, FramesQuiet DEF SameFrames
<1>4. PICK c : c = Call(a, HostFn(index), BlobPath)
  OBVIOUS
<1>5. c \in WriterType
  BY <1>1, <1>3, <1>4, CallType
<1>6. c.frames = Append(wr.frames, HostFn(index)) /\ c.underflow = wr.underflow
  BY <1>1, <1>3, <1>4, FramesCall
<1>7. PICK h : h = HostEvent(c, index)
  OBVIOUS
<1>8. h \in WriterType /\ h.frames = c.frames /\ h.underflow = wr.underflow
  BY <1>5, <1>6, <1>7, HostEventType, FramesHostEvent DEF SameFrames
<1>9. h.frames # <<>> /\ SubSeq(h.frames, 1, Len(h.frames) - 1) = wr.frames
  BY <1>1, <1>6, <1>8, Shorten, AppendProperties
<1>10. PICK r : r = Return(h)
  OBVIOUS
<1>11. r \in WriterType /\ r.frames = wr.frames /\ r.underflow = wr.underflow
  <2>1. wr.underflow \in BOOLEAN
    BY DEF WriterType
  <2>2. QED
    BY <1>8, <1>9, <1>10, <2>1, ReturnType, FramesReturn
<1>12. SameFrames(r, Event(r, "Error", "unhandled_host_function"))
  BY <1>11, FramesQuiet
<1>13. QED
  BY <1>2, <1>4, <1>7, <1>10, <1>11, <1>12 DEF SameFrames

-----------------------------------------------------------------------------
(* The frames of the trace through a whole recording.                      *)
FrameInv ==
    /\ phase \in Early => w.frames = <<>>
    /\ phase = "instantiate" => w.frames = FramesOf(<<>>)
    /\ FramesMirrorGuest
    /\ phase = "finish" => w.frames = EndFrames
    /\ phase \notin {"meta", "close", "ok", "err"} => w.underflow = FALSE
    /\ phase \in {"meta", "close", "ok"} =>
          /\ w.frames = SubSeq(EndFrames, 1, Len(EndFrames) - 1)
          /\ w.underflow = (EndFrames = <<>>)

(* The frames of a guest that has called nothing.                          *)
LEMMA NoActivations == FramesOf(<<>>) = <<Toplevel, EntryFn>>
<1>1. PICK none : none = [k \in 1..Len(<<>>) |-> FnAt(<<>>[k].fn)]
  OBVIOUS
<1>2. none = <<>>
  BY <1>1
<1>3. Toplevel \in Fn /\ EntryFn \in Fn
  BY DEF Toplevel, EntryFn, Fn
<1>4. <<Toplevel, EntryFn>> \in Seq(Fn)
  BY <1>3
<1>5. <<Toplevel, EntryFn>> \o <<>> = <<Toplevel, EntryFn>>
  BY <1>4, ConcatEmptySeq
<1>6. QED
  BY <1>1, <1>2, <1>5 DEF FramesOf

(* The callee of a direct call.                                            *)
LEMMA Callee ==
  ASSUME NEW pc \in PCs, Code[pc].op = "load_imm_and_jump"
  PROVE  \E t \in PCs : Code[pc].to = {t} /\ (CHOOSE u \in Code[pc].to : TRUE) = t
BY CodeAssumption

(* The guest's control flow is what was noted of its instruction.          *)
LEMMA RunFrames ==
  ASSUME TypeOK, Disciplined, VmInv, FrameInv, RunGuest
  PROVE  FrameInv'
<1>1. /\ phase = "run" /\ phase' = "run" /\ w' = w /\ interrupt.kind = "none"
      /\ vm.stage \in {"fetch", "exec"}
      /\ vm.pc \in PCs /\ vm.activations \in Seq(Activation)
  BY DEF RunGuest, Run, VmInv, NoInterrupt, Interrupt, TypeOK, VmTypeOK, Activation
<1>2. GuestFrames = FramesOf(vm.activations) /\ GuestFrames' = FramesOf(vm'.activations)
  BY DEF GuestFrames, FramesOf
<1>3. GuestFrames \in Seq(Fn)
  BY <1>1, <1>2, FramesShape
<1>4. SUFFICES FramesMirrorGuest'
  BY <1>1 DEF FrameInv, Early
<1>5. w.frames = IF Noted THEN NotedFrames ELSE GuestFrames
  BY <1>1 DEF FrameInv, FramesMirrorGuest
<1>6. ASSUME vm'.stage = "fetch", w.frames = GuestFrames'
      PROVE  FramesMirrorGuest'
  BY <1>1, <1>6 DEF FramesMirrorGuest, Noted
<1>7. CASE ReportStep
  <2>1. vm.stage = "fetch" /\ interrupt'.kind = "Step" /\ vm'.activations = vm.activations
    BY <1>7 DEF ReportStep, TypeOK, VmTypeOK, Interrupt
  <2>2. w.frames = GuestFrames
    BY <1>5, <2>1 DEF Noted
  <2>3. QED
    BY <1>1, <1>2, <2>1, <2>2 DEF FramesMirrorGuest, Noted
<1>8. CASE EngineFails
  <2>1. interrupt'.kind = "Error"
    BY <1>8 DEF EngineFails, Interrupt
  <2>2. QED
    BY <2>1 DEF FramesMirrorGuest
<1>9. CASE Execute
  <2>1. w.frames = NotedFrames /\ Current = Code[vm.pc]
    BY <1>1, <1>5, <1>9 DEF Execute, Noted, Current
  <2>2. ASSUME ~(Current.op = "jump_indirect" /\ Current.base = "RA"),
               Current.op # "load_imm_and_jump"
        PROVE  w.frames = GuestFrames
    BY <2>1, <2>2 DEF NotedFrames
  <2>3. CASE FallThrough
    <3>1. vm'.stage = "fetch" /\ vm'.activations = vm.activations
      BY <2>3, GoesFields DEF FallThrough
    <3>2. w.frames = GuestFrames
      BY <2>2, <2>3 DEF FallThrough
    <3>3. QED
      BY <1>2, <1>6, <3>1, <3>2
  <2>4. CASE Jump
    <3>1. vm'.stage = "fetch" /\ vm'.activations = vm.activations
      BY <2>4, GoesFields DEF Jump
    <3>2. w.frames = GuestFrames
      BY <1>1, <2>1, <2>2, <2>4 DEF Jump, Disciplined
    <3>3. QED
      BY <1>2, <1>6, <3>1, <3>2
  <2>5. CASE EnterSubroutine
    <3>1. Current.op = "load_imm_and_jump"
      BY <1>1, <2>1, <2>5 DEF EnterSubroutine, Calling, Disciplined
    <3>2. PICK t \in PCs : Current.to = {t} /\ (CHOOSE u \in Current.to : TRUE) = t
      BY <1>1, <2>1, <3>1, Callee
    <3>3. PICK a : a = [fn |-> t, ret |-> vm.pc + 1]
      OBVIOUS
    <3>4. Goes(t, Append(vm.activations, a))
      BY <2>5, <3>2, <3>3 DEF EnterSubroutine
    <3>5. vm'.stage = "fetch" /\ vm'.activations = Append(vm.activations, a)
      BY <3>4, GoesFields
    <3>6. a \in Activation /\ a.fn = t
      BY <1>1, <2>1, <3>1, <3>3, CodeAssumption DEF Activation, FallsThrough, Calling
    <3>7. GuestFrames' = Append(GuestFrames, FnAt(t))
      BY <1>1, <1>2, <3>5, <3>6, FramesMore
    <3>8. FnAt(t) \in Fn
      BY CodeAssumption DEF FnAt, Fn
    <3>9. w.frames = GuestFrames \o <<FnAt(t)>>
      BY <2>1, <3>1, <3>2 DEF NotedFrames
    <3>10. w.frames = GuestFrames'
      BY <1>3, <3>7, <3>8, <3>9, AppendIsConcat
    <3>11. QED
      BY <1>6, <3>5, <3>10
  <2>6. CASE LeaveSubroutine
    <3>1. vm.activations # <<>>
      BY <2>6 DEF LeaveSubroutine
    <3>2. vm'.stage = "fetch"
          /\ vm'.activations = SubSeq(vm.activations, 1, Len(vm.activations) - 1)
      BY <2>6, GoesFields DEF LeaveSubroutine
    <3>3. Current.op = "jump_indirect" /\ Current.base = "RA"
      BY <1>1, <2>1, <2>6 DEF LeaveSubroutine, Disciplined
    <3>4. w.frames = SubSeq(GuestFrames, 1, Len(GuestFrames) - 1)
      BY <2>1, <3>3 DEF NotedFrames
    <3>5. w.frames = GuestFrames'
      BY <1>1, <1>2, <3>1, <3>2, <3>4, FramesLess
    <3>6. QED
      BY <1>6, <3>2, <3>5
  <2>7. ASSUME NEW kind \in {"Finished", "Trap", "Segfault", "NotEnoughGas"}, NEW cause,
               Halts(kind, cause)
        PROVE  FramesMirrorGuest'
    <3>1. /\ vm'.stage = "halted" /\ vm'.activations = vm.activations
          /\ Current' = Current /\ interrupt'.kind = kind
      BY <2>7, HaltsFields
    <3>2. Noted' /\ GuestFrames' = GuestFrames
      BY <1>2, <3>1 DEF Noted
    <3>3. NotedFrames' = NotedFrames
      BY <3>1, <3>2 DEF NotedFrames
    <3>4. QED
      BY <1>1, <2>1, <3>2, <3>3 DEF FramesMirrorGuest
  <2>8. CASE CallHost
    <3>1. vm'.stage = "fetch" /\ vm'.activations = vm.activations
      BY <2>8 DEF CallHost, TypeOK, VmTypeOK
    <3>2. w.frames = GuestFrames
      BY <2>2, <2>8 DEF CallHost
    <3>3. QED
      BY <1>2, <1>6, <3>1, <3>2
  <2>9. QED
    BY <1>9, <2>3, <2>4, <2>5, <2>6, <2>7, <2>8 DEF Execute, LeaveProgram, Fault
<1>10. QED
  BY <1>7, <1>8, <1>9 DEF RunGuest, Run

(* What OnStep leaves: one frame more, one less, or the same.              *)
LEMMA OnStepFrames ==
  ASSUME TypeOK, OnStep, w.frames = GuestFrames
  PROVE  w'.frames = NotedFrames /\ w'.underflow = w.underflow
<1>1. /\ vm.pc \in PCs /\ vm.operand \in Nat /\ w \in WriterType
      /\ LocationOf(vm.pc) \in Location /\ Current = Code[vm.pc]
      /\ vm.activations \in Seq(Activation)
  BY LocationOfType DEF TypeOK, VmTypeOK, Current, Activation
<1>2. PICK accepted \in BOOLEAN :
        w' = NoteInstruction(Values(NoteStep(w, LocationOf(vm.pc), accepted), vm.pc, vm.operand),
                             Current, vm.operand)
  BY DEF OnStep
<1>3. PICK here \in Location : here = LocationOf(vm.pc)
  BY <1>1
<1>4. PICK s : s = NoteStep(w, here, accepted)
  OBVIOUS
<1>5. s \in WriterType /\ s.frames = w.frames /\ s.underflow = w.underflow
  <2>1. PICK r : r = RegisterPath(w, registered, here.path, accepted)
    OBVIOUS
  <2>2. here.path \in Paths
    BY DEF Location
  <2>3. r \in WriterType /\ r.frames = w.frames /\ r.underflow = w.underflow
    BY <1>1, <2>1, <2>2, RegisterPathType, FramesRegister DEF SameFrames
  <2>4. /\ StepAt(r, here) \in WriterType /\ StepAt(r, here).frames = r.frames
        /\ StepAt(r, here).underflow = r.underflow
    BY <2>3, StepAtType, FramesStep DEF SameFrames
  <2>5. QED
    BY <1>1, <1>4, <2>1, <2>3, <2>4 DEF NoteStep
<1>6. PICK v : v = Values(s, vm.pc, vm.operand)
  OBVIOUS
<1>7. v \in WriterType
  BY <1>1, <1>5, <1>6, ValuesType
<1>8. v.frames = GuestFrames /\ v.underflow = w.underflow /\ w.underflow \in BOOLEAN
  <2>1. SameFrames(s, v)
    BY <1>5, <1>6, FramesQuiet
  <2>2. w.underflow \in BOOLEAN
    BY <1>1 DEF WriterType
  <2>3. QED
    BY <1>5, <2>1, <2>2 DEF SameFrames
<1>9. GuestFrames \in Seq(Fn) /\ Len(GuestFrames) >= 2
  <2>1. GuestFrames = FramesOf(vm.activations)
    BY DEF GuestFrames, FramesOf
  <2>2. Len(vm.activations) \in Nat
    BY <1>1
  <2>3. QED
    BY <1>1, <2>1, <2>2, FramesShape
<1>10. PICK instr : instr = Code[vm.pc]
  OBVIOUS
<1>11. w' = NoteInstruction(v, instr, vm.operand) /\ Current = instr
  BY <1>1, <1>2, <1>3, <1>4, <1>6, <1>10
<1>12. CASE instr.op = "load_imm_and_jump"
  <2>1. PICK t \in PCs : (CHOOSE u \in instr.to : TRUE) = t
    BY <1>1, <1>10, <1>12, Callee
  <2>2. w' = Call(v, FnAt(t), BlobPath)
    BY <1>11, <1>12, <2>1 DEF NoteInstruction, Listed
  <2>3. w'.frames = Append(GuestFrames, FnAt(t)) /\ w'.underflow = w.underflow
    BY <1>7, <1>8, <2>2, FramesCall, TracerAssumption
  <2>4. FnAt(t) \in Fn
    BY CodeAssumption DEF FnAt, Fn
  <2>5. NotedFrames = GuestFrames \o <<FnAt(t)>>
    BY <1>11, <1>12, <2>1 DEF NotedFrames
  <2>6. QED
    BY <1>9, <2>3, <2>4, <2>5, AppendIsConcat
<1>13. CASE instr.op = "jump_indirect" /\ instr.base = "RA"
  <2>1. w' = Return(v)
    BY <1>11, <1>13 DEF NoteInstruction, Listed
  <2>2. GuestFrames # <<>>
    BY <1>9
  <2>3. /\ w'.frames = SubSeq(GuestFrames, 1, Len(GuestFrames) - 1)
        /\ w'.underflow = w.underflow
    BY <1>7, <1>8, <2>1, <2>2, FramesReturn
  <2>4. QED
    BY <1>11, <1>13, <2>3 DEF NotedFrames
<1>14. CASE /\ instr.op # "load_imm_and_jump"
            /\ ~(instr.op = "jump_indirect" /\ instr.base = "RA")
  <2>1. w' = v \/ \E name : w' = Event(v, "Error", name)
    BY <1>11, <1>14 DEF NoteInstruction, NoteDivision, NoteMisalignment, Listed
  <2>2. w'.frames = GuestFrames /\ w'.underflow = w.underflow
    BY <1>7, <1>8, <2>1, FramesQuiet DEF SameFrames
  <2>3. QED
    BY <1>11, <1>14, <2>2 DEF NotedFrames
<1>15. QED
  BY <1>12, <1>13, <1>14

(* The trace begins with the frames of such a guest.                       *)
LEMMA StartTraceFrames ==
  ASSUME TypeOK, StartTrace, w.frames = <<>>
  PROVE  w'.frames = FramesOf(<<>>) /\ w'.underflow = w.underflow
<1>1. PICK loc \in Location : loc = At(BlobPath, 1, 0)
  BY TracerAssumption DEF At, Location
<1>2. w \in WriterType /\ loc.path = BlobPath /\ BlobPath \in Paths
  BY <1>1, TracerAssumption DEF TypeOK, At
<1>3. Toplevel \in Fn /\ EntryFn \in Fn
  BY DEF Toplevel, EntryFn, Fn
<1>4. PICK c : c = Call(w, Toplevel, BlobPath)
  OBVIOUS
<1>5. c \in WriterType /\ c.frames = Append(<<>>, Toplevel) /\ c.underflow = w.underflow
  BY <1>2, <1>3, <1>4, CallType, FramesCall
<1>6. PICK s : s = StepAt(c, loc)
  OBVIOUS
<1>7. s \in WriterType /\ s.frames = Append(<<>>, Toplevel) /\ s.underflow = w.underflow
  BY <1>5, <1>6, StepAtType, FramesStep DEF SameFrames
<1>8. w' = Call(s, EntryFn, BlobPath)
  BY <1>1, <1>2, <1>4, <1>6 DEF StartTrace, Start
<1>9. w'.frames = Append(Append(<<>>, Toplevel), EntryFn) /\ w'.underflow = w.underflow
  BY <1>2, <1>7, <1>8, FramesCall
<1>10. Append(Append(<<>>, Toplevel), EntryFn) = <<Toplevel, EntryFn>>
  <2>1. Append(<<>>, Toplevel) = <<Toplevel>>
    BY <1>3
  <2>2. QED
    BY <1>3, <2>1, TwoElements
<1>11. QED
  BY <1>9, <1>10, NoActivations

(* A normal end closes the entry point's frame and <toplevel>.             *)
LEMMA FinishedFrames ==
  ASSUME TypeOK, Disciplined, VmInv, FrameInv, OnFinished
  PROVE  w'.frames = <<>> /\ w'.underflow = FALSE
<1>1. /\ phase = "run" /\ w.underflow = FALSE /\ vm.stage = "halted" /\ vm.activations = <<>>
      /\ interrupt.kind = "Finished" /\ w' = Return(w) /\ w \in WriterType
      /\ Current.op = "jump_indirect" /\ Current.role = "return" /\ vm.pc \in PCs
  BY DEF OnFinished, LeaveLoop, VmInv, FrameInv, TypeOK, VmTypeOK
<1>2. Current.base = "RA"
  BY <1>1 DEF Disciplined, Current
<1>3. GuestFrames = <<Toplevel, EntryFn>>
  BY <1>1, NoActivations DEF GuestFrames, FramesOf
<1>4. w.frames = SubSeq(GuestFrames, 1, Len(GuestFrames) - 1)
  BY <1>1, <1>2 DEF FrameInv, FramesMirrorGuest, Noted, NotedFrames
<1>5. Toplevel \in Fn /\ EntryFn \in Fn
  BY DEF Toplevel, EntryFn, Fn
<1>6. PICK top \in Seq(Fn) : top = <<Toplevel>> /\ top = Append(<<>>, Toplevel)
  <2>1. <<Toplevel>> = Append(<<>>, Toplevel)
    BY <1>5
  <2>2. <<Toplevel>> \in Seq(Fn)
    BY <1>5
  <2>3. QED
    BY <2>1, <2>2
<1>7. GuestFrames = Append(top, EntryFn)
  BY <1>3, <1>5, <1>6, TwoElements
<1>8. w.frames = top
  BY <1>4, <1>5, <1>6, <1>7, Shorten
<1>9. top # <<>> /\ SubSeq(top, 1, Len(top) - 1) = <<>>
  <2>1. <<>> \in Seq(Fn)
    OBVIOUS
  <2>2. SubSeq(Append(<<>>, Toplevel), 1, Len(Append(<<>>, Toplevel)) - 1) = <<>>
    BY <1>5, <2>1, Shorten
  <2>3. top # <<>>
    BY <1>6
  <2>4. QED
    BY <1>6, <2>2, <2>3
<1>10. QED
  BY <1>1, <1>8, <1>9, FramesReturn

(* What was noted of an instruction leaves a frame at least.               *)
LEMMA SomeFrameNoted ==
  ASSUME TypeOK
  PROVE  NotedFrames # <<>>
<1>1. vm.activations \in Seq(Activation) /\ vm.pc \in PCs /\ Current = Code[vm.pc]
  BY DEF TypeOK, VmTypeOK, Activation, Current
<1>2. PICK g : g = GuestFrames
  OBVIOUS
<1>3. g \in Seq(Fn) /\ Len(g) >= 2
  <2>1. g = FramesOf(vm.activations)
    BY <1>2 DEF GuestFrames, FramesOf
  <2>2. Len(vm.activations) \in Nat
    BY <1>1
  <2>3. QED
    BY <1>1, <2>1, <2>2, FramesShape
<1>4. CASE Current.op = "load_imm_and_jump"
  <2>1. PICK t \in PCs : (CHOOSE u \in Current.to : TRUE) = t
    BY <1>1, <1>4, Callee
  <2>2. FnAt(t) \in Fn
    BY CodeAssumption DEF FnAt, Fn
  <2>3. NotedFrames = g \o <<FnAt(t)>>
    BY <1>2, <1>4, <2>1 DEF NotedFrames
  <2>4. NotedFrames = Append(g, FnAt(t))
    BY <1>3, <2>2, <2>3, AppendIsConcat
  <2>5. QED
    BY <1>3, <2>2, <2>4, AppendProperties
<1>5. CASE Current.op = "jump_indirect" /\ Current.base = "RA"
  <2>1. NotedFrames = SubSeq(g, 1, Len(g) - 1)
    BY <1>2, <1>5 DEF NotedFrames
  <2>2. Len(NotedFrames) >= 1
    BY <1>3, <2>1
  <2>3. QED
    BY <2>2
<1>6. CASE /\ Current.op # "load_imm_and_jump"
           /\ ~(Current.op = "jump_indirect" /\ Current.base = "RA")
  BY <1>2, <1>3, <1>6 DEF NotedFrames
<1>7. QED
  BY <1>4, <1>5, <1>6

(* An arm that tells a terminal error closes the innermost frame.          *)
LEMMA ErrorFrames ==
  ASSUME TypeOK, VmInv, FrameInv, OnTrap \/ OnSegfault \/ OnNotEnoughGas
  PROVE  w'.frames = EndFrames' /\ w'.underflow = FALSE /\ phase' = "finish"
<1>1. /\ phase = "run" /\ phase' = "finish" /\ vm' = vm /\ w \in WriterType
      /\ vm.stage = "halted" /\ vm.cause \in {"trap", "memory", "gas"}
      /\ interrupt.kind \in {"Trap", "Segfault", "NotEnoughGas"}
  BY DEF OnTrap, OnSegfault, OnNotEnoughGas, LeaveLoop, VmInv, TypeOK
<1>2. w.frames = NotedFrames /\ w.underflow = FALSE
  BY <1>1 DEF FrameInv, FramesMirrorGuest, Noted
<1>3. PICK name \in TerminalErrors : w' = Return(Event(w, "Error", name))
  BY DEF OnTrap, OnSegfault, OnNotEnoughGas, LeaveLoop, TrapName, TerminalErrors
<1>4. PICK e : e = Event(w, "Error", name)
  OBVIOUS
<1>5. e \in WriterType
  BY <1>1, <1>4, EventType DEF EventKinds, EventNames
<1>6. e.frames = NotedFrames /\ e.underflow = FALSE
  BY <1>1, <1>2, <1>4, FramesQuiet DEF SameFrames
<1>7. w'.frames = SubSeq(NotedFrames, 1, Len(NotedFrames) - 1) /\ w'.underflow = FALSE
  BY <1>3, <1>4, <1>5, <1>6, SomeFrameNoted, FramesReturn
<1>8. EndFrames = SubSeq(NotedFrames, 1, Len(NotedFrames) - 1)
  BY <1>1 DEF EndFrames
<1>9. EndFrames' = EndFrames
  BY <1>1 DEF EndFrames, NotedFrames, GuestFrames, Current
<1>10. QED
  BY <1>1, <1>7, <1>8, <1>9

(* A Return on any frames, none included.                                  *)
LEMMA ReturnAny ==
  ASSUME NEW wr \in WriterType
  PROVE  /\ Return(wr).frames = SubSeq(wr.frames, 1, Len(wr.frames) - 1)
         /\ Return(wr).underflow = (wr.underflow \/ wr.frames = <<>>)
<1>1. CASE wr.frames = <<>>
  <2>1. Return(wr).frames = <<>>
    BY <1>1, FramesReturn
  <2>2. SubSeq(<<>>, 1, Len(<<>>) - 1) = <<>>
    OBVIOUS
  <2>3. QED
    BY <1>1, <2>1, <2>2, FramesReturn
<1>2. CASE wr.frames # <<>>
  BY <1>2, FramesReturn
<1>3. QED
  BY <1>1, <1>2

(* Every step keeps the frames.                                            *)
LEMMA FrameInvStep ==
  ASSUME TypeOK, Disciplined, VmInv, FrameInv, [Next]_vars
  PROVE  FrameInv'
<1>1. w \in WriterType
  BY DEF TypeOK
<1>2. CASE RunGuest
  BY <1>2, RunFrames
<1>3. CASE Prepare \/ Begin
  <2>1. ASSUME NEW s PROVE /\ AtStage(w, s).frames = w.frames
                             /\ AtStage(w, s).underflow = w.underflow
    BY <1>1, FramesQuiet DEF SameFrames
  <2>2. /\ phase \in Early /\ w'.frames = <<>> /\ phase' \in {"begin", "paths", "err"}
        /\ w'.underflow = FALSE
    BY <1>3, <2>1 DEF Prepare, Begin, Fails, FrameInv, Early
  <2>3. QED
    BY <2>2 DEF FrameInv, FramesMirrorGuest
<1>4. CASE RegisterSource \/ RegisterBlob
  <2>1. PICK p \in Paths, accepted \in BOOLEAN : w' = RegisterPath(w, registered, p, accepted)
    BY <1>4, TracerAssumption DEF RegisterSource, RegisterBlob, MappedPaths, Location
  <2>2. w'.frames = w.frames /\ w'.underflow = w.underflow
    BY <1>1, <2>1, FramesRegister DEF SameFrames
  <2>3. phase \in Early /\ phase' \in {"paths", "start"}
    BY <1>4 DEF RegisterSource, RegisterBlob, Early
  <2>4. w'.frames = <<>> /\ w'.underflow = FALSE
    BY <2>2, <2>3 DEF FrameInv, Early
  <2>5. QED
    BY <2>3, <2>4 DEF FrameInv, FramesMirrorGuest
<1>5. CASE StartTrace
  <2>1. phase \in Early /\ phase' = "instantiate"
    BY <1>5 DEF StartTrace, Early
  <2>2. w'.frames = FramesOf(<<>>) /\ w'.underflow = FALSE
    BY <1>5, <2>1, StartTraceFrames DEF FrameInv, Early
  <2>3. QED
    BY <2>1, <2>2 DEF FrameInv, FramesMirrorGuest, Early
<1>6. CASE Instantiate
  <2>1. w'.frames = FramesOf(<<>>) /\ w'.underflow = FALSE /\ phase' \in {"run", "err"}
    BY <1>6 DEF Instantiate, Fails, FrameInv
  <2>2. CASE phase' = "err"
    BY <2>2 DEF FrameInv, FramesMirrorGuest, Early
  <2>3. CASE phase' = "run"
    <3>1. vm'.stage = "fetch" /\ vm'.activations = <<>>
      BY <1>6, <2>3 DEF Instantiate, Fails, Prepared
    <3>2. GuestFrames' = FramesOf(<<>>)
      BY <3>1 DEF GuestFrames, FramesOf
    <3>3. QED
      BY <2>1, <2>3, <3>1, <3>2 DEF FrameInv, FramesMirrorGuest, Noted, Early
  <2>4. QED
    BY <2>1, <2>2, <2>3
<1>7. CASE OnStep
  <2>1. /\ phase = "run" /\ phase' = "run" /\ vm' = vm
        /\ interrupt.kind = "Step" /\ interrupt'.kind = "none" /\ vm.stage = "exec"
    BY <1>7 DEF OnStep, NoInterrupt, Interrupt, VmInv
  <2>2. w.frames = GuestFrames
    BY <2>1 DEF FrameInv, FramesMirrorGuest, Noted
  <2>3. w'.frames = NotedFrames /\ w'.underflow = FALSE
    BY <1>7, <2>1, <2>2, OnStepFrames DEF FrameInv
  <2>4. NotedFrames' = NotedFrames /\ Noted'
    BY <2>1 DEF NotedFrames, Noted, GuestFrames, Current
  <2>5. QED
    BY <2>1, <2>3, <2>4 DEF FrameInv, FramesMirrorGuest, Early
<1>8. CASE OnEcalli
  <2>1. /\ phase = "run" /\ vm' = vm /\ interrupt.kind = "Ecalli" /\ interrupt.index \in Nat
        /\ vm.stage = "fetch" /\ vm.cause = "running"
    BY <1>8 DEF OnEcalli, LeaveLoop, VmInv, TypeOK, VmTypeOK
  <2>2. CASE phase' = "run"
    <3>1. w' = Return(HostEvent(Call(StageArgs(w), HostFn(interrupt.index), BlobPath),
                                interrupt.index))
      BY <1>8, <2>2 DEF OnEcalli, LeaveLoop
    <3>2. w'.frames = w.frames /\ w'.underflow = FALSE
      BY <1>1, <2>1, <3>1, FramesHostCall DEF SameFrames, FrameInv
    <3>3. w.frames = GuestFrames
      BY <2>1 DEF FrameInv, FramesMirrorGuest, Noted
    <3>4. GuestFrames' = GuestFrames
      BY <2>1 DEF GuestFrames
    <3>5. QED
      BY <2>1, <2>2, <3>2, <3>3, <3>4 DEF FrameInv, FramesMirrorGuest, Noted, Early
  <2>3. CASE phase' = "finish"
    <3>1. w' = Event(Return(HostEvent(Call(StageArgs(w), HostFn(interrupt.index), BlobPath),
                                      interrupt.index)), "Error", "unhandled_host_function")
      BY <1>8, <2>1, <2>3 DEF OnEcalli, LeaveLoop
    <3>2. w'.frames = w.frames /\ w'.underflow = FALSE
      BY <1>1, <2>1, <3>1, FramesHostCall DEF SameFrames, FrameInv
    <3>3. w.frames = GuestFrames
      BY <2>1 DEF FrameInv, FramesMirrorGuest, Noted
    <3>4. EndFrames' = GuestFrames
      BY <2>1 DEF EndFrames, GuestFrames
    <3>5. QED
      BY <2>3, <3>2, <3>3, <3>4 DEF FrameInv, FramesMirrorGuest, Early
  <2>4. QED
    BY <1>8, <2>1, <2>2, <2>3 DEF OnEcalli, LeaveLoop
<1>9. CASE OnFinished
  <2>1. phase' = "finish" /\ vm'.cause = "exit"
    BY <1>9 DEF OnFinished, LeaveLoop, VmInv
  <2>2. EndFrames' = <<>>
    BY <2>1 DEF EndFrames
  <2>3. QED
    BY <1>9, <2>1, <2>2, FinishedFrames DEF FrameInv, FramesMirrorGuest, Early
<1>10. CASE OnTrap \/ OnSegfault \/ OnNotEnoughGas
  BY <1>10, ErrorFrames DEF FrameInv, FramesMirrorGuest, Early
<1>11. CASE OnRunError
  BY <1>11 DEF OnRunError, Fails, FrameInv, FramesMirrorGuest, Early
<1>12. CASE Finish \/ WriteMeta \/ Close
  <2>1. vm' = vm /\ EndFrames' = EndFrames
    BY <1>12 DEF Finish, WriteMeta, Close, Fails, EndFrames, NotedFrames, GuestFrames, Current
  <2>2. ASSUME NEW wr \in WriterType, NEW s PROVE /\ AtStage(wr, s).frames = wr.frames
                                                    /\ AtStage(wr, s).underflow = wr.underflow
    BY <2>2, FramesQuiet DEF SameFrames
  <2>3. CASE Finish
    <3>1. /\ phase = "finish" /\ phase' \in {"meta", "err"}
          /\ w.frames = EndFrames /\ w.underflow = FALSE
      BY <2>3 DEF Finish, FrameInv
    <3>2. /\ Return(w) \in WriterType /\ Return(w).frames = SubSeq(EndFrames, 1, Len(EndFrames) - 1)
          /\ Return(w).underflow = (EndFrames = <<>>)
      BY <1>1, <3>1, ReturnType, ReturnAny
    <3>3. /\ w'.frames = SubSeq(EndFrames, 1, Len(EndFrames) - 1)
          /\ w'.underflow = (EndFrames = <<>>)
      BY <2>2, <2>3, <3>2 DEF Finish
    <3>4. QED
      BY <2>1, <3>1, <3>3 DEF FrameInv, FramesMirrorGuest, Early
  <2>4. CASE WriteMeta \/ Close
    <3>1. phase \in {"meta", "close"} /\ phase' \in {"close", "ok", "err"}
      BY <2>4 DEF WriteMeta, Close, Fails
    <3>2. w'.frames = w.frames /\ w'.underflow = w.underflow
      <4>1. w' = w \/ w' = AtStage(w, "described") \/ w' = AtStage(w, "closed")
        BY <2>4 DEF WriteMeta, Close, Fails
      <4>2. QED
        BY <1>1, <2>2, <4>1
    <3>3. QED
      BY <2>1, <3>1, <3>2 DEF FrameInv, FramesMirrorGuest, Early
  <2>5. QED
    BY <1>12, <2>3, <2>4
<1>13. CASE UNCHANGED vars \/ Returned
  <2>1. UNCHANGED vars
    BY <1>13 DEF Returned
  <2>2. FramesMirrorGuest'
    BY <2>1 DEF vars, FrameInv, FramesMirrorGuest, Noted, NotedFrames, GuestFrames, Current
  <2>3. EndFrames' = EndFrames
    BY <2>1 DEF vars, EndFrames, NotedFrames, GuestFrames, Current
  <2>4. QED
    BY <2>1, <2>2, <2>3 DEF vars, FrameInv
<1>14. QED
  BY <1>2, <1>3, <1>4, <1>5, <1>6, <1>7, <1>8, <1>9, <1>10, <1>11, <1>12, <1>13 DEF Next

(* The invariants hold at the start.                                       *)
LEMMA FrameInvInit == Init => VmInv /\ FrameInv
BY DEF Init, VmInv, FrameInv, FramesMirrorGuest, Early, NewWriter

(* In every program that calls its subroutines directly and returns        *)
(* through RA, the open frames are the guest's activations.                *)
THEOREM FramesCorrect ==
  ASSUME Disciplined
  PROVE  Spec => []FramesMirrorGuest
<1>1. TypeOK /\ VmInv /\ FrameInv /\ [Next]_vars => VmInv' /\ FrameInv'
  BY VmInvStep, FrameInvStep
<1>2. FrameInv => FramesMirrorGuest
  BY DEF FrameInv
<1>3. QED
  BY <1>1, <1>2, FrameInvInit, TypeCorrect, PTL DEF Spec

(* In every such program the frames a complete bundle leaves open are the  *)
(* guest's, but for the innermost one or two, and none after a normal end. *)
THEOREM OpenFramesCorrect ==
  ASSUME Disciplined
  PROVE  Spec => []OpenAtTheEnd
<1>1. TypeOK /\ VmInv /\ FrameInv /\ [Next]_vars => VmInv' /\ FrameInv'
  BY VmInvStep, FrameInvStep
<1>2. FrameInv => OpenAtTheEnd
  BY DEF FrameInv, OpenAtTheEnd
<1>3. QED
  BY <1>1, <1>2, FrameInvInit, TypeCorrect, PTL DEF Spec

-----------------------------------------------------------------------------
(* How far the bundle is on disk: only trace_program's own steps move it.  *)
SameStage(a, b) == b.stage = a.stage

(* A Return, an event, arguments or a snapshot move nothing.               *)
LEMMA StageOfCalls ==
  ASSUME NEW wr \in WriterType, NEW kind, NEW name, NEW pc, NEW operand
  PROVE  /\ SameStage(wr, Return(wr)) /\ SameStage(wr, Event(wr, kind, name))
         /\ SameStage(wr, StageArgs(wr)) /\ SameStage(wr, Values(wr, pc, operand))
BY DEF SameStage, Return, Event, StageArgs, Values, WriterType

(* Nor does a registration.                                                *)
LEMMA StageOfRegister ==
  ASSUME NEW wr \in WriterType, NEW known, NEW p \in Paths, NEW accepted \in BOOLEAN
  PROVE  SameStage(wr, RegisterPath(wr, known, p, accepted))
BY DEF SameStage, RegisterPath, Offer, Refuse, WriterType

(* Nor does a first mention.                                               *)
LEMMA StageOfMention ==
  ASSUME NEW wr \in WriterType, NEW p \in Paths
  PROVE  SameStage(wr, Mention(wr, p))
BY DEF SameStage, Mention, WriterType

(* Nor does a call.                                                        *)
LEMMA StageOfCall ==
  ASSUME NEW wr \in WriterType, NEW fn, NEW p \in Paths
  PROVE  SameStage(wr, Call(wr, fn, p))
<1>1. PICK m : m = Mention(wr, p)
  OBVIOUS
<1>2. m \in WriterType /\ m.stage = wr.stage
  BY <1>1, MentionType, StageOfMention DEF SameStage
<1>3. Call(wr, fn, p).stage = m.stage
  BY <1>1, <1>2 DEF Call, WriterType
<1>4. QED
  BY <1>2, <1>3 DEF SameStage

(* Nor does a step.                                                        *)
LEMMA StageOfStep ==
  ASSUME NEW wr \in WriterType, NEW loc \in Location
  PROVE  SameStage(wr, StepAt(wr, loc))
<1>1. PICK m : m = Mention(wr, loc.path)
  OBVIOUS
<1>2. m \in WriterType /\ m.stage = wr.stage
  BY <1>1, MentionType, StageOfMention DEF SameStage, Location
<1>3. StepAt(wr, loc).stage = m.stage
  BY <1>1, <1>2 DEF StepAt, WriterType
<1>4. QED
  BY <1>2, <1>3 DEF SameStage

(* Nor does a host call.                                                   *)
LEMMA StageOfHostCall ==
  ASSUME NEW wr \in WriterType, NEW index \in Nat
  PROVE  LET r == Return(HostEvent(Call(StageArgs(wr), HostFn(index), BlobPath), index))
         IN  SameStage(wr, r) /\ SameStage(wr, Event(r, "Error", "unhandled_host_function"))
<1>1. BlobPath \in Paths /\ HostFn(index) \in Fn
  BY TracerAssumption DEF HostFn, Fn
<1>2. PICK a : a = StageArgs(wr)
  OBVIOUS
<1>3. a \in WriterType /\ a.stage = wr.stage
  BY <1>2, StageArgsType, StageOfCalls DEF SameStage
<1>4. PICK c : c = Call(a, HostFn(index), BlobPath)
  OBVIOUS
<1>5. c \in WriterType /\ c.stage = a.stage
  BY <1>1, <1>3, <1>4, CallType, StageOfCall DEF SameStage
<1>6. PICK h : h = HostEvent(c, index)
  OBVIOUS
<1>7. h \in WriterType
  BY <1>5, <1>6, HostEventType
<1>8. h.stage = c.stage
  <2>1. ASSUME NEW kind, NEW name PROVE Event(c, kind, name).stage = c.stage
    BY <1>5, StageOfCalls DEF SameStage
  <2>2. CASE index = 4
    BY <1>6, <2>1, <2>2 DEF HostEvent
  <2>3. CASE index = 28
    BY <1>6, <2>1, <2>3 DEF HostEvent
  <2>4. CASE index \in {5, 6, 7, 9, 19, 20}
    BY <1>6, <2>1, <2>4 DEF HostEvent
  <2>5. CASE index \notin {4, 28, 5, 6, 7, 9, 19, 20}
    BY <1>6, <2>5 DEF HostEvent
  <2>6. QED
    BY <2>2, <2>3, <2>4, <2>5
<1>9. PICK r : r = Return(h)
  OBVIOUS
<1>10. r \in WriterType /\ r.stage = h.stage
  BY <1>7, <1>9, ReturnType, StageOfCalls DEF SameStage
<1>11. SameStage(r, Event(r, "Error", "unhandled_host_function"))
  BY <1>10, StageOfCalls
<1>12. QED
  BY <1>2, <1>3, <1>4, <1>5, <1>6, <1>8, <1>9, <1>10, <1>11 DEF SameStage

(* Nor does a handled Step.                                                *)
LEMMA StageOfOnStep ==
  ASSUME TypeOK, OnStep
  PROVE  w'.stage = w.stage
<1>1. /\ vm.pc \in PCs /\ vm.operand \in Nat /\ w \in WriterType
      /\ LocationOf(vm.pc) \in Location /\ BlobPath \in Paths
  BY LocationOfType, TracerAssumption DEF TypeOK, VmTypeOK
<1>2. PICK accepted \in BOOLEAN :
        w' = NoteInstruction(Values(NoteStep(w, LocationOf(vm.pc), accepted), vm.pc, vm.operand),
                             Current, vm.operand)
  BY DEF OnStep
<1>3. PICK here \in Location : here = LocationOf(vm.pc)
  BY <1>1
<1>4. PICK s : s = NoteStep(w, here, accepted)
  OBVIOUS
<1>5. s \in WriterType /\ s.stage = w.stage
  <2>1. PICK r : r = RegisterPath(w, registered, here.path, accepted)
    OBVIOUS
  <2>2. here.path \in Paths
    BY DEF Location
  <2>3. r \in WriterType /\ r.stage = w.stage
    BY <1>1, <2>1, <2>2, RegisterPathType, StageOfRegister DEF SameStage
  <2>4. StepAt(r, here) \in WriterType /\ StepAt(r, here).stage = r.stage
    BY <2>3, StepAtType, StageOfStep DEF SameStage
  <2>5. QED
    BY <1>1, <1>4, <2>1, <2>3, <2>4 DEF NoteStep
<1>6. PICK v : v = Values(s, vm.pc, vm.operand)
  OBVIOUS
<1>7. v \in WriterType /\ v.stage = w.stage
  <2>1. v \in WriterType
    BY <1>1, <1>5, <1>6, ValuesType
  <2>2. SameStage(s, v)
    BY <1>5, <1>6, StageOfCalls
  <2>3. QED
    BY <1>5, <2>1, <2>2 DEF SameStage
<1>8. w' = NoteInstruction(v, Code[vm.pc], vm.operand)
  BY <1>2, <1>3, <1>4, <1>6 DEF Current
<1>9. \/ w' = v \/ w' = Return(v)
      \/ \E name : w' = Event(v, "Error", name)
      \/ \E t \in PCs : w' = Call(v, FnAt(t), BlobPath)
  BY <1>1, <1>8, NoteInstructionShape
<1>10. QED
  BY <1>1, <1>7, <1>9, StageOfCalls, StageOfCall DEF SameStage

(* Nor does the start of the trace.                                        *)
LEMMA StageOfStartTrace ==
  ASSUME TypeOK, StartTrace
  PROVE  w'.stage = w.stage
<1>1. PICK loc \in Location : loc = At(BlobPath, 1, 0)
  BY TracerAssumption DEF At, Location
<1>2. w \in WriterType /\ loc.path = BlobPath /\ BlobPath \in Paths /\ Toplevel \in Fn
  BY <1>1, TracerAssumption DEF TypeOK, At, Toplevel, Fn
<1>3. PICK c : c = Call(w, Toplevel, BlobPath)
  OBVIOUS
<1>4. c \in WriterType /\ c.stage = w.stage
  BY <1>2, <1>3, CallType, StageOfCall DEF SameStage
<1>5. PICK s : s = StepAt(c, loc)
  OBVIOUS
<1>6. s \in WriterType /\ s.stage = c.stage
  BY <1>4, <1>5, StepAtType, StageOfStep DEF SameStage
<1>7. w' = Call(s, EntryFn, BlobPath)
  BY <1>1, <1>2, <1>3, <1>5 DEF StartTrace, Start
<1>8. QED
  BY <1>2, <1>4, <1>6, <1>7, StageOfCall DEF SameStage

Underway == {"paths", "start", "instantiate", "run", "finish", "meta", "close"}

(* The phases and the bundle, together.                                    *)
Moves ==
    \/ phase = "prepare" /\ phase' = "begin" /\ w'.stage = w.stage
    \/ phase = "begin" /\ phase' = "paths" /\ w'.stage = "begun"
    \/ /\ phase \in Underway /\ phase' \in Underway
       /\ w'.stage \in {w.stage, "finished", "described"}
    \/ phase = "close" /\ phase' = "ok" /\ w'.stage = "closed"
    \/ phase \notin {"ok", "err"} /\ phase' = "err" /\ w'.stage = w.stage
    \/ phase' = phase /\ w'.stage = w.stage

(* Every step of trace_program moves the two together.                     *)
LEMMA StageMoves ==
  ASSUME TypeOK, [Next]_vars
  PROVE  Moves
<1>1. w \in WriterType
  BY DEF TypeOK
<1>2. ASSUME NEW s PROVE AtStage(w, s).stage = s /\ AtStage(Return(w), s).stage = s
  BY <1>1, ReturnType DEF AtStage, WriterType
<1>3. Return(w).stage = w.stage
  BY <1>1, StageOfCalls DEF SameStage
<1>4. CASE OnStep
  <2>1. phase = "run" /\ phase' = "run" /\ w'.stage = w.stage
    BY <1>4, StageOfOnStep DEF OnStep
  <2>2. QED
    BY <2>1 DEF Moves
<1>5. CASE StartTrace
  <2>1. phase = "start" /\ phase' = "instantiate" /\ w'.stage = w.stage
    BY <1>5, StageOfStartTrace DEF StartTrace
  <2>2. QED
    BY <2>1 DEF Moves, Underway
<1>6. CASE RegisterSource \/ RegisterBlob
  <2>1. PICK p \in Paths, accepted \in BOOLEAN : w' = RegisterPath(w, registered, p, accepted)
    BY <1>6, TracerAssumption DEF RegisterSource, RegisterBlob, MappedPaths, Location
  <2>2. w'.stage = w.stage
    BY <1>1, <2>1, StageOfRegister DEF SameStage
  <2>3. phase = "paths" /\ phase' \in {"paths", "start"}
    BY <1>6 DEF RegisterSource, RegisterBlob
  <2>4. QED
    BY <2>2, <2>3 DEF Moves, Underway
<1>7. CASE OnEcalli
  <2>1. interrupt.index \in Nat
    BY DEF TypeOK, VmTypeOK
  <2>2. w'.stage = w.stage
    BY <1>1, <1>7, <2>1, StageOfHostCall DEF OnEcalli, LeaveLoop, SameStage
  <2>3. phase = "run" /\ phase' \in {"run", "finish"}
    BY <1>7 DEF OnEcalli, LeaveLoop
  <2>4. QED
    BY <2>2, <2>3 DEF Moves, Underway
<1>8. CASE OnTrap \/ OnSegfault \/ OnNotEnoughGas \/ OnFinished
  <2>1. phase = "run" /\ phase' = "finish"
    BY <1>8 DEF OnTrap, OnSegfault, OnNotEnoughGas, OnFinished, LeaveLoop
  <2>2. w' = Return(w) \/ \E name \in TerminalErrors : w' = Return(Event(w, "Error", name))
    BY <1>8 DEF OnTrap, OnSegfault, OnNotEnoughGas, OnFinished, LeaveLoop, TrapName, TerminalErrors
  <2>3. ASSUME NEW name \in TerminalErrors PROVE Return(Event(w, "Error", name)).stage = w.stage
    <3>1. Event(w, "Error", name) \in WriterType
      BY <1>1, EventType DEF EventKinds, EventNames
    <3>2. QED
      BY <1>1, <3>1, StageOfCalls DEF SameStage
  <2>4. w'.stage = w.stage
    BY <1>3, <2>2, <2>3
  <2>5. QED
    BY <2>1, <2>4 DEF Moves, Underway
<1>9. CASE Prepare \/ Begin \/ Instantiate \/ RunGuest \/ OnRunError
  BY <1>2, <1>9 DEF Prepare, Begin, Instantiate, RunGuest, OnRunError, Fails, Moves, Underway
<1>10. CASE Finish \/ WriteMeta \/ Close
  BY <1>2, <1>3, <1>10 DEF Finish, WriteMeta, Close, Fails, Moves, Underway
<1>11. CASE UNCHANGED vars \/ Returned
  BY <1>11 DEF Returned, vars, Moves
<1>12. QED
  BY <1>4, <1>5, <1>6, <1>7, <1>8, <1>9, <1>10, <1>11 DEF Next

(* How far the bundle is in each phase.                                    *)
StageInv ==
    /\ phase \in {"prepare", "begin"} => w.stage = "new"
    /\ phase \in Underway => w.stage \notin {"new", "closed"}
    /\ phase = "ok" <=> w.stage = "closed"

LEMMA StageStep ==
  ASSUME TypeOK, StageInv, [Next]_vars
  PROVE  StageInv'
BY StageMoves DEF StageInv, Moves, Underway

LEMMA StageInvInit == Init => StageInv
BY DEF Init, StageInv, NewWriter, Underway

(* For every program trace_program implements Recording: its phases are    *)
(* the promise's stages, most of them within one, and the bundle is begun  *)
(* and completed by the very steps the promise names.                      *)
THEOREM TracerImplementsRecording == Spec => TracerIsARecording
<1>1. Init => Recorded!Init
  BY DEF Init, NewWriter, Recorded!Init
<1>2. TypeOK /\ StageInv /\ [Next]_vars => [Recorded!Next]_(Recorded!vars)
  <2>1. SUFFICES ASSUME TypeOK, StageInv, [Next]_vars
                 PROVE  [Recorded!Next]_(Recorded!vars)
    OBVIOUS
  <2>2. Moves
    BY <2>1, StageMoves
  <2>3. CASE phase = "prepare" /\ phase' = "begin" /\ w'.stage = w.stage
    BY <2>3 DEF Recorded!Next, Recorded!Parse
  <2>4. CASE phase = "begin" /\ phase' = "paths" /\ w'.stage = "begun"
    BY <2>4 DEF Recorded!Next, Recorded!Begin
  <2>5. CASE /\ phase \in Underway /\ phase' \in Underway
             /\ w'.stage \in {w.stage, "finished", "described"}
    BY <2>1, <2>5 DEF Recorded!vars, StageInv, Underway
  <2>6. CASE phase = "close" /\ phase' = "ok" /\ w'.stage = "closed"
    BY <2>6 DEF Recorded!Next, Recorded!Complete
  <2>7. CASE phase \notin {"ok", "err"} /\ phase' = "err" /\ w'.stage = w.stage
    BY <2>7 DEF Recorded!Next, Recorded!Fail
  <2>8. CASE phase' = phase /\ w'.stage = w.stage
    BY <2>8 DEF Recorded!vars
  <2>9. QED
    BY <2>2, <2>3, <2>4, <2>5, <2>6, <2>7, <2>8 DEF Moves
<1>3. TypeOK /\ StageInv /\ [Next]_vars => StageInv'
  BY StageStep
<1>4. QED
  BY <1>1, <1>2, <1>3, StageInvInit, TypeCorrect, PTL DEF Spec, TracerIsARecording, Recorded!Spec

-----------------------------------------------------------------------------
(* How the guest ended.                                                    *)

TerminalsOf(wr) == {k \in 1..Len(wr.events) : wr.events[k].name \in TerminalErrors}

(* Terminal errors are read off the events.                                *)
LEMMA TerminalsSame ==
  ASSUME NEW a, NEW b, SameEvents(a, b)
  PROVE  TerminalsOf(b) = TerminalsOf(a)
BY DEF SameEvents, TerminalsOf

(* One more event, of another kind or the terminal one.                    *)
LEMMA TerminalsMore ==
  ASSUME NEW wr \in WriterType, TerminalsOf(wr) = {},
         NEW kind \in EventKinds, NEW name \in EventNames
  PROVE  LET e == Event(wr, kind, name)
         IN  /\ name \notin TerminalErrors => TerminalsOf(e) = {}
             /\ name \in TerminalErrors =>
                   /\ TerminalsOf(e) = {Len(e.events)}
                   /\ e.events[Len(e.events)].name = name
                   /\ e.events[Len(e.events)].step = Len(e.steps)
<1>1. PICK e : e = Event(wr, kind, name)
  OBVIOUS
<1>2. PICK r : r = [kind |-> kind, name |-> name, step |-> Len(wr.steps)]
  OBVIOUS
<1>3. PICK s \in Seq(EventRecord) : s = wr.events
  BY DEF WriterType, EventRecord
<1>4. r \in EventRecord /\ r.name = name /\ r.step = Len(wr.steps)
  BY <1>2, WriterFields DEF EventRecord
<1>5. e.events = Append(s, r) /\ e.steps = wr.steps
  BY <1>1, <1>2, <1>3, EventAppends, EventKeeps DEF SameSteps
<1>6. PICK n \in Nat : n = Len(s)
  BY <1>3
<1>7. PICK t : t = Append(s, r)
  OBVIOUS
<1>8. Len(t) = n + 1 /\ t[n + 1] = r /\ \A k \in 1..n : t[k] = s[k]
  BY <1>3, <1>4, <1>6, <1>7, AppendProperties
<1>9. \A k \in 1..n : s[k].name \notin TerminalErrors
  BY <1>3, <1>6 DEF TerminalsOf
<1>10. TerminalsOf(e) = {k \in 1..(n + 1) : t[k].name \in TerminalErrors}
  BY <1>5, <1>7, <1>8 DEF TerminalsOf
<1>11. \A k \in 1..(n + 1) : k = n + 1 \/ t[k].name \notin TerminalErrors
  BY <1>8, <1>9
<1>12. name \notin TerminalErrors => TerminalsOf(e) = {}
  BY <1>4, <1>8, <1>10, <1>11
<1>13. name \in TerminalErrors => TerminalsOf(e) = {n + 1}
  BY <1>4, <1>8, <1>10, <1>11
<1>14. e.events[Len(e.events)] = r /\ Len(e.events) = n + 1
  BY <1>5, <1>7, <1>8
<1>15. QED
  BY <1>1, <1>4, <1>5, <1>12, <1>13, <1>14

(* An instruction that goes on leaves no terminal error.                   *)
LEMMA NoteInstructionTerminals ==
  ASSUME NEW wr \in WriterType, TerminalsOf(wr) = {}, NEW pc \in PCs, NEW operand
  PROVE  TerminalsOf(NoteInstruction(wr, Code[pc], operand)) = {}
<1>1. TerminalsOf(Return(wr)) = {}
  BY QuietReturn, TerminalsSame
<1>2. ASSUME NEW t PROVE TerminalsOf(Call(wr, FnAt(t), BlobPath)) = {}
  BY QuietCall, TerminalsSame, TracerAssumption
<1>3. ASSUME NEW name \in SoftErrors PROVE TerminalsOf(Event(wr, "Error", name)) = {}
  BY TerminalsMore DEF SoftErrors, TerminalErrors, EventNames, EventKinds
<1>4. CASE Code[pc].op = "load_imm_and_jump"
  BY <1>2, <1>4 DEF NoteInstruction, Listed
<1>5. CASE Code[pc].op = "jump_indirect" /\ Code[pc].base = "RA"
  BY <1>1, <1>5 DEF NoteInstruction, Listed
<1>6. CASE Code[pc].op = "div"
  BY <1>3, <1>6 DEF NoteInstruction, NoteDivision, Listed, SoftErrors
<1>7. CASE Listed(Code[pc])
  BY <1>3, <1>7 DEF NoteInstruction, NoteMisalignment, Listed, SoftErrors
<1>8. CASE /\ Code[pc].op # "load_imm_and_jump" /\ Code[pc].op # "div"
           /\ ~(Code[pc].op = "jump_indirect" /\ Code[pc].base = "RA")
           /\ ~Listed(Code[pc])
  BY <1>8 DEF NoteInstruction
<1>9. QED
  BY <1>4, <1>5, <1>6, <1>7, <1>8

(* Nor does a handled Step.                                                *)
LEMMA OnStepTerminals ==
  ASSUME TypeOK, OnStep, TerminalsOf(w) = {}
  PROVE  TerminalsOf(w') = {}
<1>1. /\ vm.pc \in PCs /\ vm.operand \in Nat /\ w \in WriterType
      /\ LocationOf(vm.pc) \in Location
  BY LocationOfType DEF TypeOK, VmTypeOK
<1>2. PICK accepted \in BOOLEAN :
        w' = NoteInstruction(Values(NoteStep(w, LocationOf(vm.pc), accepted), vm.pc, vm.operand),
                             Current, vm.operand)
  BY DEF OnStep
<1>3. PICK here \in Location : here = LocationOf(vm.pc)
  BY <1>1
<1>4. PICK s : s = NoteStep(w, here, accepted)
  OBVIOUS
<1>5. s \in WriterType /\ SameEvents(w, s)
  <2>1. PICK r : r = RegisterPath(w, registered, here.path, accepted)
    OBVIOUS
  <2>2. here.path \in Paths
    BY DEF Location
  <2>3. r \in WriterType /\ SameEvents(w, r)
    BY <1>1, <2>1, <2>2, RegisterPathType, QuietRegister
  <2>4. StepAt(r, here) \in WriterType /\ SameEvents(r, StepAt(r, here))
    BY <2>3, StepAtType, QuietStep
  <2>5. QED
    BY <1>1, <1>4, <2>1, <2>3, <2>4 DEF NoteStep, SameEvents
<1>6. PICK v : v = Values(s, vm.pc, vm.operand)
  OBVIOUS
<1>7. v \in WriterType /\ SameEvents(w, v)
  BY <1>1, <1>5, <1>6, ValuesType, QuietValues DEF SameEvents
<1>8. w' = NoteInstruction(v, Code[vm.pc], vm.operand)
  BY <1>2, <1>3, <1>4, <1>6 DEF Current
<1>9. TerminalsOf(v) = {}
  BY <1>7, TerminalsSame
<1>10. QED
  BY <1>1, <1>7, <1>8, <1>9, NoteInstructionTerminals

(* Nor does a host call of the table.                                      *)
LEMMA HostCallTerminals ==
  ASSUME NEW wr \in WriterType, TerminalsOf(wr) = {}, NEW index \in Nat
  PROVE  LET r == Return(HostEvent(Call(StageArgs(wr), HostFn(index), BlobPath), index))
         IN  r \in WriterType /\ TerminalsOf(r) = {}
<1>1. BlobPath \in Paths /\ HostFn(index) \in Fn
  BY TracerAssumption DEF HostFn, Fn
<1>2. PICK a : a = StageArgs(wr)
  OBVIOUS
<1>3. a \in WriterType /\ TerminalsOf(a) = {}
  BY <1>2, StageArgsType, QuietArgs, TerminalsSame
<1>4. PICK c : c = Call(a, HostFn(index), BlobPath)
  OBVIOUS
<1>5. c \in WriterType /\ TerminalsOf(c) = {}
  BY <1>1, <1>3, <1>4, CallType, QuietCall, TerminalsSame
<1>6. PICK h : h = HostEvent(c, index)
  OBVIOUS
<1>7. h \in WriterType
  BY <1>5, <1>6, HostEventType
<1>8. TerminalsOf(h) = {}
  <2>1. /\ "EvmEvent" \in EventKinds /\ "ink_deposit_event" \in EventNames \ TerminalErrors
        /\ "Write" \in EventKinds /\ "seal_debug_message" \in EventNames \ TerminalErrors
        /\ "TraceLogEvent" \in EventKinds /\ "host" \in EventNames \ TerminalErrors
    BY DEF EventKinds, EventNames, TerminalErrors
  <2>2. CASE index = 4
    BY <1>5, <1>6, <2>1, <2>2, TerminalsMore DEF HostEvent
  <2>3. CASE index = 28
    BY <1>5, <1>6, <2>1, <2>3, TerminalsMore DEF HostEvent
  <2>4. CASE index \in {5, 6, 7, 9, 19, 20}
    BY <1>5, <1>6, <2>1, <2>4, TerminalsMore DEF HostEvent
  <2>5. CASE index \notin {4, 28, 5, 6, 7, 9, 19, 20}
    BY <1>5, <1>6, <2>5 DEF HostEvent
  <2>6. QED
    BY <2>2, <2>3, <2>4, <2>5
<1>9. QED
  BY <1>2, <1>4, <1>6, <1>7, <1>8, ReturnType, QuietReturn, TerminalsSame

(* What the end of the guest is reported as.                               *)
Reported(wr, names) ==
    /\ TerminalsOf(wr) = {Len(wr.events)}
    /\ wr.events[Len(wr.events)].name \in names
    /\ wr.events[Len(wr.events)].step = Len(wr.steps)

(* What the recorder takes the end for: a trap at a store of an immediate  *)
(* it does not list is a plain trap for it, whatever made it trap.         *)
Diagnosis ==
    IF vm.cause = "memory" /\ ~DynamicPaging /\ Current.op = "mem" /\ Current.form # "register"
    THEN {"polkavm_trap"}
    ELSE Ending

(* A finished recording tells once, last and at the last step, what the    *)
(* recorder takes the guest's end for, and nothing after a normal end.     *)
EndIsDiagnosed ==
    Past(TRUE) =>
        IF vm.cause = "exit" THEN TerminalEvents = {}
        ELSE /\ TerminalEvents = {Len(w.events)}
             /\ w.events[Len(w.events)].name \in Diagnosis
             /\ w.events[Len(w.events)].step = Len(w.steps)

EndInv ==
    /\ phase \in Early \cup {"instantiate", "run"} => TerminalsOf(w) = {}
    /\ EndIsDiagnosed

(* What was reported stays reported.                                       *)
LEMMA ReportedSame ==
  ASSUME NEW a, NEW b, NEW names, Reported(a, names), SameEvents(a, b), SameSteps(a, b)
  PROVE  Reported(b, names)
BY TerminalsSame DEF Reported, SameEvents, SameSteps

(* A terminal error is the last word on the guest.                         *)
LEMMA ErrorReports ==
  ASSUME NEW wr \in WriterType, TerminalsOf(wr) = {}, NEW name \in TerminalErrors
  PROVE  /\ Reported(Event(wr, "Error", name), {name})
         /\ Reported(Return(Event(wr, "Error", name)), {name})
<1>1. "Error" \in EventKinds /\ name \in EventNames
  BY DEF EventKinds, EventNames
<1>2. PICK e : e = Event(wr, "Error", name)
  OBVIOUS
<1>3. e \in WriterType
  BY <1>1, <1>2, EventType
<1>4. Reported(e, {name})
  BY <1>1, <1>2, TerminalsMore DEF Reported
<1>5. Reported(Return(e), {name})
  BY <1>3, <1>4, QuietReturn, ReturnKeeps, ReportedSame
<1>6. QED
  BY <1>2, <1>4, <1>5

(* A trap, a segfault and an empty tank are reported as such.              *)
LEMMA EndOfRun ==
  ASSUME TypeOK, VmInv, EndInv,
         OnTrap \/ OnSegfault \/ OnNotEnoughGas
  PROVE  EndInv'
<1>1. /\ phase = "run" /\ phase' = "finish" /\ vm' = vm
      /\ w \in WriterType /\ TerminalsOf(w) = {} /\ vm.pc \in PCs
  BY DEF OnTrap, OnSegfault, OnNotEnoughGas, LeaveLoop, EndInv, TypeOK, VmTypeOK
<1>2. PICK name \in TerminalErrors :
        /\ w' = Return(Event(w, "Error", name))
        /\ vm.cause # "exit" /\ name \in Diagnosis
  <2>1. CASE OnTrap
    <3>1. w' = Return(Event(w, "Error", TrapName(Current)))
      BY <2>1 DEF OnTrap, LeaveLoop
    <3>2. \/ vm.cause = "trap" /\ Current.op # "mem"
          \/ vm.cause = "memory" /\ Current.op = "mem" /\ ~DynamicPaging
      BY <2>1 DEF OnTrap, VmInv
    <3>3. CASE vm.cause = "trap" /\ Current.op # "mem"
      BY <3>1, <3>3 DEF TrapName, Listed, Diagnosis, Ending, TerminalErrors
    <3>4. CASE vm.cause = "memory" /\ Current.op = "mem" /\ ~DynamicPaging
      BY <3>1, <3>4 DEF TrapName, Listed, Diagnosis, Ending, TerminalErrors
    <3>5. QED
      BY <3>2, <3>3, <3>4
  <2>2. CASE OnSegfault
    BY <2>2 DEF OnSegfault, LeaveLoop, VmInv, Diagnosis, Ending, TerminalErrors
  <2>3. CASE OnNotEnoughGas
    BY <2>3 DEF OnNotEnoughGas, LeaveLoop, VmInv, Diagnosis, Ending, TerminalErrors
  <2>4. QED
    BY <2>1, <2>2, <2>3
<1>3. Reported(w', {name}) /\ vm'.cause # "exit" /\ Diagnosis' = Diagnosis
  BY <1>1, <1>2, ErrorReports DEF Diagnosis, Ending, Current
<1>4. EndIsDiagnosed'
  BY <1>2, <1>3 DEF EndIsDiagnosed, Reported, TerminalEvents, TerminalsOf
<1>5. QED
  BY <1>1, <1>4 DEF EndInv, Early

(* A host function the handler does not know is reported.                  *)
LEMMA EcalliEnd ==
  ASSUME TypeOK, VmInv, EndInv, OnEcalli
  PROVE  EndInv'
<1>1. /\ phase = "run" /\ vm' = vm /\ interrupt.index \in Nat /\ vm.cause = "running"
      /\ w \in WriterType /\ TerminalsOf(w) = {}
  BY DEF OnEcalli, LeaveLoop, VmInv, EndInv, TypeOK, VmTypeOK
<1>2. PICK index \in Nat : index = interrupt.index
  BY <1>1
<1>3. PICK r : r = Return(HostEvent(Call(StageArgs(w), HostFn(index), BlobPath), index))
  OBVIOUS
<1>4. r \in WriterType /\ TerminalsOf(r) = {}
  BY <1>1, <1>3, HostCallTerminals
<1>5. CASE w' = r /\ phase' = "run"
  BY <1>4, <1>5 DEF EndInv, EndIsDiagnosed, Past
<1>6. CASE w' = Event(r, "Error", "unhandled_host_function") /\ phase' = "finish"
  <2>1. "unhandled_host_function" \in TerminalErrors
    BY DEF TerminalErrors
  <2>2. Reported(w', {"unhandled_host_function"})
    BY <1>4, <1>6, <2>1, ErrorReports
  <2>3. vm'.cause # "exit" /\ Diagnosis' = {"unhandled_host_function"}
    BY <1>1 DEF Diagnosis, Ending, Current
  <2>4. EndIsDiagnosed'
    BY <2>2, <2>3 DEF EndIsDiagnosed, Reported, TerminalEvents, TerminalsOf
  <2>5. QED
    BY <1>6, <2>4 DEF EndInv, Early
<1>7. QED
  BY <1>2, <1>3, <1>5, <1>6 DEF OnEcalli, LeaveLoop

(* What follows the loop adds no event and no step.                        *)
LEMMA AfterEnd ==
  ASSUME TypeOK, EndInv, Finish \/ WriteMeta \/ Close
  PROVE  EndInv'
<1>1. /\ phase \in {"finish", "meta", "close"} /\ phase' \in {"meta", "close", "ok", "err"}
      /\ vm' = vm /\ w \in WriterType
  BY DEF Finish, WriteMeta, Close, Fails, TypeOK
<1>2. SameEvents(w, w') /\ SameSteps(w, w')
  <2>1. SameEvents(w, w) /\ SameSteps(w, w)
    BY DEF SameEvents, SameSteps
  <2>2. Return(w) \in WriterType /\ SameEvents(w, Return(w)) /\ SameSteps(w, Return(w))
    BY <1>1, ReturnType, QuietReturn, ReturnKeeps
  <2>3. ASSUME NEW s
        PROVE  /\ SameEvents(w, AtStage(w, s)) /\ SameSteps(w, AtStage(w, s))
               /\ SameEvents(w, AtStage(Return(w), s)) /\ SameSteps(w, AtStage(Return(w), s))
    BY <1>1, <2>2, QuietStage, StageKeeps DEF SameEvents, SameSteps
  <2>4. QED
    BY <2>1, <2>2, <2>3 DEF Finish, WriteMeta, Close, Fails
<1>3. TerminalsOf(w') = TerminalsOf(w)
  BY <1>2, TerminalsSame
<1>4. EndIsDiagnosed
  BY DEF EndInv
<1>5. EndIsDiagnosed'
  <2>1. TerminalEvents' = TerminalEvents
    BY <1>3 DEF TerminalEvents, TerminalsOf
  <2>2. Diagnosis' = Diagnosis
    BY <1>1 DEF Diagnosis, Ending, Current
  <2>3. Past(TRUE)
    BY <1>1 DEF Past
  <2>4. w'.events = w.events /\ w'.steps = w.steps
    BY <1>2 DEF SameEvents, SameSteps
  <2>5. QED
    BY <1>1, <1>4, <2>1, <2>2, <2>3, <2>4 DEF EndIsDiagnosed
<1>6. QED
  BY <1>1, <1>5 DEF EndInv, Early

(* Every step keeps the end reported.                                      *)
LEMMA EndStep ==
  ASSUME TypeOK, VmInv, EndInv, [Next]_vars
  PROVE  EndInv'
<1>1. w \in WriterType
  BY DEF TypeOK
<1>2. CASE OnTrap \/ OnSegfault \/ OnNotEnoughGas
  BY <1>2, EndOfRun
<1>3. CASE OnEcalli
  BY <1>3, EcalliEnd
<1>4. CASE Finish \/ WriteMeta \/ Close
  BY <1>4, AfterEnd
<1>5. CASE OnStep
  BY <1>5, OnStepTerminals DEF OnStep, EndInv, EndIsDiagnosed, Past
<1>6. CASE StartTrace
  <2>1. SameEvents(w, w') /\ phase \in Early /\ phase' = "instantiate"
    BY <1>6, StartTraceQuiet DEF SameEvents, StartTrace, Early
  <2>2. QED
    BY <2>1, TerminalsSame DEF EndInv, EndIsDiagnosed, Past
<1>7. CASE RegisterSource \/ RegisterBlob
  <2>1. SameEvents(w, w') /\ phase \in Early /\ phase' \in {"paths", "start"}
    BY <1>7, RegisterQuiet DEF SameEvents, RegisterSource, RegisterBlob, Early
  <2>2. QED
    BY <2>1, TerminalsSame DEF EndInv, EndIsDiagnosed, Past
<1>8. CASE Prepare \/ Begin \/ Instantiate \/ RunGuest
  <2>1. ASSUME NEW s PROVE SameEvents(w, AtStage(w, s))
    BY <1>1, QuietStage
  <2>2. SameEvents(w, w')
    BY <1>8, <2>1 DEF Prepare, Begin, Instantiate, RunGuest, Fails, SameEvents
  <2>3. /\ phase \in Early \cup {"instantiate", "run"}
        /\ phase' \in Early \cup {"instantiate", "run", "err"}
    BY <1>8 DEF Prepare, Begin, Instantiate, RunGuest, Fails, Early
  <2>4. QED
    BY <2>2, <2>3, TerminalsSame DEF EndInv, EndIsDiagnosed, Past, Early
<1>9. CASE OnRunError
  BY <1>9 DEF OnRunError, Fails, EndInv, EndIsDiagnosed, Past, Early
<1>10. CASE OnFinished
  <2>1. phase = "run" /\ phase' = "finish" /\ w' = Return(w) /\ vm'.cause = "exit"
    BY <1>10 DEF OnFinished, LeaveLoop, VmInv
  <2>2. TerminalsOf(w') = {}
    BY <1>1, <2>1, QuietReturn, TerminalsSame DEF EndInv
  <2>3. QED
    BY <2>1, <2>2 DEF EndInv, EndIsDiagnosed, TerminalEvents, TerminalsOf, Early
<1>11. CASE UNCHANGED vars \/ Returned
  <2>1. UNCHANGED vars
    BY <1>11 DEF Returned
  <2>2. EndIsDiagnosed'
    BY <2>1 DEF vars, EndInv, EndIsDiagnosed, Past, TerminalEvents, Diagnosis, Ending, Current
  <2>3. QED
    BY <2>1, <2>2 DEF vars, EndInv, TerminalsOf
<1>12. QED
  BY <1>2, <1>3, <1>4, <1>5, <1>6, <1>7, <1>8, <1>9, <1>10, <1>11 DEF Next

(* In every program a finished recording tells how the guest ended, last   *)
(* and once, for nothing worse than it was but an out-of-bounds store of   *)
(* an immediate, which it takes for a plain trap.                          *)
THEOREM EndsDiagnosed == Spec => []EndIsDiagnosed
<1>1. Init => EndInv
  BY DEF Init, EndInv, EndIsDiagnosed, Past, NewWriter, TerminalsOf
<1>2. TypeOK /\ VmInv /\ EndInv /\ [Next]_vars => VmInv' /\ EndInv'
  BY VmInvStep, EndStep
<1>3. Init => VmInv
  BY FrameInvInit
<1>4. EndInv => EndIsDiagnosed
  BY DEF EndInv
<1>5. QED
  BY <1>1, <1>2, <1>3, <1>4, TypeCorrect, PTL DEF Spec

(* In every program without stores of immediates, a finished recording     *)
(* tells how the guest ended, last and once.                               *)
THEOREM EndsCorrect ==
  ASSUME NoImmediateStores
  PROVE  Spec => []EndIsReported
<1>1. TypeOK /\ EndIsDiagnosed => EndIsReported
  <2>1. SUFFICES ASSUME TypeOK PROVE Diagnosis = Ending
    BY DEF EndIsDiagnosed, EndIsReported
  <2>2. vm.pc \in PCs
    BY <2>1 DEF TypeOK, VmTypeOK
  <2>3. QED
    BY <2>2 DEF Diagnosis, NoImmediateStores, Current
<1>2. QED
  BY <1>1, EndsDiagnosed, TypeCorrect, PTL

-----------------------------------------------------------------------------
(* How long a recording with a gas budget can take.                        *)

(* The program has a last instruction.                                     *)
LEMMA LastIsLast == LastPc \in PCs /\ LastPc \in Nat /\ \A pc \in PCs : pc \in Nat /\ pc <= LastPc
BY BlockAssumption, CodeAssumption DEF LastPc

(* Nothing a product of naturals falls by is lost.                         *)
LEMMA LessTimes ==
  ASSUME NEW a \in Nat, NEW b \in Nat, NEW k \in Nat, a < b
  PROVE  a * k \in Nat /\ b * k \in Nat /\ a * k + k <= b * k
<1>1. PICK d \in Nat : b = a + 1 + d
  <2>1. b - a - 1 \in Nat /\ b = a + 1 + (b - a - 1)
    OBVIOUS
  <2>2. QED
    BY <2>1
<1>2. b * k = a * k + k + d * k /\ a * k \in Nat /\ d * k \in Nat
  BY <1>1
<1>3. QED
  BY <1>2

(* Fuel is a number.                                                       *)
LEMMA FuelIsNat ==
  ASSUME NEW gas \in Int, NEW pc \in PCs
  PROVE  Fuel(gas, pc) \in Nat
<1>1. BlockCost[pc] \in Nat /\ pc \in Nat /\ LastPc \in Nat /\ pc <= LastPc
  BY LastIsLast, CodeAssumption
<1>2. CASE gas < BlockCost[pc]
  BY <1>2 DEF Fuel
<1>3. CASE ~(gas < BlockCost[pc])
  <2>1. PICK g \in Nat : g = gas - BlockCost[pc]
    BY <1>1, <1>3
  <2>2. g * (LastPc + 1) \in Nat
    BY <1>1
  <2>3. Fuel(gas, pc) = g * (LastPc + 1) + (LastPc - pc) + 1
    BY <1>3, <2>1 DEF Fuel
  <2>4. QED
    BY <1>1, <2>2, <2>3
<1>4. QED
  BY <1>2, <1>3

(* An instruction that is paid for uses fuel up: it goes on to the next    *)
(* one, or to a block that costs something.                                *)
LEMMA FuelFalls ==
  ASSUME NEW gas \in Int, NEW pc \in PCs, NEW q \in PCs, ~(gas < BlockCost[pc]),
         BlockCost[q] > 0 \/ q = pc + 1
  PROVE  Fuel(gas - BlockCost[pc], q) + 1 <= Fuel(gas, pc)
<1>1. /\ BlockCost[pc] \in Nat /\ pc \in Nat /\ LastPc \in Nat /\ pc <= LastPc
      /\ BlockCost[q] \in Nat /\ q \in Nat /\ q <= LastPc
  BY LastIsLast, CodeAssumption
<1>2. PICK g \in Nat : g = gas - BlockCost[pc]
  BY <1>1
<1>3. PICK k \in Nat : k = LastPc + 1
  BY <1>1
<1>4. Fuel(gas, pc) = g * k + (LastPc - pc) + 1 /\ g * k \in Nat
  BY <1>2, <1>3 DEF Fuel
<1>5. CASE g < BlockCost[q]
  <2>1. Fuel(g, q) = 0
    BY <1>5 DEF Fuel
  <2>2. QED
    BY <1>1, <1>2, <1>4, <2>1
<1>6. CASE ~(g < BlockCost[q])
  <2>1. PICK h \in Nat : h = g - BlockCost[q]
    BY <1>1, <1>6
  <2>2. Fuel(g, q) = h * k + (LastPc - q) + 1 /\ h * k \in Nat
    BY <1>3, <1>6, <2>1 DEF Fuel
  <2>3. CASE BlockCost[q] > 0
    <3>1. h < g
      BY <1>1, <2>1, <2>3
    <3>2. h * k + k <= g * k
      BY <3>1, LessTimes
    <3>3. QED
      BY <1>1, <1>2, <1>3, <1>4, <2>2, <3>2
  <2>4. CASE BlockCost[q] = 0
    <3>1. h = g /\ q = pc + 1
      BY <2>1, <2>4
    <3>2. QED
      BY <1>1, <1>2, <1>4, <2>2, <3>1
  <2>5. QED
    BY <1>1, <2>3, <2>4
<1>7. QED
  BY <1>5, <1>6

(* There are finitely many source files to register.                       *)
LEMMA FilesAreFinite == IsFiniteSet(MappedPaths)
<1>1. PCs \in SUBSET Nat /\ LastPc \in Nat /\ \A pc \in PCs : pc <= LastPc
  BY LastIsLast
<1>2. IsFiniteSet(PCs)
  BY <1>1, FS_BoundedSetOfNaturals
<1>3. IsFiniteSet(DOMAIN Locations)
  BY <1>2, TracerAssumption, FS_Subset
<1>4. PICK f : f = [pc \in DOMAIN Locations |-> Locations[pc].path]
  OBVIOUS
<1>5. f \in Surjection(DOMAIN Locations, MappedPaths)
  BY <1>4 DEF Surjection, MappedPaths
<1>6. QED
  BY <1>3, <1>5, FS_Surjection

(* Registering files leaves no more of them, and one fewer when it was one *)
(* of them.                                                                *)
LEMMA FewerFiles ==
  ASSUME NEW known, NEW more
  PROVE  /\ Cardinality(MappedPaths \ known) \in Nat
         /\ Cardinality(MappedPaths \ (known \cup more)) <= Cardinality(MappedPaths \ known)
         /\ \A p \in MappedPaths \ known :
               Cardinality(MappedPaths \ (known \cup {p})) < Cardinality(MappedPaths \ known)
<1>1. IsFiniteSet(MappedPaths \ known)
  BY FilesAreFinite, FS_Subset
<1>2. Cardinality(MappedPaths \ known) \in Nat
  BY <1>1, FS_CardinalityType
<1>3. Cardinality(MappedPaths \ (known \cup more)) <= Cardinality(MappedPaths \ known)
  BY <1>1, FS_Subset
<1>4. ASSUME NEW p \in MappedPaths \ known
      PROVE  Cardinality(MappedPaths \ (known \cup {p})) < Cardinality(MappedPaths \ known)
  <2>1. MappedPaths \ (known \cup {p}) = (MappedPaths \ known) \ {p}
    OBVIOUS
  <2>2. Cardinality((MappedPaths \ known) \ {p}) = Cardinality(MappedPaths \ known) - 1
    BY <1>1, FS_RemoveElement
  <2>3. QED
    BY <1>2, <2>1, <2>2
<1>5. QED
  BY <1>2, <1>3, <1>4

(* The guest has not been touched before it runs, and returns to where a   *)
(* block is charged.                                                       *)
ChargedInv ==
    /\ phase \in Early \cup {"instantiate"} => vm = Prepared
    /\ \A k \in 1..Len(vm.activations) : BlockCost[vm.activations[k].ret] > 0

(* Where the guest goes is the next instruction or a block's first one.    *)
LEMMA GoesToABlock ==
  ASSUME TypeOK, ChargedInv, FallThrough \/ Jump \/ EnterSubroutine \/ LeaveSubroutine
  PROVE  \E q \in PCs, acts \in Seq(Activation) :
            /\ Goes(q, acts)
            /\ BlockCost[q] > 0 \/ q = vm.pc + 1
            /\ \A k \in 1..Len(acts) : BlockCost[acts[k].ret] > 0
<1>1. /\ vm.pc \in PCs /\ Current = Code[vm.pc] /\ Current \in Instructions
      /\ vm.activations \in Seq(Activation)
      /\ \A k \in 1..Len(vm.activations) : BlockCost[vm.activations[k].ret] > 0
  BY CodeAssumption DEF TypeOK, VmTypeOK, Current, Activation, ChargedInv
<1>2. CASE FallThrough
  <2>1. vm.pc + 1 \in PCs
    BY <1>1, <1>2, CodeAssumption DEF FallThrough, FallsThrough
  <2>2. QED
    BY <1>1, <1>2, <2>1 DEF FallThrough
<1>3. CASE Jump
  <2>1. PICK t \in Current.to : Goes(t, vm.activations)
    BY <1>3 DEF Jump
  <2>2. t \in PCs
    BY <1>1, <2>1 DEF Instructions
  <2>3. BlockCost[t] > 0
    BY <1>1, <1>3, <2>1, BlockAssumption DEF Jump
  <2>4. QED
    BY <1>1, <2>1, <2>2, <2>3
<1>4. CASE EnterSubroutine
  <2>1. PICK t \in Current.to :
          Goes(t, Append(vm.activations, [fn |-> t, ret |-> vm.pc + 1]))
    BY <1>4 DEF EnterSubroutine
  <2>2. t \in PCs
    BY <1>1, <2>1 DEF Instructions
  <2>3. BlockCost[t] > 0 /\ BlockCost[vm.pc + 1] > 0 /\ vm.pc + 1 \in PCs
    BY <1>1, <1>4, <2>1, BlockAssumption, CodeAssumption DEF EnterSubroutine, FallsThrough
  <2>4. PICK a \in Activation : a = [fn |-> t, ret |-> vm.pc + 1]
    BY <2>2, <2>3 DEF Activation
  <2>5. PICK acts : acts = Append(vm.activations, a)
    OBVIOUS
  <2>6. /\ acts \in Seq(Activation) /\ Len(acts) = Len(vm.activations) + 1
        /\ \A k \in 1..Len(vm.activations) : acts[k] = vm.activations[k]
        /\ acts[Len(acts)] = a
    BY <1>1, <2>5, AppendProperties
  <2>7. ASSUME NEW k \in 1..Len(acts) PROVE BlockCost[acts[k].ret] > 0
    <3>1. k \in 1..Len(vm.activations) \/ k = Len(acts)
      BY <1>1, <2>6, <2>7, LenProperties
    <3>2. QED
      BY <1>1, <2>3, <2>4, <2>6, <3>1
  <2>8. QED
    BY <2>1, <2>2, <2>3, <2>4, <2>5, <2>6, <2>7
<1>5. CASE LeaveSubroutine
  <2>1. PICK n \in Nat : n = Len(vm.activations)
    BY <1>1, LenProperties
  <2>2. PICK acts : acts = SubSeq(vm.activations, 1, n - 1)
    OBVIOUS
  <2>3. /\ vm.activations # <<>> /\ Goes(vm.activations[n].ret, acts)
    BY <1>5, <2>1, <2>2 DEF LeaveSubroutine
  <2>4. n \in 1..n
    BY <1>1, <2>1, <2>3, EmptySeq
  <2>5. vm.activations[n] \in Activation
    BY <1>1, <2>1, <2>4, ElementOfSeq
  <2>6. vm.activations[n].ret \in PCs /\ BlockCost[vm.activations[n].ret] > 0
    BY <1>1, <2>1, <2>4, <2>5 DEF Activation
  <2>7. /\ acts \in Seq(Activation) /\ Len(acts) = n - 1
        /\ \A k \in 1..(n - 1) : acts[k] = vm.activations[k]
    BY <1>1, <2>1, <2>2, <2>4, SubSeqProperties
  <2>8. \A k \in 1..Len(acts) : BlockCost[acts[k].ret] > 0
    BY <1>1, <2>1, <2>7
  <2>9. QED
    BY <2>3, <2>6, <2>7, <2>8
<1>6. QED
  BY <1>2, <1>3, <1>4, <1>5

(* Every step keeps ChargedInv.                                            *)
LEMMA ChargedStep ==
  ASSUME TypeOK, ChargedInv, [Next]_vars
  PROVE  ChargedInv'
<1>1. CASE RunGuest
  <2>1. phase = "run" /\ phase' = "run"
    BY <1>1 DEF RunGuest
  <2>2. SUFFICES \A k \in 1..Len(vm'.activations) : BlockCost[vm'.activations[k].ret] > 0
    BY <2>1 DEF ChargedInv, Early
  <2>3. CASE FallThrough \/ Jump \/ EnterSubroutine \/ LeaveSubroutine
    <3>1. PICK q \in PCs, acts \in Seq(Activation) :
            Goes(q, acts) /\ \A k \in 1..Len(acts) : BlockCost[acts[k].ret] > 0
      BY <2>3, GoesToABlock
    <3>2. vm'.activations = acts
      BY <3>1, GoesFields
    <3>3. QED
      BY <3>1, <3>2
  <2>4. CASE ReportStep \/ EngineFails \/ CallHost
    <3>1. vm'.activations = vm.activations
      BY <2>4 DEF ReportStep, EngineFails, CallHost, TypeOK, VmTypeOK
    <3>2. QED
      BY <3>1 DEF ChargedInv
  <2>5. ASSUME NEW kind, NEW cause, Halts(kind, cause)
        PROVE  \A k \in 1..Len(vm'.activations) : BlockCost[vm'.activations[k].ret] > 0
    BY <2>5, HaltsFields DEF ChargedInv
  <2>6. QED
    BY <1>1, <2>3, <2>4, <2>5 DEF RunGuest, Run, Execute, LeaveProgram, Fault
<1>2. CASE Instantiate
  <2>1. phase = "instantiate" /\ phase' \in {"run", "err"} /\ vm' = Prepared
    BY <1>2 DEF Instantiate, Fails, ChargedInv
  <2>2. Len(vm'.activations) = 0
    BY <2>1 DEF Prepared
  <2>3. QED
    BY <2>1, <2>2 DEF ChargedInv, Early
<1>3. CASE UNCHANGED vm /\ phase \notin Early /\ phase' \notin Early \cup {"instantiate"}
  BY <1>3 DEF ChargedInv
<1>4. CASE UNCHANGED vm /\ phase \in Early
  BY <1>4 DEF ChargedInv
<1>5. CASE UNCHANGED vm /\ UNCHANGED phase
  BY <1>5 DEF ChargedInv
<1>6. CASE Prepare \/ Begin \/ RegisterSource \/ RegisterBlob \/ StartTrace
  BY <1>4, <1>6 DEF Prepare, Begin, RegisterSource, RegisterBlob, StartTrace, Fails, Early
<1>7. CASE OnStep \/ OnFinished \/ OnTrap \/ OnSegfault \/ OnNotEnoughGas \/ OnEcalli \/ OnRunError
  BY <1>3, <1>7
     DEF OnStep, OnFinished, OnTrap, OnSegfault, OnNotEnoughGas, OnEcalli, OnRunError, LeaveLoop,
         Fails, Early
<1>8. CASE Finish \/ WriteMeta \/ Close
  BY <1>3, <1>8 DEF Finish, WriteMeta, Close, Fails, Early
<1>9. CASE UNCHANGED vars \/ Returned
  BY <1>5, <1>9 DEF Returned, vars
<1>10. QED
  BY <1>1, <1>2, <1>6, <1>7, <1>8, <1>9 DEF Next

(* What is left of the guest's run.                                        *)
GuestDistance == 4 * Fuel(vm.gas, vm.pc) + Turn

(* The parts of the distance are numbers.                                  *)
LEMMA DistanceParts ==
  ASSUME TypeOK
  PROVE  /\ PhasesLeft \in Nat
         /\ Cardinality(MappedPaths \ registered) \in Nat
         /\ Fuel(vm.gas, vm.pc) \in Nat
         /\ GuestDistance \in Nat
<1>1. Fuel(vm.gas, vm.pc) \in Nat
  BY FuelIsNat DEF TypeOK, VmTypeOK
<1>2. PhasesLeft \in Nat /\ Turn \in Nat
  BY DEF PhasesLeft, Turn
<1>3. Cardinality(MappedPaths \ registered) \in Nat
  BY FewerFiles
<1>4. GuestDistance \in Nat
  BY <1>1, <1>2 DEF GuestDistance
<1>5. QED
  BY <1>1, <1>2, <1>3, <1>4

(* A step of the guest reports an instruction, stops, or executes one that *)
(* has been paid for.                                                      *)
LEMMA RunPays ==
  ASSUME TypeOK, Metered, VmInv, ChargedInv, RunGuest
  PROVE  LET fuel == Fuel(vm.gas, vm.pc)
             then == Fuel(vm'.gas, vm'.pc)
         IN  /\ then \in Nat
             /\ interrupt = NoInterrupt
             /\ \/ /\ vm.stage = "fetch" /\ vm'.stage = "exec"
                   /\ interrupt' = Interrupt("Step", 0) /\ then = fuel
                \/ /\ vm.stage \in {"fetch", "exec"} /\ vm'.stage = "halted"
                   /\ \E kind \in {"Error", "Finished", "Trap", "Segfault", "NotEnoughGas"} :
                         interrupt' = Interrupt(kind, 0)
                   /\ then = fuel
                \/ /\ vm.stage = "exec" /\ vm'.stage = "fetch"
                   /\ interrupt' = NoInterrupt \/ \E n : interrupt' = Interrupt("Ecalli", n)
                   /\ then + 1 <= fuel
<1>1. /\ phase = "run" /\ interrupt = NoInterrupt
      /\ vm.pc \in PCs /\ vm.gas \in Int /\ Fuel(vm.gas, vm.pc) \in Nat
  BY DistanceParts DEF RunGuest, Run, TypeOK, VmTypeOK
<1>2. CASE ReportStep
  <2>1. /\ vm.stage = "fetch" /\ vm'.stage = "exec" /\ vm'.gas = vm.gas /\ vm'.pc = vm.pc
        /\ interrupt' = Interrupt("Step", 0)
    BY <1>2 DEF ReportStep, TypeOK, VmTypeOK
  <2>2. QED
    BY <1>1, <2>1
<1>3. CASE EngineFails
  <2>1. /\ vm.stage \in {"fetch", "exec"} /\ vm'.stage = "halted"
        /\ vm'.gas = vm.gas /\ vm'.pc = vm.pc /\ interrupt' = Interrupt("Error", 0)
    BY <1>3 DEF EngineFails, TypeOK, VmTypeOK
  <2>2. QED
    BY <1>1, <2>1
<1>4. CASE \E kind \in {"Finished", "Trap", "Segfault", "NotEnoughGas"} : \E cause :
              vm.stage = "exec" /\ Halts(kind, cause)
  <2>1. /\ vm.stage = "exec" /\ vm'.stage = "halted" /\ vm'.gas = vm.gas /\ vm'.pc = vm.pc
        /\ \E kind \in {"Finished", "Trap", "Segfault", "NotEnoughGas"} :
              interrupt' = Interrupt(kind, 0)
    BY <1>4 DEF Halts, TypeOK, VmTypeOK
  <2>2. QED
    BY <1>1, <2>1
<1>5. ASSUME vm.stage = "exec", vm'.stage = "fetch", ~(vm.gas < BlockCost[vm.pc]), NEW q \in PCs,
             BlockCost[q] > 0 \/ q = vm.pc + 1, vm'.pc = q, vm'.gas = Gas
      PROVE  Fuel(vm'.gas, vm'.pc) \in Nat /\ Fuel(vm'.gas, vm'.pc) + 1 <= Fuel(vm.gas, vm.pc)
  <2>1. vm'.gas = vm.gas - BlockCost[vm.pc] /\ BlockCost[vm.pc] \in Nat
    BY <1>1, <1>5, CodeAssumption DEF Gas
  <2>2. vm'.gas \in Int
    BY <1>1, <2>1
  <2>3. QED
    BY <1>1, <1>5, <2>1, <2>2, FuelIsNat, FuelFalls
<1>6. CASE /\ vm.stage = "exec" /\ ~(vm.gas < BlockCost[vm.pc])
           /\ FallThrough \/ Jump \/ EnterSubroutine \/ LeaveSubroutine
  <2>1. PICK q \in PCs, acts \in Seq(Activation) :
          Goes(q, acts) /\ (BlockCost[q] > 0 \/ q = vm.pc + 1)
    BY <1>6, GoesToABlock
  <2>2. vm'.stage = "fetch" /\ vm'.pc = q /\ vm'.gas = Gas /\ interrupt' = NoInterrupt
    BY <2>1 DEF Goes, TypeOK, VmTypeOK
  <2>3. QED
    BY <1>1, <1>5, <1>6, <2>1, <2>2
<1>7. CASE vm.stage = "exec" /\ ~(vm.gas < BlockCost[vm.pc]) /\ CallHost
  <2>1. /\ vm'.stage = "fetch" /\ vm'.pc = vm.pc + 1 /\ vm'.gas = Gas
        /\ interrupt' = Interrupt("Ecalli", Current.index)
    BY <1>7 DEF CallHost, TypeOK, VmTypeOK
  <2>2. vm.pc + 1 \in PCs
    BY <1>1, <1>7, CodeAssumption DEF CallHost, Current, FallsThrough
  <2>3. QED
    BY <1>1, <1>5, <1>7, <2>1, <2>2
<1>8. QED
  BY <1>2, <1>3, <1>4, <1>6, <1>7 DEF RunGuest, Run, Execute, LeaveProgram, Fault

(* Every step of the guest takes it nearer to its end.                     *)
LEMMA GuestComesNearer ==
  ASSUME TypeOK, Metered, VmInv, ChargedInv, RunGuest
  PROVE  GuestDistance' < GuestDistance
<1>1. PICK f \in Nat, g \in Nat : f = Fuel(vm.gas, vm.pc) /\ g = Fuel(vm'.gas, vm'.pc)
  BY DistanceParts, RunPays
<1>2. \A kind \in {"Step", "Ecalli", "Error", "Finished", "Trap", "Segfault", "NotEnoughGas"}, n \in Nat :
        Interrupt(kind, n) # NoInterrupt
  BY DEF Interrupt, NoInterrupt
<1>3. \/ Turn = 4 /\ Turn' = 3 /\ g = f
      \/ Turn \in {2, 4} /\ Turn' = 1 /\ g = f
      \/ Turn = 2 /\ Turn' \in {4, 5} /\ g + 1 <= f
  BY <1>1, <1>2, RunPays DEF Turn
<1>4. QED
  BY <1>1, <1>3 DEF GuestDistance

(* Every step of trace_program takes it nearer to its return.              *)
LEMMA StepComesNearer ==
  ASSUME TypeOK, TypeOK', Metered, VmInv, ChargedInv, Next, vars' # vars
  PROVE  Distance' \in 0..(Distance - 1)
<1>1. PICK p \in Nat, c \in Nat, g \in Nat :
        /\ p = PhasesLeft /\ c = Cardinality(MappedPaths \ registered) /\ g = GuestDistance
        /\ Distance = p + c + g
  <2>1. PICK f \in Nat : f = Fuel(vm.gas, vm.pc)
    BY DistanceParts
  <2>2. Turn \in Nat
    BY DEF Turn
  <2>3. Distance = PhasesLeft + Cardinality(MappedPaths \ registered) + GuestDistance
    BY <2>1, <2>2, DistanceParts DEF Distance, GuestDistance
  <2>4. QED
    BY <2>3, DistanceParts
<1>2. PICK p1 \in Nat, c1 \in Nat, g1 \in Nat :
        /\ p1 = PhasesLeft' /\ c1 = Cardinality(MappedPaths \ registered') /\ g1 = GuestDistance'
        /\ Distance' = p1 + c1 + g1
  <2>1. /\ PhasesLeft' \in Nat /\ Cardinality(MappedPaths \ registered') \in Nat
        /\ Fuel(vm'.gas, vm'.pc) \in Nat /\ GuestDistance' \in Nat
    <3>1. Fuel(vm'.gas, vm'.pc) \in Nat
      BY FuelIsNat DEF TypeOK, VmTypeOK
    <3>2. PhasesLeft' \in Nat /\ Turn' \in Nat
      BY DEF PhasesLeft, Turn
    <3>3. Cardinality(MappedPaths \ registered') \in Nat
      BY FewerFiles
    <3>4. GuestDistance' \in Nat
      BY <3>1, <3>2 DEF GuestDistance
    <3>5. QED
      BY <3>1, <3>2, <3>3, <3>4
  <2>2. Turn' \in Nat
    BY DEF Turn
  <2>3. Distance' = PhasesLeft' + Cardinality(MappedPaths \ registered') + GuestDistance'
    BY <2>1, <2>2 DEF Distance, GuestDistance
  <2>4. QED
    BY <2>1, <2>3
<1>3. CASE RunGuest
  <2>1. p1 = p /\ c1 = c
    BY <1>1, <1>2, <1>3 DEF RunGuest, PhasesLeft
  <2>2. g1 < g
    BY <1>1, <1>2, <1>3, GuestComesNearer
  <2>3. QED
    BY <1>1, <1>2, <2>1, <2>2
(* The phase goes on and the guest stands still.                           *)
<1>4. ASSUME UNCHANGED vm, interrupt' = interrupt \/ interrupt' = NoInterrupt
      PROVE  g1 <= g
  <2>1. Turn \in Nat /\ Turn' \in Nat /\ Turn' <= Turn
    BY <1>4 DEF Turn
  <2>2. Fuel(vm.gas, vm.pc) \in Nat /\ Fuel(vm'.gas, vm'.pc) = Fuel(vm.gas, vm.pc)
    BY <1>4, DistanceParts
  <2>3. QED
    BY <1>1, <1>2, <2>1, <2>2 DEF GuestDistance
<1>5. ASSUME NEW more, registered' = registered \cup more
      PROVE  c1 <= c
  BY <1>1, <1>2, <1>5, FewerFiles
<1>6. ASSUME UNCHANGED registered
      PROVE  c1 = c
  BY <1>1, <1>2, <1>6
<1>7. CASE RegisterSource
  <2>1. p1 = p /\ UNCHANGED vm /\ UNCHANGED interrupt
    BY <1>1, <1>2, <1>7 DEF RegisterSource, PhasesLeft
  <2>2. c1 < c
    BY <1>1, <1>2, <1>7, FewerFiles DEF RegisterSource
  <2>3. QED
    BY <1>1, <1>2, <1>4, <2>1, <2>2
<1>8. CASE RegisterBlob
  <2>1. p1 < p /\ UNCHANGED vm /\ UNCHANGED interrupt
    BY <1>1, <1>2, <1>8 DEF RegisterBlob, PhasesLeft
  <2>2. c1 <= c
    BY <1>5, <1>8 DEF RegisterBlob
  <2>3. QED
    BY <1>1, <1>2, <1>4, <2>1, <2>2
<1>9. CASE Prepare \/ Begin \/ StartTrace \/ Finish \/ WriteMeta \/ Close
  <2>1. /\ p1 < p
        /\ UNCHANGED vm /\ UNCHANGED interrupt /\ UNCHANGED registered
    BY <1>1, <1>2, <1>9
       DEF Prepare, Begin, StartTrace, Finish, WriteMeta, Close, Fails, PhasesLeft
  <2>2. QED
    BY <1>1, <1>2, <1>4, <1>6, <2>1
<1>10. CASE Instantiate
  <2>1. /\ p1 < p
        /\ UNCHANGED vm /\ UNCHANGED interrupt /\ UNCHANGED registered
    BY <1>1, <1>2, <1>10 DEF Instantiate, Fails, PhasesLeft, ChargedInv
  <2>2. QED
    BY <1>1, <1>2, <1>4, <1>6, <2>1
<1>11. CASE OnFinished \/ OnTrap \/ OnSegfault \/ OnNotEnoughGas \/ OnRunError
            \/ (OnEcalli /\ phase' = "finish")
  <2>1. /\ p1 < p
        /\ UNCHANGED vm /\ UNCHANGED registered
        /\ interrupt' = interrupt \/ interrupt' = NoInterrupt
    BY <1>1, <1>2, <1>11
       DEF OnFinished, OnTrap, OnSegfault, OnNotEnoughGas, OnRunError, OnEcalli, LeaveLoop, Fails,
           PhasesLeft
  <2>2. QED
    BY <1>1, <1>2, <1>4, <1>6, <2>1
(* A handler that goes back to the guest has an interrupt less to handle.  *)
<1>12. CASE OnStep \/ (OnEcalli /\ phase' = "run")
  <2>1. /\ UNCHANGED vm /\ UNCHANGED phase
        /\ interrupt.kind \in {"Step", "Ecalli"} /\ interrupt' = NoInterrupt
    BY <1>12 DEF OnStep, OnEcalli, LeaveLoop
  <2>2. interrupt # NoInterrupt
    BY <2>1 DEF NoInterrupt, Interrupt
  <2>3. PICK t \in Nat : Turn' = t /\ Turn = t + 1
    BY <2>1, <2>2 DEF Turn
  <2>4. Fuel(vm.gas, vm.pc) \in Nat /\ Fuel(vm'.gas, vm'.pc) = Fuel(vm.gas, vm.pc)
    BY <2>1, DistanceParts
  <2>5. g1 < g
    <3>1. PICK f \in Nat : f = Fuel(vm.gas, vm.pc)
      BY <2>4
    <3>2. g = 4 * f + (t + 1) /\ g1 = 4 * f + t
      BY <1>1, <1>2, <2>3, <2>4, <3>1 DEF GuestDistance
    <3>3. QED
      BY <3>1, <3>2
  <2>6. c1 <= c
    <3>1. PICK more : registered' = registered \cup more
      <4>1. registered = registered \cup {}
        OBVIOUS
      <4>2. QED
        BY <1>12, <4>1 DEF OnStep, OnEcalli, LeaveLoop
    <3>2. QED
      BY <1>5, <3>1
  <2>7. p1 = p
    BY <1>1, <1>2, <2>1 DEF PhasesLeft
  <2>8. QED
    BY <1>1, <1>2, <2>5, <2>6, <2>7
<1>13. OnEcalli => phase' \in {"run", "finish"}
  BY DEF OnEcalli, LeaveLoop
<1>14. ~Returned
  BY DEF Returned
<1>15. QED
  BY <1>3, <1>7, <1>8, <1>9, <1>10, <1>11, <1>12, <1>13, <1>14 DEF Next

(* For every program and every budget, each step of trace_program brings   *)
(* it nearer to its return.                                                *)
THEOREM RecordingAlwaysComesNearer ==
  ASSUME Metered
  PROVE  Spec => RecordingComesNearer
<1>1. Init => ChargedInv /\ VmInv
  BY FrameInvInit DEF Init, ChargedInv, Prepared
<1>2. TypeOK /\ VmInv /\ ChargedInv /\ [Next]_vars => VmInv' /\ ChargedInv'
  BY VmInvStep, ChargedStep
<1>3. TypeOK /\ TypeOK' /\ VmInv /\ ChargedInv /\ [Next]_vars => [Distance' \in 0..(Distance - 1)]_vars
  BY StepComesNearer
<1>4. QED
  BY <1>1, <1>2, <1>3, TypeCorrect, PTL DEF Spec, RecordingComesNearer

-----------------------------------------------------------------------------
(* The size of the trace.                                                  *)

(* The instruction that will be reported next, or has been and not noted.  *)
Owed == IF vm.stage = "fetch" \/ interrupt.kind = "Step" THEN 1 ELSE 0

BudgetInv ==
    /\ phase \in Early \cup {"instantiate"} => Len(w.values) = 0
    /\ phase = "run" =>
          Len(w.values) + Fuel(vm.gas, vm.pc) + Owed <= Fuel(GasLimit, EntryPc) + 1
    /\ TraceFitsTheBudget

(* What is spent stays within what there is.                               *)
LEMMA WithinBudget ==
  ASSUME NEW v \in Nat, NEW f \in Nat, NEW o \in Nat, NEW b \in Nat,
         NEW g \in Nat, NEW o1 \in Nat, v + f + o <= b + 1, g + o1 <= f + o
  PROVE  v + g + o1 <= b + 1
OBVIOUS

LEMMA OneSpent ==
  ASSUME NEW v \in Nat, NEW f \in Nat, NEW b \in Nat, NEW s \in Nat, NEW t \in Nat,
         v + f + 1 <= b + 1, s <= v + 1, t <= s + 1
  PROVE  (v + 1) + f + 0 <= b + 1 /\ v + 1 <= b + 1 /\ t <= (v + 1) + 1
OBVIOUS

(* A handled Step is paid for by what was owed for it.                     *)
LEMMA OnStepBudget ==
  ASSUME TypeOK, TypeOK', Metered, VmInv, BudgetInv, OnStep
  PROVE  BudgetInv'
<1>1. /\ phase = "run" /\ phase' = "run" /\ UNCHANGED vm
      /\ interrupt.kind = "Step" /\ interrupt'.kind = "none" /\ vm.stage = "exec"
  BY DEF OnStep, NoInterrupt, Interrupt, VmInv
<1>2. PICK v \in Nat, s \in Nat : v = Len(w.values) /\ s = Len(w.steps)
  BY WriterFields, LenProperties DEF TypeOK
<1>3. Len(w'.values) = v + 1
  <2>1. PICK shot : /\ shot \in [pc : PCs, operand : Nat, step : Nat]
                    /\ w'.values = Append(w.values, shot)
    <3>1. Len(w'.steps) \in Nat
      BY WriterFields, LenProperties DEF TypeOK
    <3>2. QED
      BY <3>1, OnStepSteps
  <2>2. w.values \in Seq([pc : PCs, operand : Nat, step : Nat])
    BY WriterFields DEF TypeOK
  <2>3. Len(Append(w.values, shot)) = Len(w.values) + 1
    BY <2>1, <2>2, AppendProperties
  <2>4. QED
    BY <1>2, <2>1, <2>3
<1>4. PICK t \in Nat : t = Len(w'.steps) /\ t <= s + 1
  <2>1. PICK here : /\ here \in Location
                    /\ w'.steps = w.steps \/ w'.steps = Append(w.steps, here)
    BY OnStepSteps
  <2>2. w.steps \in Seq(Location)
    BY WriterFields DEF TypeOK
  <2>3. Len(Append(w.steps, here)) = Len(w.steps) + 1
    BY <2>1, <2>2, AppendProperties
  <2>4. QED
    BY <1>2, <2>1, <2>3
<1>5. PICK f \in Nat : f = Fuel(vm.gas, vm.pc)
  BY DistanceParts
<1>6. PICK b \in Nat : b = Fuel(GasLimit, EntryPc)
  BY FuelIsNat, CodeAssumption, EngineAssumption DEF Metered
<1>7. Owed = 1 /\ Owed' = 0
  BY <1>1 DEF Owed
<1>8. v + f + 1 <= b + 1 /\ s <= v + 1
  BY <1>1, <1>2, <1>5, <1>6, <1>7 DEF BudgetInv, TraceFitsTheBudget
<1>9. (v + 1) + f + 0 <= b + 1 /\ v + 1 <= b + 1 /\ t <= (v + 1) + 1
  BY <1>2, <1>4, <1>5, <1>6, <1>8, OneSpent
<1>10. QED
  BY <1>1, <1>3, <1>4, <1>5, <1>6, <1>7, <1>9 DEF BudgetInv, TraceFitsTheBudget, Early

(* Every step stays within the budget.                                     *)
LEMMA BudgetStep ==
  ASSUME TypeOK, TypeOK', Metered, VmInv, ChargedInv, StepInv, BudgetInv, [Next]_vars
  PROVE  BudgetInv'
<1>1. PICK v \in Nat, s \in Nat, f \in Nat, b \in Nat :
        /\ v = Len(w.values) /\ s = Len(w.steps)
        /\ f = Fuel(vm.gas, vm.pc) /\ b = Fuel(GasLimit, EntryPc)
  <2>1. Len(w.values) \in Nat /\ Len(w.steps) \in Nat
    BY WriterFields, LenProperties DEF TypeOK
  <2>2. Fuel(vm.gas, vm.pc) \in Nat
    BY DistanceParts
  <2>3. Fuel(GasLimit, EntryPc) \in Nat
    BY FuelIsNat, CodeAssumption, EngineAssumption DEF Metered
  <2>4. QED
    BY <2>1, <2>2, <2>3
<1>2. CASE OnStep
  BY <1>2, OnStepBudget
<1>3. CASE StartTrace
  <2>1. phase \in Early /\ w.steps = <<>> /\ v = 0
    BY <1>1, <1>3 DEF StartTrace, StepInv, BudgetInv, Early
  <2>2. w'.values = w.values /\ w'.steps = <<At(BlobPath, 1, 0)>> /\ phase' = "instantiate"
    BY <1>3, <2>1, StartTraceSteps
  <2>3. Len(w'.steps) = 1
    BY <2>2
  <2>4. Len(w'.values) = 0
    BY <1>1, <2>1, <2>2
  <2>5. 0 <= b + 1 /\ 1 <= 0 + 1
    BY <1>1
  <2>6. QED
    BY <1>1, <2>2, <2>3, <2>4, <2>5 DEF BudgetInv, TraceFitsTheBudget
<1>4. ASSUME ~OnStep, ~StartTrace
      PROVE  w'.values = w.values /\ w'.steps = w.steps /\ TraceFitsTheBudget'
  BY <1>4, ShapeKeepsSteps DEF SameSteps, BudgetInv, TraceFitsTheBudget
<1>5. CASE RunGuest
  <2>1. phase = "run" /\ phase' = "run" /\ ~OnStep /\ ~StartTrace
    BY <1>5 DEF RunGuest, Run, OnStep, StartTrace, NoInterrupt, Interrupt
  <2>2. PICK g \in Nat : g = Fuel(vm'.gas, vm'.pc)
    BY <1>5, RunPays
  <2>3. PICK o \in Nat, o1 \in Nat : o = Owed /\ o1 = Owed' /\ g + o1 <= f + o
    <3>1. Owed \in {0, 1} /\ Owed' \in {0, 1}
      BY DEF Owed
    <3>2. \/ Owed = 1 /\ g = f
          \/ Owed' = 0 /\ g = f
          \/ g + 1 <= f
      BY <1>1, <1>5, <2>2, RunPays DEF Owed, Interrupt
    <3>3. QED
      BY <1>1, <2>2, <3>1, <3>2
  <2>4. v + f + o <= b + 1
    BY <1>1, <2>1, <2>3 DEF BudgetInv
  <2>5. v + g + o1 <= b + 1
    <3>1. g + o1 <= f + o
      BY <2>3
    <3>2. QED
      BY <2>4, <3>1, WithinBudget
  <2>6. QED
    BY <1>1, <1>4, <2>1, <2>2, <2>3, <2>5 DEF BudgetInv, Early
<1>6. CASE Instantiate
  <2>1. phase = "instantiate" /\ phase' \in {"run", "err"} /\ vm' = Prepared /\ v = 0
        /\ ~OnStep /\ ~StartTrace
    BY <1>1, <1>6 DEF Instantiate, Fails, ChargedInv, BudgetInv, OnStep, StartTrace
  <2>2. Fuel(vm'.gas, vm'.pc) = b /\ Owed' = 1
    BY <1>1, <2>1 DEF Prepared, Metered, Owed
  <2>3. w'.values = w.values /\ TraceFitsTheBudget'
    BY <1>4, <2>1
  <2>4. Len(w'.values) = 0
    BY <1>1, <2>1, <2>3
  <2>5. QED
    <3>1. b = Fuel(GasLimit, EntryPc) /\ 0 + b + 1 <= b + 1
      BY <1>1
    <3>2. Len(w'.values) + Fuel(vm'.gas, vm'.pc) + Owed' <= Fuel(GasLimit, EntryPc) + 1
      BY <2>2, <2>4, <3>1
    <3>3. phase' \notin Early \cup {"instantiate"}
      BY <2>1 DEF Early
    <3>4. QED
      BY <2>3, <3>2, <3>3 DEF BudgetInv
<1>7. CASE OnEcalli /\ phase' = "run"
  <2>1. /\ phase = "run" /\ UNCHANGED vm /\ ~OnStep /\ ~StartTrace
        /\ Owed = 1 /\ Owed' = 1
    BY <1>7 DEF OnEcalli, LeaveLoop, OnStep, StartTrace, VmInv, Owed
  <2>2. QED
    BY <1>1, <1>4, <1>7, <2>1 DEF BudgetInv, Early
<1>8. CASE Prepare \/ Begin \/ RegisterSource \/ RegisterBlob
  <2>1. /\ phase \in Early /\ phase' # "run" /\ ~OnStep /\ ~StartTrace
    BY <1>8 DEF Prepare, Begin, RegisterSource, RegisterBlob, Fails, OnStep, StartTrace, Early
  <2>2. QED
    BY <1>1, <1>4, <2>1 DEF BudgetInv
<1>9. CASE \/ OnFinished \/ OnTrap \/ OnSegfault \/ OnNotEnoughGas \/ OnRunError
           \/ OnEcalli /\ phase' # "run"
           \/ Finish \/ WriteMeta \/ Close
  <2>1. phase' \notin Early \cup {"instantiate", "run"} /\ ~OnStep /\ ~StartTrace
    BY <1>9 DEF OnFinished, OnTrap, OnSegfault, OnNotEnoughGas, OnRunError, OnEcalli, LeaveLoop,
                Finish, WriteMeta, Close, Fails, OnStep, StartTrace, Early
  <2>2. QED
    BY <1>4, <2>1 DEF BudgetInv
<1>10. CASE UNCHANGED vars \/ Returned
  <2>1. UNCHANGED vars
    BY <1>10 DEF Returned
  <2>2. QED
    BY <2>1 DEF vars, BudgetInv, TraceFitsTheBudget, Owed
<1>11. QED
  BY <1>2, <1>3, <1>5, <1>6, <1>7, <1>8, <1>9, <1>10 DEF Next

(* For every program and every budget, the trace is no longer than the     *)
(* budget allows.                                                          *)
THEOREM BudgetBoundsTheTrace ==
  ASSUME Metered
  PROVE  Spec => []TraceFitsTheBudget
<1>1. Init => ChargedInv /\ VmInv /\ StepInv
  BY FrameInvInit, StepInvInit DEF Init, ChargedInv, Prepared
<1>2. Init => BudgetInv
  <2>1. SUFFICES ASSUME Init PROVE BudgetInv
    OBVIOUS
  <2>2. Len(w.values) = 0 /\ Len(w.steps) = 0 /\ phase = "prepare"
    BY <2>1 DEF Init, NewWriter
  <2>3. Fuel(GasLimit, EntryPc) \in Nat
    BY FuelIsNat, CodeAssumption, EngineAssumption DEF Metered
  <2>4. QED
    BY <2>2, <2>3 DEF BudgetInv, TraceFitsTheBudget
<1>3. /\ TypeOK /\ TypeOK' /\ VmInv /\ ChargedInv /\ StepInv /\ BudgetInv /\ [Next]_vars
      => VmInv' /\ ChargedInv' /\ StepInv' /\ BudgetInv'
  BY VmInvStep, ChargedStep, StepInvStep, BudgetStep
<1>4. BudgetInv => TraceFitsTheBudget
  BY DEF BudgetInv
<1>5. QED
  BY <1>1, <1>2, <1>3, <1>4, TypeCorrect, PTL DEF Spec
=============================================================================
