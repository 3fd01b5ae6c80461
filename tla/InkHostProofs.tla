----------------------------- MODULE InkHostProofs -----------------------------
(***************************************************************************)
(* Proofs about InkHost: for memories, keys and values of any size, any    *)
(* pointers and any number of calls.                                       *)
(***************************************************************************)
EXTENDS InkHost, TLAPS

Memories == [Cells -> ByteValues]

-----------------------------------------------------------------------------
(* Reading and writing memory.                                             *)

(* A key or value is a sequence of a known length.                         *)
LEMMA DataHasLength ==
  ASSUME NEW n \in Nat, NEW d \in [1..n -> ByteValues]
  PROVE  Len(d) = n /\ d \in Seq(ByteValues)
<1>1. d \in Seq(ByteValues)
  OBVIOUS
<1> QED
  BY <1>1

(* A key or value has no more than MaxData bytes.                          *)
LEMMA DataLength ==
  ASSUME NEW d \in Data
  PROVE  Len(d) \in 0..MaxData /\ d \in [1..Len(d) -> ByteValues]
<1>1. PICK n \in 0..MaxData : d \in [1..n -> ByteValues]
  BY DEF Data
<1>2. n \in Nat
  BY InkHostAssumption
<1>3. Len(d) = n
  BY <1>1, <1>2, DataHasLength
<1> QED
  BY <1>1, <1>3

(* What is read is a key or value.                                         *)
LEMMA ReadGivesData ==
  ASSUME NEW mem \in Memories, NEW ptr \in Pointers, NEW len \in Lengths
  PROVE  Read(mem, ptr, len) \in Data
<1>1. ptr \in Int /\ len \in Nat /\ 0 \in 0..MaxData
  BY InkHostAssumption DEF Pointers, Lengths
<1>2. CASE CanRead(ptr, len)
  <2>1. \A k \in 1..len : ptr + k - 1 \in Cells
    BY <1>1, <1>2 DEF CanRead, Span
  <2>2. \A k \in 1..len : mem[ptr + k - 1] \in ByteValues
    BY <2>1 DEF Memories
  <2>3. [k \in 1..len |-> mem[ptr + k - 1]] \in [1..len -> ByteValues]
    BY <2>2
  <2> QED
    BY <1>2, <2>3 DEF Read, Data, Lengths
<1>3. CASE ~CanRead(ptr, len)
  <2>1. <<>> \in [1..0 -> ByteValues]
    OBVIOUS
  <2> QED
    BY <1>1, <1>3, <2>1 DEF Read, Data
<1> QED
  BY <1>2, <1>3

(* Writing bytes leaves a memory, with the bytes in it where they can be   *)
(* written and everything else as it was.                                  *)
LEMMA WriteBytes ==
  ASSUME NEW mem \in Memories, NEW ptr \in Int, NEW n \in Nat,
         NEW d \in [1..n -> ByteValues]
  PROVE  /\ Write(mem, ptr, d) \in Memories
         /\ \A a \in Cells : a \notin Span(ptr, n) => Write(mem, ptr, d)[a] = mem[a]
         /\ CanWrite(ptr, n) => \A k \in 1..n : Write(mem, ptr, d)[ptr + k - 1] = d[k]
<1>1. Len(d) = n
  BY DataHasLength
<1>2. CASE CanWrite(ptr, n)
  <2>1. PICK w : w = [a \in Cells |-> IF a \in Span(ptr, n) THEN d[a - ptr + 1] ELSE mem[a]]
    OBVIOUS
  <2>2. Write(mem, ptr, d) = w
    BY <1>1, <1>2, <2>1 DEF Write
  <2>3. \A a \in Cells : a \in Span(ptr, n) => a - ptr + 1 \in 1..n
    BY InkHostAssumption DEF Span
  <2>4. \A a \in Cells : (IF a \in Span(ptr, n) THEN d[a - ptr + 1] ELSE mem[a]) \in ByteValues
    BY <2>3 DEF Memories
  <2>5. w \in Memories
    BY <2>1, <2>4 DEF Memories
  <2>6. ASSUME NEW k \in 1..n
        PROVE  w[ptr + k - 1] = d[k]
    <3>1. ptr + k - 1 \in Span(ptr, n)
      BY DEF Span
    <3>2. ptr + k - 1 \in Cells
      BY <1>2, <3>1 DEF CanWrite
    <3>3. (ptr + k - 1) - ptr + 1 = k
      OBVIOUS
    <3> QED
      BY <2>1, <3>1, <3>2, <3>3
  <2>7. \A a \in Cells : a \notin Span(ptr, n) => w[a] = mem[a]
    BY <2>1
  <2> QED
    BY <2>2, <2>5, <2>6, <2>7
<1>3. CASE ~CanWrite(ptr, n)
  <2>1. Write(mem, ptr, d) = mem
    BY <1>1, <1>3 DEF Write
  <2> QED
    BY <1>3, <2>1
<1> QED
  BY <1>2, <1>3

(* An answer delivered through sound buffers is read back whole.           *)
LEMMA DeliveredIsRead ==
  ASSUME NEW mem \in Memories, NEW out \in Pointers, NEW len_out \in Pointers, NEW d \in Data
  PROVE  /\ Deliver(mem, out, len_out, d) \in Memories
         /\ Sound(out, len_out) =>
               Read(Deliver(mem, out, len_out, d), out, Deliver(mem, out, len_out, d)[len_out]) = d
<1>1. PICK n \in Nat : n = Len(d) /\ n \in 0..MaxData /\ d \in [1..n -> ByteValues]
  BY DataLength, InkHostAssumption
<1>2. out \in Int /\ len_out \in Int
  BY InkHostAssumption DEF Pointers
<1>3. PICK m : m = Write(mem, out, d)
  OBVIOUS
<1>4. /\ m \in Memories
      /\ CanWrite(out, n) => \A k \in 1..n : m[out + k - 1] = d[k]
  <2>1. n \in Nat /\ d \in [1..n -> ByteValues] /\ out \in Int
    BY <1>1, <1>2
  <2>2. Write(mem, out, d) \in Memories
    BY <2>1, WriteBytes
  <2>3. CanWrite(out, n) => \A k \in 1..n : Write(mem, out, d)[out + k - 1] = d[k]
    BY <2>1, WriteBytes
  <2> QED
    BY <1>3, <2>2, <2>3
<1>5. PICK one : one = <<n>>
  OBVIOUS
<1>6. one \in [1..1 -> ByteValues] /\ one[1] = n
  BY <1>1, <1>5, InkHostAssumption
<1>7. PICK w : w = Write(m, len_out, one)
  OBVIOUS
<1>8. w = Deliver(mem, out, len_out, d)
  BY <1>1, <1>3, <1>5, <1>7 DEF Deliver
<1>9. /\ w \in Memories
      /\ \A a \in Cells : a \notin Span(len_out, 1) => w[a] = m[a]
      /\ CanWrite(len_out, 1) => w[len_out + 1 - 1] = one[1]
  <2>1. PICK u \in Nat : u = 1
    OBVIOUS
  <2>2. one \in [1..u -> ByteValues] /\ 1 \in 1..u
    BY <1>6, <2>1
  <2>3. Write(m, len_out, one) \in Memories
    BY <1>2, <1>4, <2>2, WriteBytes
  <2>4. \A a \in Cells : a \notin Span(len_out, u) => Write(m, len_out, one)[a] = m[a]
    BY <1>2, <1>4, <2>2, WriteBytes
  <2>5. CanWrite(len_out, u) => \A k \in 1..u : Write(m, len_out, one)[len_out + k - 1] = one[k]
    BY <1>2, <1>4, <2>2, WriteBytes
  <2> QED
    BY <1>7, <2>1, <2>2, <2>3, <2>4, <2>5
<1>10. ASSUME Sound(out, len_out)
       PROVE  Read(w, out, w[len_out]) = d
  <2>1. w[len_out] = n
    <3>1. len_out + 1 - 1 = len_out
      BY <1>2
    <3> QED
      BY <1>6, <1>9, <1>10, <3>1 DEF Sound
  <2>2. Span(out, n) \subseteq Span(out, MaxData)
    BY <1>1, <1>2, InkHostAssumption DEF Span
  <2>3. CanWrite(out, n) /\ CanRead(out, n)
    BY <1>10, <2>2 DEF Sound, CanWrite, CanRead
  <2>4. ASSUME NEW k \in 1..n
        PROVE  w[out + k - 1] = d[k]
    <3>1. out + k - 1 \in Span(out, n)
      BY <1>2 DEF Span
    <3>2. out + k - 1 \in Cells
      BY <2>3, <3>1 DEF CanRead
    <3>3. out + k - 1 # len_out
      BY <1>10, <2>2, <3>1 DEF Sound
    <3>4. out + k - 1 \notin Span(len_out, 1)
      BY <1>2, <3>1, <3>3 DEF Span
    <3> QED
      BY <1>4, <1>9, <2>3, <3>2, <3>4
  <2>5. Read(w, out, n) = [k \in 1..n |-> w[out + k - 1]]
    BY <2>3 DEF Read
  <2>6. [k \in 1..n |-> w[out + k - 1]] = d
    BY <1>1, <2>4
  <2> QED
    BY <2>1, <2>5, <2>6
<1> QED
  BY <1>8, <1>9, <1>10

-----------------------------------------------------------------------------
(* The inductive invariant: only a running loop makes calls, and the last  *)
(* call's answer is where the contract will look for it.                   *)
InkInv ==
    /\ TypeOK
    /\ loop = "running" => errors = 0
    /\ InputArrives

(* The invariant holds before the contract runs.                           *)
LEMMA InkInvInit == Init => InkInv
<1> SUFFICES ASSUME Init PROVE InkInv
  OBVIOUS
<1>1. 0 \in ByteValues
  BY InkHostAssumption
<1>2. memory \in [Cells -> ByteValues]
  BY <1>1 DEF Init
<1>3. last.call = "none"
  BY DEF Init, Answer
<1> QED
  BY <1>2, <1>3, InkHostAssumption DEF Init, InkInv, TypeOK, InputArrives

(* Every host call, and every write of the contract's own, keeps the       *)
(* invariant.                                                              *)
LEMMA InkInvStep ==
  ASSUME InkInv, [Next]_vars
  PROVE  InkInv'
<1>1. /\ memory \in Memories /\ a0 \in {0, 1}
      /\ DOMAIN storage \subseteq Data /\ \A k \in DOMAIN storage : storage[k] \in Data
      /\ return_data \in Data \cup {Unset}
      /\ loop \in {"running", "returned", "unknown"} /\ errors \in 0..1
      /\ loop = "running" => errors = 0
  BY DEF InkInv, TypeOK, Memories
<1>2. CASE Poke
  <2>1. memory' \in Memories
    BY <1>1, <1>2 DEF Poke, Memories
  <2>2. last'.call = "none"
    BY <1>2 DEF Poke, Answer
  <2> QED
    BY <1>1, <1>2, <2>1, <2>2 DEF Poke, InkInv, TypeOK, InputArrives, Memories
<1>3. CASE SealInput
  <2>1. PICK out \in Pointers, len_out \in Pointers :
           /\ memory' = Deliver(memory, out, len_out, Input)
           /\ last' = Answered("input", <<>>, out, len_out)
    BY <1>3 DEF SealInput
  <2>2. Input \in Data
    BY InkHostAssumption
  <2>3. /\ memory' \in Memories
        /\ Sound(out, len_out) => Read(memory', out, memory'[len_out]) = Input
    BY <1>1, <2>1, <2>2, DeliveredIsRead
  <2>4. CASE Sound(out, len_out)
    <3>1. last'.out = out /\ last'.len_out = len_out
      BY <2>1, <2>4 DEF Answered, Answer
    <3> QED
      BY <1>1, <1>3, <2>3, <2>4, <3>1 DEF SealInput, InkInv, TypeOK, InputArrives, Memories
  <2>5. CASE ~Sound(out, len_out)
    <3>1. last'.call = "none"
      BY <2>1, <2>5 DEF Answered, Answer
    <3> QED
      BY <1>1, <1>3, <2>3, <3>1 DEF SealInput, InkInv, TypeOK, InputArrives, Memories
  <2> QED
    BY <2>4, <2>5
<1>4. CASE SealReturn
  <2>1. return_data' \in Data
    BY <1>1, <1>4, ReadGivesData DEF SealReturn
  <2>2. last'.call = "none"
    BY <1>4 DEF SealReturn, Answer
  <2> QED
    BY <1>1, <1>4, <2>1, <2>2 DEF SealReturn, InkInv, TypeOK, InputArrives, Memories
<1>5. CASE GetStorage
  <2>1. PICK ptr \in Pointers, out \in Pointers, len_out \in Pointers, len \in Lengths, key \in Data :
           /\ IF key \in DOMAIN storage
              THEN memory' = Deliver(memory, out, len_out, storage[key]) /\ a0' = 0
              ELSE a0' = 1 /\ UNCHANGED memory
           /\ last' = Answered("get", key, out, len_out)
    BY <1>1, <1>5, ReadGivesData DEF GetStorage
  <2>2. memory' \in Memories /\ a0' \in {0, 1}
    BY <1>1, <2>1, DeliveredIsRead
  <2>3. last'.call # "input"
    BY <2>1 DEF Answered, Answer
  <2> QED
    BY <1>1, <1>5, <2>2, <2>3 DEF GetStorage, InkInv, TypeOK, InputArrives, Memories
<1>6. CASE SetStorage
  <2>1. PICK key \in Data, value \in Data :
           /\ storage' = [k \in DOMAIN storage \cup {key} |->
                             IF k = key THEN value ELSE storage[k]]
           /\ a0' = IF key \in DOMAIN storage THEN 1 ELSE 0
           /\ last' = Answer("set", key, 0, 0)
    BY <1>1, <1>6, ReadGivesData DEF SetStorage
  <2>2. DOMAIN storage' \subseteq Data /\ \A k \in DOMAIN storage' : storage'[k] \in Data
    BY <1>1, <2>1
  <2>3. last'.call # "input"
    BY <2>1 DEF Answer
  <2>4. a0' \in {0, 1}
    BY <2>1
  <2> QED
    BY <1>1, <1>6, <2>2, <2>3, <2>4 DEF SetStorage, InkInv, TypeOK, InputArrives, Memories
<1>7. CASE OtherCall
  BY <1>1, <1>7 DEF OtherCall, InkInv, TypeOK, InputArrives, Memories, Answer
<1>8. CASE UnknownCall
  BY <1>1, <1>8 DEF UnknownCall, InkInv, TypeOK, InputArrives, Memories, Answer
<1>9. CASE UNCHANGED vars
  BY <1>9 DEF vars, InkInv, TypeOK, InputArrives
<1> QED
  BY <1>2, <1>3, <1>4, <1>5, <1>6, <1>7, <1>8, <1>9 DEF Next, Stopped

(* For any memory and any calls, the handler's state stays in its domains  *)
(* and the loop records at most one unhandled call.                        *)
THEOREM InkTypeCorrect == Spec => []TypeOK
<1>1. InkInv => TypeOK
  BY DEF InkInv
<1> QED
  BY <1>1, InkInvInit, InkInvStep, PTL DEF Spec

(* A contract that passes sound buffers to seal_input finds its input      *)
(* there, whatever it did before.                                          *)
THEOREM InputAlwaysArrives == Spec => []InputArrives
<1>1. InkInv => InputArrives
  BY DEF InkInv
<1> QED
  BY <1>1, InkInvInit, InkInvStep, PTL DEF Spec

-----------------------------------------------------------------------------
(* The storage calls implement a map.                                      *)
LEMMA StoreInit == Init => Abstract!Init
<1> SUFFICES ASSUME Init PROVE Abstract!Init
  OBVIOUS
<1>1. \A k \in DOMAIN storage : storage[k] \in Data
  BY InkHostAssumption DEF Init
<1>2. Store \in [Data -> Data \cup {Unset}]
  BY <1>1 DEF Store
<1>3. last.call = "none"
  BY DEF Init, Answer
<1>4. Told = [is |-> "nothing", value |-> Unset]
  BY <1>3 DEF Told
<1> QED
  BY <1>2, <1>4 DEF Abstract!Init, Abstract!Nothing, Abstract!Tell

(* A step that touches no storage and tells no answer is the map's Forget. *)
LEMMA ForgottenStep ==
  ASSUME last'.call \notin {"set", "get"}, storage' = storage
  PROVE  Abstract!Next
<1>1. Told' = [is |-> "nothing", value |-> Unset]
  BY DEF Told
<1>2. Store' = Store
  BY DEF Store
<1> QED
  BY <1>1, <1>2 DEF Abstract!Next, Abstract!Forget, Abstract!Nothing, Abstract!Tell

(* seal_set_storage is the map's Set, of the empty key or value where one  *)
(* cannot be read.                                                         *)
LEMMA SetStep ==
  ASSUME InkInv, SetStorage
  PROVE  Abstract!Next
<1>1. PICK key \in Data, value \in Data :
         /\ storage' = [k \in DOMAIN storage \cup {key} |->
                           IF k = key THEN value ELSE storage[k]]
         /\ a0' = IF key \in DOMAIN storage THEN 1 ELSE 0
         /\ last' = Answer("set", key, 0, 0)
  BY ReadGivesData DEF SetStorage, InkInv, TypeOK, Memories
<1>2. DOMAIN storage \subseteq Data /\ \A k \in DOMAIN storage : storage[k] # Unset
  BY InkHostAssumption DEF InkInv, TypeOK
<1>3. Store' = [Store EXCEPT ![key] = value]
  BY <1>1, <1>2 DEF Store
<1>4. Store[key] = Unset <=> key \notin DOMAIN storage
  BY <1>1, <1>2 DEF Store
<1>5. last'.call = "set"
  BY <1>1 DEF Answer
<1>6. Told' = [is |-> IF a0' = 0 THEN "new" ELSE "overwritten", value |-> Unset]
  BY <1>5 DEF Told
<1>7. Told' = [is |-> IF Store[key] = Unset THEN "new" ELSE "overwritten", value |-> Unset]
  BY <1>1, <1>4, <1>6
<1>8. Abstract!Set(key, value)
  BY <1>3, <1>7 DEF Abstract!Set, Abstract!Tell
<1> QED
  BY <1>1, <1>8 DEF Abstract!Next

(* seal_get_storage with sound buffers is the map's Get; with others it    *)
(* tells nothing that can be relied on.                                    *)
LEMMA GetStep ==
  ASSUME InkInv, GetStorage
  PROVE  Abstract!Next
<1>1. memory \in Memories
  BY DEF InkInv, TypeOK, Memories
<1>2. PICK out \in Pointers, len_out \in Pointers, key \in Data :
         /\ IF key \in DOMAIN storage
            THEN memory' = Deliver(memory, out, len_out, storage[key]) /\ a0' = 0
            ELSE a0' = 1 /\ UNCHANGED memory
         /\ last' = Answered("get", key, out, len_out)
  BY <1>1, ReadGivesData DEF GetStorage
<1>3. storage' = storage
  BY DEF GetStorage
<1>4. DOMAIN storage \subseteq Data /\ \A k \in DOMAIN storage : storage[k] \in Data
  BY DEF InkInv, TypeOK
<1>5. CASE ~Sound(out, len_out)
  <2>1. last'.call = "none"
    BY <1>2, <1>5 DEF Answered, Answer
  <2> QED
    BY <1>3, <2>1, ForgottenStep
<1>6. CASE Sound(out, len_out)
  <2>1. last'.call = "get" /\ last'.out = out /\ last'.len_out = len_out
    BY <1>2, <1>6 DEF Answered, Answer
  <2>2. Store' = Store
    BY <1>3 DEF Store
  <2>3. CASE key \in DOMAIN storage
    <3>1. Store[key] = storage[key] /\ Store[key] # Unset
      BY <1>4, <2>3, InkHostAssumption DEF Store
    <3>2. Read(memory', out, memory'[len_out]) = storage[key]
      BY <1>1, <1>2, <1>4, <1>6, <2>3, DeliveredIsRead
    <3>3. a0' = 0
      BY <1>2, <2>3
    <3>4. Told' = [is |-> "found", value |-> Read(memory', out, memory'[len_out])]
      BY <2>1, <3>3 DEF Told
    <3>5. Abstract!Get(key)
      BY <2>2, <3>1, <3>2, <3>4 DEF Abstract!Get, Abstract!Tell
    <3> QED
      BY <3>5 DEF Abstract!Next
  <2>4. CASE key \notin DOMAIN storage
    <3>1. Store[key] = Unset
      BY <2>4 DEF Store
    <3>2. a0' = 1
      BY <1>2, <2>4
    <3>3. Told' = [is |-> "missing", value |-> Unset]
      BY <2>1, <3>2 DEF Told
    <3>4. Abstract!Get(key)
      BY <2>2, <3>1, <3>3 DEF Abstract!Get, Abstract!Tell
    <3> QED
      BY <3>4 DEF Abstract!Next
  <2> QED
    BY <2>3, <2>4
<1> QED
  BY <1>5, <1>6

(* Every step is one of the map's, or leaves map and answer alone.         *)
LEMMA StoreStep ==
  ASSUME InkInv, [Next]_vars
  PROVE  [Abstract!Next]_<<Store, Told>>
<1>1. CASE SetStorage
  BY <1>1, SetStep
<1>2. CASE GetStorage
  BY <1>2, GetStep
<1>3. CASE SealInput
  <2>1. last'.call \notin {"set", "get"} /\ storage' = storage
    BY <1>3 DEF SealInput, Answered, Answer
  <2> QED
    BY <2>1, ForgottenStep
<1>4. CASE Poke \/ SealReturn \/ OtherCall \/ UnknownCall
  <2>1. last'.call \notin {"set", "get"} /\ storage' = storage
    BY <1>4 DEF Poke, SealReturn, OtherCall, UnknownCall, Answer
  <2> QED
    BY <2>1, ForgottenStep
<1>5. CASE UNCHANGED vars
  <2>1. Store' = Store
    BY <1>5 DEF vars, Store
  <2>2. Told' = Told
    BY <1>5 DEF vars, Told, Read, CanRead, Span
  <2> QED
    BY <2>1, <2>2
<1> QED
  BY <1>1, <1>2, <1>3, <1>4, <1>5 DEF Next, Stopped

(* Through memory, lengths and status codes the handler's storage          *)
(* implements the key-value map, for keys and values of any size and any   *)
(* pointers.                                                               *)
THEOREM StorageImplementsMap == Spec => StorageIsAMap
<1>1. Abstract!Spec <=> Abstract!Init /\ [][Abstract!Next]_<<Store, Told>>
  BY DEF Abstract!Spec
<1> QED
  BY <1>1, InkInvInit, InkInvStep, StoreInit, StoreStep, PTL DEF Spec, StorageIsAMap
=============================================================================
