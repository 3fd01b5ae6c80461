-------------------------------- MODULE InkHost --------------------------------
(***************************************************************************)
(* InkHostHandler of ink_testing.rs: the simulated ink! host functions,    *)
(* called by a contract through pointers into its memory, and what the     *)
(* Ecalli arm of run_step_loop makes of the handler's verdict.             *)
(*                                                                         *)
(* Memory is a few cells, each a byte; the four little-endian bytes of a   *)
(* length are one cell.  The contract may pass any pointers; a buffer is    *)
(* sound when it can be written, is large enough and does not overlap the  *)
(* cell of the length.                                                     *)
(*                                                                         *)
(* `last' is a history variable: the last call, and where its answer is if *)
(* the contract passed sound buffers for it.                               *)
(***************************************************************************)
EXTENDS Integers, Sequences

CONSTANTS
    Cells,      \* mapped addresses, 0..n
    ReadOnly,   \* those of them that cannot be written
    ByteValues, \* what a cell holds, 0..m
    MaxData,    \* the longest key or value a call passes
    Input,      \* input_data: selector and arguments
    Setups,     \* the storages a test inserts with set_storage
    Unset       \* return_data's None, and no answer

Data == UNION {[1..n -> ByteValues] : n \in 0..MaxData}

ASSUME InkHostAssumption ==
    /\ ReadOnly \subseteq Cells /\ Cells \subseteq Nat /\ MaxData \in Nat
    /\ 0..MaxData \subseteq ByteValues
    /\ Input \in Data
    /\ Unset \notin Data
    /\ \A s \in Setups : DOMAIN s \subseteq Data /\ \A k \in DOMAIN s : s[k] \in Data

VARIABLES
    memory,       \* the contract's
    a0,           \* the register A0
    storage,      \* the key-value map
    return_data,
    loop,         \* run_step_loop: "running", "returned" or "unknown"
    errors,       \* unhandled_host_function events recorded
    last

vars == <<memory, a0, storage, return_data, loop, errors, last>>

Pointers == Cells \cup {99}
Lengths == 0..MaxData

Span(ptr, len) == ptr..(ptr + len - 1)

CanRead(ptr, len) == Span(ptr, len) \subseteq Cells
CanWrite(ptr, len) == Span(ptr, len) \subseteq Cells \ ReadOnly

(* read_guest_memory: what cannot be read is read as nothing.              *)
Read(mem, ptr, len) ==
    IF CanRead(ptr, len) THEN [k \in 1..len |-> mem[ptr + k - 1]] ELSE <<>>

(* write_guest_memory: what cannot be written is not written, silently.    *)
Write(mem, ptr, data) ==
    IF CanWrite(ptr, Len(data))
    THEN [a \in Cells |-> IF a \in Span(ptr, Len(data)) THEN data[a - ptr + 1] ELSE mem[a]]
    ELSE mem

Answer(call, key, out, len_out) == [call |-> call, key |-> key, out |-> out, len_out |-> len_out]

Init ==
    /\ memory \in [Cells -> {0}]
    /\ a0 = 0
    /\ storage \in Setups
    /\ return_data = Unset
    /\ loop = "running" /\ errors = 0
    /\ last = Answer("none", <<>>, 0, 0)

(* The contract computes: it writes a byte.                                *)
Poke ==
    /\ loop = "running"
    /\ \E a \in Cells \ ReadOnly, b \in ByteValues : memory' = [memory EXCEPT ![a] = b]
    /\ last' = Answer("none", <<>>, 0, 0)
    /\ UNCHANGED <<a0, storage, return_data, loop, errors>>

Sound(out, len_out) ==
    CanWrite(out, MaxData) /\ CanWrite(len_out, 1) /\ len_out \notin Span(out, MaxData)

Answered(call, key, out, len_out) ==
    IF Sound(out, len_out) THEN Answer(call, key, out, len_out) ELSE Answer("none", <<>>, 0, 0)

(* Mutant: the number of the bytes is not written.                         *)
DeliverBytesOnly(mem, out, len_out, data) == Write(mem, out, data)

(* Both writes of an answer: the bytes, then their number.                 *)
Deliver(mem, out, len_out, data) == Write(Write(mem, out, data), len_out, <<Len(data)>>)

SealInput ==
    /\ loop = "running"
    /\ \E out, len_out \in Pointers :
          /\ memory' = Deliver(memory, out, len_out, Input)
          /\ last' = Answered("input", <<>>, out, len_out)
    /\ a0' = 0
    /\ UNCHANGED <<storage, return_data, loop, errors>>

(* The handler's false makes the tracer record an error and leave its loop.*)
SealReturn ==
    /\ loop = "running"
    /\ \E ptr \in Pointers, len \in Lengths :
          return_data' = Read(memory, ptr, len)
    /\ loop' = "returned" /\ errors' = errors + 1
    /\ last' = Answer("none", <<>>, 0, 0)
    /\ UNCHANGED <<memory, a0, storage>>

(* Mutant: the status of a missing key is that of a found one.             *)
GetStorageAlwaysFound ==
    /\ loop = "running"
    /\ \E ptr, out, len_out \in Pointers, len \in Lengths :
          LET key == Read(memory, ptr, len)
          IN  /\ memory' = IF key \in DOMAIN storage
                           THEN Deliver(memory, out, len_out, storage[key]) ELSE memory
              /\ a0' = 0
              /\ last' = Answered("get", key, out, len_out)
    /\ UNCHANGED <<storage, return_data, loop, errors>>

GetStorage ==
    /\ loop = "running"
    /\ \E ptr, out, len_out \in Pointers, len \in Lengths :
          LET key == Read(memory, ptr, len)
          IN  /\ IF key \in DOMAIN storage
                 THEN memory' = Deliver(memory, out, len_out, storage[key]) /\ a0' = 0
                 ELSE a0' = 1 /\ UNCHANGED memory
              /\ last' = Answered("get", key, out, len_out)
    /\ UNCHANGED <<storage, return_data, loop, errors>>

SetStorage ==
    /\ loop = "running"
    /\ \E key_ptr, value_ptr \in Pointers, key_len, value_len \in Lengths :
          LET key == Read(memory, key_ptr, key_len)
              value == Read(memory, value_ptr, value_len)
          IN  /\ storage' = [k \in DOMAIN storage \cup {key} |->
                                IF k = key THEN value ELSE storage[k]]
              /\ a0' = IF key \in DOMAIN storage THEN 1 ELSE 0
              /\ last' = Answer("set", key, 0, 0)
    /\ UNCHANGED <<memory, return_data, loop, errors>>

(* Every other known host function succeeds and does nothing.              *)
OtherCall ==
    /\ loop = "running"
    /\ a0' = 0
    /\ last' = Answer("none", <<>>, 0, 0)
    /\ UNCHANGED <<memory, storage, return_data, loop, errors>>

(* Mutant: the loop goes on after an unhandled call.                       *)
UnknownCallGoesOn ==
    /\ loop = "running"
    /\ errors' = errors + 1
    /\ last' = Answer("none", <<>>, 0, 0)
    /\ UNCHANGED <<memory, a0, storage, return_data, loop>>

UnknownCall ==
    /\ loop = "running"
    /\ loop' = "unknown" /\ errors' = errors + 1
    /\ last' = Answer("none", <<>>, 0, 0)
    /\ UNCHANGED <<memory, a0, storage, return_data>>

Stopped == loop # "running" /\ UNCHANGED vars

Next ==
    \/ Poke \/ SealInput \/ SealReturn \/ GetStorage \/ SetStorage
    \/ OtherCall \/ UnknownCall \/ Stopped

Spec == Init /\ [][Next]_vars

-----------------------------------------------------------------------------
(* Memory, storage and the returned data stay in their domains, and a      *)
(* recording has at most one unhandled_host_function event: the Ecalli arm *)
(* leaves the loop at the first call the handler refuses.                  *)
TypeOK ==
    /\ memory \in [Cells -> ByteValues] /\ a0 \in {0, 1}
    /\ DOMAIN storage \subseteq Data /\ \A k \in DOMAIN storage : storage[k] \in Data
    /\ return_data \in Data \cup {Unset}
    /\ loop \in {"running", "returned", "unknown"} /\ errors \in 0..1

Store == [k \in Data |-> IF k \in DOMAIN storage THEN storage[k] ELSE Unset]

(* What the contract finds in its memory after the last call.              *)
Told ==
    CASE last.call = "set" ->
            [is |-> IF a0 = 0 THEN "new" ELSE "overwritten", value |-> Unset]
      [] last.call = "get" /\ a0 = 0 ->
            [is |-> "found", value |-> Read(memory, last.out, memory[last.len_out])]
      [] last.call = "get" /\ a0 = 1 -> [is |-> "missing", value |-> Unset]
      [] OTHER -> [is |-> "nothing", value |-> Unset]

Abstract == INSTANCE KeyValue
                WITH Keys <- Data, Values <- Data, Absent <- Unset,
                     store <- Store, answer <- Told

(* Through pointers, buffers and status codes, the storage calls of        *)
(* InkHostHandler answer as a key-value map does: a get with sound buffers *)
(* tells the last value set under the key, whatever unsound calls were     *)
(* made before, and what cannot be read is the empty key or value to every *)
(* call alike.                                                             *)
StorageIsAMap == Abstract!Spec

(* A contract that passes sound buffers is told the input it was started   *)
(* with, whatever it has done before.                                      *)
InputArrives ==
    last.call = "input" => Read(memory, last.out, memory[last.len_out]) = Input
=============================================================================
