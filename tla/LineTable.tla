------------------------------- MODULE LineTable -------------------------------
(***************************************************************************)
(* line_table_for_path of tracer.rs: the lengths of a file's lines, found  *)
(* in one pass over its bytes.  A byte is a newline, NL, or another.       *)
(*                                                                         *)
(* `ends' is a history variable: where each finished line ended.           *)
(***************************************************************************)
EXTENDS Integers, Sequences

CONSTANTS
    Bytes,    \* the bytes told apart
    Files,    \* the contents a file may have
    NL,       \* the newline byte
    MaxLen    \* the largest u32

ASSUME LineTableAssumption ==
    /\ Files \subseteq Seq(Bytes)
    /\ MaxLen \in Nat \ {0}

VARIABLES
    bytes,        \* what fs::read gave
    i,            \* bytes scanned
    lines,        \* the table so far
    current_len,  \* bytes of the line being scanned
    stage,        \* "scan", "fix", "done", or "panic": lines[0] of no lines
    ends          \* history: the positions of the scanned newlines

vars == <<bytes, i, lines, current_len, stage, ends>>

(* Mutant: the addition does not saturate.                                 *)
Unbounded(n) == n

Saturating(n) == IF n > MaxLen THEN MaxLen ELSE n

Init ==
    /\ bytes \in Files
    /\ i = 0 /\ lines = <<>> /\ current_len = 0 /\ ends = <<>>
    /\ stage = "scan"

(* Mutant: the length is counted with its newline.                         *)
ScanCountsNewline ==
    /\ stage = "scan" /\ i < Len(bytes)
    /\ i' = i + 1
    /\ IF bytes[i + 1] = NL
       THEN /\ lines' = Append(lines, current_len)
            /\ ends' = Append(ends, i + 1)
            /\ current_len' = 1
       ELSE /\ current_len' = Saturating(current_len + 1)
            /\ UNCHANGED <<lines, ends>>
    /\ UNCHANGED <<bytes, stage>>

(* One turn of the loop.                                                   *)
Scan ==
    /\ stage = "scan" /\ i < Len(bytes)
    /\ i' = i + 1
    /\ IF bytes[i + 1] = NL
       THEN /\ lines' = Append(lines, current_len)
            /\ ends' = Append(ends, i + 1)
            /\ current_len' = 0
       ELSE /\ current_len' = Saturating(current_len + 1)
            /\ UNCHANGED <<lines, ends>>
    /\ UNCHANGED <<bytes, stage>>

EndsInNewline == bytes # <<>> /\ bytes[Len(bytes)] = NL

(* Mutant: an unfinished last line counts only when it holds something.    *)
LastLineOfBytes ==
    /\ stage = "scan" /\ i = Len(bytes)
    /\ lines' = IF current_len > 0 THEN Append(lines, current_len) ELSE lines
    /\ stage' = "fix"
    /\ UNCHANGED <<bytes, i, current_len, ends>>

(* A last line without a newline counts, also in an empty file.            *)
LastLine ==
    /\ stage = "scan" /\ i = Len(bytes)
    /\ lines' = IF current_len > 0 \/ ~EndsInNewline THEN Append(lines, current_len) ELSE lines
    /\ stage' = "fix"
    /\ UNCHANGED <<bytes, i, current_len, ends>>

(* A file whose lines hold nothing gives its first line one position.      *)
FirstPosition ==
    /\ stage = "fix"
    /\ IF \E k \in 1..Len(lines) : lines[k] # 0
       THEN stage' = "done" /\ lines' = lines
       ELSE IF lines = <<>> THEN stage' = "panic" /\ lines' = lines
       ELSE stage' = "done" /\ lines' = [lines EXCEPT ![1] = 1]
    /\ UNCHANGED <<bytes, i, current_len, ends>>

Finished == stage \in {"done", "panic"} /\ UNCHANGED vars

Next == Scan \/ LastLine \/ FirstPosition \/ Finished

Spec == Init /\ [][Next]_vars

-----------------------------------------------------------------------------
(* Every variable of line_table_for_path stays in its domain: no width     *)
(* leaves the u32.                                                         *)
TypeOK ==
    /\ bytes \in Files
    /\ i \in 0..Len(bytes)
    /\ lines \in Seq(0..MaxLen) /\ current_len \in 0..MaxLen /\ ends \in Seq(Nat)
    /\ stage \in {"scan", "fix", "done", "panic"}

(* Line k lies between two ends; the end of an unfinished last line is the *)
(* end of the file.                                                        *)
LineEnd(k) ==
    IF k = 0 THEN 0 ELSE IF k \in 1..Len(ends) THEN ends[k] ELSE Len(bytes) + 1

Width(k) == LineEnd(k) - LineEnd(k - 1) - 1

Blank == \A k \in 1..Len(lines) : Width(k) = 0

(* The table of line_table_for_path has an entry for every line of the     *)
(* file, "excluding the trailing \n", a last line without one included,   *)
(* and gives the first line of a blank file one position.                  *)
TableDescribesFile ==
    stage = "done" =>
        /\ {ends[k] : k \in 1..Len(ends)} = {p \in 1..Len(bytes) : bytes[p] = NL}
        /\ \A j, k \in 1..Len(ends) : j < k => ends[j] < ends[k]
        /\ Len(lines) = Len(ends) + (IF EndsInNewline THEN 0 ELSE 1)
        /\ \A k \in 1..Len(lines) :
              lines[k] = IF Blank /\ k = 1 THEN 1 ELSE Saturating(Width(k))

(* "so the file has a non-zero size": whatever the file holds, the table   *)
(* has a position to give, and lines[0] exists when it is written to.      *)
TableIsUsable ==
    /\ stage # "panic"
    /\ stage = "done" => \E k \in 1..Len(lines) : lines[k] > 0
=============================================================================
