-------------------------------- MODULE HexText --------------------------------
(***************************************************************************)
(* How replay (main.rs) decodes the text of its calldata option.  A text   *)
(* is the sequence of its UTF-8 bytes, of which only their class matters:  *)
(* "0" and "x" can be a prefix, "0" and "f" are digits, "+" is the sign    *)
(* that from_str_radix takes before a digit, "z" is any other character of *)
(* one byte, "lead" and "cont" are those of a character of two.            *)
(***************************************************************************)
EXTENDS Naturals, Sequences

Bytes == {"0", "x", "f", "+", "z", "lead", "cont"}
Digits == {"0", "f"}

(* The operating system hands over whole characters.                       *)
IsText(s) ==
    \A k \in 1..Len(s) :
        /\ s[k] = "lead" => k < Len(s) /\ s[k + 1] = "cont"
        /\ s[k] = "cont" => k > 1 /\ s[k - 1] = "lead"

HasPrefix(text) == Len(text) >= 2 /\ text[1] = "0" /\ text[2] = "x"

(* strip_prefix("0x").                                                     *)
Strip(text) == IF HasPrefix(text) THEN SubSeq(text, 3, Len(text)) ELSE text

(* Mutant: every byte starts a pair.                                       *)
EveryStart(s) == 1..Len(s)

(* (0..len).step_by(2).                                                    *)
Starts(s) == {k \in 1..Len(s) : k % 2 = 1}

Boundary(s, k) == k = Len(s) + 1 \/ (k \in 1..Len(s) /\ s[k] # "cont")

(* A slice of two bytes must end by the end of the text and cut no         *)
(* character.                                                              *)
Pair(s, k) ==
    IF ~Boundary(s, k) \/ ~Boundary(s, k + 2) THEN "panic"
    ELSE IF s[k] \in Digits \cup {"+"} /\ s[k + 1] \in Digits THEN "byte"
    ELSE "err"

(* The pairs are decoded in order, up to the first that is no byte.        *)
Decode(text) ==
    LET s == Strip(text)
        Stops(k) == Pair(s, k) # "byte" /\ \A j \in Starts(s) : j < k => Pair(s, j) = "byte"
    IN  CASE \A k \in Starts(s) : Pair(s, k) = "byte" -> "bytes"
          [] \E k \in Starts(s) : Stops(k) /\ Pair(s, k) = "err" -> "err"
          [] OTHER -> "panic"

(* What the option's help calls hex-encoded: whole pairs of digits.        *)
IsHex(text) ==
    LET s == Strip(text)
    IN  Len(s) % 2 = 0 /\ \A k \in 1..Len(s) : s[k] \in Digits
=============================================================================
