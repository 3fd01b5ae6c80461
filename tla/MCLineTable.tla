------------------------------ MODULE MCLineTable ------------------------------
(***************************************************************************)
(* All files of up to six bytes, the empty one and the blank ones among    *)
(* them, with lines longer than the counter's largest value.               *)
(***************************************************************************)
EXTENDS LineTable, SequencesExt

CONSTANT x   \* a byte that is no newline

MCBytes == {NL, x}
MCFiles == SeqOf(MCBytes, 6)
=============================================================================
