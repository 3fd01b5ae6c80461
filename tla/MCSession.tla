-------------------------------- MODULE MCSession --------------------------------
(***************************************************************************)
(* Files and calldata for checking Session.                                *)
(***************************************************************************)
EXTENDS Session

(* Two contracts, of which the shorter one hides the beginning of the      *)
(* other, and the beginning of the longer one, which is no program.        *)
Long == <<"a", "b">>
Short == <<"c">>
SomeContents == {Long, Short, <<"a">>}

(* The tail of the longer one may go with the shorter one.                 *)
SomeValid == {Long, Short, <<"c", "b">>}
SomeLeftovers == {Missing, Long}

(* One text for each thing that may happen to it.                          *)
SomeTexts ==
    {<<"0", "x", "f", "f">>, <<"f", "z">>, <<"f", "0", "f">>, <<"z", "lead", "cont">>}

MaxText == 5

AllTexts == {s \in UNION {[1..n -> Bytes] : n \in 0..MaxText} : IsText(s)}
=============================================================================
