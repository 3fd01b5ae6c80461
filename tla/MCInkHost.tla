------------------------------- MODULE MCInkHost -------------------------------
(***************************************************************************)
(* A contract with four cells, one of them read-only.                      *)
(***************************************************************************)
EXTENDS InkHost

MCInput == <<1>>

(* Nothing, or the value of a key that a test put there.                   *)
MCSetups == {[k \in {} |-> <<>>], [k \in {<<1>>} |-> <<0>>]}
=============================================================================
