------------------------------- MODULE Recording -------------------------------
(***************************************************************************)
(* What trace_program promises whoever calls it, whatever the program does *)
(* and whatever fails: nothing is begun of a blob that does not parse, a   *)
(* call that succeeds leaves a complete bundle, and one that fails leaves  *)
(* what it had begun, which is never complete ("bundle" is what the call   *)
(* puts into the output directory).                                        *)
(***************************************************************************)
VARIABLES
    stage,   \* "parse", "begin", "record", or how the call returned
    bundle   \* "none", "partial" or "complete"

vars == <<stage, bundle>>

Init == stage = "parse" /\ bundle = "none"

Parse == stage = "parse" /\ stage' = "begin" /\ UNCHANGED bundle

Begin == stage = "begin" /\ stage' = "record" /\ bundle' = "partial"

Complete == stage = "record" /\ stage' = "ok" /\ bundle' = "complete"

Fail == stage \in {"parse", "begin", "record"} /\ stage' = "err" /\ UNCHANGED bundle

Next == Parse \/ Begin \/ Complete \/ Fail

Spec == Init /\ [][Next]_vars

(* What a caller may conclude from how the call returned.                  *)
Outcome ==
    /\ stage \in {"parse", "begin"} => bundle = "none"
    /\ stage = "record" => bundle = "partial"
    /\ stage = "ok" <=> bundle = "complete"
=============================================================================
