------------------------------- MODULE StepTrace -------------------------------
(***************************************************************************)
(* What the step stream of a trace promises, whatever else is recorded:    *)
(* the locations the guest visited, in order, each maximal run of visits   *)
(* to one location told once ("Same-(path, line, column) re-entries are    *)
(* deduplicated", tracer.rs).                                              *)
(***************************************************************************)
EXTENDS Naturals, Sequences

CONSTANT Places   \* the locations a guest can visit

VARIABLES
    visited,  \* every visit so far
    steps     \* the steps told

Ends(s, l) == s # <<>> /\ s[Len(s)] = l

Init == visited = <<>> /\ steps = <<>>

Visit(l) ==
    /\ visited' = Append(visited, l)
    /\ steps' = IF Ends(visited, l) THEN steps ELSE Append(steps, l)

Next == \E l \in Places : Visit(l)

Spec == Init /\ [][Next]_<<visited, steps>>

(* No two adjacent steps are at the same place, nothing visited is missing *)
(* from the steps, and the last step is where the guest is.                *)
Stuttering == \E k \in 1..(Len(steps) - 1) : steps[k] = steps[k + 1]

Destuttered ==
    /\ ~Stuttering
    /\ \A k \in 1..Len(visited) : \E j \in 1..Len(steps) : steps[j] = visited[k]
    /\ visited # <<>> => Ends(steps, visited[Len(visited)])
=============================================================================
