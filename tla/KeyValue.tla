------------------------------- MODULE KeyValue -------------------------------
(***************************************************************************)
(* What a contract may expect of its storage: a map from keys to values    *)
(* that answers every get with the last value set under that key.          *)
(***************************************************************************)
CONSTANTS Keys, Values, Absent

VARIABLES
    store,   \* the value of every key, or Absent
    answer   \* what the last storage call told the contract

Tell(is, value) == [is |-> is, value |-> value]

Nothing == Tell("nothing", Absent)

(* The map may hold something before the contract runs.                    *)
Init == store \in [Keys -> Values \cup {Absent}] /\ answer = Nothing

Set(k, v) ==
    /\ store' = [store EXCEPT ![k] = v]
    /\ answer' = Tell(IF store[k] = Absent THEN "new" ELSE "overwritten", Absent)

Get(k) ==
    /\ answer' = IF store[k] = Absent THEN Tell("missing", Absent) ELSE Tell("found", store[k])
    /\ UNCHANGED store

(* The contract does something else.                                       *)
Forget == answer' = Nothing /\ UNCHANGED store

Next ==
    \/ \E k \in Keys, v \in Values : Set(k, v)
    \/ \E k \in Keys : Get(k)
    \/ Forget

Spec == Init /\ [][Next]_<<store, answer>>
=============================================================================
