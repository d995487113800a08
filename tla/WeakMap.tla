------------------------------ MODULE WeakMap ------------------------------
(***************************************************************************)
(* What a container with weak handles promises: adding a value gives a     *)
(* handle that no other value had since the container was cleared, the     *)
(* handle finds this value as long as it is there, and nothing afterwards. *)
(***************************************************************************)
CONSTANTS
    Value,      \* what can be stored, other than "unused" and "gone"
    Handle      \* what can be given out

VARIABLE holds  \* holds[h]: the value that h finds, "unused" before h is given
                \* out, "gone" after its value was removed

Init == holds = [h \in Handle |-> "unused"]

Add(h, v) ==
    /\ holds[h] = "unused"
    /\ holds' = [holds EXCEPT ![h] = v]

Remove(h) ==
    /\ holds[h] \in Value
    /\ holds' = [holds EXCEPT ![h] = "gone"]

Clear == holds' = [h \in Handle |-> "unused"]

Next ==
    \/ \E h \in Handle, v \in Value : Add(h, v)
    \/ \E h \in Handle : Remove(h)
    \/ Clear

Spec == Init /\ [][Next]_holds
=============================================================================
