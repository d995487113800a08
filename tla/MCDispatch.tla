----------------------------- MODULE MCDispatch -----------------------------
(* Two files of one directory and one of another. *)
EXTENDS Dispatch

CONSTANTS d1, d2, f, g

MCPath == {[dir |-> d1, name |-> f], [dir |-> d1, name |-> g], [dir |-> d2, name |-> f]}
=============================================================================
