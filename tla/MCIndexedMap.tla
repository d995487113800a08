---------------------------- MODULE MCIndexedMap ----------------------------
(***************************************************************************)
(* Chunks of two slots: a chunk may be empty, partly or fully occupied.    *)
(* Two chunks: each may be the first on the list of free chunks, the last, *)
(* or not there. Two values, to tell one element from another.             *)
(***************************************************************************)
EXTENDS IndexedMapIteration
=============================================================================
