----------------------------- MODULE MCFileTree -----------------------------
(* Two inputs; the first is a directory with two subdirectories, the first  *)
(* of which contains a file.                                                *)
EXTENDS FileTree

CONSTANTS root, sub, file, other, second

MCNode == {root, sub, file, other, second}

MCEntries == [n \in MCNode |-> CASE n = root -> <<sub, other>>
                                 [] n = sub -> <<file>>
                                 [] OTHER -> <<>>]

MCMaybeDir == MCNode \ {file}

MCInputs == <<root, second>>
=============================================================================
