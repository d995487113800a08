------------------------------ MODULE TreeWalk ------------------------------
(***************************************************************************)
(* What a walk of a directory tree promises, whoever does the work:        *)
(* an entry is reported once, while the directory it was found in is still *)
(* open, and a directory is closed once, after every entry of it was       *)
(* reported or after its listing failed.                                   *)
(***************************************************************************)
EXTENDS Sequences

CONSTANTS
    Node,       \* files and directories of the walked trees
    Entries,    \* Entries[n]: the sequence of nodes found in n when it is listed
    Inputs      \* the sequence of nodes passed to FileTree::walk

VARIABLES
    reports,    \* reports[n]: the callback's Type arguments for n, in order
    open        \* the nodes whose file descriptor is open

walk == <<reports, open>>

Unseen(n) == reports[n] = <<>>

Reachable(n) ==
    \/ \E i \in DOMAIN Inputs : Inputs[i] = n
    \/ \E p \in open : \E i \in DOMAIN Entries[p] : Entries[p][i] = n

Init ==
    /\ reports = [n \in Node |-> <<>>]
    /\ open = {}

\* A node is found: a file, a node that cannot be opened, or a directory
\* which the callback refuses.
Report(n) ==
    /\ Unseen(n)
    /\ Reachable(n)
    /\ \E type \in {"File", "OpenError", "Directory"} :
           reports' = [reports EXCEPT ![n] = <<type>>]
    /\ open' = open

\* A directory is found and the callback wants to descend into it.
Descend(n) ==
    /\ Unseen(n)
    /\ Reachable(n)
    /\ reports' = [reports EXCEPT ![n] = <<"Directory">>]
    /\ open' = open \cup {n}

\* The listing fails before any entry is reported.
Fail(n) ==
    /\ n \in open
    /\ reports[n] = <<"Directory">>
    /\ \A i \in DOMAIN Entries[n] : Unseen(Entries[n][i])
    /\ reports' = [reports EXCEPT ![n] = Append(@, "OpenDirError")]
    /\ open' = open \ {n}

\* A directory is closed when all its entries were reported.
Close(n) ==
    /\ n \in open
    /\ \A i \in DOMAIN Entries[n] : ~Unseen(Entries[n][i])
    /\ open' = open \ {n}
    /\ reports' = reports

Next == \E n \in Node : Report(n) \/ Descend(n) \/ Fail(n) \/ Close(n)

Spec == Init /\ [][Next]_walk
=============================================================================
