----------------------------- MODULE Optimizer -----------------------------
(***************************************************************************)
(* The optimization passes over assembly code (optimize_copy_drop,         *)
(* optimize_tail_call) and the assembly of conditional jumps.              *)
(***************************************************************************)
EXTENDS Compiler

\* ca.remove(i, n)
Without(ca, i, n) == SubSeq(ca, 1, i - 1) \o SubSeq(ca, i + n, Len(ca))

IsOp(ca, i, op) == i \in DOMAIN ca /\ ca[i].op = op

\* Mutant: the parameter of the crossed CALL is not accounted for.
MoveAcrossUnadjusted(p, drop, call) == <<drop, call>>

\* The DROP which has the effect of `drop` when it stands before the CALL: the
\* parameter is on the stack then, and the return value is not.
MoveAcross(p, drop, call) ==
    <<[drop EXCEPT !.a = @ + SizeOfParameter(p[call.a]) - Size(p[call.a].ret)], call>>

\* move_drop_up: the DROP at i is moved before the CALLs it follows, as long as
\* it keeps their results.
RECURSIVE MoveDropUp(_, _, _)
MoveDropUp(p, ca, i) ==
    IF IsOp(ca, i - 1, "Call") /\ ca[i].a >= Size(p[ca[i - 1].a].ret)
    THEN MoveDropUp(p, SubSeq(ca, 1, i - 2) \o MoveAcross(p, ca[i], ca[i - 1])
                       \o SubSeq(ca, i + 1, Len(ca)), i - 1)
    ELSE ca

\* The first loop of optimize_copy_drop, from instruction i
RECURSIVE MoveDropsUp(_, _, _)
MoveDropsUp(p, ca, i) ==
    IF i > Len(ca) THEN ca
    ELSE MoveDropsUp(p, IF IsOp(ca, i, "Drop") THEN MoveDropUp(p, ca, i) ELSE ca, i + 1)

-----------------------------------------------------------------------------
(* A COPY or DROP instruction: a is the offset, b is the size. *)

\* merge_contiguous_copies: the COPY at i and those which continue it
RECURSIVE MergeCopies(_, _)
MergeCopies(ca, i) ==
    IF IsOp(ca, i + 1, "Copy") /\ ca[i + 1].a + ca[i + 1].b = ca[i].a
    THEN LET both == Op2("Copy", ca[i + 1].a, ca[i].b + ca[i + 1].b) IN
         MergeCopies(Without([ca EXCEPT ![i] = both], i + 1, 1), i)
    ELSE ca

\* eliminate_copy_drop: a COPY of the arguments, which are then dropped
EliminateCopyDrop(ca, i) ==
    IF /\ IsOp(ca, i + 1, "Drop")
       /\ ca[i].b = ca[i + 1].b
       /\ ca[i].a = 0
       /\ ca[i + 1].a = ca[i].b
    THEN Without(ca, i, 2)
    ELSE ca

\* replace_copy_drop_by_swap
ReplaceBySwap(ca, i) ==
    IF /\ IsOp(ca, i, "Copy") /\ IsOp(ca, i + 1, "Copy") /\ IsOp(ca, i + 2, "Drop")
       /\ ca[i].a = 0
       /\ ca[i + 1].a = ca[i].b
       /\ ca[i].b + ca[i + 1].b = ca[i + 2].b
       /\ ca[i + 2].a = ca[i + 2].b
    THEN Without([ca EXCEPT ![i] = Op2("Swap", ca[i].b, ca[i + 1].b)], i + 1, 2)
    ELSE ca

\* The second loop of optimize_copy_drop, from instruction i
RECURSIVE ReduceCopies(_, _)
ReduceCopies(ca, i) ==
    IF i > Len(ca) THEN ca
    ELSE LET reduced == IF IsOp(ca, i, "Copy")
                        THEN EliminateCopyDrop(MergeCopies(ca, i), i)
                        ELSE ca
         IN  ReduceCopies(ReplaceBySwap(reduced, i), i + 1)

OptimizeCopyDrop(p, ca) == ReduceCopies(MoveDropsUp(p, ca, 1), 1)

-----------------------------------------------------------------------------
\* optimize_tail_call: the last CALL of a compiled function replaces its frame.
OptimizeTailCall(p, ca) ==
    LET n == Len(ca) - 1 IN
    IF IsOp(ca, n, "Call") /\ p[ca[n].a].kind # "native"
    THEN Append(SubSeq(ca, 1, n - 1), Op1("TailCall", ca[n].a))
    ELSE ca

Optimize(p, ca) == OptimizeTailCall(p, OptimizeCopyDrop(p, ca))

-----------------------------------------------------------------------------
\* assemble: a jump is relative to the instruction after it; labels disappear.
Assemble(ca) ==
    LET Address(i) == Len(SelectSeq(SubSeq(ca, 1, i), LAMBDA instr : instr.op # "Label"))
        LabelOf(jump) == CHOOSE i \in DOMAIN ca : ca[i].op = "Label" /\ ca[i].a = jump.a
        Resolve(i) == IF ca[i].op \in {"Jump", "JumpIfNot"}
                      THEN [ca[i] EXCEPT !.a = Address(LabelOf(ca[i])) - Address(i)]
                      ELSE ca[i]
    IN  SelectSeq([i \in DOMAIN ca |-> Resolve(i)], LAMBDA instr : instr.op # "Label")
=============================================================================
