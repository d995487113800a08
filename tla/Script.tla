------------------------------- MODULE Script -------------------------------
(***************************************************************************)
(* The whole of it: programs are compiled, with the optimizer or without,  *)
(* run by the machine, and compared with what they mean.                   *)
(***************************************************************************)
EXTENDS Machine, Optimizer, Semantics

\* The same sequence: TLC evaluates the elements once.
Eager(s) == <<>> \o s

\* The code of function f of program p with Flags::O0 and with Flags::O1
Unoptimized(p, f) == Assemble(CompileFunction(p, p[f]))

Optimized(p, f) == Assemble(Optimize(p, CompileFunction(p, p[f])))

-----------------------------------------------------------------------------
Halted == frames = <<>>

\* Cells, frames and slots are what the code expects, and every frame has an
\* instruction to continue with: control never reaches the end of the code.
TypeOK ==
    /\ \A i \in DOMAIN stack : stack[i].t \in {"Int", "Bool", "Char", "Ptr"} /\ stack[i].v \in Int
    /\ \A i \in DOMAIN frames :
           /\ frames[i].fn \in DOMAIN Fns
           /\ frames[i].ip \in DOMAIN prog.code[frames[i].fn]
           /\ frames[i].base \in Nat
    /\ \A s \in DOMAIN heap : heap[s].rc \in Int /\ heap[s].kind \in {"String", "List", "Closure"}
    /\ error \in BOOLEAN

Occurrences(s, cells) == Len(SelectSeq(cells, LAMBDA cell : cell = Ptr(s)))

Refers(slot) == slot.kind # "String" /\ \E i \in DOMAIN slot.cells : slot.cells[i].t = "Ptr"

\* The captured values of a closure have one owner: it runs once, and it is
\* not released before that.
ClosuresLinear ==
    \A s \in DOMAIN heap :
        heap[s].kind = "Closure" /\ Refers(heap[s]) =>
            heap[s].runs <= 1 /\ (heap[s].rc <= 0 => heap[s].runs = 1)

\* A function was entered or is about to return: the compiled code is not in
\* the middle of taking or releasing references.
AtBoundary == Halted \/ Frame.ip = 1 \/ I.op = "Ret"

\* The references to a slot: cells of the stack, of lists, of closures which
\* did not run yet, and the module's own for a static value
References(s) ==
    LET Owner(slot) == \/ slot.kind = "List" /\ slot.rc > 0
                       \/ slot.kind = "Closure" /\ slot.runs = 0
        owned == [o \in DOMAIN heap |->
                    IF Owner(heap[o]) THEN Occurrences(s, heap[o].cells) ELSE 0]
    IN  Occurrences(s, stack) + FoldLeft(LAMBDA sum, n : sum + n, 0, owned)
        + (IF s <= NumStatics THEN 1 ELSE 0)

\* "Every instance on the stack should increase refcount by one" (Heap.h):
\* nothing is released while it is referenced, and nothing is left when it is not.
RefsExact ==
    ~Corrupt /\ ClosuresLinear /\ AtBoundary /\ ~error =>
        \A s \in DOMAIN heap : heap[s].rc = References(s)

\* One half of it, of all programs.  "Every instance on the stack should
\* increase refcount by one."
InstancesCounted ==
    ~Corrupt /\ AtBoundary =>
        \A s \in DOMAIN heap : heap[s].rc >= Occurrences(s, stack)

\* No undefined behaviour (MemorySafe) in programs which execute every closure
\* at most once
MemorySafeUnlessShared == ClosuresLinear => MemorySafe

\* The calling convention (machine.adoc): a function replaces its arguments and
\* captures by its result and leaves the values of its callers alone.
ReturnsToCaller ==
    ~Corrupt /\ ClosuresLinear /\ ~Halted /\ I.op = "Ret" =>
        /\ Fits(Fn.ret, stack)
        /\ Below(stack, Size(Fn.ret)) = Frame.rest

RECURSIVE Decode(_, _)
Decode(ti, cells) ==
    LET slot == heap[cells[1].v]
        Item(tis, from, i) == Decode(tis[i], Below(from, SizeOfFirst(tis, i - 1)))
        Captured == NonlocalTypes(Fns[slot.fn])
        size == Size(ti.args[1])
    IN
    CASE ti.k \in {"Int", "Bool"} -> Number(ti.k, cells[1].v)
      [] ti.k = "Tuple" -> TupleOfValues([i \in DOMAIN ti.args |-> Item(ti.args, cells, i)])
      [] ti.k = "String" ->
            StringOf([i \in DOMAIN slot.cells |-> Number("Char", slot.cells[i].v)])
      [] ti.k = "List" ->
            ListOfValues([i \in 1..(Len(slot.cells) \div size) |->
                            Decode(ti.args[1], Below(slot.cells, (i - 1) * size))])
      [] ti.k = "Function" ->
            ClosureValue(slot.fn, [i \in DOMAIN Captured |-> Item(Captured, slot.cells, i)])

Result == IF error THEN IndexError ELSE Decode(Fns[1].ret, stack)

\* The machine computes what the program means, and leaves nothing else behind.
ResultCorrect ==
    Halted /\ ~Corrupt /\ ClosuresLinear =>
        /\ ~error => Fits(Fns[1].ret, stack) /\ Len(stack) = Size(Fns[1].ret)
        /\ Result = Meaning(Fns)
=============================================================================
