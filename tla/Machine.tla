------------------------------ MODULE Machine ------------------------------
(***************************************************************************)
(* xci::script::Machine: the virtual machine which runs compiled Fire      *)
(* functions, with its data stack, call stack and reference-counted heap.  *)
(* One action is one instruction.                                          *)
(*                                                                         *)
(* The stack is a sequence with the top first, so that an offset of the    *)
(* code is a position in it.  A heap slot is never reused: a freed one     *)
(* keeps its place with reference count 0, and any use of it, or of a cell *)
(* that is no pointer, is undefined behaviour, recorded as a negative      *)
(* count.                                                                  *)
(***************************************************************************)
EXTENDS Program

CONSTANTS
    Programs(_),    \* the programs of a size, as records [fns, code]: functions and
                    \* their assembled code
    ProgramSize,
    NumStatics      \* string constants held by the module: slots 1..NumStatics

VARIABLES
    prog,       \* the program being run
    stack,      \* m_stack
    frames,     \* m_frame, innermost last
    heap,       \* every slot ever made
    error       \* a RuntimeError was thrown

vars == <<prog, stack, frames, heap, error>>

-----------------------------------------------------------------------------
(* Cells and slots *)

Cell(t, v) == [t |-> t, v |-> v]
Ptr(s) == Cell("Ptr", s)
Bool(b) == Cell("Bool", IF b THEN 1 ELSE 0)
Null == Ptr(0)

\* The kinds of cells a value of a type is made of
RECURSIVE Tags(_)
Tags(ti) ==
    CASE ti.k = "Tuple" -> FlattenSeq([i \in DOMAIN ti.args |-> Tags(ti.args[i])])
      [] ti.k \in {"Int", "Bool"} -> <<ti.k>>
      [] OTHER -> <<"Ptr">>

Fits(ti, cells) ==
    /\ Len(cells) >= Size(ti)
    /\ \A i \in 1..Size(ti) : cells[i].t = Tags(ti)[i]

\* kind, reference count, function of a closure, element type of a list, data;
\* runs counts the executions of a closure (not part of the program)
Slot(kind, fn, elem, cells) ==
    [rc |-> 1, kind |-> kind, fn |-> fn, elem |-> elem, cells |-> cells, runs |-> 0]

StringSlot(chars) == Slot("String", 0, VoidType, chars)

Wild == [StringSlot(<<>>) EXCEPT !.rc = -1]

Live(h, s) == s \in DOMAIN h /\ h[s].rc > 0

Incref(h, s) ==
    IF s = 0 THEN h
    ELSE [h EXCEPT ![s].rc = IF @ > 0 THEN @ + 1 ELSE -1]

IncrefCells(h, cells) ==
    FoldLeft(LAMBDA g, c : IF c.t = "Ptr" THEN Incref(g, c.v) ELSE g, h, cells)

\* The offsets stored by ListV::ListV: each is relative to the previous one,
\* and the last one leads to the next element.
ListOffsets(elem) ==
    LET slots == HeapSlots(elem)
        deltas == FoldLeft(LAMBDA ds, o : Append(ds, o - (IF ds = <<>> THEN 0 ELSE Last(ds))),
                           <<>>, slots)
    IN  IF slots = <<>> THEN <<>> ELSE Append(deltas, Size(elem) - Last(deltas))

\* list_deleter_foreach_heap_slot: the cells which are released with a list
ListRefs(slot) ==
    LET offsets == ListOffsets(slot.elem)
        length == Len(slot.cells) \div Size(slot.elem)
        n == Len(offsets) - 1
        skips == FoldLeft(LAMBDA sum, o : sum + o, 0, offsets)
        At(el, i) == (el - 1) * skips
                     + FoldLeft(LAMBDA sum, o : sum + o, 0, SubSeq(offsets, 1, i)) + 1
        Read(pos) == IF pos \in DOMAIN slot.cells THEN slot.cells[pos] ELSE Cell("Int", 0)
    IN  IF offsets = <<>> THEN <<>>
        ELSE FlattenSeq([el \in 1..length |-> [i \in 1..n |-> Read(At(el, i))]])

\* HeapSlot::decref.  Only lists have a deleter which releases what they refer to.
RECURSIVE Decref(_, _)
Decref(h, s) ==
    IF s = 0 THEN h
    ELSE IF h[s].rc # 1 THEN [h EXCEPT ![s].rc = IF @ > 0 THEN @ - 1 ELSE -1]
    ELSE FoldLeft(LAMBDA g, c : IF c.t = "Ptr" THEN Decref(g, c.v) ELSE Append(g, Wild),
                  [h EXCEPT ![s].rc = 0],
                  IF h[s].kind = "List" THEN ListRefs(h[s]) ELSE <<>>)

Corrupt == \E s \in DOMAIN heap : heap[s].rc < 0

-----------------------------------------------------------------------------
(* The running function *)

Frame == Last(frames)

Fns == prog.fns

Fn == Fns[Frame.fn]

I == prog.code[Frame.fn][Frame.ip]

\* Push and pull n cells
Below(cells, n) == SubSeq(cells, n + 1, Len(cells))

Top(cells, n) == SubSeq(cells, 1, n)

\* `at` is the instruction to continue with when control returns to the frame
Continue(at) == frames' = [frames EXCEPT ![Len(frames)].ip = at]

Step == Continue(Frame.ip + 1)

NewFrame(f, cells, rest) == [fn |-> f, ip |-> 1, base |-> Len(cells), rest |-> rest]

\* The cells which belong to the callers of f (not part of the program)
CallerCells(f, cells) ==
    Below(cells, SizeOfParameter(Fns[f]) + SizeOfNonlocals(Fns[f]))

\* What the current instruction expects of the stack and heap: an assertion of
\* the code, or memory it reads without any check.
Ready ==
    CASE I.op = "Copy" ->
            LET addr == I.a + Len(stack) - Frame.base IN addr + I.b <= Len(stack)
      [] I.op \in {"Drop", "Swap"} -> I.a + I.b <= Len(stack)
      [] I.op \in {"IncRef", "DecRef"} ->
            /\ I.a < Len(stack)
            /\ stack[I.a + 1].t = "Ptr"
      [] I.op = "MakeList" -> Len(stack) >= I.a * Size(I.ti)
      [] I.op = "MakeClosure" -> Fits(TupleType(NonlocalTypes(Fns[I.a])), stack)
      [] I.op = "Execute" ->
            /\ Fits(FunctionType(VoidType, VoidType), stack)
            /\ Live(heap, stack[1].v)
      [] I.op = "JumpIfNot" -> Fits(BoolType, stack)
      [] I.op \in {"LogicalOr", "LogicalAnd"} -> Fits(TupleType(<<BoolType, BoolType>>), stack)
      [] I.op \in {"Add", "Sub", "Equal"} -> Fits(TupleType(<<IntType, IntType>>), stack)
      [] I.op = "ListSubscript" ->
            /\ Fits(TupleType(<<ListType(I.ti), IntType>>), stack)
            /\ Live(heap, stack[1].v)
      [] I.op = "ListConcat" ->
            /\ Fits(TupleType(<<ListType(I.ti), ListType(I.ti)>>), stack)
            /\ Live(heap, stack[1].v) /\ Live(heap, stack[2].v)
      [] I.op \in {"Call", "TailCall"} /\ Fns[I.a].kind = "native" ->
            /\ Fits(TupleType(Fns[I.a].params), stack)
            /\ \A i \in 1..SizeOfParameter(Fns[I.a]) :
                   stack[i].t = "Ptr" => Live(heap, stack[i].v)
      [] OTHER -> TRUE

Exec(ops) ==
    /\ frames # <<>>
    /\ ~Corrupt
    /\ I.op \in ops
    /\ Ready
    /\ UNCHANGED <<prog, error>>

-----------------------------------------------------------------------------
(* Stack instructions *)

StaticCell == Cell(IF I.ti.k = "String" THEN "Ptr" ELSE I.ti.k, I.a)

LoadStatic ==
    /\ Exec({"LoadStatic"})
    /\ stack' = <<StaticCell>> \o stack
    /\ heap' = IncrefCells(heap, <<StaticCell>>)
    /\ Step

\* The offset is relative to the base.
Copy ==
    /\ Exec({"Copy"})
    /\ LET addr == I.a + Len(stack) - Frame.base IN
           stack' = SubSeq(stack, addr + 1, addr + I.b) \o stack
    /\ Step
    /\ UNCHANGED heap

\* Mutant: the skipped cells are dropped as well.
DropAll ==
    /\ Exec({"Drop"})
    /\ stack' = Below(stack, I.a + I.b)
    /\ Step
    /\ UNCHANGED heap

Drop ==
    /\ Exec({"Drop"})
    /\ stack' = Top(stack, I.a) \o Below(stack, I.a + I.b)
    /\ Step
    /\ UNCHANGED heap

Swap ==
    /\ Exec({"Swap"})
    /\ stack' = SubSeq(stack, I.a + 1, I.a + I.b) \o Top(stack, I.a) \o Below(stack, I.a + I.b)
    /\ Step
    /\ UNCHANGED heap

IncRef ==
    /\ Exec({"IncRef"})
    /\ heap' = Incref(heap, stack[I.a + 1].v)
    /\ Step
    /\ UNCHANGED stack

\* A pointer to a freed slot is cleared.
DecRef ==
    /\ Exec({"DecRef"})
    /\ LET s == stack[I.a + 1].v IN
           /\ heap' = Decref(heap, s)
           /\ stack' = IF s # 0 /\ heap[s].rc = 1 THEN [stack EXCEPT ![I.a + 1] = Null] ELSE stack
    /\ Step

-----------------------------------------------------------------------------
(* Functions and closures *)

\* NativeDelegate: the arguments are pulled, the result is pushed, then the
\* arguments are released.  The only native function is the concatenation of
\* strings.
AfterNative(f, cells, h) ==
    LET n == SizeOfParameter(Fns[f])
        args == Top(cells, n)
        result == StringSlot(FlattenSeq([i \in 1..n |-> h[args[i].v].cells]))
    IN  [stack |-> <<Ptr(Len(h) + 1)>> \o Below(cells, n),
         heap |-> FoldLeft(LAMBDA g, c : Decref(g, c.v), Append(h, result), args)]

CallNative ==
    /\ Exec({"Call"})
    /\ Fns[I.a].kind = "native"
    /\ LET after == AfterNative(I.a, stack, heap) IN
           /\ stack' = after.stack
           /\ heap' = after.heap
    /\ Step

\* call_fun: the return address stays in the calling frame.
Enter(f, cells) ==
    frames' = Append([frames EXCEPT ![Len(frames)].ip = @ + 1],
                     NewFrame(f, cells, CallerCells(f, cells)))

CallFunction ==
    /\ Exec({"Call"})
    /\ Fns[I.a].kind # "native"
    /\ Enter(I.a, stack)
    /\ UNCHANGED <<stack, heap>>

\* The frame of the caller is replaced.
TailCall ==
    /\ Exec({"TailCall"})
    /\ frames' = Append(Front(frames), NewFrame(I.a, stack, Frame.rest))
    /\ UNCHANGED <<stack, heap>>

Ret ==
    /\ Exec({"Ret"})
    /\ frames' = Front(frames)
    /\ UNCHANGED <<stack, heap>>

LoadFunction ==
    /\ Exec({"LoadFunction"})
    /\ stack' = <<Ptr(Len(heap) + 1)>> \o stack
    /\ heap' = Append(heap, Slot("Closure", I.a, VoidType, <<>>))
    /\ Step

\* The captured values are moved to the heap.
MakeClosure ==
    /\ Exec({"MakeClosure"})
    /\ LET n == SizeOfNonlocals(Fns[I.a]) IN
           /\ stack' = <<Ptr(Len(heap) + 1)>> \o Below(stack, n)
           /\ heap' = Append(heap, Slot("Closure", I.a, VoidType, Top(stack, n)))
    /\ Step

\* Mutant: the closure is not released.
ExecuteUnreleased ==
    /\ Exec({"Execute"})
    /\ LET s == stack[1].v
           cells == heap[s].cells \o Tail(stack)
       IN  /\ stack' = cells
           /\ Enter(heap[s].fn, cells)
           /\ heap' = [heap EXCEPT ![s].runs = @ + 1]

\* The closure is unpacked on the stack and released, its values are not
\* referenced again.
Execute ==
    /\ Exec({"Execute"})
    /\ LET s == stack[1].v
           cells == heap[s].cells \o Tail(stack)
       IN  /\ stack' = cells
           /\ Enter(heap[s].fn, cells)
           /\ heap' = Decref([heap EXCEPT ![s].runs = @ + 1], s)

Jump ==
    /\ Exec({"Jump"})
    /\ Continue(Frame.ip + 1 + I.a)
    /\ UNCHANGED <<stack, heap>>

JumpIfNot ==
    /\ Exec({"JumpIfNot"})
    /\ stack' = Tail(stack)
    /\ Continue(Frame.ip + 1 + (IF stack[1].v = 0 THEN I.a ELSE 0))
    /\ UNCHANGED heap

-----------------------------------------------------------------------------
(* Operators *)

Push2(result) == stack' = <<result>> \o Below(stack, 2)

Logical ==
    /\ Exec({"LogicalOr", "LogicalAnd"})
    /\ LET lhs == stack[1].v = 1
           rhs == stack[2].v = 1
       IN  Push2(Bool(IF I.op = "LogicalOr" THEN lhs \/ lhs ELSE lhs /\ rhs))
    /\ Step
    /\ UNCHANGED heap

Arithmetic ==
    /\ Exec({"Add", "Sub", "Equal"})
    /\ LET lhs == stack[1].v
           rhs == stack[2].v
       IN  Push2(CASE I.op = "Add" -> Cell("Int", lhs + rhs)
                   [] I.op = "Sub" -> Cell("Int", lhs - rhs)
                   [] I.op = "Equal" -> Bool(lhs = rhs))
    /\ Step
    /\ UNCHANGED heap

-----------------------------------------------------------------------------
(* Lists *)

MakeList ==
    /\ Exec({"MakeList"})
    /\ LET n == I.a * Size(I.ti) IN
           /\ stack' = <<Ptr(Len(heap) + 1)>> \o Below(stack, n)
           /\ heap' = Append(heap, Slot("List", 0, I.ti, Top(stack, n)))
    /\ Step

\* Position of the item in the list, counted from the end when negative
ListIndex ==
    LET length == Len(heap[stack[1].v].cells) \div Size(I.ti)
    IN  IF stack[2].v < 0 THEN stack[2].v + length ELSE stack[2].v

InBounds == ListIndex \in 0..((Len(heap[stack[1].v].cells) \div Size(I.ti)) - 1)

ListSubscript ==
    /\ Exec({"ListSubscript"})
    /\ InBounds
    /\ LET s == stack[1].v
           item == SubSeq(heap[s].cells, ListIndex * Size(I.ti) + 1, (ListIndex + 1) * Size(I.ti))
       IN  /\ heap' = Decref(IncrefCells(heap, item), s)
           /\ stack' = item \o Below(stack, 2)
    /\ Step

\* index_out_of_bounds: the call unwinds both stacks.
ListSubscriptFails ==
    /\ frames # <<>>
    /\ ~Corrupt
    /\ I.op = "ListSubscript"
    /\ Ready
    /\ ~InBounds
    /\ heap' = Decref(heap, stack[1].v)
    /\ stack' = <<>>
    /\ frames' = <<>>
    /\ error' = TRUE
    /\ UNCHANGED prog

\* ListV::extend: the new list takes over the elements of the left operand when
\* nobody else has a reference to it.
ListConcat ==
    /\ Exec({"ListConcat"})
    /\ LET l == stack[1].v
           r == stack[2].v
           \* HeapSlot::release
           taken == [heap EXCEPT ![l].rc = 0]
           left == IF heap[l].rc = 1 THEN IncrefCells(taken, ListRefs(heap[r]))
                   ELSE Decref(IncrefCells(heap, ListRefs(heap[l]) \o ListRefs(heap[r])), l)
           both == Slot("List", 0, I.ti, heap[l].cells \o heap[r].cells)
       IN  /\ heap' = Append(Decref(left, r), both)
           /\ stack' = <<Ptr(Len(heap) + 1)>> \o Below(stack, 2)
    /\ Step

-----------------------------------------------------------------------------
\* Statics are referenced by the module.
Init ==
    /\ prog \in Programs(ProgramSize)
    /\ stack = <<>>
    /\ frames = <<NewFrame(1, <<>>, <<>>)>>
    /\ heap = [s \in 1..NumStatics |-> StringSlot(<<Cell("Char", s)>>)]
    /\ error = FALSE

\* No instruction touches a released slot, or takes something else for a
\* pointer, or finds fewer values than it pulls.
MemorySafe == ~Corrupt /\ (frames # <<>> => Ready)

\* The function returned or threw, or its behaviour is undefined.
Terminated ==
    /\ frames = <<>> \/ ~MemorySafe
    /\ UNCHANGED vars

Next ==
    \/ LoadStatic \/ Copy \/ Drop \/ Swap \/ IncRef \/ DecRef
    \/ CallNative \/ CallFunction \/ TailCall \/ Ret
    \/ LoadFunction \/ MakeClosure \/ Execute \/ Jump \/ JumpIfNot
    \/ Logical \/ Arithmetic
    \/ MakeList \/ ListSubscript \/ ListSubscriptFails \/ ListConcat
    \/ Terminated

Spec == Init /\ [][Next]_vars
=============================================================================
