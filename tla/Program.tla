------------------------------ MODULE Program ------------------------------
(***************************************************************************)
(* Fire programs after type and symbol resolution: the types, functions    *)
(* and expressions the compiler visits (xci::script TypeInfo, Function,    *)
(* ast).                                                                   *)
(*                                                                         *)
(* A program is a sequence of functions; number 1 is the main function of  *)
(* the module.  Stack sizes are counted in cells: every scalar value and   *)
(* every pointer to a heap slot takes one.                                 *)
(***************************************************************************)
EXTENDS Integers, Sequences, SequencesExt

-----------------------------------------------------------------------------
(* TypeInfo *)

IntType == [k |-> "Int", args |-> <<>>]
BoolType == [k |-> "Bool", args |-> <<>>]
StringType == [k |-> "String", args |-> <<>>]
ListType(elem) == [k |-> "List", args |-> <<elem>>]
TupleType(items) == [k |-> "Tuple", args |-> items]
VoidType == TupleType(<<>>)
FunctionType(param, ret) == [k |-> "Function", args |-> <<param, ret>>]

RECURSIVE Size(_)
Size(ti) ==
    IF ti.k # "Tuple" THEN 1
    ELSE IF ti.args = <<>> THEN 0
    ELSE Size(Head(ti.args)) + Size(TupleType(Tail(ti.args)))

\* The cells taken by the first n types of a sequence
SizeOfFirst(tis, n) == Size(TupleType(SubSeq(tis, 1, n)))

\* foreach_heap_slot: offsets of the cells which point to the heap
RECURSIVE HeapSlots(_)
HeapSlots(ti) ==
    CASE ti.k \in {"String", "List", "Function"} -> <<0>>
      [] ti.k = "Tuple" ->
            FlattenSeq([i \in DOMAIN ti.args |->
                LET slots == HeapSlots(ti.args[i]) IN
                    [j \in DOMAIN slots |-> slots[j] + SizeOfFirst(ti.args, i - 1)]])
      [] OTHER -> <<>>

-----------------------------------------------------------------------------
(* ast: every expression is an operation with a number, a type and operands. *)

Expr(op, n, ti, args) == [op |-> op, n |-> n, ti |-> ti, args |-> args]

Literal(ti, n) == Expr("Literal", n, ti, <<>>)
Parameter(i) == Expr("Parameter", i, VoidType, <<>>)
Nonlocal(i) == Expr("Nonlocal", i, VoidType, <<>>)
Tuple(items) == Expr("Tuple", 0, VoidType, items)
List(elem, items) == Expr("List", 0, elem, items)
Method(f) == Expr("Method", f, VoidType, <<>>)
FunctionRef(f) == Expr("Function", f, VoidType, <<>>)
Lambda(f) == Expr("Lambda", f, VoidType, <<>>)
StructItem(struct, i) == Expr("StructItem", i, struct, <<>>)
\* execs: Call::wrapped_execs, 1 when an outer call passes an argument to the
\* function returned by this one
Call(callable, arg, execs) == Expr("Call", execs, VoidType, <<callable, arg>>)
\* Condition: <<if, then, if, then, ..., else>>
Condition(parts) == Expr("Condition", 0, VoidType, parts)
\* WithContext: ti is the pair of the types of the result and of the context
WithContext(result, leave_type, context, enter, inner, leave) ==
    Expr("WithContext", 0, TupleType(<<result, leave_type>>),
         <<context, enter, inner, leave>>)

-----------------------------------------------------------------------------
(* Function *)

\* Captured symbol: Parameter or Nonlocal number i of the enclosing function,
\* or Function number i.
Capture(symbol, i, ti) == [symbol |-> symbol, i |-> i, ti |-> ti]

Assembly(params, ret, nonlocals, body) ==
    [kind |-> "assembly", params |-> params, ret |-> ret,
     nonlocals |-> nonlocals, body |-> body, op |-> ""]

\* The body consists of one instruction; ti is its type argument.
Intrinsic(params, ret, op, ti) ==
    [kind |-> "intrinsic", params |-> params, ret |-> ret,
     nonlocals |-> <<>>, body |-> Literal(ti, 0), op |-> op]

Native(params, ret, op) ==
    [kind |-> "native", params |-> params, ret |-> ret,
     nonlocals |-> <<>>, body |-> Tuple(<<>>), op |-> op]

HasNonlocals(fn) == fn.nonlocals # <<>>

HasNonvoidParameter(fn) == fn.params # <<>>

NonlocalTypes(fn) == [i \in DOMAIN fn.nonlocals |-> fn.nonlocals[i].ti]

SizeOfParameter(fn) == Size(TupleType(fn.params))

SizeOfNonlocals(fn) == Size(TupleType(NonlocalTypes(fn)))

\* Where the compiled code of fn finds its captures and parameters: offsets
\* from its base
NonlocalOffset(fn, i) == SizeOfFirst(NonlocalTypes(fn), i - 1)

ParameterOffset(fn, i) == SizeOfNonlocals(fn) + SizeOfFirst(fn.params, i - 1)
=============================================================================
