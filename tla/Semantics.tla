----------------------------- MODULE Semantics -----------------------------
(***************************************************************************)
(* What a Fire program means: its value, computed from the expressions     *)
(* with immutable values, without a stack and without a heap.              *)
(***************************************************************************)
EXTENDS Program

Value(k, n, args) == [k |-> k, n |-> n, args |-> args]

Number(k, n) == Value(k, n, <<>>)
Truth(b) == Number("Bool", IF b THEN 1 ELSE 0)
StringOf(chars) == Value("String", 0, chars)
TupleOfValues(items) == Value("Tuple", 0, items)
ListOfValues(items) == Value("List", 0, items)
ClosureValue(f, captured) == Value("Function", f, captured)

IndexError == Number("Error", 0)

LiteralValue(ti, n) == IF ti.k = "String" THEN StringOf(<<Number("Char", n)>>) ELSE Number(ti.k, n)

\* What an intrinsic or native function computes
Builtin(op, args) ==
    CASE op = "Add" -> Number("Int", args[1].n + args[2].n)
      [] op = "Sub" -> Number("Int", args[1].n - args[2].n)
      [] op = "Equal" -> Truth(args[1].n = args[2].n)
      [] op = "LogicalAnd" -> Truth(args[1].n = 1 /\ args[2].n = 1)
      [] op = "LogicalOr" -> Truth(args[1].n = 1 \/ args[2].n = 1)
      [] op = "Concat" -> StringOf(args[1].args \o args[2].args)
      [] op = "ListConcat" -> ListOfValues(args[1].args \o args[2].args)
      [] op = "ListSubscript" ->
            LET items == args[1].args
                i == args[2].n + (IF args[2].n < 0 THEN Len(items) ELSE 0)
            IN  IF i \in 0..(Len(items) - 1) THEN items[i + 1] ELSE IndexError

\* An error anywhere is the result of the whole program.
Failing(vals) == SelectSeq(vals, LAMBDA v : v = IndexError)

\* The value of e in function fn, with these parameters and captured values
RECURSIVE Eval(_, _, _, _)
RECURSIVE Apply(_, _, _, _)
RECURSIVE CaptureValues(_, _, _)

\* Function number f applied to an argument
Apply(p, f, captured, arg) ==
    LET params == IF Len(p[f].params) = 1 THEN <<arg>> ELSE arg.args IN
    IF arg = IndexError THEN IndexError
    ELSE IF p[f].kind = "assembly"
    THEN Eval(p, p[f].body, params, captured)
    ELSE Builtin(p[f].op, params)

CaptureValues(p, g, env) ==
    [i \in DOMAIN p[g].nonlocals |->
        LET c == p[g].nonlocals[i] IN
        CASE c.symbol = "Parameter" -> env.params[c.i]
          [] c.symbol = "Nonlocal" -> env.captured[c.i]
          [] c.symbol = "Function" ->
                IF HasNonvoidParameter(p[c.i]) THEN ClosureValue(c.i, CaptureValues(p, c.i, env))
                ELSE Apply(p, c.i, CaptureValues(p, c.i, env), TupleOfValues(<<>>))]

Eval(p, e, params, captured) ==
    LET env == [params |-> params, captured |-> captured]
        Operand(i) == Eval(p, e.args[i], params, captured)
        Operands == [i \in DOMAIN e.args |-> Operand(i)]
        Combine(result) == IF Failing(Operands) # <<>> THEN IndexError ELSE result
        \* a function as a value: applied at once when it takes no parameter
        FunctionValue(g) ==
            IF HasNonvoidParameter(p[g]) THEN ClosureValue(g, CaptureValues(p, g, env))
            ELSE Apply(p, g, CaptureValues(p, g, env), TupleOfValues(<<>>))
        RECURSIVE Choose(_)
        Choose(i) == IF i = Len(e.args) \/ Operand(i) = IndexError THEN Operand(i)
                     ELSE IF Operand(i).n = 1 THEN Operand(i + 1)
                     ELSE Choose(i + 2)
    IN
    CASE e.op = "Literal" -> LiteralValue(e.ti, e.n)
      [] e.op = "Parameter" -> params[e.n]
      [] e.op = "Nonlocal" -> captured[e.n]
      [] e.op = "Tuple" -> Combine(TupleOfValues(Operands))
      [] e.op = "List" -> Combine(ListOfValues(Operands))
      [] e.op = "Condition" -> Choose(1)
      [] e.op = "WithContext" ->
            IF Operand(1) = IndexError THEN IndexError ELSE Operand(3)
      [] e.op \in {"Function", "Lambda", "Method"} -> FunctionValue(e.n)
      [] e.op = "Call" ->
            LET callable == e.args[1]
                arg == Operand(2)
                fn == Operand(1)
            IN  IF arg = IndexError THEN IndexError
                ELSE IF callable.op = "StructItem" THEN arg.args[callable.n]
                ELSE IF fn = IndexError THEN IndexError
                ELSE IF callable.op \in {"Function", "Lambda", "Method"}
                        /\ ~HasNonvoidParameter(p[callable.n])
                THEN fn
                ELSE Apply(p, fn.n, fn.args, arg)

\* The value of the program
Meaning(p) == Eval(p, p[1].body, <<>>, <<>>)
=============================================================================
