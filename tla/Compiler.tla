------------------------------ MODULE Compiler ------------------------------
(***************************************************************************)
(* The code generator of the Fire compiler (CompilerVisitor, make_closure, *)
(* compile_function): from expressions to assembly code.                   *)
(***************************************************************************)
EXTENDS Program

\* CodeAssembly::Instruction; ti is the type argument of list instructions.
Instr(op, a, b, ti) == [op |-> op, a |-> a, b |-> b, ti |-> ti]

Op0(op) == Instr(op, 0, 0, VoidType)
Op1(op, a) == Instr(op, a, 0, VoidType)
Op2(op, a, b) == Instr(op, a, b, VoidType)

RefInstrs(op, ti, skip) ==
    LET slots == HeapSlots(ti) IN [i \in DOMAIN slots |-> Op1(op, slots[i] + skip)]

\* COPY a parameter or capture from below the base, and own a reference to it.
Load(offset, ti) ==
    <<Op2("Copy", offset, Size(ti))>> \o RefInstrs("IncRef", ti, 0)

LoadParameter(fn, i) == Load(ParameterOffset(fn, i), fn.params[i])

LoadNonlocal(fn, i) == Load(NonlocalOffset(fn, i), fn.nonlocals[i].ti)

-----------------------------------------------------------------------------
\* make_closure: the values captured by function number g, defined in fn
RECURSIVE Captures(_, _, _)
Captures(p, fn, g) ==
    LET Captured(c) ==
            CASE c.symbol = "Nonlocal" -> LoadNonlocal(fn, c.i)
              [] c.symbol = "Parameter" -> LoadParameter(fn, c.i)
              [] c.symbol = "Function" ->
                    IF HasNonlocals(p[c.i])
                    THEN Append(Captures(p, fn, c.i), Op1("MakeClosure", c.i))
                    ELSE IF HasNonvoidParameter(p[c.i])
                    THEN <<Op1("LoadFunction", c.i)>>
                    ELSE <<Op1("Call", c.i)>>
        nonlocals == Reverse(p[g].nonlocals)
    IN  FlattenSeq([i \in DOMAIN nonlocals |-> Captured(nonlocals[i])])

\* Mutant: the capturing function does not own what it captured.
ClosureUnowned(p, fn, g) ==
    SelectSeq(Append(Captures(p, fn, g), Op1("MakeClosure", g)),
              LAMBDA instr : instr.op # "IncRef")

Closure(p, fn, g) == Append(Captures(p, fn, g), Op1("MakeClosure", g))

\* visit(Reference), Symbol::Function: m_callable tells that the expression is
\* being called.
CodeOfFunction(p, fn, g, callable) ==
    LET execute == callable \/ ~HasNonvoidParameter(p[g]) IN
    IF HasNonlocals(p[g])
    THEN Closure(p, fn, g) \o (IF execute THEN <<Op0("Execute")>> ELSE <<>>)
    ELSE <<Op1(IF execute THEN "Call" ELSE "LoadFunction", g)>>

\* visit(Function): a function literal which is not a definition; it is not the
\* callable of a Call.
CodeOfLambda(p, fn, g) ==
    IF HasNonlocals(p[g])
    THEN Closure(p, fn, g) \o (IF HasNonvoidParameter(p[g]) THEN <<>> ELSE <<Op0("Execute")>>)
    ELSE IF HasNonvoidParameter(p[g])
    THEN Closure(p, fn, g)
    ELSE <<Op1("Call", g)>>

\* visit(Reference), Symbol::StructItem: the struct on top of the stack is
\* replaced by its item number i.
CodeOfItem(struct, i) ==
    LET items == struct.args
        skip == Size(items[i])
        before == SizeOfFirst(items, i - 1)
        after == Size(struct) - before - skip
        Release(j) == IF j = i THEN <<>>
                      ELSE RefInstrs("DecRef", items[j], IF j < i THEN 0 ELSE skip)
    IN  FlattenSeq([j \in DOMAIN items |-> Release(j)])
        \o (IF before # 0 THEN <<Op2("Drop", 0, before)>> ELSE <<>>)
        \o (IF after # 0 THEN <<Op2("Drop", skip, after)>> ELSE <<>>)

\* The visitor, in function fn of program p.  `at` numbers the expression
\* within the function: labels are made of it.
RECURSIVE Code(_, _, _, _, _)

Operand(p, fn, e, i, callable, at) == Code(p, fn, e.args[i], callable, at * 16 + i)

\* The items of a tuple or list, last one first
CodeOfItems(p, fn, e, callable, at) ==
    LET n == Len(e.args)
    IN  FlattenSeq([i \in 1..n |-> Operand(p, fn, e, n + 1 - i, callable, at)])

\* visit(Reference).  A parameter is executed only when it is being called.
CodeOfReference(p, fn, e, callable) ==
    LET Executed(yes) == IF yes THEN <<Op0("Execute")>> ELSE <<>> IN
    CASE e.op = "Parameter" ->
            LoadParameter(fn, e.n) \o Executed(callable /\ fn.params[e.n].k = "Function")
      [] e.op = "Nonlocal" ->
            LoadNonlocal(fn, e.n) \o Executed(fn.nonlocals[e.n].ti.k = "Function")
      [] e.op = "Method" -> <<Op1("Call", e.n)>>
      [] e.op = "Function" -> CodeOfFunction(p, fn, e.n, callable)
      [] e.op = "StructItem" -> CodeOfItem(e.ti, e.n)

\* visit(Call): the callable, which is args[1], consumes the argument.
CodeOfCall(p, fn, e, at) ==
    Operand(p, fn, e, 2, FALSE, at) \o Operand(p, fn, e, 1, TRUE, at)
    \o [i \in 1..e.n |-> Op0("Execute")]

\* visit(Condition): pairs of a condition and a branch, and the else branch
CodeOfCondition(p, fn, e, callable, at) ==
    LET n == Len(e.args)
        end == 2 * (at * 16 + n) + 1
        Branch(i) ==
            LET cond == 2 * (at * 16 + i)
            IN  Operand(p, fn, e, i, callable, at) \o <<Op1("JumpIfNot", cond)>>
                \o Operand(p, fn, e, i + 1, callable, at)
                \o <<Op1("Jump", end), Op1("Label", cond)>>
    IN  FlattenSeq([j \in 1..(n \div 2) |-> Branch(2 * j - 1)])
        \o Operand(p, fn, e, n, callable, at) \o <<Op1("Label", end)>>

\* visit(WithContext): the context is kept below the result until it is left.
CodeOfWithContext(p, fn, e, callable, at) ==
    Operand(p, fn, e, 1, callable, at)
    \o Operand(p, fn, e, 2, callable, at)
    \o Operand(p, fn, e, 3, callable, at)
    \o <<Op2("Swap", Size(e.ti.args[1]), Size(e.ti.args[2]))>>
    \o Operand(p, fn, e, 4, callable, at)

Code(p, fn, e, callable, at) ==
    CASE e.op = "Literal" -> <<Instr("LoadStatic", e.n, 0, e.ti)>>
      [] e.op = "Tuple" -> CodeOfItems(p, fn, e, callable, at)
      [] e.op = "List" ->
            Append(CodeOfItems(p, fn, e, callable, at), Instr("MakeList", Len(e.args), 0, e.ti))
      [] e.op = "Lambda" -> CodeOfLambda(p, fn, e.n)
      [] e.op = "Call" -> CodeOfCall(p, fn, e, at)
      [] e.op = "Condition" -> CodeOfCondition(p, fn, e, callable, at)
      [] e.op = "WithContext" -> CodeOfWithContext(p, fn, e, callable, at)
      [] OTHER -> CodeOfReference(p, fn, e, callable)

-----------------------------------------------------------------------------
\* What a function does before it returns: it releases its captures and
\* parameters, and drops them from below the result.
Epilogue(fn) ==
    LET args == TupleType(NonlocalTypes(fn) \o fn.params)
        skip == Size(fn.ret)
    IN  IF Size(args) = 0 THEN <<>>
        ELSE Append(RefInstrs("DecRef", args, skip), Op2("Drop", skip, Size(args)))

\* compile_function
CompileFunction(p, fn) ==
    CASE fn.kind = "assembly" ->
            Code(p, fn, fn.body, FALSE, 1) \o Epilogue(fn) \o <<Op0("Ret")>>
      [] fn.kind = "intrinsic" ->
            <<Instr(fn.op, 0, 0, fn.body.ti), Op0("Ret")>>
      [] fn.kind = "native" -> <<>>
=============================================================================
