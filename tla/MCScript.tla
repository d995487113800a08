------------------------------ MODULE MCScript ------------------------------
(***************************************************************************)
(* All programs of a bounded size: the body of one function is any well    *)
(* typed expression over its parameters, captures and a small library.     *)
(***************************************************************************)
EXTENDS Script

S == StringType
N == IntType
L == ListType(S)
P == TupleType(<<S, S>>)
F == FunctionType(N, S)

\* The library: 1 is main, 2 the function under test, 3 the function nested in
\* it, 4 the one nested in that, and
equal == 5
add == 6
sub == 7
concat == 8
subscript == 9
append == 10
second == 11
const == 12
dup == 13
make == 14
made == 15
apply == 16
enter == 17
leave == 18
repeat == 19
both == 20
ignore == 21
both_true == 22
letter == 23

Ap(f, args) == Call(FunctionRef(f), IF Len(args) = 1 THEN args[1] ELSE Tuple(args), 0)

Op(f, args) == Call(Method(f), Tuple(args), 0)

Library == <<
    \* 5-10: std.fire and native functions
    Intrinsic(<<N, N>>, BoolType, "Equal", VoidType),
    Intrinsic(<<N, N>>, N, "Add", VoidType),
    Intrinsic(<<N, N>>, N, "Sub", VoidType),
    Native(<<S, S>>, S, "Concat"),
    Intrinsic(<<L, N>>, S, "ListSubscript", S),
    Intrinsic(<<L, L>>, L, "ListConcat", S),
    \* 11: fun (n, s) { s }
    Assembly(<<N, S>>, S, <<>>, Parameter(2)),
    \* 12: fun (s, n) { n }
    Assembly(<<S, N>>, N, <<>>, Parameter(2)),
    \* 13: fun s { (s, s) }
    Assembly(<<S>>, P, <<>>, Tuple(<<Parameter(1), Parameter(1)>>)),
    \* 14, 15: fun s { fun n { concat (s, "a") } }
    Assembly(<<S>>, F, <<>>, Lambda(made)),
    Assembly(<<N>>, S, <<Capture("Parameter", 1, S)>>,
             Ap(concat, <<Nonlocal(1), Literal(S, 1)>>)),
    \* 16: fun (f, n) { f n }
    Assembly(<<F, N>>, S, <<>>, Call(Parameter(1), Parameter(2), 0)),
    \* 17, 18: the context is a string
    Assembly(<<S>>, S, <<>>, Ap(concat, <<Parameter(1), Parameter(1)>>)),
    Assembly(<<S>>, VoidType, <<>>, Tuple(<<>>)),
    \* 19: fun (n, s) { if n == 0 then s else repeat (n - 1, concat (s, "a")) }
    Assembly(<<N, S>>, S, <<>>,
             Condition(<<Op(equal, <<Parameter(1), Literal(N, 0)>>), Parameter(2),
                         Ap(repeat, <<Op(sub, <<Parameter(1), Literal(N, 1)>>),
                                  Ap(concat, <<Parameter(2), Literal(S, 1)>>)>>)>>)),
    \* 20: fun f { concat (f 1, f 0) }
    Assembly(<<F>>, S, <<>>,
             Ap(concat, <<Call(Parameter(1), Literal(N, 1), 0),
                          Call(Parameter(1), Literal(N, 0), 0)>>)),
    \* 21: fun f { 1 }
    Assembly(<<F>>, N, <<>>, Literal(N, 1)),
    \* 22: std.fire
    Intrinsic(<<BoolType, BoolType>>, BoolType, "LogicalAnd", VoidType),
    \* 23: fun n { "a" }
    Assembly(<<N>>, S, <<>>, Literal(S, 1))
>>

-----------------------------------------------------------------------------
Pairs(xs, ys) ==
    Eager([k \in 1..(Len(xs) * Len(ys)) |->
        <<xs[(k - 1) \div Len(ys) + 1], ys[((k - 1) % Len(ys)) + 1]>>])

Map(op(_), xs) == Eager([i \in DOMAIN xs |-> op(xs[i])])

\* The expressions of each type, by its first letter.  env gives the variables.
Leaves(env) ==
    [s |-> <<Literal(S, 1), env.s>>,
     n |-> <<Literal(N, 1), env.n>>,
     b |-> <<Op(equal, <<env.n, Literal(N, 1)>>)>>,
     l |-> <<List(S, <<>>), List(S, <<env.s>>)>>,
     p |-> <<Tuple(<<env.s, Literal(S, 1)>>)>>,
     f |-> env.fns]

\* Operations on smaller expressions: one operand is any of them, the others
\* are leaves.
Operations(leaf, smaller) ==
    LET Two(t, u) == Pairs(smaller[t], leaf[u]) \o Pairs(leaf[t], smaller[u])
        ns == Two("n", "s")
        sn == Two("s", "n")
        ss == Two("s", "s")
        nn == Two("n", "n")
        fn == Two("f", "n")
        Three(t, two) ==
            Map(LAMBDA q : Condition(<<q[1], q[2][1], q[2][2]>>),
                Pairs(smaller["b"], Pairs(leaf[t], leaf[t])) \o Pairs(leaf["b"], two))
        Calls(f, xs) == Map(LAMBDA x : Ap(f, x), xs)
        Ops(f, xs) == Map(LAMBDA x : Op(f, x), xs)
        On(f, xs) == Map(LAMBDA x : Ap(f, <<x>>), xs)
        Items(struct, i, xs) == Map(LAMBDA x : Call(StructItem(struct, i), Tuple(x), 0), xs)
        Curried(x) == Call(Call(FunctionRef(make), x[1], 1), x[2], 0)
        InContext(x) == WithContext(S, S, x[1], Method(enter), x[2], Method(leave))
    IN
    [s |-> Calls(second, ns) \o Calls(concat, ss) \o Calls(apply, fn) \o Calls(repeat, ns)
           \o Ops(subscript, Two("l", "n")) \o On(both, smaller.f)
           \o Items(TupleType(<<S, N>>), 1, sn) \o Items(TupleType(<<N, S>>), 2, ns)
           \o Items(P, 2, ss)
           \o Map(Curried, sn) \o Map(InContext, ss) \o Three("s", ss),
     n |-> Ops(add, nn) \o Calls(const, sn) \o On(ignore, smaller.f)
           \o Items(TupleType(<<S, N>>), 2, sn) \o Three("n", nn),
     b |-> Ops(equal, nn) \o Ops(both_true, Two("b", "b")),
     l |-> Map(LAMBDA x : List(S, x), ss) \o Ops(append, Two("l", "l")),
     p |-> Map(Tuple, ss) \o On(dup, smaller.s),
     f |-> On(make, smaller.s)]

RECURSIVE Exprs(_, _)
Exprs(env, d) ==
    LET leaf == Leaves(env) IN
    IF d = 0 THEN leaf
    ELSE LET ops == Operations(leaf, Exprs(env, d - 1))
         IN  [t \in DOMAIN leaf |-> leaf[t] \o ops[t]]

-----------------------------------------------------------------------------
Main(ti, arg) == Assembly(<<>>, ti, <<>>, Ap(2, arg))

Unused == Assembly(<<>>, VoidType, <<>>, Tuple(<<>>))

\* second, over captured values
Late(from, symbol) ==
    Assembly(<<N>>, S, <<Capture("Parameter", from, N), Capture(symbol, 1, S)>>,
             Ap(second, <<Nonlocal(1), Nonlocal(2)>>))

\* fun (s, n) { body }, where a lambda captures both parameters
OuterEnv ==
    [s |-> Parameter(1), n |-> Parameter(2), fns |-> <<Lambda(3), FunctionRef(3), FunctionRef(letter)>>]

Outer(ti, body) ==
    <<Main(ti, <<Literal(S, 2), Literal(N, 1)>>),
      Assembly(<<S, N>>, ti, <<>>, body), Late(2, "Parameter"), Unused>> \o Library

\* fun (s, n) { g = fun n { body }; g n }, where g captures s, and a lambda in
\* the body captures s again
InnerEnv == [s |-> Nonlocal(1), n |-> Parameter(1), fns |-> <<Lambda(4)>>]

Inner(ti, body) ==
    <<Main(ti, <<Literal(S, 2), Literal(N, 0)>>),
      Assembly(<<S, N>>, ti, <<>>, Ap(3, <<Parameter(2)>>)),
      Assembly(<<N>>, ti, <<Capture("Parameter", 1, S)>>, body), Late(1, "Nonlocal")>> \o Library

ByType(t) == CASE t = "s" -> S [] t = "n" -> N [] t = "l" -> L [] t = "p" -> P [] t = "f" -> F

Sources(depth) ==
    LET outer == Exprs(OuterEnv, depth)
        inner == Exprs(InnerEnv, depth)
        Family(Make(_, _), exprs, ts) ==
            FlattenSeq([j \in DOMAIN ts |-> Map(LAMBDA e : Make(ByType(ts[j]), e), exprs[ts[j]])])
    IN  Family(Outer, outer, <<"s", "n", "l", "p", "f">>)
        \o Family(Inner, inner, <<"s", "n", "l", "p">>)

\* The library is compiled once.
LibraryPart == <<Unused, Unused, Unused, Unused>> \o Library

LibraryCode(code(_, _)) == Eager([i \in DOMAIN Library |-> code(LibraryPart, i + 4)])

Linked(p, code(_, _), library) ==
    [fns |-> p, code |-> Eager([f \in 1..4 |-> code(p, f)]) \o library]

MCPrograms(depth) ==
    LET sources == Sources(depth)
        unoptimized == LibraryCode(Unoptimized)
        optimized == LibraryCode(Optimized)
    IN  Range(Eager([i \in DOMAIN sources |-> Linked(sources[i], Unoptimized, unoptimized)])
              \o Eager([i \in DOMAIN sources |-> Linked(sources[i], Optimized, optimized)]))
=============================================================================
