--------------------------- MODULE MCScriptCases ---------------------------
(***************************************************************************)
(* A small program which executes a closure twice.                         *)
(***************************************************************************)
EXTENDS Script

S == StringType
N == IntType

Linked(p, code(_, _)) == [fns |-> p, code |-> Eager([f \in DOMAIN p |-> code(p, f)])]

\* concat ("a", "b"), where concat is function number f
Fresh(f) == Call(FunctionRef(f), Tuple(<<Literal(S, 1), Literal(S, 2)>>), 0)

-----------------------------------------------------------------------------
\* keep = fun s:String { fun n:Int { s } }
\* twice = fun f:(Int -> String) { concat (f 1, f 0) }
\* twice (keep (concat ("a", "b")))
SharedProgram ==
    LET Pair == FunctionType(N, S) IN
    <<Assembly(<<>>, S, <<>>,
               Call(FunctionRef(4), Call(FunctionRef(2), Fresh(5), 0), 0)),
      Assembly(<<S>>, Pair, <<>>, Lambda(3)),
      Assembly(<<N>>, S, <<Capture("Parameter", 1, S)>>, Nonlocal(1)),
      Assembly(<<Pair>>, S, <<>>,
               Call(FunctionRef(5),
                    Tuple(<<Call(Parameter(1), Literal(N, 1), 0),
                            Call(Parameter(1), Literal(N, 0), 0)>>), 0)),
      Native(<<S, S>>, S, "Concat")>>

Shared(size) == {Linked(SharedProgram, Unoptimized)}
=============================================================================
