----------------------------- MODULE MCScoping -----------------------------
(***************************************************************************)
(* Three programs that family MCMachine leaves out, each with a variable   *)
(* that a closure captures: the slot of one is declared again after its    *)
(* block, so that the later variable is written to the cell of the earlier *)
(* one; one is used by a function that is called without its closure; one  *)
(* is added to by the fused instruction that does not look for cells.      *)
(***************************************************************************)
EXTENDS Programs

\* def f() { let g = 0; if 0 == 0 { let a = 1; g = () => a }; if 0 == 0 { let b = 2 };
\*           return g() }; print(f())
BlockSlot ==
  LET always(ss) == If(Bin("==", Lit(0), Lit(0)), ss)
  IN <<Def("f", <<>>,
           <<Let("g", Lit(0)),
             always(<<Let("a", Lit(1)), Set("g", "=", Lambda(<<>>, Var("a")))>>),
             always(<<Let("b", Lit(2))>>),
             Result(CallOf("g", <<>>))>>),
       Say(CallOf("f", <<>>))>>

\* def f(a) { def g() { return a }; return g() }; print(f(1))
KnownFunction ==
  <<Def("f", <<Plain("a")>>,
        <<Def("g", <<>>, <<Result(Var("a"))>>), Result(CallOf("g", <<>>))>>),
    Say(CallOf("f", <<Lit(1)>>))>>

\* def f(a: int) { let g = () => a; a += a; return g() }; print(f(1))
CapturedSum ==
  <<Def("f", <<Typed("a")>>,
        <<Let("g", Lambda(<<>>, Var("a"))), Set("a", "+=", Var("a")), Result(CallOf("g", <<>>))>>),
    Say(CallOf("f", <<Lit(1)>>))>>

Capturing == Loaded(<<BlockSlot, KnownFunction, CapturedSum>>)
=============================================================================
