----------------------------- MODULE MCMachine -----------------------------
(***************************************************************************)
(* Every one of Acts in every context, itself in another one, in the       *)
(* script and in a function: i counts, n is where it ends, s is a sum.     *)
(* Left out is what the code is known not to do as it is meant to: a name  *)
(* of the script that a parameter or a function declares again; closures   *)
(* over the variables of loops and blocks, or over one that a fused        *)
(* comparison or addition writes or reads; functions that use the locals   *)
(* of the function they are in; a compound assignment to a variable that   *)
(* is not local; break and continue out of a try.                          *)
(***************************************************************************)
EXTENDS Programs

i == Var("i")
n == Var("n")
s == Var("s")
x == Var("x")

Contexts == 12
In(k, ss) ==
  CASE k = 1 -> If(Bin(">", i, Lit(0)), ss)
    [] k = 2 -> IfElse(Bin("<=", i, Lit(1)), <<Say(Lit(90))>>, ss)
    [] k = 3 -> Braces(ss)
    [] k = 4 -> Loop(Bin("<", i, n), <<Set("i", "+=", Lit(1))>> \o ss)
    [] k = 5 -> Loop(Bin("<=", i, n), <<Set("i", "=", Bin("+", Lit(2), i))>> \o ss)
    [] k = 6 -> Do(Bin("<", i, n), <<Set("i", "+=", Lit(1))>> \o ss)
    [] k = 7 -> Do(Bin("<", i, Lit(0)), ss)
    [] k = 8 -> For("i", <<n>>, None, ss)
    [] k = 9 -> For("i", <<n, Lit(0)>>, Bin("!=", i, Lit(2)), ss)
    [] k = 10 -> For("i", <<Lit(0), n, Lit(2)>>, None, ss)
    [] k = 11 -> Try(ss, <<<<"bool", "e", <<Say(Lit(91))>>>>, <<"int", "e", <<Say(Var("e"))>>>>>>)
    [] k = 12 -> <<"switch", i, <<<<<<Lit(0), Lit(2)>>, ss>>,
                                  <<<<<<"type", "int", "q">>>>, <<Say(Var("q"))>> \o ss>>>>,
                   <<Say(Lit(92))>>>>

Identity == Lambda(<<Plain("x")>>, x)
AddSum == Lambda(<<Plain("x")>>, Bin("+", x, s))
Doubling ==
  Lambda(<<>>, Braces(<<Set("s", "=", Bin("*", s, Lit(2))), Say(s), <<"expr", Bin("-", s, n)>>>>))

Acts == <<
  <<Say(i), Set("s", "+=", i)>>,
  <<Set("s", "=", Bin("*", i, s)), Set("s", "-=", n), Say(s)>>,
  <<Let("i", Lit(10)), Set("i", "+=", s), Say(i)>>,
  <<Raising(Bin("+", i, s))>>,
  <<Say(i), Result(i)>>,
  <<Say(Either(Both(CallOf("yes", <<i>>), Bin("<", i, n)), CallOf("yes", <<s>>)))>>,
  <<If(Either(Bin("<", s, i), Bin("==", i, Lit(2))), <<<<"break">>>>), Say(i)>>,
  <<If(Both(Bin("<", i, s), Negated(Bin("==", i, Lit(3)))), <<<<"continue">>>>), Say(s)>>,
  <<Say(Bin("+", s, CallOf("fact", <<i>>))), Say(CallOf("near", <<i>>))>>,
  <<Try(<<Say(Bin("-", s, CallOf("stop", <<i>>)))>>, <<<<"int", "e", <<Say(Var("e"))>>>>>>)>>,
  <<Try(<<Say(Bin("-", s, CallOf("yes", <<i, s>>)))>>, <<<<"", "e", <<Say(Lit(93))>>>>>>)>>,
  <<Try(<<Say(Bin("-", i, CallOf("s", <<>>)))>>, <<<<"", "e", <<Say(i)>>>>>>)>>,
  <<Say(CallOf("twice", <<Var("next"), i>>)), Say(CallOf("twice", <<Identity, s>>))>>,
  <<Set("s", "+=", Var("k")), If(Bin("<=", s, Bin("*", Var("k"), Lit(3))), <<Say(s)>>)>>,
  <<Set("g", "=", s), Say(CallOf("yes", <<Bin("-", s, Lit(1))>>)), Say(CallOf("grow", <<i>>))>>,
  <<Let("f", AddSum), Set("s", "+=", Lit(2)), Set("s", "*=", n), Say(CallOf("f", <<i>>))>>,
  <<Let("f", Doubling), Set("s", "-=", i), Say(CallOf("f", <<>>)), Say(s)>>>>

\* The functions and constants that each of the acts uses.
Yes == Def("yes", <<Plain("x")>>, <<Say(x), Result(Bin(">", x, Lit(1)))>>)
Less(k) == Bin("-", x, Lit(k))
Uses(act) ==
  CASE act \in {6, 11} -> <<Yes>>
    [] act = 9 -> <<
         Def("fact", <<Plain("x")>>, <<If(Bin("<=", x, Lit(3)), <<Result(x)>>),
                                       Result(Bin("*", x, CallOf("fact", <<Less(1)>>)))>>),
         Def("near", <<Plain("x")>>, <<Result(CallOf("far", <<Less(1)>>))>>),
         Def("far", <<Plain("x")>>, <<Result(Negated(Bin("==", x, Lit(2))))>>)>>
    [] act = 10 -> <<Def("stop", <<Typed("x")>>, <<If(Bin(">", x, Lit(1)), <<Raising(x)>>),
                                                   Result(x)>>)>>
    [] act = 13 -> <<
         Def("next", <<Typed("x")>>, <<Set("x", "+=", Lit(1)), Result(x)>>),
         Def("twice", <<Plain("f"), Plain("x")>>, <<Result(CallOf("f", <<CallOf("f", <<x>>)>>))>>)>>
    [] act = 14 -> <<Const("k", Lit(2))>>
    [] act = 15 -> <<Yes, Let("g", Lit(5)),
                     Def("grow", <<Plain("x")>>, <<Set("g", "=", Bin("+", Var("g"), x)),
                                                   Result(Var("g"))>>)>>
    [] OTHER -> <<>>

\* break and continue need a loop, and leave no try; the closures are over a local.
Fits(outer, inner, act, script) ==
  /\ act \in {7, 8} => inner \in 4 .. 10 \/ (outer \in 4 .. 10 /\ inner # 11)
  /\ act \in {16, 17} => ~ script

Mixes == {c \in {2, 4, 6, 8, 9, 11, 12} \X (1 .. Contexts) \X (DOMAIN Acts) \X BOOLEAN :
            Fits(c[1], c[2], c[3], c[4])}

Nested(c) ==
  LET start == <<Let("s", Lit(1)), Let("i", Lit(0))>>
      body == <<In(c[1], <<In(c[2], Acts[c[3]])>>), Say(s), Say(i)>>
  IN Uses(c[3]) \o
     (IF c[4] THEN <<Let("n", Lit(3))>> \o start \o body
      ELSE <<Def("run", <<Typed("n")>>, start \o body), Say(CallOf("run", <<Lit(3)>>))>>)

Family == Loaded([c \in Mixes |-> Nested(c)])
=============================================================================
