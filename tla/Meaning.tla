------------------------------ MODULE Meaning ------------------------------
(***************************************************************************)
(* What a program means (docs/language/basics.md, control-flow.md and the  *)
(* tests beside the compiler), stated over its syntax with environments    *)
(* and no slots: a name is bound to a cell, a block's bindings end with    *)
(* it, every let, parameter and turn of a range loop makes a cell, and a   *)
(* function keeps the environment it was made in.  The names the script    *)
(* itself declares have one cell each, empty until declared.               *)
(*                                                                         *)
(* Evaluation yields how it ended, with what value, and the memory: cells  *)
(* and what has been printed.  An ending is "ok", "break", "continue",     *)
(* "return", "threw" or "fault", an error that no catch clause sees: an    *)
(* operand of the wrong type or a name that is not there.                  *)
(***************************************************************************)
EXTENDS Syntax

Ended(how, v, m) == [how |-> how, v |-> v, m |-> m]
Ok(v, m) == Ended("ok", v, m)
Fault(m) == Ended("fault", Nil, m)

\* The error that a wrong number of arguments or something not callable raises.
ErrorValue == <<"error">>

\* A name bound to a new cell: the environment and the memory.
Bound(env, m, x, v) ==
  [env |-> (x :> Len(m.cells) + 1) @@ env,
   m |-> [m EXCEPT !.cells = Append(@, v)]]
BoundAll(env, m, xs, vs) ==
  Along(LAMBDA acc, i : Bound(acc.env, acc.m, xs[i], vs[i]), [env |-> env, m |-> m],
           [i \in DOMAIN xs |-> i])

\* The numbers range(...) counts through.
RECURSIVE Counted(_, _, _)
Counted(from, to, step) ==
  IF (step > 0 /\ from >= to) \/ (step < 0 /\ from <= to) THEN <<>>
  ELSE <<from>> \o Counted(from + step, to, step)
Counts(args) ==
  CASE Len(args) = 1 -> Counted(0, args[1][2], 1)
    [] Len(args) = 2 -> Counted(args[1][2], args[2][2], IF args[1][2] > args[2][2] THEN -1 ELSE 1)
    [] Len(args) = 3 -> Counted(args[1][2], args[2][2], args[3][2])

Matches(v, typ) == typ \in {"", "any", KindOf(v)}

-----------------------------------------------------------------------------
\* The value of an expression, or how a statement ends.  Besides the forms of Syntax there are
\* <<"list", es>>, whose value is the sequence of theirs, and <<"choose", v, arms, default>>, a
\* switch over v.
RECURSIVE Eval(_, _, _)

\* What next makes of the value, unless there is none.
Then(r, next(_)) == IF r.how = "ok" THEN next(r) ELSE r

Values(es, env, m) ==
  IF es = <<>> THEN Ok(<<>>, m)
  ELSE Then(Eval(Head(es), env, m),
            LAMBDA v : Then(Eval(<<"list", Tail(es)>>, env, v.m),
                            LAMBDA vs : Ok(<<v.v>> \o vs.v, vs.m)))

Lookup(x, env, m) ==
  IF x \in DOMAIN env /\ m.cells[env[x]] # None THEN Ok(m.cells[env[x]], m) ELSE Fault(m)

Truth(r) == Then(r, LAMBDA v : Ok(Bool(IsTruthy(v.v)), v.m))

Made(op, l, r, m) ==
  LET v == IF op = "!=" THEN Bool(l # r) ELSE Apply(op, l, r)
  IN IF v = None THEN Fault(m) ELSE Ok(v, m)

\* A call of a value: a body that ends without return yields nil.
Entered(f, begun) == Eval(<<"block", f[3]>>, begun.env, begun.m)
Returned(ran) == IF ran.how = "ok" THEN Ok(Nil, ran.m)
                 ELSE IF ran.how = "return" THEN Ok(ran.v, ran.m) ELSE ran
Invoke(f, args, m) ==
  IF f[1] = "builtin" THEN Ok(Nil, [m EXCEPT !.out = Append(@, args)])
  ELSE IF f[1] # "function" \/ Len(f[2]) # Len(args) THEN Ended("threw", ErrorValue, m)
  ELSE Returned(Entered(f, BoundAll(f[4], m, [i \in DOMAIN f[2] |-> Name(f[2][i])], args)))

\* The statements of a block; what they bind ends with it.
Binding(s) == s[1] \in {"let", "def"}
NameOf(s) == IF s[1] = "let" THEN s[3] ELSE s[2]
Done(s, env, m) ==
  CASE s[1] = "let" -> Eval(s[4], env, m)
    [] s[1] = "def" -> Ok(<<"function", s[3], s[5], env>>, m)
    [] OTHER -> Eval(s, env, m)
Block(ss, env, m) ==
  LET with(e, r, s) == IF r.how = "ok" /\ Binding(s)
                       THEN [ran |-> r, scope |-> Bound(e, r.m, NameOf(s), r.v)]
                       ELSE [ran |-> r, scope |-> [env |-> e, m |-> r.m]]
      step(at, s) == IF at.ran.how # "ok" THEN at
                     ELSE with(at.scope.env, Done(s, at.scope.env, at.scope.m), s)
      end(at) == IF at.ran.how = "ok" THEN Ok(Nil, at.scope.m) ELSE at.ran
  IN end(Along(step, [ran |-> Ok(Nil, m), scope |-> [env |-> env, m |-> m]], ss))

Assign(x, op, e, env, m) ==
  LET stored(r) == Ok(Nil, [r.m EXCEPT !.cells[env[x]] = r.v])
  IN Then(Lookup(x, env, m),
          LAMBDA old : Then(Eval(e, env, old.m),
            LAMBDA new : IF op = "=" THEN stored(new)
                         ELSE Then(Made(Operators[op], old.v, new.v, new.m), stored)))

\* After a turn of a loop: it goes on, or it ends, or what it is in does.
Again(ran, next(_)) == IF ran.how \in {"ok", "continue"} THEN next(ran.m) ELSE ran
After(ran) == IF ran.how \in {"break", "continue"} THEN Ok(Nil, ran.m) ELSE ran

\* for x in range where e: once for each number that passes.
Turn(where, ss, begun) ==
  Then(IF where = None THEN Ok(True, begun.m) ELSE Eval(where, begun.env, begun.m),
       LAMBDA test : IF IsTruthy(test.v) THEN Eval(<<"block", ss>>, begun.env, test.m)
                     ELSE Ok(Nil, test.m))
Turns(x, ns, where, ss, env, m) ==
  After(Along(LAMBDA ran, k : Again(ran, LAMBDA n : Turn(where, ss, Bound(env, n, x, Num(k)))),
                 Ok(Nil, m), ns))

\* The first clause whose type the value has.
Catching(clauses, env, thrown) ==
  LET k == SelectInSeq(clauses, LAMBDA c : Matches(thrown.v, c[1]))
      caught(begun) == Eval(<<"block", clauses[k][3]>>, begun.env, begun.m)
  IN IF thrown.how # "threw" \/ k = 0 THEN thrown
     ELSE caught(Bound(env, thrown.m, clauses[k][2], thrown.v))

\* The first arm with a pattern the value matches; default when there is none.
Choosing(v, arms, default, env, m) ==
  LET pattern == Head(arms)[1][1]
      others == IF Len(Head(arms)[1]) = 1 THEN Tail(arms)
                ELSE <<<<Tail(Head(arms)[1]), Head(arms)[2]>>>> \o Tail(arms)
      next(n) == Eval(<<"choose", v, others, default>>, env, n)
      chosen(begun) == Eval(<<"block", Head(arms)[2]>>, begun.env, begun.m)
  IN IF arms = <<>> THEN IF default = None THEN Ok(Nil, m) ELSE Eval(<<"block", default>>, env, m)
     ELSE IF pattern[1] = "type"
     THEN IF Matches(v, pattern[2]) THEN chosen(Bound(env, m, pattern[3], v)) ELSE next(m)
     ELSE Then(Eval(pattern, env, m),
               LAMBDA r : IF r.v = v THEN chosen([env |-> env, m |-> r.m]) ELSE next(r.m))

Eval(e, env, m) ==
  LET value(k) == Eval(e[k], env, m)
      block(ss, n) == Eval(<<"block", ss>>, env, n)
      ends(how) == Then(value(2), LAMBDA r : Ended(how, r.v, r.m))
      loop == IF e[1] = "do" THEN <<"loop", e[2], e[3]>> ELSE e
      turn(n) == Again(block(e[3], n), LAMBDA k : Eval(loop, env, k))
  IN CASE e[1] = "lit" -> Ok(e[2], m)
       [] e[1] = "var" -> Lookup(e[2], env, m)
       [] e[1] = "list" -> Values(e[2], env, m)
       [] e[1] = "not" -> Then(value(2), LAMBDA r : Ok(Bool(~ IsTruthy(r.v)), r.m))
       [] e[1] = "bin" -> Then(Values(<<e[3], e[4]>>, env, m),
                               LAMBDA r : Made(e[2], r.v[1], r.v[2], r.m))
       [] e[1] = "and" -> Then(value(2), LAMBDA r : IF ~ IsTruthy(r.v) THEN Ok(False, r.m)
                                                    ELSE Truth(Eval(e[3], env, r.m)))
       [] e[1] = "or" -> Then(value(2), LAMBDA r : IF IsTruthy(r.v) THEN Ok(True, r.m)
                                                   ELSE Truth(Eval(e[3], env, r.m)))
       [] e[1] = "call" -> Then(Lookup(e[2], env, m),
                                LAMBDA f : Then(Values(e[3], env, f.m),
                                                LAMBDA r : Invoke(f.v, r.v, r.m)))
       [] e[1] = "lambda" -> Ok(<<"function", e[2], LambdaBlock(e[3]), env>>, m)
       [] e[1] = "expr" -> ends("ok")
       [] e[1] = "return" -> ends("return")
       [] e[1] = "throw" -> ends("threw")
       [] e[1] \in {"break", "continue"} -> Ended(e[1], Nil, m)
       [] e[1] = "assign" -> Assign(e[2], e[3], e[4], env, m)
       [] e[1] = "block" -> Block(e[2], env, m)
       [] e[1] = "if" -> Then(value(2), LAMBDA r : IF IsTruthy(r.v) THEN block(e[3], r.m)
                                                   ELSE IF e[4] = None THEN Ok(Nil, r.m)
                                                   ELSE block(e[4], r.m))
       [] e[1] = "loop" -> Then(value(2), LAMBDA r : IF IsTruthy(r.v) THEN After(turn(r.m))
                                                     ELSE Ok(Nil, r.m))
       [] e[1] = "do" -> After(turn(m))
       [] e[1] = "for" ->
            Then(Values(e[3], env, m),
                 LAMBDA r : IF \E i \in DOMAIN r.v : ~ IsInt(r.v[i]) THEN Fault(r.m)
                            ELSE Turns(e[2], Counts(r.v), e[4], e[5], env, r.m))
       [] e[1] = "try" -> Catching(e[3], env, block(e[2], m))
       [] e[1] = "switch" -> Then(value(2), LAMBDA r : Choosing(r.v, e[3], e[4], env, r.m))
       [] e[1] = "choose" -> Choosing(e[2], e[3], e[4], env, m)

-----------------------------------------------------------------------------
\* The statements of the script: let and def fill the cells of its own names.
RunScript(ss, env, m) ==
  LET stored(r, s) == IF Binding(s) THEN Ok(Nil, [r.m EXCEPT !.cells[env[NameOf(s)]] = r.v]) ELSE r
  IN Along(LAMBDA ran, s : Then(ran, LAMBDA r : Then(Done(s, env, r.m), LAMBDA k : stored(k, s))),
              Ok(Nil, m), ss)

\* What a program prints and how it ends.
Meaning(program) ==
  LET declaring == SelectSeq(program, Binding)
      names == [i \in DOMAIN declaring |-> NameOf(declaring[i])]
      empty == BoundAll(<<>>, [cells |-> <<>>, out |-> <<>>], names, [i \in DOMAIN names |-> None])
      begun == Bound(empty.env, empty.m, "print", <<"builtin", "print">>)
      ran == RunScript(program, begun.env, begun.m)
  IN [out |-> ran.m.out,
      ending |-> CASE ran.how = "threw" -> "threw" [] ran.how = "fault" -> "fault"
                   [] OTHER -> "done"]
=============================================================================
