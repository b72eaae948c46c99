------------------------------- MODULE Syntax -------------------------------
(***************************************************************************)
(* The part of the language that the compiler and the VM are modelled for  *)
(* (internal/ast/ast.go), and the values of it.                            *)
(*                                                                         *)
(* An expression is one of                                                 *)
(*   <<"lit", v>>  <<"var", x>>  <<"not", e>>  <<"bin", op, l, r>>         *)
(*   <<"and", l, r>>  <<"or", l, r>>  <<"call", x, args>>                  *)
(*   <<"lambda", params, e>> or, with a block, <<"lambda", params,         *)
(*       <<"block", ss>>>>                                                 *)
(* a statement is one of                                                   *)
(*   <<"let", kind, x, e>>   kind: "let", "const" or "final"               *)
(*   <<"assign", x, op, e>>  op: "=", "+=", "-=" or "*="                   *)
(*   <<"expr", e>>  <<"block", ss>>  <<"if", e, then, else>>               *)
(*   <<"loop", e, ss>>  <<"do", e, ss>>  <<"for", x, args, where, ss>>     *)
(*   <<"break">>  <<"continue">>  <<"return", e>>  <<"throw", e>>          *)
(*   <<"try", ss, catches>>  a catch is <<type or "", x, ss>>              *)
(*   <<"switch", e, arms, default>>  an arm is <<patterns, ss>>, a pattern *)
(*       an expression or <<"type", type, x>>                              *)
(*   <<"def", f, params, type or "", ss>>                                  *)
(* where ss is a sequence of statements, params one of <<name, type>>, and *)
(* where and else may be None.  A program is a sequence of statements.     *)
(***************************************************************************)
EXTENDS Integers, Sequences, SequencesExt, FiniteSetsExt, Functions, TLC

None == <<"none">>
Nil == <<"nil">>
Num(n) == <<"int", n>>
Bool(b) == <<"bool", b>>
True == Bool(TRUE)
False == Bool(FALSE)

IsInt(v) == v[1] = "int"
Callable(v) == v[1] \in {"closure", "fn", "builtin"}

\* Kind of a value as MATCH_TYPE and catch clauses see it.
KindOf(v) == v[1]

\* Value.IsTruthy for these values.
IsTruthy(v) == v \notin {Nil, False}

\* What an operator makes of two values; None when it does not take them.
Apply(op, l, r) ==
  IF op = "==" THEN Bool(l = r)
  ELSE IF ~ (IsInt(l) /\ IsInt(r)) THEN None
  ELSE CASE op = "+" -> Num(l[2] + r[2])
         [] op = "-" -> Num(l[2] - r[2])
         [] op = "*" -> Num(l[2] * r[2])
         [] op = "<" -> Bool(l[2] < r[2])
         [] op = ">" -> Bool(l[2] > r[2])
         [] op = "<=" -> Bool(l[2] <= r[2])
         [] op = ">=" -> Bool(l[2] >= r[2])

\* The operator of a compound assignment.
Operators == ("+=" :> "+") @@ ("-=" :> "-") @@ ("*=" :> "*")

\* lambdaBlock: the statements of a lambda.
LambdaBlock(body) ==
  IF body[1] # "block" THEN <<<<"return", body>>>>
  ELSE IF Last(body[2])[1] = "expr"
       THEN Append(Front(body[2]), <<"return", Last(body[2])[2]>>) ELSE body[2]

\* What op makes of start and the members of seq in turn: FoldLeft, with less for TLC to nest.
Along(op(_, _), start, seq) ==
  LET at[k \in 0 .. Len(seq)] == IF k = 0 THEN start ELSE op(at[k - 1], seq[k])
  IN at[Len(seq)]

Name(param) == param[1]
Names(params) == {Name(params[i]) : i \in DOMAIN params}
=============================================================================
