------------------------------ MODULE Programs ------------------------------
(***************************************************************************)
(* Shorthands for writing programs down.                                   *)
(***************************************************************************)
EXTENDS Machine

Lit(k) == <<"lit", Num(k)>>
Var(v) == <<"var", v>>
Bin(op, l, r) == <<"bin", op, l, r>>
Both(l, r) == <<"and", l, r>>
Either(l, r) == <<"or", l, r>>
Negated(e) == <<"not", e>>
CallOf(f, args) == <<"call", f, args>>
Lambda(params, body) == <<"lambda", params, body>>

Say(e) == <<"expr", CallOf("print", <<e>>)>>
Let(v, e) == <<"let", "let", v, e>>
Const(v, e) == <<"let", "const", v, e>>
Set(v, op, e) == <<"assign", v, op, e>>
Braces(ss) == <<"block", ss>>
If(e, ss) == <<"if", e, ss, None>>
IfElse(e, then, else) == <<"if", e, then, else>>
Loop(e, ss) == <<"loop", e, ss>>
Do(e, ss) == <<"do", e, ss>>
For(v, args, where, ss) == <<"for", v, args, where, ss>>
Try(ss, clauses) == <<"try", ss, clauses>>
Raising(e) == <<"throw", e>>
Result(e) == <<"return", e>>
Def(f, params, ss) == <<"def", f, params, "", ss>>

Typed(v) == <<v, "int">>
Plain(v) == <<v, "">>
=============================================================================
