------------------------------ MODULE Compiler ------------------------------
(***************************************************************************)
(* The compiler (compiler.go): how names are resolved to local slots,      *)
(* captures, global slots and constants, how control flow becomes jumps,   *)
(* and which instructions are fused.  Compile(program) is the sequence of  *)
(* its functions, the script last.                                         *)
(*                                                                         *)
(* An instruction is a tuple, its opcode first and the target of a jump    *)
(* last.  Targets are positions, not distances, and the operands of an     *)
(* instruction cannot be taken for opcodes: module Emitter has the bytes.  *)
(* Left out are classes, strings, arrays and maps with the instructions    *)
(* fused for them, the operator %, OpFreeze, which concerns objects only,  *)
(* and modules, which force every name to be global.                       *)
(***************************************************************************)
EXTENDS Syntax

(* A compilation is a record:                                              *)
(*   fs        the functions begun, the innermost last (state, parent)     *)
(*   fns       the functions finished                                      *)
(*   consts    c.consts: names known to be constant                        *)
(*   types     c.globalTypes                                               *)
(*   captured  c.capturedGlobals       slots  the names of c.globalSlots   *)
(*   sigs      c.functionSigs: declared return types                       *)
(* and a function begun is one of what state, local and loopContext hold.  *)
(* marks are the positions where statements start.                         *)

Top(c) == Last(c.fs)
Here(c) == Len(Top(c).code) + 1
Latest(c) == Len(Top(c).code)
Emit(c, instr) == [c EXCEPT !.fs[Len(c.fs)].code = Append(@, instr)]
EmitAll(c, instrs) == [c EXCEPT !.fs[Len(c.fs)].code = @ \o instrs]

\* patchJump
Aimed(instr, at) == [instr EXCEPT ![Len(instr)] = at]
Patch(c, jump) == [c EXCEPT !.fs[Len(c.fs)].code[jump] = Aimed(@, Here(c))]
PatchAll(c, jumps) ==
  [c EXCEPT !.fs[Len(c.fs)].code =
     [i \in DOMAIN @ |-> IF i \in Range(jumps) THEN Aimed(@[i], Here(c)) ELSE @[i]]]

\* emitJump, with peepholeNotFold and peepholeLocalLocalCmp.  The jump is the latest
\* instruction; it has no target yet.
EmitJump(c, asked) ==
  LET code == Top(c).code
      n == Len(code)
      folds == asked = "JUMP_IF_FALSE_POP" /\ code[n] = <<"NOT">>
      m == IF folds THEN n - 1 ELSE n
      conditional == asked = "JUMP_IF_FALSE_POP"
      fuses == /\ conditional /\ m > 2
               /\ code[m] \in {<<"BIN", "<", TRUE>>, <<"BIN", ">", TRUE>>}
               /\ code[m - 1][1] = "GET_LOCAL" /\ code[m - 2][1] = "GET_LOCAL"
      jump == IF fuses
              THEN <<"JUMP_IF_LOCALS", code[m][2], folds, code[m - 2][2], code[m - 1][2], 0>>
              ELSE IF folds THEN <<"JUMP_IF_TRUE_POP", 0>> ELSE <<asked, 0>>
      kept == IF fuses THEN m - 3 ELSE m
  IN [c EXCEPT !.fs[Len(c.fs)].code = Append(SubSeq(code, 1, kept), jump)]

-----------------------------------------------------------------------------
(* Names: scopes, local slots, captures, constants. *)

BeginScope(c) == [c EXCEPT !.fs[Len(c.fs)].depth = @ + 1]

\* Mutant: the locals of a scope keep their names and slots after its end.
EndScopeKeeping(c) == [c EXCEPT !.fs[Len(c.fs)].depth = @ - 1]

EndScope(c) ==
  [c EXCEPT !.fs[Len(c.fs)] =
     [@ EXCEPT !.locals = SelectSeq(@, LAMBDA l : l.depth < Top(c).depth), !.depth = @ - 1]]

Declare(c, x, typ) ==
  LET f == Top(c)
      locals == Append(f.locals, [name |-> x, depth |-> f.depth, typ |-> typ, const |-> None])
  IN [c EXCEPT !.fs[Len(c.fs)] =
        [@ EXCEPT !.locals = locals, !.max = IF Len(locals) > @ THEN Len(locals) ELSE @]]

\* The slot declared last.
Newest(c) == Len(Top(c).locals)

\* resolveLocal: the slot, or 0.
Local(f, x) == SelectLastInSeq(f.locals, LAMBDA l : l.name = x)

\* addUpvalue
AddUpvalue(fs, d, up) ==
  LET known == SelectInSeq(fs[d].upvalues,
                           LAMBDA u : u.index = up.index /\ u.isLocal = up.isLocal)
  IN IF known # 0 THEN [fs |-> fs, idx |-> known, typ |-> up.typ]
     ELSE [fs |-> [fs EXCEPT ![d].upvalues = Append(@, up)],
           idx |-> Len(fs[d].upvalues) + 1, typ |-> up.typ]

\* resolveUpvalueFrom, for the function at level d: the capture, 0 when there is none, and the
\* functions with the captures it takes to get there.  Its parent has the local l, or the
\* capture that is found from there.
OwnLocal(fs, d, l) ==
  AddUpvalue(fs, d, [index |-> l, isLocal |-> TRUE, typ |-> fs[d - 1].locals[l].typ,
                     const |-> fs[d - 1].locals[l].const])
OuterCapture(found, d) ==
  IF found.idx = 0 THEN found
  ELSE AddUpvalue(found.fs, d, [index |-> found.idx, isLocal |-> FALSE, typ |-> found.typ,
                                const |-> found.fs[d - 1].upvalues[found.idx].const])

RECURSIVE Capture(_, _, _)
Capture(fs, d, x) ==
  IF d = 1 THEN [fs |-> fs, idx |-> 0, typ |-> ""]
  ELSE IF Local(fs[d - 1], x) # 0 THEN OwnLocal(fs, d, Local(fs[d - 1], x))
  ELSE OuterCapture(Capture(fs, d - 1, x), d)

CaptureOf(c, x) == Capture(c.fs, Len(c.fs), x)

\* resolveInlineConst: it looks for a capture of every name that is no constant local, and
\* takes what it finds into the function's captures, whether or not it will be used.
WithCapture(c, x, k) ==
  [c |-> [c EXCEPT !.fs = k.fs],
   value |-> IF k.idx # 0 /\ Last(k.fs).upvalues[k.idx].const # None
             THEN Last(k.fs).upvalues[k.idx].const
             ELSE IF x \in DOMAIN c.consts THEN c.consts[x] ELSE None]

InlineConst(c, x) ==
  LET l == Local(Top(c), x)
      own == IF l # 0 THEN Top(c).locals[l].const ELSE None
  IN IF own # None THEN [c |-> c, value |-> own] ELSE WithCapture(c, x, CaptureOf(c, x))

\* Where compileExpr and compileStmt find a variable that is no constant.
Place(c, x) ==
  IF Local(Top(c), x) # 0 THEN "local"
  ELSE IF CaptureOf(c, x).idx # 0 THEN "capture"
  ELSE IF x \in c.slots THEN "slot" ELSE "global"

\* The operand of the instruction that gets or sets the variable there.
Operand(c, x, place) ==
  CASE place = "local" -> Local(Top(c), x)
    [] place = "capture" -> CaptureOf(c, x).idx
    [] OTHER -> x

Getter == [local |-> "GET_LOCAL", capture |-> "GET_CAPTURE", slot |-> "GET_GLOBAL_SLOT",
           global |-> "GET_GLOBAL"]
Setter == [local |-> "SET_LOCAL", capture |-> "SET_CAPTURE", slot |-> "SET_GLOBAL_SLOT",
           global |-> "SET_GLOBAL"]

\* compileExpr for a VariableExpr.
Get(c, x, place) == Emit(c, <<Getter[place], Operand(c, x, place)>>)
ValueOf(k, x) ==
  IF k.value # None THEN Emit(k.c, <<"PUSH", k.value>>) ELSE Get(k.c, x, Place(k.c, x))
Variable(c, x) == ValueOf(InlineConst(c, x), x)

-----------------------------------------------------------------------------
(* Types and constants, as far as they choose instructions. *)

Numeric(typ) == typ \in {"int", "number"}

\* inferExprType
RECURSIVE Infer(_, _)
Infer(c, e) ==
  CASE e[1] = "lit" -> IF e[2] = Nil THEN "" ELSE KindOf(e[2])
    [] e[1] = "var" ->
         LET l == Local(Top(c), e[2])
             k == CaptureOf(c, e[2])
         IN IF l # 0 THEN Top(c).locals[l].typ
            ELSE IF k.idx # 0 THEN k.typ
            ELSE IF e[2] \in DOMAIN c.types THEN c.types[e[2]] ELSE ""
    [] e[1] = "call" -> IF e[2] \in DOMAIN c.sigs THEN c.sigs[e[2]] ELSE ""
    [] e[1] = "lambda" -> "Function"
    [] e[1] \in {"and", "or", "not"} -> "bool"
    [] e[1] = "bin" ->
         LET l == Infer(c, e[3])
             r == Infer(c, e[4])
         IN IF e[2] \notin {"+", "-", "*"} THEN "bool"
            ELSE IF ~ (Numeric(l) /\ Numeric(r)) THEN ""
            ELSE IF l = "int" /\ r = "int" THEN "int" ELSE "number"

\* evalConstExpr: the value, or None.
FoldedLogic(op, vs) ==
  LET true == {i \in DOMAIN vs : IsTruthy(vs[i])}
  IN IF None \in Range(vs) THEN None
     ELSE Bool(CASE op = "not" -> true = {} [] op = "and" -> true = DOMAIN vs [] OTHER -> true # {})
FoldedBinary(op, l, r) ==
  IF l = None \/ r = None THEN None ELSE IF op = "!=" THEN Bool(l # r) ELSE Apply(op, l, r)

RECURSIVE ConstOf(_, _)
ConstOf(c, e) ==
  CASE e[1] = "lit" -> e[2]
    [] e[1] = "var" -> InlineConst(c, e[2]).value
    [] e[1] \in {"not", "and", "or"} ->
         FoldedLogic(e[1], [i \in 1 .. Len(e) - 1 |-> ConstOf(c, e[i + 1])])
    [] e[1] = "bin" -> FoldedBinary(e[2], ConstOf(c, e[3]), ConstOf(c, e[4]))
    [] OTHER -> None

IsIntConst(v) == v # None /\ IsInt(v)
IntConst(c, e) == IsIntConst(ConstOf(c, e))

\* matchSelfCallableLocalSubInt, matchConstCallableLocalSubInt: one argument, a local minus
\* an integer constant.
LocalMinusConst(c, args) ==
  /\ Len(args) = 1
  /\ args[1][1] = "bin" /\ args[1][2] = "-"
  /\ args[1][3][1] = "var" /\ Local(Top(c), args[1][3][2]) # 0
  /\ IntConst(c, args[1][4])

-----------------------------------------------------------------------------
(* Functions. *)

NewFunction(name, params, depth) ==
  [name |-> name, arity |-> Len(params), code |-> <<>>, upvalues |-> <<>>, loops |-> <<>>,
   locals |-> [i \in DOMAIN params |->
                 [name |-> Name(params[i]), depth |-> 1, typ |-> params[i][2], const |-> None]],
   max |-> Len(params), depth |-> depth, marks |-> {}]

\* The function begun last is complete.
Finish(c) ==
  LET d == EmitAll(c, <<<<"PUSH", Nil>>, <<"RETURN">>>>)
      f == Top(d)
  IN [d EXCEPT !.fs = Front(@),
               !.fns = Append(@, [code |-> f.code, arity |-> f.arity, max |-> f.max,
                                  upvalues |-> f.upvalues, marks |-> f.marks])]

\* compileExpr or compileStmt, by the node's form.
RECURSIVE Node(_, _), Nodes(_, _)
Nodes(c, ns) == IF c.fs = <<>> \/ ns = <<>> THEN c ELSE Nodes(Node(c, Head(ns)), Tail(ns))

\* compileCallable: the function finished is the last of fns.
Function(c, name, params, body) ==
  Finish(Nodes([c EXCEPT !.fs = Append(@, NewFunction(name, params, 1))], body))

Scoped(c, ss) == EndScope(Nodes(BeginScope(c), ss))   \* compileBlock

-----------------------------------------------------------------------------
(* Expressions. *)

\* compileBinary: the comparisons are made of <, > and ==.
Binary(c, op, l, r) ==
  LET operands == Node(Node(c, l), r)
      numeric == Numeric(Infer(operands, l)) /\ Numeric(Infer(operands, r))
      negated == <<<<"NOT">>>>
  IN EmitAll(operands,
       CASE op \in {"+", "-", "*", "<", ">"} -> <<<<"BIN", op, numeric>>>>
         [] op = "==" -> <<<<"BIN", "==", FALSE>>>>
         [] op = "!=" -> <<<<"BIN", "==", FALSE>>>> \o negated
         [] op = ">=" -> <<<<"BIN", "<", numeric>>>> \o negated
         [] op = "<=" -> <<<<"BIN", ">", numeric>>>> \o negated)

And(c, l, r) ==
  LET c1 == EmitJump(Node(c, l), "JUMP_IF_FALSE_POP")
      c2 == EmitJump(Node(c1, r), "JUMP_IF_FALSE_POP")
      c3 == EmitAll(c2, <<<<"PUSH", True>>, <<"JUMP", 0>>>>)
      c4 == PatchAll(c3, <<Latest(c1), Latest(c2)>>)
  IN Patch(Emit(c4, <<"PUSH", False>>), Latest(c3))

Or(c, l, r) ==
  LET c1 == EmitJump(Node(c, l), "JUMP_IF_FALSE_POP")
      c2 == EmitAll(c1, <<<<"PUSH", True>>, <<"JUMP", 0>>>>)
      c3 == EmitJump(Node(Patch(c2, Latest(c1)), r), "JUMP_IF_FALSE_POP")
      c4 == EmitAll(c3, <<<<"PUSH", True>>, <<"JUMP", 0>>>>)
      c5 == Emit(Patch(c4, Latest(c3)), <<"PUSH", False>>)
  IN PatchAll(c5, <<Latest(c2), Latest(c4)>>)

\* A CallExpr whose callee is a variable: the function itself or a known one with a local
\* minus a constant, a known one, one in a global slot, or a value.
CallSelf(c, arg) ==
  Emit(c, <<"CALL_SELF_LOCAL_SUB", Local(Top(c), arg[3][2]), ConstOf(c, arg[4])[2]>>)
CallKnown(c, fn, args) ==
  IF LocalMinusConst(c, args)
  THEN Emit(c, <<"CALL_CONST_LOCAL_SUB", fn, Local(Top(c), args[1][3][2]),
                 ConstOf(c, args[1][4])[2]>>)
  ELSE Emit(Nodes(c, args), <<"CALL_CONST", fn, Len(args)>>)
CallOther(k, x, args) ==
  IF k.value # None /\ Callable(k.value) THEN CallKnown(k.c, k.value, args)
  ELSE IF k.value = None /\ Place(k.c, x) = "slot"
       THEN Emit(Nodes(k.c, args), <<"CALL_GLOBAL_SLOT", x, Len(args)>>)
  ELSE Emit(Nodes(ValueOf(k, x), args), <<"CALL", Len(args)>>)

Call(c, x, args) ==
  IF Len(c.fs) > 1 /\ Top(c).name = x /\ LocalMinusConst(c, args) THEN CallSelf(c, args[1])
  ELSE CallOther(InlineConst(c, x), x, args)

\* compileExpr
Expr(c, e) ==
  CASE e[1] = "lit" -> Emit(c, <<"PUSH", e[2]>>)
    [] e[1] = "var" -> Variable(c, e[2])
    [] e[1] = "not" -> Emit(Node(c, e[2]), <<"NOT">>)
    [] e[1] = "bin" -> Binary(c, e[2], e[3], e[4])
    [] e[1] = "and" -> And(c, e[2], e[3])
    [] e[1] = "or" -> Or(c, e[2], e[3])
    [] e[1] = "call" -> Call(c, e[2], e[3])
    [] e[1] = "lambda" ->
         LET d == Function(c, "<lambda>", e[2], LambdaBlock(e[3]))
         IN Emit(d, <<"CLOSURE", Len(d.fns)>>)

-----------------------------------------------------------------------------
(* Declarations and assignments. *)

With(f, x, v) == (x :> v) @@ f

\* A LetStmt after its value: a local of the script unless some function uses the name, else
\* the global slot of that name if there is one, else a local.
Bind(c, kind, x, typ, const) ==
  IF x \in c.slots /\ ~ (Len(c.fs) = 1 /\ x \notin c.captured)
  THEN Emit([c EXCEPT !.types = With(@, x, typ)], <<"DEFINE_GLOBAL_SLOT", x>>)
  ELSE LET d == Declare(c, x, typ)
           n == Newest(d)
           e == IF kind = "final"
                THEN [d EXCEPT !.fs[Len(d.fs)].locals[n].const = const] ELSE d
       IN Emit(e, <<"SET_LOCAL", n>>)

LetStmt(c, kind, x, e) ==
  LET const == IF kind = "let" THEN None ELSE ConstOf(c, e)
      d == Node(c, e)
      known == IF const = None THEN d ELSE [d EXCEPT !.consts = With(@, x, const)]
  IN Bind(known, kind, x, Infer(c, e), const)

\* FunctionStmt: the name is a known constant from here on.
FunctionStmt(c, f, params, body) ==
  LET d == Function(c, f, params, body)
      fn == Len(d.fns)
      known == [d EXCEPT !.consts = With(@, f, <<"fn", fn>>), !.types = With(@, f, "Function")]
      made == Emit(known, <<"CLOSURE", fn>>)
  IN IF Top(c).depth = 0 THEN Emit(made, <<"DEFINE_GLOBAL_SLOT", f>>)
     ELSE LET e == Declare(made, f, "Function") IN Emit(e, <<"SET_LOCAL", Newest(e)>>)

\* The operand that is not the variable itself in x = x op e (or, when op commutes, e op x);
\* None if the value has another form.
Other(x, e, ops, commuting) ==
  IF e[1] # "bin" \/ e[2] \notin ops THEN None
  ELSE IF e[3] = <<"var", x>> THEN e[4]
  ELSE IF e[2] \in commuting /\ e[4] = <<"var", x>> THEN e[3] ELSE None

\* emitFastAddConstLocalAssign: what is added to the local, None unless it is a constant.
\* INC_LOCAL and DEC_LOCAL are taken for the same instruction.
AddedConst(c, x, op, e) ==
  LET other == Other(x, e, {"+", "-"}, {"+"})
      operand == IF op = "=" THEN other ELSE IF op \in {"+=", "-="} THEN e ELSE None
      sign == IF op = "-=" \/ (op = "=" /\ e[2] = "-") THEN -1 ELSE 1
  IN IF operand = None \/ ~ IntConst(c, operand) THEN None
     ELSE Num(sign * ConstOf(c, operand)[2])

\* emitFastAddLocalLocal: the local added, 0 for none.
AddedLocal(c, x, op, e) ==
  LET operand == IF op = "+=" THEN e ELSE IF op = "=" THEN Other(x, e, {"+"}, {"+"}) ELSE None
      l == IF operand[1] = "var" THEN Local(Top(c), operand[2]) ELSE 0
  IN IF l # 0 /\ Top(c).locals[l].typ = "int" THEN l ELSE 0

\* An AssignStmt to a local.
AssignLocal(c, slot, x, op, e) ==
  LET typ == Top(c).locals[slot].typ
      added == AddedConst(c, x, op, e)
      other == Other(x, e, {"+", "-", "*"}, {"+", "*"})
      assigned == Infer(c, e)
  IN IF Numeric(typ) /\ added # None THEN Emit(c, <<"ADD_CONST_LOCAL", slot, added[2]>>)
     ELSE IF typ = "int" /\ AddedLocal(c, x, op, e) # 0
          THEN Emit(c, <<"ADD_LOCAL_LOCAL", slot, AddedLocal(c, x, op, e)>>)
     ELSE IF op # "=" /\ Numeric(typ) /\ Numeric(assigned)
          THEN Emit(Node(c, e), <<"OP_TO_LOCAL", Operators[op], slot>>)
     ELSE IF op # "="
          THEN EmitAll(Node(Emit(c, <<"GET_LOCAL", slot>>), e),
                       <<<<"BIN", Operators[op], FALSE>>, <<"SET_LOCAL", slot>>>>)
     ELSE IF Numeric(typ) /\ other # None /\ Numeric(Infer(c, other))
          THEN Emit(Node(c, other), <<"OP_TO_LOCAL", e[2], slot>>)
     ELSE LET d == Node(c, e)
          IN Emit(IF typ # "" THEN d ELSE [d EXCEPT !.fs[Len(d.fs)].locals[slot].typ = assigned],
                  <<"SET_LOCAL", slot>>)

\* An AssignStmt to a capture or a global: the value is compiled before the operator is
\* looked at, and once more if there is one.
AssignOuter(c, x, op, e) ==
  LET place == Place(c, x)
      typ == IF x \in DOMAIN c.types THEN c.types[x] ELSE ""
      assigned == Infer(c, e)
      d == Node(c, e)
      numeric == Numeric(typ) /\ Numeric(assigned)
      captured == IF place = "capture" THEN [d EXCEPT !.fs = CaptureOf(d, x).fs] ELSE d
      operand == Operand(captured, x, place)
      kept == place = "capture" \/ (place = "slot" /\ (op # "=" \/ typ # ""))
      typed == IF assigned = "" \/ kept THEN captured
               ELSE [captured EXCEPT !.types = With(@, x, assigned)]
      again == IF op = "=" THEN typed
               ELSE Emit(Node(Emit(typed, <<Getter[place], operand>>), e),
                         <<"BIN", Operators[op], numeric>>)
  IN Emit(again, <<Setter[place], operand>>)

Assignment(c, x, op, e) ==
  LET slot == Local(Top(c), x)
  IN IF slot # 0 THEN AssignLocal(c, slot, x, op, e) ELSE AssignOuter(c, x, op, e)

-----------------------------------------------------------------------------
(* Control flow. *)

\* compileFastIfStmt with matchLocalLessEqualIntConstCondition, else the condition and a jump.
IfJump(c, e) ==
  IF /\ e[1] = "bin" /\ e[2] = "<=" /\ e[3][1] = "var"
     /\ Local(Top(c), e[3][2]) # 0 /\ IntConst(c, e[4])
  THEN Emit(c, <<"JUMP_IF_LOCAL_GT_CONST", Local(Top(c), e[3][2]), ConstOf(c, e[4])[2], 0>>)
  ELSE EmitJump(Node(c, e), "JUMP_IF_FALSE_POP")

IfStmt(c, e, then, else) ==
  LET c1 == IfJump(c, e)
      c2 == Scoped(c1, then)
      c3 == EmitJump(c2, "JUMP")
  IN IF else = None THEN Patch(c2, Latest(c1))
     ELSE Patch(Scoped(Patch(c3, Latest(c1)), else), Latest(c3))

\* A loop's context, while its body is compiled.
BeginLoop(c, start, backward) ==
  [c EXCEPT !.fs[Len(c.fs)].loops =
     Append(@, [start |-> start, backward |-> backward, breaks |-> <<>>, continues |-> <<>>])]
Context(c) == Last(Top(c).loops)
EndLoop(c) ==
  [PatchAll(c, Context(c).breaks) EXCEPT !.fs[Len(c.fs)].loops = Front(@)]

\* A jump that the innermost loop will patch, among its breaks or its continues.
Leave(c, list) ==
  LET d == EmitJump(c, "JUMP")
      n == Len(Top(d).loops)
  IN [d EXCEPT !.fs[Len(d.fs)].loops[n] =
        IF list = "breaks" THEN [@ EXCEPT !.breaks = Append(@, Latest(d))]
        ELSE [@ EXCEPT !.continues = Append(@, Latest(d))]]

ContinueStmt(c) ==
  IF Context(c).backward THEN Emit(c, <<"LOOP", Context(c).start>>) ELSE Leave(c, "continues")

\* compileLoop
LoopStmt(c, e, body) ==
  LET start == Here(c)
      c1 == EmitJump(Node(c, e), "JUMP_IF_FALSE_POP")
      c2 == Emit(Scoped(BeginLoop(c1, start, TRUE), body), <<"LOOP", start>>)
  IN EndLoop(Patch(c2, Latest(c1)))

\* Mutant: continue goes to the start of the body and skips the condition.
DoLoopFromStart(c, e, body) ==
  LET start == Here(c)
      c1 == Scoped(BeginLoop(c, start, TRUE), body)
      c2 == EmitJump(Node(c1, e), "JUMP_IF_FALSE_POP")
  IN EndLoop(Patch(Emit(c2, <<"LOOP", start>>), Latest(c2)))

\* compileDoLoop
DoTested(c, start) == EndLoop(Patch(Emit(c, <<"LOOP", start>>), Latest(c)))
DoTest(c, e) == EmitJump(Node(PatchAll(c, Context(c).continues), e), "JUMP_IF_FALSE_POP")
DoLoop(c, e, body) ==
  DoTested(DoTest(Scoped(BeginLoop(c, Here(c), FALSE), body), e), Here(c))

\* compileFastRangeFor, without a type test in the condition.
RangeFor(c, x, args, where, body) ==
  LET hidden == Declare(Declare(Declare(Declare(BeginScope(c), x, "number"),
                  "__range_current", "number"), "__range_end", "number"), "__range_step", "number")
      var == Newest(hidden) - 3
      init == Emit(Nodes(hidden, args),
                   <<"RANGE_INIT", var + 1, var + 2, var + 3, Len(args)>>)
      start == Here(init)
      next == Emit(BeginLoop(init, start, TRUE),
                   <<"RANGE_NEXT", var + 1, var + 2, var + 3, var, 0>>)
      test == EmitJump(Node(next, where), "JUMP_IF_FALSE_POP")
      plain == Emit(Scoped(next, body), <<"LOOP", start>>)
      tested == Patch(Emit(Scoped(test, body), <<"LOOP", start>>), Latest(test))
      whole == IF where = None THEN plain ELSE Emit(tested, <<"LOOP", start>>)
  IN EndScope(EndLoop(Patch(whole, Latest(next))))

\* The exception, or the value of a switch, in a variable of the clause.
Copied(c, slot) == EmitAll(c, <<<<"GET_LOCAL", slot>>, <<"SET_LOCAL", Newest(c)>>>>)

\* A clause's body is done: its end jumps behind all clauses, tests that fail jump here.
ClauseDone(acc, c, tests) ==
  [acc EXCEPT !.c = PatchAll(c, tests), !.ends = Append(@, Latest(c))]

\* One catch clause of compileTry.
CatchBody(c, slot, clause, typ) ==
  LET bound == Copied(Declare(BeginScope(c), clause[2], typ), slot)
  IN EmitJump(EndScope(Nodes(bound, clause[3])), "JUMP")
CatchTest(c, slot, typ) ==
  EmitJump(EmitAll(c, <<<<"GET_LOCAL", slot>>, <<"MATCH_TYPE", typ>>>>), "JUMP_IF_FALSE_POP")
CatchTested(acc, c, clause) ==
  ClauseDone(acc, CatchBody(c, acc.slot, clause, clause[1]), <<Latest(c)>>)
CatchClause(acc, clause) ==
  IF clause[1] = "" THEN ClauseDone(acc, CatchBody(acc.c, acc.slot, clause, "any"), <<>>)
  ELSE CatchTested(acc, CatchTest(acc.c, acc.slot, clause[1]), clause)

\* compileTry: the statements of the body share the scope of the hidden local.
TryEnd(acc, tried) ==
  EndScope(PatchAll(EmitAll(acc.c, <<<<"GET_LOCAL", acc.slot>>, <<"THROW">>>>),
                    Append(acc.ends, tried)))
TryStmt(c, body, catches) ==
  LET begun == Declare(BeginScope(c), "__exception", "any")
      slot == Newest(begun)
      handler == EmitJump(begun, "PUSH_HANDLER")
      tried == EmitJump(Emit(Nodes(handler, body), <<"POP_HANDLER">>), "JUMP")
      caught == Emit(Patch(tried, Latest(handler)), <<"SET_LOCAL", slot>>)
  IN TryEnd(Along(CatchClause, [c |-> caught, slot |-> slot, ends |-> <<>>], catches),
            Latest(tried))

\* One pattern of an arm (emitSwitchPatternCheck): a jump to the arm's body if it matches.
PatternFails(c, p) ==
  EmitJump(IF p[1] = "type" THEN Emit(c, <<"MATCH_TYPE", p[2]>>)
           ELSE Emit(Node(c, p), <<"BIN", "==", FALSE>>), "JUMP_IF_FALSE_POP")
PatternMatches(acc, matches, fails) ==
  [acc EXCEPT !.c = Patch(matches, fails), !.matched = Append(@, Latest(matches))]
Pattern(acc, p) ==
  LET fails == PatternFails(Emit(acc.c, <<"GET_LOCAL", acc.slot>>), p)
  IN PatternMatches(acc, EmitJump(fails, "JUMP"), Latest(fails))

\* One arm of compileSwitch.
ArmBody(c, slot, arm) ==
  LET pattern == arm[1][1]
      begun == BeginScope(c)
      bound == IF pattern[1] = "type" THEN Copied(Declare(begun, pattern[3], pattern[2]), slot)
               ELSE begun
  IN EmitJump(EndScope(Nodes(bound, arm[2])), "JUMP")
ArmTested(acc, skip, arm) ==
  ClauseDone(acc, ArmBody(PatchAll(skip, acc.matched), acc.slot, arm), <<Latest(skip)>>)
ArmAfter(acc, arm) == ArmTested(acc, EmitJump(acc.c, "JUMP"), arm)
Arm(acc, arm) == ArmAfter(Along(Pattern, [acc EXCEPT !.matched = <<>>], arm[1]), arm)

\* compileSwitch
SwitchEnd(acc, default) ==
  EndScope(PatchAll(IF default = None THEN acc.c ELSE Scoped(acc.c, default), acc.ends))
SwitchArms(c, arms) ==
  Along(Arm, [c |-> Emit(c, <<"SET_LOCAL", Newest(c)>>), slot |-> Newest(c),
              matched |-> <<>>, ends |-> <<>>], arms)
SwitchStmt(c, e, arms, default) ==
  LET value == Node(BeginScope(c), e)
  IN SwitchEnd(SwitchArms(Declare(value, "__switch", Infer(value, e)), arms), default)

\* compileStmt
Stmt(c0, s) ==
  LET c == [c0 EXCEPT !.fs[Len(c0.fs)].marks = @ \cup {Here(c0)}]
  IN CASE s[1] = "let" -> LetStmt(c, s[2], s[3], s[4])
       [] s[1] = "assign" -> Assignment(c, s[2], s[3], s[4])
       [] s[1] = "expr" -> Emit(Node(c, s[2]), <<"POP">>)
       [] s[1] = "block" -> Scoped(c, s[2])
       [] s[1] = "if" -> IfStmt(c, s[2], s[3], s[4])
       [] s[1] = "loop" -> LoopStmt(c, s[2], s[3])
       [] s[1] = "do" -> DoLoop(c, s[2], s[3])
       [] s[1] = "for" -> RangeFor(c, s[2], s[3], s[4], s[5])
       [] s[1] = "break" -> Leave(c, "breaks")
       [] s[1] = "continue" -> ContinueStmt(c)
       [] s[1] = "return" -> Emit(Node(c, s[2]), <<"RETURN">>)
       [] s[1] = "throw" -> Emit(Node(c, s[2]), <<"THROW">>)
       [] s[1] = "try" -> TryStmt(c, s[2], s[3])
       [] s[1] = "switch" -> SwitchStmt(c, s[2], s[3], s[4])
       [] s[1] = "def" -> FunctionStmt(c, s[2], s[3], s[5])

Expressions == {"lit", "var", "not", "bin", "and", "or", "call", "lambda"}
\* (A compilation without a function is over; asking has TLC evaluate c before it goes on.)
Node(c, node) ==
  IF c.fs = <<>> THEN c ELSE IF node[1] \in Expressions THEN Expr(c, node) ELSE Stmt(c, node)

-----------------------------------------------------------------------------
(* Programs. *)

(* collectCapturedGlobals: the names that some function uses and that it   *)
(* does not declare itself, as far as the walk goes: it does not go into   *)
(* the block of a lambda.  scope is what has been declared where it is.    *)
RECURSIVE UsedIn(_, _, _), UsedBy(_, _, _), UsedByAll(_, _, _)
UsedIn(e, inside, scope) ==
  LET parts(i) == UsedIn(e[i], inside, scope)
      variable == IF inside /\ e[2] \notin scope THEN {e[2]} ELSE {}
  IN CASE e[1] = "lit" -> {}
       [] e[1] = "var" -> variable
       [] e[1] = "not" -> parts(2)
       [] e[1] = "bin" -> parts(3) \cup parts(4)
       [] e[1] \in {"and", "or"} -> parts(2) \cup parts(3)
       [] e[1] = "call" -> variable \cup UNION {UsedIn(e[3][i], inside, scope) : i \in DOMAIN e[3]}
       [] e[1] = "lambda" -> IF e[3][1] = "block" THEN {}
                             ELSE UsedIn(e[3], TRUE, scope \cup Names(e[2]))

UsedByAll(ss, inside, scope) ==
  IF ss = <<>> THEN {}
  ELSE LET first == Head(ss)
           declared == IF first[1] = "let" THEN scope \cup {first[3]} ELSE scope
       IN UsedBy(first, inside, declared) \cup UsedByAll(Tail(ss), inside, declared)

UsedBy(s, inside, scope) ==
  LET expr(e) == UsedIn(e, inside, scope)
      block(ss) == UsedByAll(ss, inside, scope)
  IN CASE s[1] = "let" -> expr(s[4])
       [] s[1] = "assign" -> expr(s[4]) \cup (IF inside /\ s[2] \notin scope THEN {s[2]} ELSE {})
       [] s[1] \in {"expr", "return", "throw"} -> expr(s[2])
       [] s[1] = "block" -> block(s[2])
       [] s[1] = "if" -> expr(s[2]) \cup block(s[3]) \cup (IF s[4] = None THEN {} ELSE block(s[4]))
       [] s[1] \in {"loop", "do"} -> expr(s[2]) \cup block(s[3])
       [] s[1] = "for" ->
            LET body == scope \cup {s[2]}
            IN UNION {expr(s[3][i]) : i \in DOMAIN s[3]} \cup UsedByAll(s[5], inside, body)
               \cup (IF s[4] = None THEN {} ELSE UsedIn(s[4], inside, body))
       [] s[1] = "try" ->
            block(s[2]) \cup UNION {UsedByAll(s[3][i][3], inside, scope \cup {s[3][i][2]}) :
                                      i \in DOMAIN s[3]}
       [] s[1] = "switch" ->
            expr(s[2]) \cup (IF s[4] = None THEN {} ELSE block(s[4])) \cup
            UNION {LET patterns == Range(s[3][i][1])
                       bindings == {p[3] : p \in {q \in patterns : q[1] = "type"}}
                       values == {p \in patterns : p[1] # "type"}
                   IN UNION {expr(p) : p \in values}
                      \cup UsedByAll(s[3][i][2], inside, scope \cup bindings) : i \in DOMAIN s[3]}
       [] s[1] = "def" -> UsedByAll(s[5], TRUE, Names(s[3]))
       [] OTHER -> {}

\* What a statement of the script declares; collectGlobalSlots.
DeclaredBy(s) == IF s[1] = "let" THEN {s[3]} ELSE IF s[1] = "def" THEN {s[2]} ELSE {}
Declared(program) == UNION {DeclaredBy(program[i]) : i \in DOMAIN program}

Builtins == {"print"}

\* collectFunctionSignatures
Signatures(program) ==
  LET defs == {program[i] : i \in {j \in DOMAIN program : program[j][1] = "def"}}
  IN [f \in {s[2] : s \in defs} |-> (CHOOSE s \in defs : s[2] = f)[4]]

\* compileProgram
Compile(program) ==
  Finish(Nodes([fs |-> <<NewFunction("<script>", <<>>, 0)>>, fns |-> <<>>,
                consts |-> <<>>, types |-> <<>>,
                captured |-> UNION {UsedBy(program[i], FALSE, {}) : i \in DOMAIN program},
                slots |-> Builtins \cup Declared(program),
                sigs |-> Signatures(program)], program)).fns
=============================================================================
