------------------------------- MODULE Emitter -------------------------------
(***************************************************************************)
(* The layer of the compiler that writes bytecode (compiler.go emit,       *)
(* emitJump, the peepholes, patchJump, emitLoop; bytecode/chunk.go): bytes *)
(* appended to a chunk, jumps whose distance is filled in later, and two   *)
(* rewrites of the bytes before a conditional jump.  compileBinary, IfStmt *)
(* and compileLoop are modelled as far as they decide what is written.     *)
(*                                                                         *)
(* The chunk is kept as the bytes it is, because the peepholes read it as  *)
(* bytes: what they take for an opcode may be an operand.  Beside it goes  *)
(* a listing of it: for each instruction of the VM where it starts, what   *)
(* it was to do, as plain instructions, and, of a jump, where it is to go. *)
(* The listing never loses anything that was to be done: entries of it are *)
(* appended, or joined when a peephole puts one instruction in the place   *)
(* of several.  That the bytes are what it says is the subject here.       *)
(***************************************************************************)
EXTENDS Naturals, Sequences

CONSTANTS Earlier,  \* numbers of statements that may precede, a local and a constant each
          MaxTests, \* bound: conditions of a function
          MaxNots,  \* bound: negations around a condition
          Lefts     \* kinds of left sides that comparisons have

VARIABLES code,     \* chunk.Code
          last,     \* lastOpcodeOffset
          consts,   \* len(chunk.Constants)
          locals,   \* len(state.locals)
          open,     \* statements begun: the jump to fill in, and where a loop starts
          tests,    \* conditions so far
          meant,    \* ghost: the listing
          misread   \* history: a peephole has taken an operand for an opcode

vars == <<code, last, consts, locals, open, tests, meant, misread>>

\* The left side of a comparison, as compileExpr leaves it: a local, a literal, a captured
\* variable, a sum of a local and a literal, a call of a known function, a call of a method,
\* a field of an element of an array.
LeftSides == {"local", "literal", "captured", "sum", "call", "method", "field"}

\* What the constants are; a condition has a local to look at.
ASSUME EmitterAssumption ==
  Earlier \subseteq Nat \ {0} /\ MaxTests \in Nat /\ MaxNots \in Nat /\ Lefts \subseteq LeftSides

Byte == 256

\* The opcodes used here and the widths of their operands (opcode.go; chunk.go 193).
Opcode ==
  [CONSTANT |-> 0, POP |-> 4, GET_LOCAL |-> 7, SET_LOCAL |-> 8, GET_CAPTURE |-> 9, NOT |-> 26,
   JUMP |-> 31, LOOP |-> 34, ADD_NUM |-> 35, LESS_NUM |-> 41, GREATER_NUM |-> 42,
   CALL_CONST |-> 49, INVOKE_METHOD |-> 55, GET_LOCAL_ARRAY_FIELD |-> 99,
   JUMP_IF_FALSE_POP |-> 104, JUMP_IF_TRUE_POP |-> 105,
   JUMP_IF_LOCAL_GT_LOCAL_TRUE |-> 108, JUMP_IF_LOCAL_LT_LOCAL_FALSE |-> 109,
   JUMP_IF_LOCAL_GT_LOCAL_FALSE |-> 110, JUMP_IF_LOCAL_LT_LOCAL_TRUE |-> 111,
   JUMP_IF_ARRAY_FIELD_GTE_LOCAL_TRUE |-> 112, JUMP_IF_ARRAY_FIELD_LTE_LOCAL_TRUE |-> 113]

Ops == DOMAIN Opcode

LocalOps == {"GET_LOCAL", "SET_LOCAL", "GET_CAPTURE"}
PlainJumps == {"JUMP", "LOOP", "JUMP_IF_FALSE_POP", "JUMP_IF_TRUE_POP"}
FusedLocalJumps == {"JUMP_IF_LOCAL_GT_LOCAL_TRUE", "JUMP_IF_LOCAL_LT_LOCAL_FALSE",
                    "JUMP_IF_LOCAL_GT_LOCAL_FALSE", "JUMP_IF_LOCAL_LT_LOCAL_TRUE"}
FusedFieldJumps == {"JUMP_IF_ARRAY_FIELD_GTE_LOCAL_TRUE", "JUMP_IF_ARRAY_FIELD_LTE_LOCAL_TRUE"}
Jumps == PlainJumps \cup FusedLocalJumps \cup FusedFieldJumps

Size(op) ==
  CASE op \in LocalOps -> 2
    [] op \in {"CONSTANT", "INVOKE_METHOD"} \cup PlainJumps -> 3
    [] op \in {"CALL_CONST", "GET_LOCAL_ARRAY_FIELD"} -> 4
    [] op \in FusedLocalJumps -> 5
    [] op \in FusedFieldJumps -> 7
    [] OTHER -> 1

-----------------------------------------------------------------------------
(* Instructions as bytes and bytes as instructions.  Offsets count from 0. *)

\* emitByte and emitUint16 keep the bytes that there is room for.
Low(n) == n % Byte
High(n) == (n \div Byte) % Byte

\* An opcode and its operands; the distance of a jump is the last of them.
Bytes(op, args) ==
  LET o == Opcode[op] IN
  CASE op \in LocalOps -> <<o, Low(args[1])>>
    [] op = "CONSTANT" \/ op \in PlainJumps -> <<o, High(args[1]), Low(args[1])>>
    [] op = "INVOKE_METHOD" -> <<o, Low(args[1]), Low(args[2])>>
    [] op = "CALL_CONST" -> <<o, High(args[1]), Low(args[1]), Low(args[2])>>
    [] op = "GET_LOCAL_ARRAY_FIELD" -> <<o, Low(args[1]), Low(args[2]), Low(args[3])>>
    [] op \in FusedLocalJumps -> <<o, Low(args[1]), Low(args[2]), High(args[3]), Low(args[3])>>
    [] op \in FusedFieldJumps ->
         <<o, Low(args[1]), Low(args[2]), Low(args[3]), Low(args[4]), High(args[5]), Low(args[5])>>
    [] OTHER -> <<o>>

\* readU16At
WordAt(bytes, at) == bytes[at + 1] * Byte + bytes[at + 2]

\* What the VM reads after the opcode at an offset, but for the distance of a jump.
Operands(bytes, at, op) ==
  CASE op \in LocalOps -> <<bytes[at + 2]>>
    [] op = "CONSTANT" -> <<WordAt(bytes, at + 1)>>
    [] op = "INVOKE_METHOD" -> <<bytes[at + 2], bytes[at + 3]>>
    [] op = "CALL_CONST" -> <<WordAt(bytes, at + 1), bytes[at + 4]>>
    [] op = "GET_LOCAL_ARRAY_FIELD" -> <<bytes[at + 2], bytes[at + 3], bytes[at + 4]>>
    [] op \in FusedLocalJumps -> <<bytes[at + 2], bytes[at + 3]>>
    [] op \in FusedFieldJumps ->
         <<bytes[at + 2], bytes[at + 3], bytes[at + 4], bytes[at + 5]>>
    [] OTHER -> <<>>

-----------------------------------------------------------------------------
(* A chunk is its bytes, the offset of the opcode written last and the     *)
(* listing.                                                                *)

Chunk == [code |-> code, last |-> last, meant |-> meant]
Becomes(w) == code' = w.code /\ last' = w.last /\ meant' = w.meant

Item(at, does) == [at |-> at, does |-> does, goal |-> 0]

Emit(w, op, args) ==
  [code |-> w.code \o Bytes(op, args), last |-> Len(w.code),
   meant |-> Append(w.meant, Item(Len(w.code), <<<<op, args>>>>))]

\* The "!" of a condition, one after the other.
Negated(w, nots) ==
  [code |-> w.code \o [i \in 1 .. nots |-> Opcode.NOT],
   last |-> IF nots = 0 THEN w.last ELSE Len(w.code) + nots - 1,
   meant |-> w.meant \o [i \in 1 .. nots |-> Item(Len(w.code) + i - 1, <<<<"NOT", <<>>>>>>)]]

-----------------------------------------------------------------------------
(* The peepholes of emitJump.                                              *)

FromEnd(bytes, back) == bytes[Len(bytes) + 1 - back]   \* code[n - back]

\* peepholeNotFold: the chunk without the negation, the jump that negates instead, and what
\* that jump does more.
NotFold(w, op) ==
  IF op = "JUMP_IF_FALSE_POP" /\ w.last < Len(w.code) /\ w.code[w.last + 1] = Opcode.NOT
  THEN [code |-> SubSeq(w.code, 1, w.last), meant |-> SubSeq(w.meant, 1, Len(w.meant) - 1),
        op |-> "JUMP_IF_TRUE_POP", does |-> w.meant[Len(w.meant)].does]
  ELSE [code |-> w.code, meant |-> w.meant, op |-> op, does |-> <<>>]

Compares(bytes) == FromEnd(bytes, 1) \in {Opcode.LESS_NUM, Opcode.GREATER_NUM}
IsLess(bytes) == FromEnd(bytes, 1) = Opcode.LESS_NUM

\* peepholeArrayFieldCmp
ArrayFieldCmp(bytes, op) ==
  /\ op = "JUMP_IF_FALSE_POP"
  /\ Len(bytes) >= 7
  /\ Compares(bytes)
  /\ FromEnd(bytes, 7) = Opcode.GET_LOCAL_ARRAY_FIELD
  /\ FromEnd(bytes, 3) = Opcode.GET_LOCAL

\* peepholeLocalLocalCmp
LocalLocalCmp(bytes, op) ==
  /\ op \in {"JUMP_IF_TRUE_POP", "JUMP_IF_FALSE_POP"}
  /\ Len(bytes) >= 5
  /\ Compares(bytes)
  /\ FromEnd(bytes, 5) = Opcode.GET_LOCAL
  /\ FromEnd(bytes, 3) = Opcode.GET_LOCAL

FusedFieldOp(bytes) ==
  IF IsLess(bytes) THEN "JUMP_IF_ARRAY_FIELD_GTE_LOCAL_TRUE"
  ELSE "JUMP_IF_ARRAY_FIELD_LTE_LOCAL_TRUE"

\* Mutant: the comparison that falls to the default branch of the switch is the other one.
FusedSwapped(bytes, op) ==
  IF IsLess(bytes)
  THEN IF op = "JUMP_IF_TRUE_POP" THEN "JUMP_IF_LOCAL_LT_LOCAL_TRUE"
       ELSE "JUMP_IF_LOCAL_GT_LOCAL_FALSE"
  ELSE IF op = "JUMP_IF_TRUE_POP" THEN "JUMP_IF_LOCAL_GT_LOCAL_TRUE"
       ELSE "JUMP_IF_LOCAL_LT_LOCAL_FALSE"

FusedLocalOp(bytes, op) ==
  IF IsLess(bytes)
  THEN IF op = "JUMP_IF_TRUE_POP" THEN "JUMP_IF_LOCAL_LT_LOCAL_TRUE"
       ELSE "JUMP_IF_LOCAL_LT_LOCAL_FALSE"
  ELSE IF op = "JUMP_IF_TRUE_POP" THEN "JUMP_IF_LOCAL_GT_LOCAL_TRUE"
       ELSE "JUMP_IF_LOCAL_GT_LOCAL_FALSE"

\* A jump instead of the last bytes of a folded chunk; its distance is 0 for now.
JumpInstead(w, dropped, op, operands, does) ==
  LET kept == Len(w.code) - dropped
      n == Len(w.meant)
  IN [code |-> SubSeq(w.code, 1, kept) \o Bytes(op, Append(operands, 0)), last |-> kept,
      meant |-> IF dropped = 0 THEN Append(w.meant, Item(kept, w.does \o does))
                ELSE Append(SubSeq(w.meant, 1, n - 3),
                            Item(kept, w.meant[n - 2].does \o w.meant[n - 1].does
                                        \o w.meant[n].does \o w.does \o does))]

\* emitJump
WithJump(w, asked) ==
  LET folded == NotFold(w, asked)
      bytes == folded.code
      does == <<<<asked, <<>>>>>>
  IN IF ArrayFieldCmp(bytes, folded.op)
     THEN JumpInstead(folded, 7, FusedFieldOp(bytes),
                      <<FromEnd(bytes, 6), FromEnd(bytes, 5), FromEnd(bytes, 4),
                        FromEnd(bytes, 2)>>, does)
     ELSE IF LocalLocalCmp(bytes, folded.op)
          THEN JumpInstead(folded, 5, FusedLocalOp(bytes, folded.op),
                           <<FromEnd(bytes, 4), FromEnd(bytes, 2)>>, does)
          ELSE JumpInstead(folded, 0, folded.op, <<>>, does)

\* One of the bytes in which a peephole sees the opcodes it looks for is none: no
\* instruction starts there.
Mistaken(folded) ==
  LET n == Len(folded.code)
      looked(back) == \A b \in back : \E i \in 1 .. Len(folded.meant) :
                         folded.meant[i].at = n - b
      compares == n >= 5 /\ folded.code[n] \in {41, 42} /\ folded.code[n - 2] = 7
  IN compares /\ IF /\ folded.op = "JUMP_IF_FALSE_POP"
                    /\ n >= 7 /\ folded.code[n - 6] = 99
                 THEN ~looked({7, 3, 1})
                 ELSE folded.code[n - 4] = 7 /\ ~looked({5, 3, 1})

-----------------------------------------------------------------------------
(* What is compiled. *)

Newest == locals - 1

LeftSide(w, kind) ==
  CASE kind = "local"    -> Emit(w, "GET_LOCAL", <<Newest>>)
    [] kind = "literal"  -> Emit(w, "CONSTANT", <<consts>>)
    [] kind = "captured" -> Emit(w, "GET_CAPTURE", <<0>>)
    [] kind = "sum"      -> Emit(Emit(Emit(w, "GET_LOCAL", <<Newest>>), "CONSTANT", <<consts>>),
                                 "ADD_NUM", <<>>)
    [] kind = "call"     -> Emit(Emit(w, "GET_LOCAL", <<Newest>>), "CALL_CONST", <<consts, 1>>)
    [] kind = "method"   -> Emit(Emit(Emit(w, "GET_LOCAL", <<0>>), "GET_LOCAL", <<Newest>>),
                                 "INVOKE_METHOD", <<Newest, 1>>)
    [] kind = "field"    -> Emit(w, "GET_LOCAL_ARRAY_FIELD", <<0, Newest, 0>>)

LeftConsts(kind) == IF kind \in {"literal", "sum", "call"} THEN 1 ELSE 0
RightConsts(kind) == IF kind = "literal" THEN 1 ELSE 0

RightSide(w, kind, constant) ==
  IF kind = "local" THEN Emit(w, "GET_LOCAL", <<0>>) ELSE Emit(w, "CONSTANT", <<constant>>)

\* compileBinary for < > <= >= of operands whose types are numeric, or a condition that is
\* no comparison, inside any number of "!".
Comparison(w, left, right, op, nots) ==
  LET onLeft == LeftSide(w, left)
  IN Negated(IF right = "none" THEN onLeft
             ELSE Emit(RightSide(onLeft, right, consts + LeftConsts(left)), op, <<>>),
             nots)

Init ==
  /\ code = <<>> /\ meant = <<>> /\ last = 0
  /\ consts = 0 /\ locals = 0
  /\ open = <<>> /\ tests = 0
  /\ misread = FALSE

\* A condition and the jump past what depends on it.
Test(left, right, op, nots, kind) ==
  LET condition == Comparison(Chunk, left, right, op, nots)
      jump == WithJump(condition, "JUMP_IF_FALSE_POP")
  IN /\ tests < MaxTests
     /\ tests = 0 => locals \in Earlier
     /\ tests' = tests + 1
     /\ Becomes(jump)
     /\ consts' = consts + LeftConsts(left) + RightConsts(right)
     /\ open' = Append(open, [kind |-> kind, hole |-> Len(jump.code) - 2,
                              from |-> Len(jump.meant),
                              start |-> Len(code), first |-> Len(meant) + 1])
     /\ misread' = (misread \/ Mistaken(NotFold(condition, "JUMP_IF_FALSE_POP")))
     /\ UNCHANGED locals

Conditional(kind) ==
  \E left \in Lefts, right \in {"local", "literal", "none"},
     op \in {"LESS_NUM", "GREATER_NUM"}, nots \in 0 .. MaxNots :
       /\ right = "none" => left \notin {"literal", "sum"}
       /\ Test(left, right, op, nots, kind)

If == Conditional("if")
Loop == Conditional("loop")

\* let x: int = 1, before the conditions or first in what depends on one.
Let ==
  /\ \/ tests = 0 /\ \E n \in Earlier : locals < n
     \/ open # <<>> /\ open[Len(open)].hole + 2 = Len(code)
  /\ Becomes(Emit(Emit(Chunk, "CONSTANT", <<consts>>), "SET_LOCAL", <<locals>>))
  /\ consts' = consts + 1
  /\ locals' = locals + 1
  /\ UNCHANGED <<open, tests, misread>>

\* patchJump
Distance(bytes, hole) == Len(bytes) - hole - 2

Patched(bytes, hole) ==
  LET d == Distance(bytes, hole)
  IN [bytes EXCEPT ![hole + 1] = High(d), ![hole + 2] = Low(d)]

LeadHere(w, o) ==
  [code |-> Patched(w.code, o.hole), last |-> w.last,
   meant |-> [w.meant EXCEPT ![o.from] = [@ EXCEPT !.goal = Len(w.meant) + 1]]]

Innermost == open[Len(open)]
Rest == SubSeq(open, 1, Len(open) - 1)

\* else: a jump over the second block, and the first one's condition leads here.
Else ==
  LET jump == WithJump(Chunk, "JUMP")
  IN /\ open # <<>> /\ Innermost.kind = "if"
     /\ Becomes(LeadHere(jump, Innermost))
     /\ open' = Append(Rest, [Innermost EXCEPT !.kind = "else", !.hole = Len(jump.code) - 2,
                                               !.from = Len(jump.meant)])
     /\ UNCHANGED <<consts, locals, tests, misread>>

\* The end of an if or of its else.
EndIf ==
  /\ open # <<>> /\ Innermost.kind \in {"if", "else"}
  /\ Becomes(LeadHere(Chunk, Innermost))
  /\ open' = Rest
  /\ UNCHANGED <<consts, locals, tests, misread>>

\* emitLoop
Back(bytes, start) == Len(bytes) + 1 - start + 2

EmitLoop(w, o) ==
  [code |-> w.code \o Bytes("LOOP", <<Back(w.code, o.start)>>), last |-> Len(w.code),
   meant |-> Append(w.meant, [Item(Len(w.code), <<<<"LOOP", <<>>>>>>) EXCEPT !.goal = o.first])]

\* The end of a loop: back to its condition, which leads here when it fails.
EndLoop ==
  /\ open # <<>> /\ Innermost.kind = "loop"
  /\ Becomes(LeadHere(EmitLoop(Chunk, Innermost), Innermost))
  /\ open' = Rest
  /\ UNCHANGED <<consts, locals, tests, misread>>

\* The function is complete.
Finished == tests = MaxTests /\ open = <<>> /\ UNCHANGED vars

Next == If \/ Loop \/ Let \/ Else \/ EndIf \/ EndLoop \/ Finished

Spec == Init /\ [][Next]_vars

-----------------------------------------------------------------------------
(* Properties. *)

\* An instruction of the VM as the plain ones it does the work of.  Which values are compared
\* and which way is said here, not how: a fused jump compares .Num with > >= < <= (vm.go 302-330)
\* where LESS_NUM compares two integers as such, and a NaN is neither less nor not less.
Plain(op, args) ==
  LET do(name) == <<name, <<>>>>
      local(slot) == <<"GET_LOCAL", <<slot>>>>
      field == <<"GET_LOCAL_ARRAY_FIELD", <<args[1], args[2], args[3]>>>>
      test == do("JUMP_IF_FALSE_POP")
  IN CASE op = "JUMP_IF_LOCAL_GT_LOCAL_TRUE" ->
            <<local(args[1]), local(args[2]), do("GREATER_NUM"), do("NOT"), test>>
       [] op = "JUMP_IF_LOCAL_GT_LOCAL_FALSE" ->
            <<local(args[1]), local(args[2]), do("GREATER_NUM"), test>>
       [] op = "JUMP_IF_LOCAL_LT_LOCAL_TRUE" ->
            <<local(args[1]), local(args[2]), do("LESS_NUM"), do("NOT"), test>>
       [] op = "JUMP_IF_LOCAL_LT_LOCAL_FALSE" ->
            <<local(args[1]), local(args[2]), do("LESS_NUM"), test>>
       [] op = "JUMP_IF_ARRAY_FIELD_GTE_LOCAL_TRUE" ->
            <<field, local(args[4]), do("LESS_NUM"), test>>
       [] op = "JUMP_IF_ARRAY_FIELD_LTE_LOCAL_TRUE" ->
            <<field, local(args[4]), do("GREATER_NUM"), test>>
       [] op = "JUMP_IF_TRUE_POP" -> <<do("NOT"), test>>
       [] OTHER -> <<<<op, args>>>>

\* Where the i-th entry of a listing starts, for one past the last the end of the code.
Start(w, i) == IF i = Len(w.meant) + 1 THEN Len(w.code) ELSE w.meant[i].at

\* The bytes from there to the next are an instruction that does what the entry says ...
IsWritten(w, i) ==
  \E op \in Ops :
    /\ w.code[Start(w, i) + 1] = Opcode[op]
    /\ Start(w, i + 1) = Start(w, i) + Size(op)
    /\ Plain(op, Operands(w.code, Start(w, i), op)) = w.meant[i].does

\* ... and, if the entry has a place to go to, a jump that goes there.
GoesToGoal(w, i) ==
  LET opcode == w.code[Start(w, i) + 1]
      end == Start(w, i + 1)
      distance == WordAt(w.code, end - 2)
  IN w.meant[i].goal # 0 =>
       /\ \E op \in Jumps : opcode = Opcode[op]
       /\ Start(w, w.meant[i].goal)
            = IF opcode = Opcode.LOOP THEN end - distance ELSE end + distance

\* Read from the first byte, the code is the listing.
SaysWhatIsMeant ==
  /\ Start(Chunk, 1) = 0
  /\ \A i \in 1 .. Len(meant) : IsWritten(Chunk, i) /\ GoesToGoal(Chunk, i)

\* Slots are bytes, constants and distances are words, and nothing checks them.
Fits == locals <= Byte /\ consts <= Byte * Byte /\ Len(code) < Byte * Byte

\* As long as slots, constants and distances fit and no peephole has taken an operand for an
\* opcode, the bytecode decodes to the instructions meant, every fused jump doing the work of
\* the ones it replaces and every jump going where it was to go, however negations, fused
\* jumps, elses and loops follow one another (compiler.go 4636-4766).
DecodesAsMeant == Fits /\ ~misread => SaysWhatIsMeant
=============================================================================
