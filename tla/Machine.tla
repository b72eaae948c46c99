------------------------------ MODULE Machine ------------------------------
(***************************************************************************)
(* The VM that runs what module Compiler yields (vm.go executeUntilDepth   *)
(* and what it calls): frames with local slots, some of them moved to      *)
(* cells once a closure has captured them; the value stack; the global     *)
(* slots; raised errors.  One program of Loadable is chosen and run, one   *)
(* instruction a step.  Beside it stands its Meaning.                      *)
(*                                                                         *)
(* Errors that Go returns directly (a wrong operand, a name that is not    *)
(* there) end the run past every handler; throw, a wrong number of         *)
(* arguments and a callee that is not callable go to handleRaised.  A nil  *)
(* closure's captures are a Go panic.  Both are the ending "fault".        *)
(***************************************************************************)
EXTENDS Compiler, Meaning

\* Programs as they are loaded, each with its Meaning.
Loaded(programs) ==
  {<<p, Compile(programs[p]), Meaning(programs[p])>> : p \in DOMAIN programs}

CONSTANT Loadable   \* Loaded(programs) for the programs to be run

VARIABLES code,     \* the functions of the program that is run
          meant,    \* ghost: its Meaning
          frames,   \* vm.frames
          stack,    \* vm.stack[:vm.sp]
          cells,    \* the value of every Cell
          globals,  \* vm.globalSlots, with a value where vm.globalDefined
          out,      \* what has been printed
          ending    \* "running", "done", "threw" or "fault"

loaded == <<code, meant>>
vars == <<loaded, frames, stack, cells, globals, out, ending>>

-----------------------------------------------------------------------------
(* Frames. *)

Fn(n) == code[n]
Frame == Last(frames)
Code(f) == Fn(f.callee[2])
Instr == Code(Frame).code[Frame.pc]
AtOneOf(ops) == ending = "running" /\ Instr[1] \in ops
At(op) == AtOneOf({op})
Depth == Len(stack)
Peek(n) == stack[Depth - n]
Dropped(n) == SubSeq(stack, 1, Depth - n)

\* The values popped last by an instruction with n operands, and the stack without them.
Args(n) == SubSeq(stack, Depth - n + 1, Depth)

\* acquireFrame: its callee is a function, or a closure with the cells it captures.
NewFrame(callee, args, base) ==
  [callee |-> callee, pc |-> 1, base |-> base, handlers |-> <<>>, refs |-> <<>>,
   locals |-> [i \in 1 .. Fn(callee[2]).max |-> IF i \in DOMAIN args THEN args[i] ELSE Nil]]

Closed(f) == f.callee[1] = "closure"
Captured(n) == Frame.callee[3][n]

\* localGet, localSet: a captured local lives in its cell.
Read(f, slot) == IF slot \in DOMAIN f.refs THEN cells[f.refs[slot]] ELSE f.locals[slot]
Write(slot, v) ==
  IF slot \in DOMAIN Frame.refs
  THEN /\ cells' = [cells EXCEPT ![Frame.refs[slot]] = v]
       /\ frames' = [frames EXCEPT ![Len(frames)].pc = @ + 1]
  ELSE /\ frames' = [frames EXCEPT ![Len(frames)].pc = @ + 1,
                                   ![Len(frames)].locals[slot] = v]
       /\ UNCHANGED cells

Advance == frames' = [frames EXCEPT ![Len(frames)].pc = @ + 1]
JumpTo(t) == frames' = [frames EXCEPT ![Len(frames)].pc = t]

Fail == ending' = "fault" /\ UNCHANGED <<loaded, frames, stack, cells, globals, out>>

\* Number.Num of a value: that of nil or a boolean is zero.
NumOf(v) == IF IsInt(v) THEN v[2] ELSE 0

-----------------------------------------------------------------------------
(* Values and variables. *)

PushConstant ==
  /\ At("PUSH")
  /\ stack' = Append(stack, Instr[2])
  /\ Advance
  /\ UNCHANGED <<loaded, cells, globals, out, ending>>

Pop ==
  /\ At("POP")
  /\ stack' = Dropped(1)
  /\ Advance
  /\ UNCHANGED <<loaded, cells, globals, out, ending>>

GetLocal ==
  /\ At("GET_LOCAL")
  /\ stack' = Append(stack, Read(Frame, Instr[2]))
  /\ Advance
  /\ UNCHANGED <<loaded, cells, globals, out, ending>>

SetLocal ==
  /\ At("SET_LOCAL")
  /\ Write(Instr[2], Peek(0))
  /\ stack' = Dropped(1)
  /\ UNCHANGED <<loaded, globals, out, ending>>

GetCapture ==
  /\ At("GET_CAPTURE")
  /\ IF ~ Closed(Frame) THEN Fail
     ELSE /\ stack' = Append(stack, cells[Captured(Instr[2])])
          /\ Advance
          /\ UNCHANGED <<loaded, cells, globals, out, ending>>

SetCapture ==
  /\ At("SET_CAPTURE")
  /\ IF ~ Closed(Frame) THEN Fail
     ELSE /\ cells' = [cells EXCEPT ![Captured(Instr[2])] = Peek(0)]
          /\ stack' = Dropped(1)
          /\ Advance
          /\ UNCHANGED <<loaded, globals, out, ending>>

DefineGlobal ==
  /\ At("DEFINE_GLOBAL_SLOT")
  /\ globals' = With(globals, Instr[2], Peek(0))
  /\ stack' = Dropped(1)
  /\ Advance
  /\ UNCHANGED <<loaded, cells, out, ending>>

GetGlobal ==
  /\ AtOneOf({"GET_GLOBAL", "GET_GLOBAL_SLOT"})
  /\ IF Instr[2] \notin DOMAIN globals THEN Fail
     ELSE /\ stack' = Append(stack, globals[Instr[2]])
          /\ Advance
          /\ UNCHANGED <<loaded, cells, globals, out, ending>>

SetGlobal ==
  /\ AtOneOf({"SET_GLOBAL", "SET_GLOBAL_SLOT"})
  /\ IF Instr[2] \notin DOMAIN globals THEN Fail
     ELSE /\ globals' = [globals EXCEPT ![Instr[2]] = Peek(0)]
          /\ stack' = Dropped(1)
          /\ Advance
          /\ UNCHANGED <<loaded, cells, out, ending>>

-----------------------------------------------------------------------------
(* Operators, and the instructions fused with them. *)

\* Pops n operands and pushes v, an error when it is None.
Yield(v, n) ==
  IF v = None THEN Fail
  ELSE /\ stack' = Append(Dropped(n), v)
       /\ Advance
       /\ UNCHANGED <<loaded, cells, globals, out, ending>>

Operator == At("BIN") /\ Yield(Apply(Instr[2], Peek(1), Peek(0)), 2)
Not == At("NOT") /\ Yield(Bool(~ IsTruthy(Peek(0))), 1)
MatchType == At("MATCH_TYPE") /\ Yield(Bool(Matches(Peek(0), Instr[2])), 1)

\* Pops n operands and sets the local to v, an error when it is None.
SetTo(slot, v, n) ==
  IF v = None THEN Fail
  ELSE Write(slot, v) /\ stack' = Dropped(n) /\ UNCHANGED <<loaded, globals, out, ending>>

\* INC_LOCAL and DEC_LOCAL, unlike ADD_CONST_LOCAL_INT, do not look at the kind of the value:
\* one that is no integer stays what it is, or becomes one if the frame has cells.
AddConst ==
  /\ At("ADD_CONST_LOCAL")
  /\ LET v == Read(Frame, Instr[2])
         unseen == Instr[3] \in {1, -1} /\ ~ IsInt(v)
     IN SetTo(Instr[2],
              IF ~ unseen THEN Apply("+", v, Num(Instr[3]))
              ELSE IF Frame.refs = <<>> THEN v ELSE Num(Instr[3]), 0)

OpToLocal ==
  /\ At("OP_TO_LOCAL")
  /\ SetTo(Instr[3], Apply(Instr[2], Read(Frame, Instr[3]), Peek(0)), 1)

\* ADD_LOCAL_LOCAL does not look for cells.
AddLocals ==
  /\ At("ADD_LOCAL_LOCAL")
  /\ frames' = [frames EXCEPT ![Len(frames)].pc = @ + 1,
                  ![Len(frames)].locals[Instr[2]] =
                    Num(NumOf(@) + NumOf(Frame.locals[Instr[3]]))]
  /\ UNCHANGED <<loaded, stack, cells, globals, out, ending>>

-----------------------------------------------------------------------------
(* Jumps. *)

Target == Last(Instr)
Branch(taken) == IF taken THEN JumpTo(Target) ELSE Advance

Jump ==
  /\ AtOneOf({"JUMP", "LOOP"})
  /\ JumpTo(Target)
  /\ UNCHANGED <<loaded, stack, cells, globals, out, ending>>

JumpIf ==
  /\ AtOneOf({"JUMP_IF_FALSE_POP", "JUMP_IF_TRUE_POP"})
  /\ Branch(IsTruthy(Peek(0)) = (Instr[1] = "JUMP_IF_TRUE_POP"))
  /\ stack' = Dropped(1)
  /\ UNCHANGED <<loaded, cells, globals, out, ending>>

\* The fused jumps on two locals do not look for cells, nor at the kinds of the values.
JumpIfLocals ==
  /\ At("JUMP_IF_LOCALS")
  /\ LET a == NumOf(Frame.locals[Instr[4]])
         b == NumOf(Frame.locals[Instr[5]])
     IN Branch((IF Instr[2] = "<" THEN a < b ELSE a > b) = Instr[3])
  /\ UNCHANGED <<loaded, stack, cells, globals, out, ending>>

JumpIfGreater ==
  /\ At("JUMP_IF_LOCAL_GT_CONST")
  /\ LET v == Read(Frame, Instr[2]) IN Branch(~ IsInt(v) \/ NumOf(v) > Instr[3])
  /\ UNCHANGED <<loaded, stack, cells, globals, out, ending>>

\* RANGE_INIT: the hidden locals of a range loop.
RangeInit ==
  /\ At("RANGE_INIT")
  /\ LET n == Instr[5]
         args == Args(n)
         from == IF n = 1 THEN 0 ELSE args[1][2]
         to == IF n = 1 THEN args[1] ELSE args[2]
         step == IF n = 3 THEN args[3][2] ELSE IF from > to[2] THEN -1 ELSE 1
     IN IF \E i \in 1 .. n : ~ IsInt(args[i]) THEN Fail
        ELSE /\ frames' = [frames EXCEPT ![Len(frames)].pc = @ + 1,
                             ![Len(frames)].locals =
                                [@ EXCEPT ![Instr[2]] = Num(from - step), ![Instr[3]] = to,
                                          ![Instr[4]] = Num(step)]]
             /\ stack' = Dropped(n)
             /\ UNCHANGED <<loaded, cells, globals, out, ending>>

AtEnd(next, to, step) == (step > 0 /\ next >= to) \/ (step < 0 /\ next <= to)

RangeNext ==
  /\ At("RANGE_NEXT")
  /\ LET local(n) == Frame.locals[Instr[n]]
         next == NumOf(local(2)) + NumOf(local(4))
     IN IF \E n \in 2 .. 4 : ~ IsInt(local(n)) THEN Fail
        ELSE /\ IF AtEnd(next, NumOf(local(3)), NumOf(local(4))) THEN JumpTo(Target)
                ELSE frames' = [frames EXCEPT ![Len(frames)].pc = @ + 1,
                       ![Len(frames)].locals =
                          [@ EXCEPT ![Instr[2]] = Num(next), ![Instr[5]] = Num(next)]]
             /\ UNCHANGED <<loaded, stack, cells, globals, out, ending>>

-----------------------------------------------------------------------------
(* Errors. *)

Handled == {d \in DOMAIN frames : frames[d].handlers # <<>>}

\* Mutant: the operands of what was going on stay on the stack.
KeptBy(h) == stack

\* What a handler finds on the stack.
CutTo(h) == SubSeq(stack, 1, IF h.depth < Depth THEN h.depth ELSE Depth)

\* handleRaised
Raise(v) ==
  IF Handled = {}
  THEN ending' = "threw" /\ UNCHANGED <<loaded, frames, stack, cells, globals, out>>
  ELSE LET d == Max(Handled)
           h == Last(frames[d].handlers)
       IN /\ frames' = [SubSeq(frames, 1, d) EXCEPT
                          ![d].handlers = Front(@), ![d].pc = h.catch]
          /\ stack' = Append(CutTo(h), v)
          /\ UNCHANGED <<loaded, cells, globals, out, ending>>

PushHandler ==
  /\ At("PUSH_HANDLER")
  /\ frames' = [frames EXCEPT ![Len(frames)].pc = @ + 1,
                  ![Len(frames)].handlers = Append(@, [catch |-> Target, depth |-> Depth])]
  /\ UNCHANGED <<loaded, stack, cells, globals, out, ending>>

PopHandler ==
  /\ At("POP_HANDLER")
  /\ frames' = [frames EXCEPT ![Len(frames)].pc = @ + 1,
                  ![Len(frames)].handlers = IF @ = <<>> THEN @ ELSE Front(@)]
  /\ UNCHANGED <<loaded, stack, cells, globals, out, ending>>

Throw == At("THROW") /\ Raise(Peek(0))

-----------------------------------------------------------------------------
(* Functions. *)

\* captureLocal for each capture of the closure made: a local without a cell gets one.
MakeClosure ==
  /\ At("CLOSURE")
  /\ LET ups == Fn(Instr[2]).upvalues
         fresh == SetToSortSeq({ups[i].index : i \in {j \in DOMAIN ups : ups[j].isLocal}}
                                 \ DOMAIN Frame.refs, <)
         refs == [s \in DOMAIN Frame.refs \cup Range(fresh) |->
                    IF s \in DOMAIN Frame.refs THEN Frame.refs[s]
                    ELSE Len(cells) + SelectInSeq(fresh, LAMBDA t : t = s)]
         caps == [i \in DOMAIN ups |->
                    IF ups[i].isLocal THEN refs[ups[i].index] ELSE Captured(ups[i].index)]
     IN IF ~ Closed(Frame) /\ \E i \in DOMAIN ups : ~ ups[i].isLocal THEN Fail
        ELSE /\ cells' = cells \o [i \in DOMAIN fresh |-> Frame.locals[fresh[i]]]
             /\ stack' = Append(stack, <<"closure", Instr[2], caps>>)
             /\ frames' = [frames EXCEPT ![Len(frames)].pc = @ + 1, ![Len(frames)].refs = refs]
             /\ UNCHANGED <<loaded, globals, out, ending>>

\* call and callKnownValue: n values are popped, args among them.
Enter(callee, args, n) ==
  CASE callee[1] = "builtin" ->
         /\ out' = Append(out, args)
         /\ stack' = Append(Dropped(n), Nil)
         /\ Advance
         /\ UNCHANGED <<loaded, cells, globals, ending>>
    [] callee[1] \in {"closure", "fn"} ->
         LET fn == Fn(callee[2])
             returning == [frames EXCEPT ![Len(frames)].pc = @ + 1]
         IN IF fn.arity # Len(args) THEN Raise(ErrorValue)
            ELSE /\ frames' = Append(returning, NewFrame(callee, args, Depth - n))
                 /\ stack' = Dropped(n)
                 /\ UNCHANGED <<loaded, cells, globals, out, ending>>
    [] OTHER -> Raise(ErrorValue)

CallValue ==
  \/ /\ At("CALL")
     /\ Enter(Peek(Instr[2]), Args(Instr[2]), Instr[2] + 1)
  \/ /\ At("CALL_CONST")
     /\ Enter(Instr[2], Args(Instr[3]), Instr[3])
  \/ /\ At("CALL_GLOBAL_SLOT")
     /\ IF Instr[2] \notin DOMAIN globals THEN Fail
        ELSE Enter(globals[Instr[2]], Args(Instr[3]), Instr[3])

\* CALL_SELF_LOCAL_SUB_INT, CALL_CONST_LOCAL_SUB_INT: the argument is a local minus a constant.
CallLocalMinus ==
  /\ AtOneOf({"CALL_SELF_LOCAL_SUB", "CALL_CONST_LOCAL_SUB"})
  /\ LET self == Instr[1] = "CALL_SELF_LOCAL_SUB"
         arg == Apply("-", Read(Frame, Instr[IF self THEN 2 ELSE 3]), Num(Last(Instr)))
     IN IF arg = None THEN Fail ELSE Enter(IF self THEN Frame.callee ELSE Instr[2], <<arg>>, 0)

Return ==
  /\ At("RETURN")
  /\ LET kept == SubSeq(stack, 1, IF Depth - 1 > Frame.base THEN Frame.base ELSE Depth - 1)
     IN IF Len(frames) = 1
        THEN /\ ending' = "done"
             /\ stack' = kept
             /\ UNCHANGED <<loaded, frames, cells, globals, out>>
        ELSE /\ frames' = Front(frames)
             /\ stack' = Append(kept, Peek(0))
             /\ UNCHANGED <<loaded, cells, globals, out, ending>>

-----------------------------------------------------------------------------
Init ==
  /\ \E l \in Loadable : code = l[2] /\ meant = l[3]
  /\ frames = <<NewFrame(<<"fn", Len(code)>>, <<>>, 0)>>
  /\ stack = <<>> /\ cells = <<>> /\ out = <<>>
  /\ globals = [x \in Builtins |-> <<"builtin", x>>]
  /\ ending = "running"

\* The program has ended; nothing happens any more.
Stopped == ending # "running" /\ UNCHANGED vars

Next ==
  \/ PushConstant \/ Pop \/ GetLocal \/ SetLocal \/ GetCapture \/ SetCapture
  \/ DefineGlobal \/ GetGlobal \/ SetGlobal
  \/ Operator \/ Not \/ MatchType \/ AddConst \/ OpToLocal \/ AddLocals
  \/ Jump \/ JumpIf \/ JumpIfLocals \/ JumpIfGreater \/ RangeInit \/ RangeNext
  \/ PushHandler \/ PopHandler \/ Throw
  \/ MakeClosure \/ CallValue \/ CallLocalMinus \/ Return
  \/ Stopped

Spec == Init /\ [][Next]_vars /\ WF_vars(Next)

-----------------------------------------------------------------------------
(* A program prints what it means to, in that order and nothing else, and  *)
(* ends the way it is meant to: whatever slots, cells and fused            *)
(* instructions the compiler chose for it.                                 *)
MeaningKept ==
  /\ IsPrefix(out, meant.out)
  /\ ending # "running" => out = meant.out /\ ending = meant.ending

(* Between two statements of a function its part of the value stack is     *)
(* empty, whichever way control came there: an expression leaves nothing   *)
(* behind, and a jump out of a statement or an error takes nothing along.  *)
EmptyBetweenStatements ==
  ending = "running" /\ Frame.pc \in Code(Frame).marks => Depth = Frame.base

(* Every program of the family ends: no jump goes to the wrong side of a   *)
(* condition or past the step of a loop.                                   *)
EveryProgramEnds == <>(ending # "running")

(* docs/language/basics.md:68 and :80: functions have "lexical capture of  *)
(* outer variables" and lambdas are "closures over local and top-level     *)
(* bindings": what a captured variable is seen to be is what its own scope *)
(* made it.                                                                *)
LexicalCapture ==
  IsPrefix(out, meant.out) /\ (ending = "fault" => meant.ending = "fault")
=============================================================================
