----------------------------- MODULE LocalCells -----------------------------
(***************************************************************************)
(* The local variables of one frame of the VM (internal/vm/vm.go).  A      *)
(* variable has its value in frame.locals, or in the cell it shares with   *)
(* the closures that captured it, or, a string that has been appended to,  *)
(* in an accumulator that is written back when the variable is read.  Most *)
(* opcodes look at frame.hasCells and go through localGet and localSet;    *)
(* the fused ones write frame.locals and look at nothing.                  *)
(*                                                                         *)
(* Numbers and strings are numbers modulo MaxValue + 1 here: adding to a   *)
(* variable, or appending to it, changes its value, and that is all the    *)
(* properties ask of it.  The compiler gives a slot to one variable after  *)
(* another (endScope, declareLocal); the frame keeps its cells and         *)
(* accumulators meanwhile.                                                 *)
(***************************************************************************)
EXTENDS Naturals

CONSTANTS Slots,       \* the slots of the frame
          MaxValue,    \* bound: the largest value
          None         \* no cell, no accumulator

ASSUME ValuesAssumption == MaxValue \in Nat /\ None \notin 0..MaxValue

Values == 0..MaxValue
Kinds  == {"int", "string"}

VARIABLES kind,        \* the declared type of the variable a slot holds
          locals,      \* frame.locals
          cell,        \* frame.localRefs: the value in the cell of a slot, or None
          acc,         \* frame.stringBuffers: the text accumulated for a slot, or None
          hasCells,    \* frame.hasCells
          truth,       \* history: the value the program gave the variable
          tainted      \* history: a fused opcode went past a cell or an accumulator
                       \* since the variable was last assigned

vars == <<kind, locals, cell, acc, hasCells, truth, tainted>>

Plus(a, b) == (a + b) % (MaxValue + 1)

TypeOK ==
    /\ kind \in [Slots -> Kinds]
    /\ locals \in [Slots -> Values]
    /\ cell \in [Slots -> Values \cup {None}]
    /\ acc \in [Slots -> Values \cup {None}]
    /\ hasCells \in BOOLEAN
    /\ truth \in [Slots -> Values]
    /\ tainted \in [Slots -> BOOLEAN]

Init ==
    /\ kind \in [Slots -> Kinds]
    /\ locals = [s \in Slots |-> 0]
    /\ cell = [s \in Slots |-> None]
    /\ acc = [s \in Slots |-> None]
    /\ hasCells = FALSE
    /\ truth = [s \in Slots |-> 0]
    /\ tainted = [s \in Slots |-> FALSE]

Captured(s) == cell[s] # None
Clean(s) == cell[s] = None /\ acc[s] = None

-----------------------------------------------------------------------------
(* Reading and writing through the abstraction *)

\* materializeLocalString: the accumulator stays.
WriteBack(s) ==
    IF acc[s] = None
    THEN UNCHANGED <<locals, cell>>
    ELSE IF Captured(s)
         THEN cell' = [cell EXCEPT ![s] = acc[s]] /\ UNCHANGED locals
         ELSE locals' = [locals EXCEPT ![s] = acc[s]] /\ UNCHANGED cell

\* What localGet returns; materializing first gives the accumulated text either way.
Get(s) ==
    IF ~hasCells THEN locals[s]
    ELSE IF acc[s] # None THEN acc[s]
    ELSE IF Captured(s) THEN cell[s]
    ELSE locals[s]

\* OpGetLocal and the fused tests that call localGet.
Read(s) ==
    /\ IF hasCells THEN WriteBack(s) ELSE UNCHANGED <<locals, cell>>
    /\ UNCHANGED <<kind, acc, hasCells, truth, tainted>>

\* localSet
Put(s, v) ==
    /\ acc' = IF hasCells THEN [acc EXCEPT ![s] = None] ELSE acc
    /\ IF hasCells /\ Captured(s)
       THEN cell' = [cell EXCEPT ![s] = v] /\ UNCHANGED locals
       ELSE locals' = [locals EXCEPT ![s] = v] /\ UNCHANGED cell

\* OpSetLocal: an assignment, or the declaration of the variable that has the slot from
\* now on.  OpIterNext over an iterable object or a Range binds its variable like this.
Set(s, k, v) ==
    /\ Put(s, v)
    /\ kind' = [kind EXCEPT ![s] = k]
    /\ truth' = [truth EXCEPT ![s] = v]
    /\ tainted' = [tainted EXCEPT ![s] = FALSE]
    /\ UNCHANGED hasCells

\* Mutant: OpAddToLocal before it looked at hasCells.
AddToFrameSlot(s, n) ==
    /\ kind[s] = "int"
    /\ locals' = [locals EXCEPT ![s] = Plus(@, n)]
    /\ truth' = [truth EXCEPT ![s] = Plus(@, n)]
    /\ UNCHANGED <<kind, cell, acc, hasCells, tainted>>

\* OpAddToLocal (OpSubToLocal and OpMulToLocal differ in the number), OpIncLocal,
\* OpDecLocal, OpAddConstLocalInt.
AddToLocal(s, n) ==
    /\ kind[s] = "int"
    /\ Put(s, Plus(Get(s), n))
    /\ truth' = [truth EXCEPT ![s] = Plus(@, n)]
    /\ UNCHANGED <<kind, hasCells, tainted>>

-----------------------------------------------------------------------------
(* Text that is appended *)

\* The text an accumulator starts from.
Base(s) == IF Captured(s) THEN cell[s] ELSE locals[s]

\* Mutant: hasCells is only set for cells.
AppendUnflagged(s, n) ==
    /\ kind[s] = "string"
    /\ acc' = [acc EXCEPT ![s] = Plus(IF @ = None THEN Base(s) ELSE @, n)]
    /\ truth' = [truth EXCEPT ![s] = Plus(@, n)]
    /\ tainted' = [tainted EXCEPT ![s] = @ \/ Captured(s)]
    /\ UNCHANGED <<kind, locals, cell, hasCells>>

\* OpAppendLocalString: a cell is read for the first text and not written.
AppendLocalString(s, n) ==
    /\ kind[s] = "string"
    /\ acc' = [acc EXCEPT ![s] = Plus(IF @ = None THEN Base(s) ELSE @, n)]
    /\ hasCells' = TRUE
    /\ truth' = [truth EXCEPT ![s] = Plus(@, n)]
    /\ tainted' = [tainted EXCEPT ![s] = @ \/ Captured(s)]
    /\ UNCHANGED <<kind, locals, cell>>

-----------------------------------------------------------------------------
(* Fused opcodes that write frame.locals *)

\* OpAddLocalLocal, OpAddLocalMulThisField, OpAddLocalMulThisFieldAddThisField: d += s.
AddLocalLocal(d, s) ==
    /\ kind[d] = "int"
    /\ kind[s] = "int"
    /\ locals' = [locals EXCEPT ![d] = Plus(@, locals[s])]
    /\ truth' = [truth EXCEPT ![d] = Plus(@, truth[s])]
    /\ tainted' = [tainted EXCEPT ![d] = @ \/ tainted[s] \/ ~Clean(d) \/ ~Clean(s)]
    /\ UNCHANGED <<kind, cell, acc, hasCells>>

\* OpIterNext over an array or items, OpRangeNextFast: v is bound to the loop variable,
\* whose slot an earlier variable may have had.
IterNext(s, k, v) ==
    /\ locals' = [locals EXCEPT ![s] = v]
    /\ kind' = [kind EXCEPT ![s] = k]
    /\ truth' = [truth EXCEPT ![s] = v]
    /\ tainted' = [tainted EXCEPT ![s] = ~Clean(s)]
    /\ UNCHANGED <<cell, acc, hasCells>>

-----------------------------------------------------------------------------
(* Closures *)

\* captureLocal, for each captured variable of OpClosure.
Capture(s) ==
    /\ IF Captured(s)
       THEN WriteBack(s) /\ UNCHANGED hasCells
       ELSE LET v == IF acc[s] # None THEN acc[s] ELSE locals[s]
            IN  /\ locals' = [locals EXCEPT ![s] = v]
                /\ cell' = [cell EXCEPT ![s] = v]
                /\ hasCells' = TRUE
    /\ UNCHANGED <<kind, acc, truth, tainted>>

\* OpSetCapture, in a closure: the cell is written, and an accumulator left behind by the
\* frame will be written over it.
SetCapture(s, v) ==
    /\ Captured(s)
    /\ cell' = [cell EXCEPT ![s] = v]
    /\ truth' = [truth EXCEPT ![s] = v]
    /\ tainted' = [tainted EXCEPT ![s] = @ \/ acc[s] # None]
    /\ UNCHANGED <<kind, locals, acc, hasCells>>

-----------------------------------------------------------------------------

Next ==
    \E s \in Slots :
        \/ Read(s)
        \/ Capture(s)
        \/ \E n \in Values : AddToLocal(s, n) \/ AppendLocalString(s, n) \/ SetCapture(s, n)
        \/ \E d \in Slots : AddLocalLocal(d, s)
        \/ \E k \in Kinds, v \in Values : Set(s, k, v) \/ IterNext(s, k, v)

Spec == Init /\ [][Next]_vars

-----------------------------------------------------------------------------
(* Properties *)

\* As long as no fused opcode has gone past the cell or accumulator of a variable, the
\* frame and every closure that captured it see the value the program last gave it,
\* whoever gave it, in whichever of the three places it is kept.
OwnerAndClosuresAgree ==
    \A s \in Slots : ~tainted[s] =>
        /\ Get(s) = truth[s]
        /\ Captured(s) => cell[s] = truth[s]

\* A frame whose hasCells is false has no cell and no accumulator: the fast path, which
\* looks at frame.locals alone, misses nothing.
FlagSound == ~hasCells => \A s \in Slots : Clean(s)
=============================================================================
