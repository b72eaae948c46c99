---------------------------- MODULE InstancePool ----------------------------
(***************************************************************************)
(* Recycling of instances (internal/vm/vm.go): when OpSetLocal overwrites  *)
(* a local that holds an instance, tryRecycleLocal looks for another       *)
(* reference to it in the same frame and, finding none, puts the instance  *)
(* in the pool of its class, from which the next constructor call takes    *)
(* it.  References from fields, arrays, cells, globals and the frames of   *)
(* callers are not looked for.                                             *)
(*                                                                         *)
(* One class; an instance is its identity and its Frozen flag.             *)
(***************************************************************************)
EXTENDS Naturals, Sequences

CONSTANTS Objects,     \* bound: the instances that may be allocated
          Slots,       \* the local slots of a frame
          Nothing,     \* a value that is not an instance
          MaxPool,     \* maxPoolSize, 32 in the code
          MaxDepth,    \* bound: frames
          MaxStack     \* bound: expression stack of the active frame

\* What the constants are.
PoolAssumption ==
    /\ Nothing \notin Objects
    /\ MaxPool \in Nat /\ MaxDepth \in Nat \ {0} /\ MaxStack \in Nat

VARIABLES frames,      \* the locals of each frame, the active one last
          stack,       \* the expression stack of the active frame
          heap,        \* instances some field, array, cell or global refers to
          pool,        \* vm.instancePools of the class, the next one to hand out last
          frozen,      \* the instances whose Frozen is set
          made,        \* the instances allocated so far
          escaped,     \* history: instances that were given to the heap or to a callee
          reassigned   \* history: instances stored in the slot that already held them

vars == <<frames, stack, heap, pool, frozen, made, escaped, reassigned>>

Empty == [s \in Slots |-> Nothing]
Active == frames[Len(frames)]
Elements(s) == {s[i] : i \in DOMAIN s}

TypeOK ==
    /\ frames \in Seq([Slots -> Objects \cup {Nothing}]) /\ Len(frames) \in 1..MaxDepth
    /\ stack \in Seq(Objects \cup {Nothing}) /\ Len(stack) <= MaxStack
    /\ heap \subseteq Objects
    /\ pool \in Seq(Objects) /\ Len(pool) <= MaxPool
    /\ frozen \subseteq Objects
    /\ made \subseteq Objects
    /\ escaped \subseteq Objects
    /\ reassigned \subseteq Objects

Init ==
    /\ frames = <<Empty>>
    /\ stack = <<>>
    /\ heap = {}
    /\ pool = <<>>
    /\ frozen = {}
    /\ made = {}
    /\ escaped = {}
    /\ reassigned = {}

\* What the program can still get hold of.
Reachable == heap \cup Elements(stack) \cup UNION {Elements(frames[i]) : i \in DOMAIN frames}

Top == stack[Len(stack)]
Below == SubSeq(stack, 1, Len(stack) - 1)

-----------------------------------------------------------------------------

\* acquireInstance, when a constructor is called.
Construct ==
    /\ Len(stack) < MaxStack
    /\ \E o \in Objects :
          /\ IF pool # <<>>
             THEN /\ o = pool[Len(pool)]
                  /\ pool' = SubSeq(pool, 1, Len(pool) - 1)
                  /\ frozen' = frozen \ {o}
             ELSE /\ o \notin made
                  /\ UNCHANGED <<pool, frozen>>
          /\ stack' = Append(stack, o)
          /\ made' = made \cup {o}
          /\ IF o \in Reachable \cup Elements(pool')
             THEN UNCHANGED <<escaped, reassigned>>
             ELSE escaped' = escaped \ {o} /\ reassigned' = reassigned \ {o}
    /\ UNCHANGED <<frames, heap>>

\* Mutant: the expression stack is not searched.
NoAliasInLocals(s, rest) ==
    /\ Active[s] # Nothing
    /\ \A t \in Slots \ {s} : Active[t] # Active[s]

\* Mutant: the other locals are not searched.
NoAliasOnStack(s, rest) ==
    /\ Active[s] # Nothing
    /\ Active[s] \notin Elements(rest)

\* The search of tryRecycleLocal: other locals of the frame, then what is left of its
\* expression stack.
NoAlias(s, rest) ==
    /\ Active[s] # Nothing
    /\ \A t \in Slots \ {s} : Active[t] # Active[s]
    /\ Active[s] \notin Elements(rest)

\* Mutant: the pool takes one more than its size.
HasRoomForOneMore == Len(pool) <= MaxPool

HasRoom == Len(pool) < MaxPool

\* OpSetLocal: the new value is popped before the old one is looked at, and stored after.
SetLocal(s) ==
    /\ stack # <<>>
    /\ pool' = IF NoAlias(s, Below) /\ HasRoom THEN Append(pool, Active[s]) ELSE pool
    /\ frames' = [frames EXCEPT ![Len(frames)][s] = Top]
    /\ stack' = Below
    /\ reassigned' = reassigned \cup ({Active[s]} \cap {Top} \cap Objects)
    /\ UNCHANGED <<heap, frozen, made, escaped>>

\* OpFreeze, for const and final.
Freeze ==
    /\ stack # <<>>
    /\ frozen' = frozen \cup ({Top} \cap Objects)
    /\ UNCHANGED <<frames, stack, heap, pool, made, escaped, reassigned>>

-----------------------------------------------------------------------------
(* How references move: what the program does around the two *)

Push(x) ==
    /\ Len(stack) < MaxStack
    /\ stack' = Append(stack, x)
    /\ UNCHANGED <<frames, heap, pool, frozen, made, escaped, reassigned>>

\* OpGetLocal; OpGetField, OpGetIndex, OpGetCapture and OpGetGlobal; OpNil.
Load == \E x \in Elements(Active) \cup heap \cup {Nothing} : Push(x)

\* OpPop
Pop ==
    /\ stack # <<>>
    /\ stack' = Below
    /\ UNCHANGED <<frames, heap, pool, frozen, made, escaped, reassigned>>

\* OpSetField, OpSetIndex, OpSetCapture, OpSetGlobal.
Escape ==
    /\ stack # <<>>
    /\ Top \in Objects
    /\ heap' = heap \cup {Top}
    /\ escaped' = escaped \cup {Top}
    /\ stack' = Below
    /\ UNCHANGED <<frames, pool, frozen, made, reassigned>>

\* The last reference from the heap is overwritten.
Forget ==
    /\ \E o \in heap : heap' = heap \ {o}
    /\ UNCHANGED <<frames, stack, pool, frozen, made, escaped, reassigned>>

\* A call with one argument: the callee's frame gets it, the caller keeps its locals.
Call ==
    /\ Len(stack) = 1
    /\ Len(frames) < MaxDepth
    /\ \E s \in Slots : frames' = Append(frames, [Empty EXCEPT ![s] = Top])
    /\ escaped' = escaped \cup ({Top} \cap Objects)
    /\ stack' = <<>>
    /\ UNCHANGED <<heap, pool, frozen, made, reassigned>>

\* OpReturn: the frame is released and the value goes to the caller's stack.
Return ==
    /\ Len(frames) > 1
    /\ Len(stack) = 1
    /\ frames' = SubSeq(frames, 1, Len(frames) - 1)
    /\ UNCHANGED <<stack, heap, pool, frozen, made, escaped, reassigned>>

-----------------------------------------------------------------------------

Next ==
    \/ Construct
    \/ \E s \in Slots : SetLocal(s)
    \/ Freeze \/ Load \/ Pop \/ Escape \/ Forget \/ Call \/ Return

Spec == Init /\ [][Next]_vars

-----------------------------------------------------------------------------
(* Properties *)

\* An instance that never left its frame and was never assigned to its own slot is in the
\* pool at most once and only when the program has lost it.  One that did may be there
\* twice and be handed out twice: it only counts as new once no entry of it is left.
LocalInstancesRecycledSafely ==
    \A i \in DOMAIN pool :
        pool[i] \notin escaped \cup reassigned =>
            /\ pool[i] \notin Reachable
            /\ \A j \in DOMAIN pool : pool[j] = pool[i] => j = i

\* Such an instance stays frozen for as long as the program holds it: recycling, which
\* thaws, does not take it away.
FrozenStaysFrozen ==
    [][\A o \in frozen \ (escaped \cup reassigned) : o \in Reachable => o \in frozen']_vars

\* An instance in the pool has been given up: the program no longer reaches it (the
\* comment of tryRecycleLocal).
PooledIsGarbage == \A i \in DOMAIN pool : pool[i] \notin Reachable
=============================================================================
