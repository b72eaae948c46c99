---------------------------- MODULE RuntimeProofs ----------------------------
(***************************************************************************)
(* The five parts of the runtime together, for any instance of each: what  *)
(* is proved of a part holds of every behaviour of MCRuntime, because a    *)
(* behaviour of MCRuntime is one of each of its parts.                     *)
(*                                                                         *)
(* LocalCells and Isolation are proved about here.  Each of the other      *)
(* three is instantiated twice, by MCRuntime as the model and here with    *)
(* its theorems: that both are the same is a matter of expanding the       *)
(* definitions.                                                            *)
(***************************************************************************)
EXTENDS MCRuntime, FiniteSetTheorems, WellFoundedInduction, TLAPS

PoolTheory == INSTANCE InstancePoolProofs
    WITH frames <- called, made <- allocated, MaxDepth <- MaxCalls
FrameTheory == INSTANCE FramesProofs
ChannelTheory == INSTANCE ChannelsProofs

-----------------------------------------------------------------------------
(* LocalCells: types, and the three places of a variable, for any set of   *)
(* slots and any bound on the values                                       *)

\* Adding to a value of a variable (OpAddToLocal, OpAppendLocalString) stays within the
\* bound that stands for the width of the value.
LEMMA PlusInValues ==
    ASSUME NEW a \in Values, NEW b \in Values
    PROVE  Plus(a, b) \in Values
<1>1. MaxValue + 1 \in Nat /\ MaxValue + 1 > 0
  BY ValuesAssumption
<1>2. \A x \in Nat : x % (MaxValue + 1) \in 0..MaxValue
  BY <1>1, ValuesAssumption
<1> QED
  BY <1>2, ValuesAssumption DEF Plus, Values

\* None stands for the absence of a cell or of an accumulator, so it is no value.
LEMMA NoneIsNoValue == None \notin Values
  BY ValuesAssumption DEF Values

\* Every opcode that touches a local leaves the frame with a value in every slot and
\* cells and accumulators that hold values.
LEMMA StepTypeOK == TypeOK /\ [Next]_vars => TypeOK'
<1> SUFFICES ASSUME TypeOK, [Next]_vars PROVE TypeOK'
  OBVIOUS
<1>0. 0 \in Values
  BY ValuesAssumption DEF Values
<1>1. ASSUME NEW s \in Slots, Read(s) PROVE TypeOK'
  BY <1>1 DEF TypeOK, Read, WriteBack, Captured
<1>2. ASSUME NEW s \in Slots, Capture(s) PROVE TypeOK'
  BY <1>2 DEF TypeOK, Capture, WriteBack, Captured
<1>3. ASSUME NEW s \in Slots, NEW n \in Values, AddToLocal(s, n) PROVE TypeOK'
  <2>1. Get(s) \in Values
    BY DEF TypeOK, Get, Captured
  <2>2. Plus(Get(s), n) \in Values /\ Plus(truth[s], n) \in Values
    BY <2>1, PlusInValues DEF TypeOK
  <2> QED
    BY <1>3, <2>2 DEF TypeOK, AddToLocal, Put, Captured
<1>4. ASSUME NEW s \in Slots, NEW n \in Values, AppendLocalString(s, n) PROVE TypeOK'
  <2>1. (IF acc[s] = None THEN Base(s) ELSE acc[s]) \in Values
    BY DEF TypeOK, Base, Captured
  <2>2. /\ Plus(IF acc[s] = None THEN Base(s) ELSE acc[s], n) \in Values
        /\ Plus(truth[s], n) \in Values
    BY <2>1, PlusInValues DEF TypeOK
  <2> QED
    BY <1>4, <2>2 DEF TypeOK, AppendLocalString, Captured
<1>5. ASSUME NEW s \in Slots, NEW v \in Values, SetCapture(s, v) PROVE TypeOK'
  BY <1>5 DEF TypeOK, SetCapture, Captured
<1>6. ASSUME NEW s \in Slots, NEW d \in Slots, AddLocalLocal(d, s) PROVE TypeOK'
  <2>1. Plus(locals[d], locals[s]) \in Values /\ Plus(truth[d], truth[s]) \in Values
    BY PlusInValues DEF TypeOK
  <2> QED
    BY <1>6, <2>1 DEF TypeOK, AddLocalLocal, Clean
<1>7. ASSUME NEW s \in Slots, NEW k \in Kinds, NEW v \in Values, Set(s, k, v) PROVE TypeOK'
  BY <1>7 DEF TypeOK, Set, Put, Captured
<1>8. ASSUME NEW s \in Slots, NEW k \in Kinds, NEW v \in Values, IterNext(s, k, v) PROVE TypeOK'
  BY <1>8 DEF TypeOK, IterNext, Clean
<1>9. CASE UNCHANGED vars
  BY <1>9 DEF TypeOK, vars
<1> QED
  BY <1>1, <1>2, <1>3, <1>4, <1>5, <1>6, <1>7, <1>8, <1>9 DEF Next

\* The locals, cells and accumulators of a frame keep their types.
THEOREM TypeCorrect == Spec => []TypeOK
<1>1. Init => TypeOK
  <2>1. 0 \in Values
    BY ValuesAssumption DEF Values
  <2> QED
    BY <2>1 DEF Init, TypeOK
<1> QED
  BY <1>1, StepTypeOK, PTL DEF Spec

\* What a variable that no fused opcode has gone past has in its accumulator, its cell
\* and its slot.  The slot is only looked at when there is neither of the others; an
\* accumulator that no capture has seen leaves an old value in the slot, so it is not
\* true that all three agree.
InStep ==
    \A s \in Slots : ~tainted[s] =>
        /\ acc[s] # None => acc[s] = truth[s]
        /\ Captured(s) => cell[s] = truth[s]
        /\ Clean(s) => locals[s] = truth[s]

PlacesInv == TypeOK /\ FlagSound /\ InStep

\* Every opcode keeps the three places of a variable in step, or marks the variable.
LEMMA StepPlaces == PlacesInv /\ [Next]_vars => PlacesInv'
<1> SUFFICES ASSUME PlacesInv, [Next]_vars PROVE PlacesInv'
  OBVIOUS
<1>0. TypeOK /\ TypeOK'
  BY StepTypeOK DEF PlacesInv
<1> USE NoneIsNoValue
<1>1. ASSUME NEW s \in Slots, Read(s) PROVE FlagSound' /\ InStep'
  BY <1>0, <1>1 DEF PlacesInv, TypeOK, FlagSound, InStep, Read, WriteBack, Captured, Clean
<1>2. ASSUME NEW s \in Slots, Capture(s) PROVE FlagSound' /\ InStep'
  <2>1. CASE Captured(s)
    BY <1>0, <1>2, <2>1 DEF PlacesInv, TypeOK, FlagSound, InStep, Capture, WriteBack,
                            Captured, Clean
  <2>2. CASE ~Captured(s)
    BY <1>0, <1>2, <2>2 DEF PlacesInv, TypeOK, FlagSound, InStep, Capture, Captured, Clean
  <2> QED
    BY <2>1, <2>2
<1>3. ASSUME NEW s \in Slots, NEW n \in Values, AddToLocal(s, n) PROVE FlagSound' /\ InStep'
  <2>1. ~tainted[s] => Get(s) = truth[s]
    BY <1>0 DEF PlacesInv, TypeOK, FlagSound, InStep, Get, Captured, Clean
  <2>2. FlagSound'
    BY <1>0, <1>3 DEF PlacesInv, TypeOK, FlagSound, AddToLocal, Put, Captured, Clean
  <2>3. InStep'
    <3> SUFFICES ASSUME NEW t \in Slots, ~tainted'[t]
                 PROVE /\ acc'[t] # None => acc'[t] = truth'[t]
                       /\ cell'[t] # None => cell'[t] = truth'[t]
                       /\ cell'[t] = None /\ acc'[t] = None => locals'[t] = truth'[t]
      BY DEF InStep, Captured, Clean
    <3>1. CASE t = s
      BY <1>0, <1>3, <2>1, <3>1 DEF PlacesInv, TypeOK, FlagSound, AddToLocal, Put, Captured,
                                    Clean
    <3>2. CASE t # s
      BY <1>0, <1>3, <3>2 DEF PlacesInv, TypeOK, InStep, AddToLocal, Put, Captured, Clean
    <3> QED
      BY <3>1, <3>2
  <2> QED
    BY <2>2, <2>3
<1>4. ASSUME NEW s \in Slots, NEW n \in Values, AppendLocalString(s, n)
      PROVE FlagSound' /\ InStep'
  <2>1. ~tainted'[s] => (IF acc[s] = None THEN Base(s) ELSE acc[s]) = truth[s]
    BY <1>0, <1>4 DEF PlacesInv, TypeOK, InStep, AppendLocalString, Base, Captured, Clean
  <2>2. FlagSound'
    BY <1>4 DEF AppendLocalString, FlagSound
  <2>3. acc'[s] \in Values
    <3>1. acc'[s] = Plus(IF acc[s] = None THEN Base(s) ELSE acc[s], n)
      BY <1>0, <1>4 DEF TypeOK, AppendLocalString
    <3>2. (IF acc[s] = None THEN Base(s) ELSE acc[s]) \in Values
      BY <1>0 DEF TypeOK, Base, Captured
    <3> QED
      BY <3>1, <3>2, PlusInValues
  <2>4. InStep'
    BY <1>0, <1>4, <2>1, <2>3 DEF PlacesInv, TypeOK, InStep, AppendLocalString, Captured, Clean
  <2> QED
    BY <2>2, <2>4
<1>5. ASSUME NEW s \in Slots, NEW v \in Values, SetCapture(s, v) PROVE FlagSound' /\ InStep'
  BY <1>0, <1>5 DEF PlacesInv, TypeOK, FlagSound, InStep, SetCapture, Captured, Clean
<1>6. ASSUME NEW s \in Slots, NEW d \in Slots, AddLocalLocal(d, s) PROVE FlagSound' /\ InStep'
  BY <1>0, <1>6 DEF PlacesInv, TypeOK, FlagSound, InStep, AddLocalLocal, Captured, Clean
<1>7. ASSUME NEW s \in Slots, NEW k \in Kinds, NEW v \in Values, Set(s, k, v)
      PROVE FlagSound' /\ InStep'
  BY <1>0, <1>7 DEF PlacesInv, TypeOK, FlagSound, InStep, Set, Put, Captured, Clean
<1>8. ASSUME NEW s \in Slots, NEW k \in Kinds, NEW v \in Values, IterNext(s, k, v)
      PROVE FlagSound' /\ InStep'
  BY <1>0, <1>8 DEF PlacesInv, TypeOK, FlagSound, InStep, IterNext, Captured, Clean
<1>9. ASSUME UNCHANGED vars PROVE FlagSound' /\ InStep'
  BY <1>9 DEF PlacesInv, FlagSound, InStep, Captured, Clean, vars
<1> QED
  BY <1>0, <1>1, <1>2, <1>3, <1>4, <1>5, <1>6, <1>7, <1>8, <1>9 DEF Next, PlacesInv

LEMMA PlacesInvariant == Spec => []PlacesInv
<1>1. Init => TypeOK
  <2>1. 0 \in Values
    BY ValuesAssumption DEF Values
  <2> QED
    BY <2>1 DEF Init, TypeOK
<1>2. Init => FlagSound /\ InStep
  BY DEF Init, FlagSound, InStep, Captured, Clean
<1>3. Init => PlacesInv
  BY <1>1, <1>2 DEF PlacesInv
<1> QED
  BY <1>3, StepPlaces, PTL DEF Spec

\* A frame without the flag has no cell and no accumulator, whatever its number of slots:
\* the fast path of OpGetLocal and OpSetLocal is safe.
THEOREM FlagIsSound == Spec => []FlagSound
<1>1. PlacesInv => FlagSound
  BY DEF PlacesInv
<1> QED
  BY <1>1, PlacesInvariant, PTL

\* The frame and the closures that captured a variable agree on it, and on what the
\* program gave it, unless a fused opcode went past its cell or accumulator.
THEOREM ClosuresAgree == Spec => []OwnerAndClosuresAgree
<1>1. PlacesInv => OwnerAndClosuresAgree
  BY NoneIsNoValue DEF PlacesInv, TypeOK, FlagSound, InStep, OwnerAndClosuresAgree, Get,
                       Captured, Clean
<1> QED
  BY <1>1, PlacesInvariant, PTL

-----------------------------------------------------------------------------
(* Isolation, for any number of tasks and objects: no object is within     *)
(* reach of two goroutines unless it was published.  New objects first.    *)

\* Any set of numbers that is not empty has a least one.
LEMMA LeastOfSome ==
    ASSUME NEW S \in SUBSET Nat, S # {}
    PROVE  Isolated!Min(S) \in S
<1>1. PICK x \in S : \A y \in S : <<y, x>> \notin OpToRel(<, Nat)
  BY NatLessThanWellFounded, WFMin
<1>2. \A y \in S : x <= y
  <2> SUFFICES ASSUME NEW y \in S, y < x PROVE FALSE
    OBVIOUS
  <2>1. <<y, x>> \in OpToRel(<, Nat)
    BY DEF OpToRel
  <2> QED
    BY <1>1, <2>1
<1> QED
  BY <1>2 DEF Isolated!Min

\* What is made is an object that nobody held.
LEMMA CopyIsNew ==
    ASSUME Isolated!IsolationAssumption, Isolated!Free # {}
    PROVE  \E n \in Isolated!Free : Isolated!DeepCopy = {n}
<1>1. Isolated!Free \in SUBSET Nat
  BY DEF Isolated!Free, Isolated!Ids, Isolated!IsolationAssumption
<1> QED
  BY <1>1, LeastOfSome DEF Isolated!DeepCopy

\* It is typed as what it is put in.
LEMMA CopyTyped ==
    ASSUME Isolated!IsolationAssumption, Isolated!Free # {}
    PROVE  /\ Isolated!DeepCopy \subseteq Isolated!Ids
           /\ Isolated!DeepCopy \in Isolated!AtMostOne
           /\ \A o \in Isolated!Ids : {o} \in Isolated!AtMostOne
BY CopyIsNew DEF Isolated!Free, Isolated!AtMostOne

-----------------------------------------------------------------------------
(* Isolation: types *)

\* Every step gives variables values of their types.
LEMMA StepObjectsTyped ==
    ASSUME Isolated!IsolationAssumption, Isolated!TypeOK, [Isolated!Next]_(Isolated!vars)
    PROVE  Isolated!TypeOK'
<1> USE DEF Isolated!handles, Isolated!shared, Isolated!Gets, Isolated!Running
<1>0. /\ Isolated!Free # {} => /\ Isolated!DeepCopy \in SUBSET Isolated!Ids
                              /\ Isolated!DeepCopy \in Isolated!AtMostOne
      /\ \A o \in Isolated!Ids : {o} \in Isolated!AtMostOne
      /\ {} \in Isolated!AtMostOne /\ Isolated!AtMostOne \subseteq SUBSET Isolated!Ids
      /\ Main \in Isolated!VMs /\ Tasks \subseteq Isolated!VMs /\ \A t \in Tasks : t # Main
  BY CopyTyped DEF Isolated!AtMostOne, Isolated!VMs, Isolated!IsolationAssumption
<1>1. ASSUME NEW v \in Isolated!VMs, Isolated!Make(v) PROVE Isolated!TypeOK'
  BY <1>0, <1>1 DEF Isolated!TypeOK, Isolated!Make
<1>2. ASSUME NEW v \in Isolated!VMs, Isolated!GetStatic(v) PROVE Isolated!TypeOK'
  BY <1>0, <1>2 DEF Isolated!TypeOK, Isolated!GetStatic
<1>3. ASSUME NEW v \in Isolated!VMs, Isolated!Receive(v) PROVE Isolated!TypeOK'
  BY <1>0, <1>3 DEF Isolated!TypeOK, Isolated!Receive
<1>4. ASSUME NEW v \in Isolated!VMs, NEW o \in Isolated!Ids, Isolated!Forget(v, o)
      PROVE  Isolated!TypeOK'
  BY <1>0, <1>4 DEF Isolated!TypeOK, Isolated!Forget
<1>5. ASSUME NEW v \in Isolated!VMs, NEW o \in Isolated!Ids, Isolated!SetStatic(v, o)
      PROVE  Isolated!TypeOK'
  BY <1>0, <1>5 DEF Isolated!TypeOK, Isolated!SetStatic
<1>6. ASSUME NEW v \in Isolated!VMs, NEW o \in Isolated!Ids, Isolated!Send(v, o)
      PROVE  Isolated!TypeOK'
  BY <1>0, <1>6 DEF Isolated!TypeOK, Isolated!Send
<1>7. ASSUME NEW v \in Isolated!VMs, NEW o \in Isolated!Ids, NEW t \in Tasks,
             Isolated!Begin(v, t, o)
      PROVE  Isolated!TypeOK'
  BY <1>0, <1>7 DEF Isolated!TypeOK, Isolated!Begin
<1>8. ASSUME NEW v \in Isolated!VMs, NEW o \in Isolated!Ids, NEW t \in Tasks,
             Isolated!Complete(v, t, o)
      PROVE  Isolated!TypeOK'
  BY <1>0, <1>8 DEF Isolated!TypeOK, Isolated!Complete
<1>9. ASSUME NEW v \in Isolated!VMs, NEW t \in Tasks, Isolated!Await(v, t) PROVE Isolated!TypeOK'
  <2>1. error[t] \in SUBSET Isolated!Ids
    BY <1>0 DEF Isolated!TypeOK
  <2> QED
    BY <1>0, <1>9, <2>1 DEF Isolated!TypeOK, Isolated!Await
<1>10. ASSUME NEW o \in Isolated!Ids, Isolated!SetGlobal(o) PROVE Isolated!TypeOK'
  BY <1>0, <1>10 DEF Isolated!TypeOK, Isolated!SetGlobal
<1>11. ASSUME NEW t \in Tasks, Isolated!Enter(t) PROVE Isolated!TypeOK'
  BY <1>0, <1>11 DEF Isolated!TypeOK, Isolated!Enter
<1>12. ASSUME NEW t \in Tasks, NEW o \in Isolated!Ids, Isolated!CopyGlobal(t, o)
       PROVE  Isolated!TypeOK'
  BY <1>0, <1>12 DEF Isolated!TypeOK, Isolated!CopyGlobal
<1>13. ASSUME NEW t \in Tasks, NEW o \in Isolated!Ids, Isolated!Return(t, o) PROVE Isolated!TypeOK'
  BY <1>0, <1>13 DEF Isolated!TypeOK, Isolated!Return
<1>14. ASSUME NEW t \in Tasks, NEW o \in Isolated!Ids, Isolated!Throw(t, o) PROVE Isolated!TypeOK'
  BY <1>0, <1>14 DEF Isolated!TypeOK, Isolated!Throw
<1>15. CASE UNCHANGED Isolated!vars
  BY <1>15 DEF Isolated!TypeOK, Isolated!vars
<1> QED
  BY <1>1, <1>2, <1>3, <1>4, <1>5, <1>6, <1>7, <1>8, <1>9, <1>10, <1>11, <1>12, <1>13, <1>14,
     <1>15 DEF Isolated!Next

-----------------------------------------------------------------------------
(* Isolation: who reaches an object *)

\* The places where an object is read or written, or from which it is copied.
Places == ({"vm"} \X Isolated!VMs) \cup ({"closure", "result"} \X Tasks) \cup {<<"message", Main>>}

Within(p) ==
    CASE p[1] = "vm"      -> holds[p[2]]
      [] p[1] = "closure" -> closure[p[2]]
      [] p[1] = "result"  -> result[p[2]]
      [] p[1] = "message" -> message

\* An object that was never published is in one place.
Exclusive ==
    \A o \in Isolated!Ids \ published :
        \A p, q \in Places : o \in Within(p) /\ o \in Within(q) => p = q

\* What every VM can get as it is was published.
Known == static \subseteq published /\ \A t \in Tasks : error[t] \subseteq published

\* A new object in one place leaves the others as they were.
LEMMA NewObject ==
    ASSUME Isolated!TypeOK, Exclusive, Known,
           NEW n \in Isolated!Free, NEW p \in Places,
           \A q \in Places \ {p} : Within(q)' \subseteq Within(q),
           Within(p)' \subseteq Within(p) \cup {n},
           published' = published \ {n}, static' = static,
           \A t \in Tasks : error'[t] = error[t]
    PROVE  Exclusive' /\ Known'
<1>1. n \notin static /\ \A t \in Tasks : n \notin error[t]
  BY DEF Isolated!Free, Isolated!Live
<1>2. \A q \in Places : n \notin Within(q)
  BY DEF Isolated!Free, Isolated!Live, Places, Within
<1>3. Known'
  BY <1>1 DEF Known
<1>4. Exclusive'
  <2> SUFFICES ASSUME NEW o \in Isolated!Ids \ published', NEW q \in Places, NEW r \in Places,
                      o \in Within(q)', o \in Within(r)'
               PROVE  q = r
    BY DEF Exclusive, Places, Isolated!VMs, Isolated!Ids
  <2>1. CASE o = n
    BY <1>2, <2>1
  <2>2. CASE o # n
    BY <2>2 DEF Exclusive
  <2> QED
    BY <2>1, <2>2
<1> QED
  BY <1>3, <1>4

\* So does a published object in any.
LEMMA OldObjects ==
    ASSUME Isolated!TypeOK, Exclusive, Known,
           \A q \in Places : Within(q)' \subseteq Within(q) \cup published',
           published \subseteq published', static' \subseteq published',
           \A t \in Tasks : error'[t] \subseteq published'
    PROVE  Exclusive' /\ Known'
<1> SUFFICES ASSUME NEW o \in Isolated!Ids \ published', NEW q \in Places, NEW r \in Places,
                    o \in Within(q)', o \in Within(r)'
             PROVE  q = r
  BY DEF Exclusive, Known, Places, Isolated!VMs, Isolated!Ids
<1> QED
  BY DEF Exclusive

\* Every step is of one of the two kinds.
LEMMA StepExclusive ==
    ASSUME Isolated!IsolationAssumption, Isolated!TypeOK, Exclusive, Known,
           [Isolated!Next]_(Isolated!vars)
    PROVE  Exclusive' /\ Known'
<1> DEFINE Goal == Exclusive' /\ Known'
<1> USE DEF Isolated!handles, Isolated!shared, Isolated!Gets, Isolated!Running
<1>0. /\ Main \in Isolated!VMs /\ Tasks \subseteq Isolated!VMs
      /\ (Isolated!Free # {} => \E n \in Isolated!Free : Isolated!DeepCopy = {n})
  BY CopyIsNew DEF Isolated!VMs
<1>1. ASSUME NEW v \in Isolated!VMs, Isolated!Make(v) PROVE Goal
  <2> DEFINE p == <<"vm", v>>
  <2>1. PICK n \in Isolated!Free : Isolated!DeepCopy = {n}
    BY <1>0, <1>1 DEF Isolated!Make
  <2>2. p \in Places /\ Within(p)' \subseteq Within(p) \cup {n}
    BY <1>0, <1>1, <2>1 DEF Isolated!Make, Places, Within, Isolated!TypeOK
  <2>3. \A q \in Places \ {p} : Within(q)' \subseteq Within(q)
    BY <1>0, <1>1, <2>1 DEF Isolated!Make, Places, Within, Isolated!TypeOK
  <2>4. published' = published \ {n} /\ UNCHANGED <<static, error>>
    BY <1>1, <2>1 DEF Isolated!Make
  <2> QED
    BY <2>2, <2>3, <2>4, NewObject
<1>2. ASSUME NEW v \in Isolated!VMs, Isolated!Receive(v) PROVE Goal
  <2> DEFINE p == <<"vm", v>>
  <2>1. PICK n \in Isolated!Free : Isolated!DeepCopy = {n}
    BY <1>0, <1>2 DEF Isolated!Receive
  <2>2. p \in Places /\ Within(p)' \subseteq Within(p) \cup {n}
    BY <1>0, <1>2, <2>1 DEF Isolated!Receive, Places, Within, Isolated!TypeOK
  <2>3. \A q \in Places \ {p} : Within(q)' \subseteq Within(q)
    BY <1>0, <1>2, <2>1 DEF Isolated!Receive, Places, Within, Isolated!TypeOK
  <2>4. published' = published \ {n} /\ UNCHANGED <<static, error>>
    BY <1>2, <2>1 DEF Isolated!Receive
  <2> QED
    BY <2>2, <2>3, <2>4, NewObject
<1>3. ASSUME NEW v \in Isolated!VMs, NEW o \in Isolated!Ids, Isolated!Send(v, o) PROVE Goal
  <2> DEFINE p == <<"message", Main>>
  <2>1. PICK n \in Isolated!Free : Isolated!DeepCopy = {n}
    BY <1>0, <1>3 DEF Isolated!Send
  <2>2. p \in Places /\ Within(p)' \subseteq Within(p) \cup {n}
    BY <1>0, <1>3, <2>1 DEF Isolated!Send, Places, Within, Isolated!TypeOK
  <2>3. \A q \in Places \ {p} : Within(q)' \subseteq Within(q)
    BY <1>0, <1>3, <2>1 DEF Isolated!Send, Places, Within, Isolated!TypeOK
  <2>4. published' = published \ {n} /\ UNCHANGED <<static, error>>
    BY <1>3, <2>1 DEF Isolated!Send
  <2> QED
    BY <2>2, <2>3, <2>4, NewObject
<1>4. ASSUME NEW v \in Isolated!VMs, NEW o \in Isolated!Ids, NEW t \in Tasks,
             Isolated!Begin(v, t, o)
      PROVE  Goal
  <2> DEFINE p == <<"closure", t>>
  <2>1. PICK n \in Isolated!Free : Isolated!DeepCopy = {n}
    BY <1>0, <1>4 DEF Isolated!Begin
  <2>2. p \in Places /\ Within(p)' \subseteq Within(p) \cup {n}
    BY <1>0, <1>4, <2>1 DEF Isolated!Begin, Places, Within, Isolated!TypeOK
  <2>3. \A q \in Places \ {p} : Within(q)' \subseteq Within(q)
    BY <1>0, <1>4, <2>1 DEF Isolated!Begin, Places, Within, Isolated!TypeOK
  <2>4. published' = published \ {n} /\ UNCHANGED <<static, error>>
    BY <1>4, <2>1 DEF Isolated!Begin
  <2> QED
    BY <2>2, <2>3, <2>4, NewObject
<1>5. ASSUME NEW v \in Isolated!VMs, NEW o \in Isolated!Ids, NEW t \in Tasks,
             Isolated!Complete(v, t, o)
      PROVE  Goal
  <2> DEFINE p == <<"result", t>>
  <2>1. PICK n \in Isolated!Free : Isolated!DeepCopy = {n}
    BY <1>0, <1>5 DEF Isolated!Complete
  <2>2. p \in Places /\ Within(p)' \subseteq Within(p) \cup {n}
    BY <1>0, <1>5, <2>1 DEF Isolated!Complete, Places, Within, Isolated!TypeOK
  <2>3. \A q \in Places \ {p} : Within(q)' \subseteq Within(q)
    BY <1>0, <1>5, <2>1 DEF Isolated!Complete, Places, Within, Isolated!TypeOK
  <2>4. published' = published \ {n} /\ UNCHANGED <<static, error>>
    BY <1>5, <2>1 DEF Isolated!Complete
  <2> QED
    BY <2>2, <2>3, <2>4, NewObject
<1>6. ASSUME NEW t \in Tasks, Isolated!Enter(t) PROVE Goal
  <2> DEFINE p == <<"vm", t>>
  <2>1. PICK n \in Isolated!Free : Isolated!DeepCopy = {n}
    BY <1>0, <1>6 DEF Isolated!Enter
  <2>2. p \in Places /\ Within(p)' \subseteq Within(p) \cup {n}
    BY <1>0, <1>6, <2>1 DEF Isolated!Enter, Places, Within, Isolated!TypeOK
  <2>3. \A q \in Places \ {p} : Within(q)' \subseteq Within(q)
    BY <1>0, <1>6, <2>1 DEF Isolated!Enter, Places, Within, Isolated!TypeOK
  <2>4. published' = published \ {n} /\ UNCHANGED <<static, error>>
    BY <1>6, <2>1 DEF Isolated!Enter
  <2> QED
    BY <2>2, <2>3, <2>4, NewObject
<1>7. ASSUME NEW t \in Tasks, NEW o \in Isolated!Ids, Isolated!CopyGlobal(t, o) PROVE Goal
  <2> DEFINE p == <<"vm", t>>
  <2>1. PICK n \in Isolated!Free : Isolated!DeepCopy = {n}
    BY <1>0, <1>7 DEF Isolated!CopyGlobal
  <2>2. p \in Places /\ Within(p)' \subseteq Within(p) \cup {n}
    BY <1>0, <1>7, <2>1 DEF Isolated!CopyGlobal, Places, Within, Isolated!TypeOK
  <2>3. \A q \in Places \ {p} : Within(q)' \subseteq Within(q)
    BY <1>0, <1>7, <2>1 DEF Isolated!CopyGlobal, Places, Within, Isolated!TypeOK
  <2>4. published' = published \ {n} /\ UNCHANGED <<static, error>>
    BY <1>7, <2>1 DEF Isolated!CopyGlobal
  <2> QED
    BY <2>2, <2>3, <2>4, NewObject
<1>8. ASSUME NEW t \in Tasks, NEW o \in Isolated!Ids, Isolated!Return(t, o) PROVE Goal
  <2> DEFINE p == <<"result", t>>
  <2>1. PICK n \in Isolated!Free : Isolated!DeepCopy = {n}
    BY <1>0, <1>8 DEF Isolated!Return
  <2>2. p \in Places /\ Within(p)' \subseteq Within(p) \cup {n}
    BY <1>0, <1>8, <2>1 DEF Isolated!Return, Places, Within, Isolated!TypeOK
  <2>3. \A q \in Places \ {p} : Within(q)' \subseteq Within(q)
    BY <1>0, <1>8, <2>1 DEF Isolated!Return, Places, Within, Isolated!TypeOK
  <2>4. published' = published \ {n} /\ UNCHANGED <<static, error>>
    BY <1>8, <2>1 DEF Isolated!Return
  <2> QED
    BY <2>2, <2>3, <2>4, NewObject
<1>9. ASSUME NEW v \in Isolated!VMs, Isolated!GetStatic(v) PROVE Goal
  <2>1. \A q \in Places : Within(q)' \subseteq Within(q) \cup published'
    BY <1>9 DEF Isolated!GetStatic, Places, Within, Isolated!TypeOK, Known
  <2>2. published \subseteq published' /\ static' \subseteq published'
    BY <1>9 DEF Isolated!GetStatic, Known
  <2>3. \A u \in Tasks : error'[u] \subseteq published'
    BY <1>9 DEF Isolated!GetStatic, Known, Isolated!TypeOK
  <2> QED
    BY <2>1, <2>2, <2>3, OldObjects
<1>10. ASSUME NEW v \in Isolated!VMs, NEW o \in Isolated!Ids, Isolated!Forget(v, o) PROVE Goal
  <2>1. \A q \in Places : Within(q)' \subseteq Within(q) \cup published'
    BY <1>10 DEF Isolated!Forget, Places, Within, Isolated!TypeOK, Known
  <2>2. published \subseteq published' /\ static' \subseteq published'
    BY <1>10 DEF Isolated!Forget, Known
  <2>3. \A u \in Tasks : error'[u] \subseteq published'
    BY <1>10 DEF Isolated!Forget, Known, Isolated!TypeOK
  <2> QED
    BY <2>1, <2>2, <2>3, OldObjects
<1>11. ASSUME NEW v \in Isolated!VMs, NEW o \in Isolated!Ids, Isolated!SetStatic(v, o) PROVE Goal
  <2>1. \A q \in Places : Within(q)' \subseteq Within(q) \cup published'
    BY <1>11 DEF Isolated!SetStatic, Places, Within, Isolated!TypeOK, Known
  <2>2. published \subseteq published' /\ static' \subseteq published'
    BY <1>11 DEF Isolated!SetStatic, Known
  <2>3. \A u \in Tasks : error'[u] \subseteq published'
    BY <1>11 DEF Isolated!SetStatic, Known, Isolated!TypeOK
  <2> QED
    BY <2>1, <2>2, <2>3, OldObjects
<1>12. ASSUME NEW o \in Isolated!Ids, Isolated!SetGlobal(o) PROVE Goal
  <2>1. \A q \in Places : Within(q)' \subseteq Within(q) \cup published'
    BY <1>12 DEF Isolated!SetGlobal, Places, Within, Isolated!TypeOK, Known
  <2>2. published \subseteq published' /\ static' \subseteq published'
    BY <1>12 DEF Isolated!SetGlobal, Known
  <2>3. \A u \in Tasks : error'[u] \subseteq published'
    BY <1>12 DEF Isolated!SetGlobal, Known, Isolated!TypeOK
  <2> QED
    BY <2>1, <2>2, <2>3, OldObjects
<1>13. ASSUME NEW t \in Tasks, NEW o \in Isolated!Ids, Isolated!Throw(t, o) PROVE Goal
  <2>1. \A q \in Places : Within(q)' \subseteq Within(q) \cup published'
    BY <1>13 DEF Isolated!Throw, Places, Within, Isolated!TypeOK, Known
  <2>2. published \subseteq published' /\ static' \subseteq published'
    BY <1>13 DEF Isolated!Throw, Known
  <2>3. \A u \in Tasks : error'[u] \subseteq published'
    BY <1>13 DEF Isolated!Throw, Known, Isolated!TypeOK
  <2> QED
    BY <2>1, <2>2, <2>3, OldObjects
<1>14. ASSUME NEW v \in Isolated!VMs, NEW t \in Tasks, Isolated!Await(v, t),
             result[t] # {}, Isolated!Free # {},
             Isolated!Gets(v, Isolated!DeepCopy), published' = published \ Isolated!DeepCopy
      PROVE  Goal
  <2> DEFINE p == <<"vm", v>>
  <2>1. PICK n \in Isolated!Free : Isolated!DeepCopy = {n}
    BY <1>0, <1>14
  <2>2. p \in Places /\ Within(p)' \subseteq Within(p) \cup {n}
    BY <1>0, <1>14, <2>1 DEF Isolated!Await, Places, Within, Isolated!TypeOK
  <2>3. \A q \in Places \ {p} : Within(q)' \subseteq Within(q)
    BY <1>0, <1>14, <2>1 DEF Isolated!Await, Places, Within, Isolated!TypeOK
  <2>4. published' = published \ {n} /\ UNCHANGED <<static, error>>
    BY <1>14, <2>1 DEF Isolated!Await
  <2> QED
    BY <2>2, <2>3, <2>4, NewObject
<1>15. ASSUME NEW v \in Isolated!VMs, NEW t \in Tasks, Isolated!Await(v, t),
             Isolated!Gets(v, error[t]),
             UNCHANGED published
      PROVE  Goal
  <2>1. \A q \in Places : Within(q)' \subseteq Within(q) \cup published'
    BY <1>15 DEF Isolated!Await, Places, Within, Isolated!TypeOK, Known
  <2>2. UNCHANGED <<static, error>>
    BY <1>15 DEF Isolated!Await
  <2> QED
    BY <1>15, <2>1, <2>2, OldObjects DEF Known
<1>16. ASSUME NEW v \in Isolated!VMs, NEW t \in Tasks, Isolated!Await(v, t) PROVE Goal
  BY <1>14, <1>15, <1>16 DEF Isolated!Await
<1>17. CASE UNCHANGED Isolated!vars
  BY <1>17 DEF Isolated!vars, Exclusive, Known, Within, Places, Isolated!VMs, Isolated!Ids
<1> QED
  BY <1>1, <1>2, <1>3, <1>4, <1>5, <1>6, <1>7, <1>8, <1>9,
     <1>10, <1>11, <1>12, <1>13, <1>14, <1>15, <1>16, <1>17 DEF Isolated!Next

-----------------------------------------------------------------------------
(* Isolation: theorems *)

\* The model counts with the operator that the theorems on finite sets are about.
LEMMA SameCount == \A S : Isolated!Cardinality(S) = Cardinality(S)
BY DEF Isolated!Cardinality, Cardinality

\* A set of objects no two of which differ.
LEMMA AtMostOneCounts ==
    ASSUME NEW S, \A x, y \in S : x = y
    PROVE  Isolated!Cardinality(S) = IF S = {} THEN 0 ELSE 1
<1> USE SameCount
<1>1. CASE S = {}
  BY <1>1, FS_EmptySet
<1>2. CASE S # {}
  <2>1. PICK x : S = {x}
    BY <1>2
  <2> QED
    BY <2>1, FS_Singleton
<1> QED
  BY <1>1, <1>2

\* Whoever holds an object that is in one place is alone with it.
LEMMA ExclusiveCounts == Isolated!TypeOK /\ Exclusive => Isolated!NothingShared
<1> SUFFICES ASSUME Isolated!TypeOK, Exclusive, NEW o \in Isolated!Ids \ published
             PROVE  Isolated!Holders(o) <= 1
  BY DEF Isolated!NothingShared
<1> DEFINE V == {v \in Isolated!VMs : o \in holds[v]}
           M == message \cap {o}
           C == {t \in Tasks : o \in closure[t]}
           R == {t \in Tasks : o \in result[t]}
<1>0. \A p, q \in Places : o \in Within(p) /\ o \in Within(q) => p = q
  BY DEF Exclusive
<1>1. /\ \A v \in V : <<"vm", v>> \in Places /\ o \in Within(<<"vm", v>>)
      /\ \A t \in C : <<"closure", t>> \in Places /\ o \in Within(<<"closure", t>>)
      /\ \A t \in R : <<"result", t>> \in Places /\ o \in Within(<<"result", t>>)
      /\ M # {} => <<"message", Main>> \in Places /\ o \in Within(<<"message", Main>>)
  BY DEF Places, Within
<1>2. /\ \A x, y \in V : x = y
      /\ \A x, y \in C : x = y
      /\ \A x, y \in R : x = y
      /\ \A x, y \in M : x = y
  BY <1>0, <1>1
<1>3. /\ V # {} => C = {} /\ R = {} /\ M = {}
      /\ C # {} => R = {} /\ M = {}
      /\ R # {} => M = {}
  BY <1>0, <1>1
<1>4. /\ Isolated!Cardinality(V) = IF V = {} THEN 0 ELSE 1
      /\ Isolated!Cardinality(C) = IF C = {} THEN 0 ELSE 1
      /\ Isolated!Cardinality(R) = IF R = {} THEN 0 ELSE 1
      /\ Isolated!Cardinality(M) = IF M = {} THEN 0 ELSE 1
  BY <1>2, AtMostOneCounts
<1>5. Isolated!Holders(o)
        = Isolated!Cardinality(V) + Isolated!Cardinality(M) + Isolated!Cardinality(C)
            + Isolated!Cardinality(R)
  BY DEF Isolated!Holders
<1> QED
  BY <1>3, <1>4, <1>5

\* The inductive invariant: an object never published is in one place, and what every VM can
\* get as it is was published.
LEMMA AlwaysExclusive ==
    ASSUME Isolated!IsolationAssumption
    PROVE  Isolated!Spec => [](Isolated!TypeOK /\ Exclusive /\ Known)
<1>1. Isolated!Init => Isolated!TypeOK
  BY DEF Isolated!Init, Isolated!TypeOK, Isolated!AtMostOne, Isolated!VMs, Isolated!Ids
<1>2. Isolated!Init => Exclusive /\ Known
  BY DEF Isolated!Init, Exclusive, Known, Places, Within
<1>3. Isolated!TypeOK /\ Exclusive /\ Known /\ [Isolated!Next]_(Isolated!vars)
        => (Isolated!TypeOK /\ Exclusive /\ Known)'
  BY StepObjectsTyped, StepExclusive
<1> QED
  BY <1>1, <1>2, <1>3, PTL DEF Isolated!Spec

\* Every variable keeps its type; in particular what the globals reach is within reach of
\* the main VM alone.
THEOREM IsolationTypeCorrect ==
    ASSUME Isolated!IsolationAssumption
    PROVE  Isolated!Spec => []Isolated!TypeOK
BY AlwaysExclusive, PTL

\* However many tasks are made, return, fail, are awaited and pass messages on: an object
\* that was neither in a static field nor thrown out of a task is in one place.
THEOREM IsolationHolds ==
    ASSUME Isolated!IsolationAssumption
    PROVE  Isolated!Spec => []Isolated!NothingShared
BY ExclusiveCounts, AlwaysExclusive, PTL

-----------------------------------------------------------------------------

\* The two instances of InstancePool have the same assumption, initial states and steps.
LEMMA SameInstancePool ==
    /\ Pool!PoolAssumption <=> PoolTheory!PoolAssumption
    /\ Pool!Init <=> PoolTheory!Init
    /\ Pool!Next <=> PoolTheory!Next
    /\ Pool!vars = PoolTheory!vars
BY DEF Pool!PoolAssumption, PoolTheory!PoolAssumption, Pool!vars, PoolTheory!vars,
       Pool!Empty, PoolTheory!Empty, Pool!Active, PoolTheory!Active,
       Pool!Elements, PoolTheory!Elements, Pool!Init, PoolTheory!Init,
       Pool!Reachable, PoolTheory!Reachable, Pool!Top, PoolTheory!Top,
       Pool!Below, PoolTheory!Below, Pool!Construct, PoolTheory!Construct,
       Pool!NoAlias, PoolTheory!NoAlias, Pool!HasRoom, PoolTheory!HasRoom,
       Pool!SetLocal, PoolTheory!SetLocal, Pool!Freeze, PoolTheory!Freeze,
       Pool!Push, PoolTheory!Push, Pool!Load, PoolTheory!Load, Pool!Pop,
       PoolTheory!Pop, Pool!Escape, PoolTheory!Escape, Pool!Forget,
       PoolTheory!Forget, Pool!Call, PoolTheory!Call, Pool!Return,
       PoolTheory!Return, Pool!Next, PoolTheory!Next

\* They have the same properties.
LEMMA SameOfInstancePool ==
    /\ Pool!TypeOK <=> PoolTheory!TypeOK
    /\ Pool!LocalInstancesRecycledSafely <=> PoolTheory!LocalInstancesRecycledSafely
    /\ Pool!Reachable = PoolTheory!Reachable
BY DEF Pool!Elements, PoolTheory!Elements, Pool!TypeOK, PoolTheory!TypeOK,
       Pool!Reachable, PoolTheory!Reachable,
       Pool!LocalInstancesRecycledSafely,
       PoolTheory!LocalInstancesRecycledSafely

\* A behaviour of MCRuntime is one of InstancePool.
LEMMA InstancePoolBehaves == MCSpec => PoolTheory!Spec
<1>1. MCInit => PoolTheory!Init
  BY SameInstancePool DEF MCInit
<1>2. [MCNext]_<<part, vars, poolVars, frameVars, channelVars, isolationVars>>
          => [Pool!Next]_(Pool!vars)
  BY DEF MCNext, Chosen, vars, poolVars, frameVars, channelVars, isolationVars,
         Pool!vars
<1>3. [Pool!Next]_(Pool!vars) <=> [PoolTheory!Next]_(PoolTheory!vars)
  BY SameInstancePool DEF Pool!vars, PoolTheory!vars
<1> QED
  BY <1>1, <1>2, <1>3, PTL DEF MCSpec, PoolTheory!Spec

-----------------------------------------------------------------------------

\* The two instances of Frames have the same assumption, initial states and steps.
LEMMA SameFrames ==
    /\ Frame!FramesAssumption <=> FrameTheory!FramesAssumption
    /\ Frame!Init <=> FrameTheory!Init
    /\ Frame!Next <=> FrameTheory!Next
    /\ Frame!vars = FrameTheory!vars
BY DEF Frame!FramesAssumption, FrameTheory!FramesAssumption, Frame!ghostVars,
       FrameTheory!ghostVars, Frame!vars, FrameTheory!vars, Frame!Front,
       FrameTheory!Front, Frame!Last, FrameTheory!Last, Frame!Vias,
       FrameTheory!Vias, Frame!Tries, FrameTheory!Tries, Frame!Nowhere,
       FrameTheory!Nowhere, Frame!NewFrame, FrameTheory!NewFrame, Frame!Init,
       FrameTheory!Init, Frame!Active, FrameTheory!Active, Frame!SetActive,
       FrameTheory!SetActive, Frame!Running, FrameTheory!Running,
       Frame!Quiet, FrameTheory!Quiet, Frame!Known, FrameTheory!Known,
       Frame!FreshTry, FrameTheory!FreshTry, Frame!Push, FrameTheory!Push,
       Frame!Pop, FrameTheory!Pop, Frame!EnterTry, FrameTheory!EnterTry,
       Frame!ExitTry, FrameTheory!ExitTry, Frame!Jump, FrameTheory!Jump,
       Frame!Acquire, FrameTheory!Acquire, Frame!Call, FrameTheory!Call,
       Frame!CallBack, FrameTheory!CallBack, Frame!AfterReturn,
       FrameTheory!AfterReturn, Frame!Return, FrameTheory!Return,
       Frame!Greatest, FrameTheory!Greatest, Frame!Released,
       FrameTheory!Released, Frame!Catcher, FrameTheory!Catcher,
       Frame!DepthRestored, FrameTheory!DepthRestored, Frame!Raise,
       FrameTheory!Raise, Frame!Throw, FrameTheory!Throw, Frame!Fail,
       FrameTheory!Fail, Frame!CleanUp, FrameTheory!CleanUp, Frame!Unwind,
       FrameTheory!Unwind, Frame!Next, FrameTheory!Next

\* They have the same properties.
LEMMA SameOfFrames ==
    /\ Frame!TypeOK <=> FrameTheory!TypeOK
    /\ Frame!CatchIsInnermost <=> FrameTheory!CatchIsInnermost
    /\ Frame!StackBalanced <=> FrameTheory!StackBalanced
    /\ Frame!FramesAccountedFor <=> FrameTheory!FramesAccountedFor
BY DEF Frame!Last, FrameTheory!Last, Frame!Vias, FrameTheory!Vias, Frame!Tries,
       FrameTheory!Tries, Frame!Nowhere, FrameTheory!Nowhere, Frame!Handlers,
       FrameTheory!Handlers, Frame!FrameRecords, FrameTheory!FrameRecords,
       Frame!Levels, FrameTheory!Levels, Frame!TypeOK, FrameTheory!TypeOK,
       Frame!Active, FrameTheory!Active, Frame!HandlersMirrorTries,
       FrameTheory!HandlersMirrorTries, Frame!CatchIsInnermost,
       FrameTheory!CatchIsInnermost, Frame!StackBalanced,
       FrameTheory!StackBalanced, Frame!OnePlaceEach,
       FrameTheory!OnePlaceEach, Frame!LeftoversReleased,
       FrameTheory!LeftoversReleased, Frame!FramesAccountedFor,
       FrameTheory!FramesAccountedFor

\* A behaviour of MCRuntime is one of Frames.
LEMMA FramesBehaves == MCSpec => FrameTheory!Spec
<1>1. MCInit => FrameTheory!Init
  BY SameFrames DEF MCInit
<1>2. [MCNext]_<<part, vars, poolVars, frameVars, channelVars, isolationVars>>
          => [Frame!Next]_(Frame!vars)
  BY DEF MCNext, Chosen, vars, poolVars, frameVars, channelVars, isolationVars,
         Frame!ghostVars, Frame!vars
<1>3. [Frame!Next]_(Frame!vars) <=> [FrameTheory!Next]_(FrameTheory!vars)
  BY SameFrames DEF Frame!ghostVars, FrameTheory!ghostVars, Frame!vars, FrameTheory!vars
<1> QED
  BY <1>1, <1>2, <1>3, PTL DEF MCSpec, FrameTheory!Spec

-----------------------------------------------------------------------------

\* The two instances of Channels have the same assumption, initial states and steps.
LEMMA SameChannels ==
    /\ Channel!BoundsAssumption <=> ChannelTheory!BoundsAssumption
    /\ Channel!Init <=> ChannelTheory!Init
    /\ Channel!Next <=> ChannelTheory!Next
    /\ Channel!vars = ChannelTheory!vars
BY DEF Channel!BoundsAssumption, ChannelTheory!BoundsAssumption, Channel!goVars,
       ChannelTheory!goVars, Channel!ghostVars, ChannelTheory!ghostVars,
       Channel!vars, ChannelTheory!vars, Channel!Capacity,
       ChannelTheory!Capacity, Channel!Capacities, ChannelTheory!Capacities,
       Channel!Item, ChannelTheory!Item, Channel!Init, ChannelTheory!Init,
       Channel!Check, ChannelTheory!Check, Channel!SendDirect,
       ChannelTheory!SendDirect, Channel!SendBuffered,
       ChannelTheory!SendBuffered, Channel!SendParks,
       ChannelTheory!SendParks, Channel!SendPanics, ChannelTheory!SendPanics,
       Channel!ReceiveBuffered, ChannelTheory!ReceiveBuffered,
       Channel!ReceiveDirect, ChannelTheory!ReceiveDirect,
       Channel!ReceiveNil, ChannelTheory!ReceiveNil, Channel!ReceiveParks,
       ChannelTheory!ReceiveParks, Channel!Elements, ChannelTheory!Elements,
       Channel!Close, ChannelTheory!Close, Channel!Send, ChannelTheory!Send,
       Channel!Receive, ChannelTheory!Receive, Channel!Next,
       ChannelTheory!Next

\* They have the same properties.
LEMMA SameOfChannels ==
    /\ Channel!TypeOK <=> ChannelTheory!TypeOK
    /\ Channel!NothingLost <=> ChannelTheory!NothingLost
    /\ Channel!NobodyStranded <=> ChannelTheory!NobodyStranded
BY DEF Channel!Messages, ChannelTheory!Messages, Channel!Capacity,
       ChannelTheory!Capacity, Channel!Capacities, ChannelTheory!Capacities,
       Channel!TypeOK, ChannelTheory!TypeOK, Channel!Elements,
       ChannelTheory!Elements, Channel!NothingLost,
       ChannelTheory!NothingLost, Channel!NobodyStranded,
       ChannelTheory!NobodyStranded

\* A behaviour of MCRuntime is one of Channels.
LEMMA ChannelsBehaves == MCSpec => ChannelTheory!Spec
<1>1. MCInit => ChannelTheory!Init
  BY SameChannels DEF MCInit
<1>2. [MCNext]_<<part, vars, poolVars, frameVars, channelVars, isolationVars>>
          => [Channel!Next]_(Channel!vars)
  BY DEF MCNext, Chosen, vars, poolVars, frameVars, channelVars, isolationVars,
         Channel!goVars, Channel!ghostVars, Channel!vars
<1>3. [Channel!Next]_(Channel!vars) <=> [ChannelTheory!Next]_(ChannelTheory!vars)
  BY SameChannels DEF Channel!goVars, ChannelTheory!goVars, Channel!ghostVars,
         ChannelTheory!ghostVars, Channel!vars, ChannelTheory!vars
<1> QED
  BY <1>1, <1>2, <1>3, PTL DEF MCSpec, ChannelTheory!Spec

-----------------------------------------------------------------------------

\* A behaviour of MCRuntime is one of Isolation.
LEMMA IsolationBehaves == MCSpec => Isolated!Spec
<1>1. MCInit => Isolated!Init
  BY DEF MCInit
<1>2. [MCNext]_<<part, vars, poolVars, frameVars, channelVars, isolationVars>>
          => [Isolated!Next]_(Isolated!vars)
  BY DEF MCNext, Chosen, vars, poolVars, frameVars, channelVars, isolationVars,
         Isolated!vars
<1> QED
  BY <1>1, <1>2, PTL DEF MCSpec, Isolated!Spec

-----------------------------------------------------------------------------

\* A behaviour of MCRuntime is one of LocalCells, which it extends.
LEMMA LocalCellsBehaves == MCSpec => Spec
<1>1. MCInit => Init
  BY DEF MCInit
<1>2. [MCNext]_<<part, vars, poolVars, frameVars, channelVars, isolationVars>> => [Next]_vars
  BY DEF MCNext, Chosen
<1> QED
  BY <1>1, <1>2, PTL DEF MCSpec, Spec

-----------------------------------------------------------------------------
(* Theorems *)

\* However instances are made, moved, returned and forgotten, tryRecycleLocal puts one into
\* the pool once, and only when the program has lost it, if it never left its frame.
THEOREM RecycledSafely == MCSpec => []LocalInstancesRecycledSafely
<1>1. PoolTheory!PoolAssumption
  BY PoolAssumption, SameInstancePool
<1>2. PoolTheory!Spec => [](PoolTheory!LocalInstancesRecycledSafely)
  BY <1>1, PoolTheory!LocalInstances
<1>3. PoolTheory!LocalInstancesRecycledSafely => LocalInstancesRecycledSafely
  BY SameOfInstancePool DEF LocalInstancesRecycledSafely
<1> QED
  BY <1>2, <1>3, InstancePoolBehaves, PTL

\* acquireInstance thaws no instance that the program still holds.
THEOREM StaysFrozen == MCSpec => FrozenStaysFrozen
<1>1. PoolTheory!PoolAssumption
  BY PoolAssumption, SameInstancePool
<1>2. PoolTheory!Spec => PoolTheory!FrozenStaysFrozen
  BY <1>1, PoolTheory!StayFrozen
<1>3. Pool!Reachable = PoolTheory!Reachable
  BY SameOfInstancePool
<1>4. [\A o \in frozen \ (escaped \cup reassigned) :
              o \in PoolTheory!Reachable => o \in frozen']_(PoolTheory!vars)
      => [\A o \in frozen \ (escaped \cup reassigned) :
              o \in Pool!Reachable => o \in frozen']_(Pool!vars)
  BY <1>3 DEF Pool!vars, PoolTheory!vars
<1>5. PoolTheory!FrozenStaysFrozen => FrozenStaysFrozen
  BY <1>4, PTL DEF FrozenStaysFrozen, Pool!FrozenStaysFrozen, PoolTheory!FrozenStaysFrozen
<1> QED
  BY <1>2, <1>5, InstancePoolBehaves, PTL

\* Whatever is called, thrown, resumed and unwound, an exception goes to the innermost try
\* that is open in the loop of Run that raised it.
THEOREM InnermostTryCatches == MCSpec => []CatchIsInnermost
<1>1. FrameTheory!FramesAssumption
  BY FramesAssumption, SameFrames
<1>2. FrameTheory!Spec => [](FrameTheory!CatchIsInnermost)
  BY <1>1, FrameTheory!InnermostCatches
<1>3. FrameTheory!CatchIsInnermost => CatchIsInnermost
  BY SameOfFrames DEF CatchIsInnermost
<1> QED
  BY <1>2, <1>3, FramesBehaves, PTL

\* A frame finds on the stack the operands it left there, however the calls it made ended.
THEOREM OperandsBalanced == MCSpec => []StackBalanced
<1>1. FrameTheory!FramesAssumption
  BY FramesAssumption, SameFrames
<1>2. FrameTheory!Spec => [](FrameTheory!StackBalanced)
  BY <1>1, FrameTheory!StackStaysBalanced
<1>3. FrameTheory!StackBalanced => StackBalanced
  BY SameOfFrames DEF StackBalanced
<1> QED
  BY <1>2, <1>3, FramesBehaves, PTL

\* Every frame is in use or in the pool, once.
THEOREM FramesKept == MCSpec => []FramesAccountedFor
<1>1. FrameTheory!FramesAssumption
  BY FramesAssumption, SameFrames
<1>2. FrameTheory!Spec => [](FrameTheory!FramesAccountedFor)
  BY <1>1, FrameTheory!NoFrameLost
<1>3. FrameTheory!FramesAccountedFor => FramesAccountedFor
  BY SameOfFrames DEF FramesAccountedFor
<1> QED
  BY <1>2, <1>3, FramesBehaves, PTL

\* What send has accepted is handed over, in order, or still in the channel.
THEOREM MessagesNotLost == MCSpec => []NothingLost
<1>1. ChannelTheory!BoundsAssumption
  BY BoundsAssumption, SameChannels
<1>2. ChannelTheory!Spec => [](ChannelTheory!NothingLost)
  BY <1>1, ChannelTheory!MessagesKept
<1>3. ChannelTheory!NothingLost => NothingLost
  BY SameOfChannels DEF NothingLost
<1> QED
  BY <1>2, <1>3, ChannelsBehaves, PTL

\* No caller stays parked on a channel that could serve it.
THEOREM CallersServed == MCSpec => []NobodyStranded
<1>1. ChannelTheory!BoundsAssumption
  BY BoundsAssumption, SameChannels
<1>2. ChannelTheory!Spec => [](ChannelTheory!NobodyStranded)
  BY <1>1, ChannelTheory!ParkedAreServed
<1>3. ChannelTheory!NobodyStranded => NobodyStranded
  BY SameOfChannels DEF NobodyStranded
<1> QED
  BY <1>2, <1>3, ChannelsBehaves, PTL

\* A channel is a bounded queue, in every behaviour of the runtime.
THEOREM ChannelIsFifo == MCSpec => ImplementsFifo
<1>1. ChannelTheory!BoundsAssumption
  BY BoundsAssumption, SameChannels
<1>2. ChannelTheory!Spec => ChannelTheory!ImplementsFifo
  BY <1>1, ChannelTheory!Fifos
<1>3. ChannelTheory!Queue!Init <=> Channel!Queue!Init
  BY DEF Channel!Queue!Init, ChannelTheory!Queue!Init, Channel!Capacities,
         ChannelTheory!Capacities, Channel!Capacity, ChannelTheory!Capacity
<1>4. [ChannelTheory!Queue!Next]_(ChannelTheory!Queue!vars)
          <=> [Channel!Queue!Next]_(Channel!Queue!vars)
  BY DEF Channel!Queue!Next, ChannelTheory!Queue!Next, Channel!Queue!vars,
         ChannelTheory!Queue!vars, Channel!Queue!Put, ChannelTheory!Queue!Put,
         Channel!Queue!Take, ChannelTheory!Queue!Take, Channel!Queue!PutTake,
         ChannelTheory!Queue!PutTake, Channel!Queue!Close, ChannelTheory!Queue!Close,
         Channel!Messages, ChannelTheory!Messages
<1>5. ChannelTheory!ImplementsFifo => ImplementsFifo
  BY <1>3, <1>4, PTL DEF ImplementsFifo, Channel!ImplementsFifo, Channel!Queue!Spec,
     ChannelTheory!ImplementsFifo, ChannelTheory!Queue!Spec
<1> QED
  BY <1>2, <1>5, ChannelsBehaves, PTL

\* No object is within reach of two goroutines, but for those of static fields and those
\* thrown out of a task.
THEOREM NothingIsShared == MCSpec => []NothingShared
<1>1. Isolated!IsolationAssumption
  BY IsolationAssumption
<1>2. Isolated!Spec => [](Isolated!NothingShared)
  BY <1>1, IsolationHolds
<1>3. Isolated!NothingShared => NothingShared
  BY DEF NothingShared
<1> QED
  BY <1>2, <1>3, IsolationBehaves, PTL

\* Every variable of the five parts keeps its type.
THEOREM TypesKept == MCSpec => []ComponentTypes
<1>1. PoolTheory!Spec => [](Pool!TypeOK)
  <2>1. PoolTheory!PoolAssumption
    BY PoolAssumption, SameInstancePool
  <2>2. PoolTheory!Spec => [](PoolTheory!TypeOK)
    BY <2>1, PoolTheory!TypeCorrect
  <2>3. PoolTheory!TypeOK => Pool!TypeOK
    BY SameOfInstancePool
  <2> QED
    BY <2>2, <2>3, PTL
<1>2. FrameTheory!Spec => [](Frame!TypeOK)
  <2>1. FrameTheory!FramesAssumption
    BY FramesAssumption, SameFrames
  <2>2. FrameTheory!Spec => [](FrameTheory!TypeOK)
    BY <2>1, FrameTheory!TypeCorrect
  <2>3. FrameTheory!TypeOK => Frame!TypeOK
    BY SameOfFrames
  <2> QED
    BY <2>2, <2>3, PTL
<1>3. ChannelTheory!Spec => [](Channel!TypeOK)
  <2>1. ChannelTheory!BoundsAssumption
    BY BoundsAssumption, SameChannels
  <2>2. ChannelTheory!Spec => [](ChannelTheory!TypeOK)
    BY <2>1, ChannelTheory!TypeCorrect
  <2>3. ChannelTheory!TypeOK => Channel!TypeOK
    BY SameOfChannels
  <2> QED
    BY <2>2, <2>3, PTL
<1>4. Isolated!Spec => [](Isolated!TypeOK)
  <2>1. Isolated!IsolationAssumption
    BY IsolationAssumption
  <2> QED
    BY <2>1, IsolationTypeCorrect
<1>5. TypeOK /\ Pool!TypeOK /\ Frame!TypeOK /\ Channel!TypeOK /\ Isolated!TypeOK => ComponentTypes
  BY DEF ComponentTypes
<1> QED
  BY <1>1, <1>2, <1>3, <1>4, <1>5, TypeCorrect, LocalCellsBehaves, InstancePoolBehaves,
     FramesBehaves, ChannelsBehaves, IsolationBehaves, PTL
=============================================================================
