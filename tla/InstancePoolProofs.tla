------------------------- MODULE InstancePoolProofs -------------------------
(***************************************************************************)
(* InstancePool for any number of instances, slots, frames and pool        *)
(* entries: an instance that stayed in its frame is recycled once, and     *)
(* only when the program has lost it.                                      *)
(***************************************************************************)
EXTENDS InstancePool, SequenceTheorems, TLAPS

-----------------------------------------------------------------------------
(* Sequences *)

\* What is left when the last of a sequence is taken off.
LEMMA WithoutLast ==
    ASSUME NEW S, NEW s \in Seq(S), s # <<>>
    PROVE  LET r == SubSeq(s, 1, Len(s) - 1)
           IN /\ r \in Seq(S) /\ Len(r) = Len(s) - 1 /\ Len(s) \in Nat \ {0}
              /\ \A i \in 1..(Len(s) - 1) : r[i] = s[i]
              /\ DOMAIN s = 1..Len(s) /\ DOMAIN r = 1..(Len(s) - 1)
              /\ Elements(s) = Elements(r) \cup {s[Len(s)]}
              /\ s[Len(s)] \in S
<1> DEFINE r == SubSeq(s, 1, Len(s) - 1)
<1>1. Len(s) \in Nat \ {0} /\ DOMAIN s = 1..Len(s) /\ \A i \in 1..Len(s) : s[i] \in S
  BY EmptySeq, LenProperties, ElementOfSeq
<1>2. /\ r \in Seq(S) /\ Len(r) = Len(s) - 1
      /\ \A i \in 1..(Len(s) - 1) : r[i] = s[i]
  BY <1>1, SubSeqProperties
<1>3. DOMAIN r = 1..(Len(s) - 1)
  BY <1>2, LenProperties
<1>4. ASSUME NEW x \in Elements(s) PROVE x \in Elements(r) \cup {s[Len(s)]}
  <2>1. PICK i \in 1..Len(s) : x = s[i]
    BY <1>1 DEF Elements
  <2>2. CASE i = Len(s)
    BY <2>1, <2>2
  <2>3. CASE i \in 1..(Len(s) - 1)
    BY <1>2, <1>3, <2>1, <2>3 DEF Elements
  <2>4. Len(s) \in Nat
    BY <1>1
  <2>5. i = Len(s) \/ i \in 1..(Len(s) - 1)
    BY <2>4
  <2> QED
    BY <2>2, <2>3, <2>5
<1>5. ASSUME NEW x \in Elements(r) PROVE x \in Elements(s)
  <2>1. PICK i \in 1..(Len(s) - 1) : x = r[i]
    BY <1>3 DEF Elements
  <2>2. x = s[i] /\ i \in 1..Len(s)
    BY <1>1, <1>2, <2>1
  <2> QED
    BY <1>1, <2>2 DEF Elements
<1>6. s[Len(s)] \in Elements(s)
  BY <1>1 DEF Elements
<1> QED
  BY <1>1, <1>2, <1>3, <1>4, <1>5, <1>6

\* What there is when one is put on.
LEMMA WithOneMore ==
    ASSUME NEW S, NEW s \in Seq(S), NEW x \in S
    PROVE  LET r == Append(s, x)
           IN /\ r \in Seq(S) /\ Len(r) = Len(s) + 1 /\ Len(s) \in Nat
              /\ \A i \in 1..Len(s) : r[i] = s[i]
              /\ r[Len(s) + 1] = x
              /\ DOMAIN s = 1..Len(s) /\ DOMAIN r = 1..(Len(s) + 1)
              /\ Elements(r) = Elements(s) \cup {x}
<1> DEFINE r == Append(s, x)
<1>1. /\ r \in Seq(S) /\ Len(r) = Len(s) + 1 /\ Len(s) \in Nat
      /\ \A i \in 1..Len(s) : r[i] = s[i]
      /\ r[Len(s) + 1] = x
      /\ DOMAIN s = 1..Len(s)
  BY AppendProperties, LenProperties
<1>2. DOMAIN r = 1..(Len(s) + 1)
  BY <1>1, LenProperties
<1>3. ASSUME NEW y \in Elements(r) PROVE y \in Elements(s) \cup {x}
  <2>1. PICK i \in 1..(Len(s) + 1) : y = r[i]
    BY <1>2 DEF Elements
  <2>2. CASE i = Len(s) + 1
    BY <1>1, <2>1, <2>2
  <2>3. CASE i \in 1..Len(s)
    BY <1>1, <2>1, <2>3 DEF Elements
  <2> QED
    BY <1>1, <2>2, <2>3
<1>4. ASSUME NEW y \in Elements(s) PROVE y \in Elements(r)
  <2>1. PICK i \in 1..Len(s) : y = s[i]
    BY <1>1 DEF Elements
  <2> QED
    BY <1>1, <1>2, <2>1 DEF Elements
<1>5. x \in Elements(r)
  BY <1>1, <1>2 DEF Elements
<1> QED
  BY <1>1, <1>2, <1>3, <1>4, <1>5

-----------------------------------------------------------------------------
(* Types *)

Frame == [Slots -> Objects \cup {Nothing}]

\* What the expression stack and the frames are made of.
LEMMA Parts ==
    ASSUME TypeOK
    PROVE  /\ stack # <<>> => /\ Top \in Objects \cup {Nothing}
                              /\ Below \in Seq(Objects \cup {Nothing})
                              /\ Len(Below) = Len(stack) - 1
                              /\ Elements(stack) = Elements(Below) \cup {Top}
           /\ Len(stack) \in Nat
           /\ DOMAIN frames = 1..Len(frames) /\ Len(frames) \in Nat \ {0}
           /\ \A i \in DOMAIN frames : frames[i] \in Frame
           /\ Active \in Frame /\ Empty \in Frame
<1>1. /\ Len(stack) \in Nat /\ DOMAIN frames = 1..Len(frames) /\ Len(frames) \in Nat \ {0}
  BY LenProperties DEF TypeOK
<1>2. \A i \in DOMAIN frames : frames[i] \in Frame
  BY <1>1, ElementOfSeq DEF TypeOK, Frame
<1>3. Active \in Frame /\ Empty \in Frame
  BY <1>1, <1>2 DEF Active, Empty, Frame
<1>4. ASSUME stack # <<>>
      PROVE  /\ Top \in Objects \cup {Nothing} /\ Below \in Seq(Objects \cup {Nothing})
             /\ Len(Below) = Len(stack) - 1
             /\ Elements(stack) = Elements(Below) \cup {Top}
  BY <1>4, WithoutLast DEF TypeOK, Top, Below
<1> QED
  BY <1>1, <1>2, <1>3, <1>4

\* The frame that SetLocal writes to, and the others.
LEMMA Stored ==
    ASSUME TypeOK, NEW s \in Slots, NEW x \in Objects \cup {Nothing}
    PROVE  LET g == [frames EXCEPT ![Len(frames)][s] = x]
           IN /\ g \in Seq(Frame) /\ Len(g) = Len(frames) /\ DOMAIN g = DOMAIN frames
              /\ \A i \in DOMAIN frames \ {Len(frames)} : g[i] = frames[i]
              /\ g[Len(frames)] = [Active EXCEPT ![s] = x]
<1> DEFINE g == [frames EXCEPT ![Len(frames)][s] = x]
           n == Len(frames)
<1>1. n \in Nat \ {0} /\ DOMAIN frames = 1..n /\ \A i \in 1..n : frames[i] \in Frame
  BY Parts
<1>2. frames = [i \in 1..n |-> frames[i]]
  BY <1>1, ElementOfSeq, LenProperties DEF TypeOK
<1>3. /\ g = [i \in 1..n |-> IF i = n THEN [frames[n] EXCEPT ![s] = x] ELSE frames[i]]
  BY <1>1, <1>2
<1>4. \A i \in 1..n : g[i] \in Frame
  BY <1>1, <1>3 DEF Frame
<1>5. g \in Seq(Frame) /\ Len(g) = n
  <2>1. g \in [1..n -> Frame]
    BY <1>3, <1>4
  <2> QED
    BY <1>1, <2>1, SeqDef, LenProperties
<1> QED
  BY <1>1, <1>3, <1>5 DEF Active

LEMMA StepTypeOK == PoolAssumption /\ TypeOK /\ [Next]_vars => TypeOK'
<1> SUFFICES ASSUME PoolAssumption, TypeOK, [Next]_vars PROVE TypeOK'
  OBVIOUS
<1>0. /\ MaxPool \in Nat /\ MaxDepth \in Nat \ {0} /\ MaxStack \in Nat
      /\ Len(stack) \in Nat /\ Len(stack) <= MaxStack
      /\ Len(frames) \in Nat \ {0} /\ Len(frames) <= MaxDepth
      /\ Len(pool) \in Nat
  BY Parts, LenProperties DEF TypeOK, PoolAssumption
<1>1. ASSUME NEW x \in Objects \cup {Nothing}, Push(x) PROVE TypeOK'
  BY <1>0, <1>1, WithOneMore DEF TypeOK, Push
<1>2. ASSUME stack # <<>>, stack' = Below
      PROVE  stack' \in Seq(Objects \cup {Nothing}) /\ Len(stack') <= MaxStack
  BY <1>0, <1>2, Parts
<1>3. CASE Construct
  <2>1. PICK o \in Objects :
          /\ IF pool # <<>>
             THEN o = pool[Len(pool)] /\ pool' = SubSeq(pool, 1, Len(pool) - 1)
                  /\ frozen' = frozen \ {o}
             ELSE o \notin made /\ UNCHANGED <<pool, frozen>>
          /\ stack' = Append(stack, o) /\ made' = made \cup {o}
          /\ escaped' \subseteq escaped /\ reassigned' \subseteq reassigned
    BY <1>3 DEF Construct
  <2>2. pool' \in Seq(Objects) /\ Len(pool') <= MaxPool
    <3>1. CASE pool # <<>>
      <4>1. pool \in Seq(Objects) /\ pool' = SubSeq(pool, 1, Len(pool) - 1)
        BY <2>1, <3>1 DEF TypeOK
      <4>2. pool' \in Seq(Objects) /\ Len(pool') = Len(pool) - 1
        BY <3>1, <4>1, WithoutLast
      <4> QED
        BY <1>0, <4>2 DEF TypeOK
    <3>2. CASE pool = <<>>
      BY <2>1, <3>2 DEF TypeOK
    <3> QED
      BY <3>1, <3>2
  <2>3. stack' \in Seq(Objects \cup {Nothing}) /\ Len(stack') = Len(stack) + 1
    BY <2>1, WithOneMore DEF TypeOK
  <2>4. Len(stack') <= MaxStack
    BY <1>0, <1>3, <2>3 DEF Construct
  <2>5. UNCHANGED <<frames, heap>>
    BY <1>3 DEF Construct
  <2>6. frozen' \subseteq frozen /\ made' \subseteq Objects
    BY <2>1 DEF TypeOK
  <2> QED
    BY <2>1, <2>2, <2>3, <2>4, <2>5, <2>6 DEF TypeOK
<1>4. ASSUME NEW s \in Slots, SetLocal(s) PROVE TypeOK'
  <2>1. stack # <<>> /\ stack' = Below /\ Top \in Objects \cup {Nothing}
    BY <1>4, Parts DEF SetLocal
  <2>2. frames' \in Seq(Frame) /\ Len(frames') = Len(frames)
    BY <1>4, <2>1, Stored DEF SetLocal
  <2>3. pool' \in Seq(Objects) /\ Len(pool') <= MaxPool
    <3>1. CASE NoAlias(s, Below) /\ HasRoom
      <4>1. Active[s] \in Objects /\ pool' = Append(pool, Active[s])
        BY <1>4, <3>1, Parts DEF SetLocal, NoAlias, Frame
      <4>2. pool' \in Seq(Objects) /\ Len(pool') = Len(pool) + 1
        BY <4>1, WithOneMore DEF TypeOK
      <4> QED
        BY <1>0, <3>1, <4>2 DEF HasRoom
    <3>2. CASE ~(NoAlias(s, Below) /\ HasRoom)
      BY <1>4, <3>2 DEF SetLocal, TypeOK
    <3> QED
      BY <3>1, <3>2
  <2>4. UNCHANGED <<heap, frozen, made, escaped>> /\ reassigned' \subseteq Objects
    BY <1>4 DEF SetLocal, TypeOK
  <2> QED
    BY <1>0, <1>2, <2>1, <2>2, <2>3, <2>4 DEF TypeOK, Frame
<1>5. CASE Freeze
  BY <1>5 DEF TypeOK, Freeze
<1>6. CASE Load
  <2>1. PICK x \in Elements(Active) \cup heap \cup {Nothing} : Push(x)
    BY <1>6 DEF Load
  <2>2. Elements(Active) \subseteq Objects \cup {Nothing}
    BY Parts DEF Elements, Frame
  <2>3. x \in Objects \cup {Nothing}
    BY <2>2 DEF TypeOK
  <2> QED
    BY <1>1, <2>1, <2>3
<1>7. CASE Pop
  BY <1>2, <1>7 DEF TypeOK, Pop
<1>8. CASE Escape
  BY <1>2, <1>8 DEF TypeOK, Escape
<1>9. CASE Forget
  BY <1>9 DEF TypeOK, Forget
<1>10. CASE Call
  <2>1. PICK s \in Slots : frames' = Append(frames, [Empty EXCEPT ![s] = Top])
    BY <1>10 DEF Call
  <2>2. stack # <<>> /\ Top \in Objects \cup {Nothing}
    BY <1>10, Parts, EmptySeq DEF Call
  <2>3. [Empty EXCEPT ![s] = Top] \in Frame
    BY <2>2, Parts DEF Frame
  <2>4. frames' \in Seq(Frame) /\ Len(frames') = Len(frames) + 1
    BY <2>1, <2>3, WithOneMore DEF TypeOK, Frame
  <2>5. Len(frames') \in 1..MaxDepth
    BY <1>0, <1>10, <2>4 DEF Call
  <2>6. stack' \in Seq(Objects \cup {Nothing}) /\ Len(stack') <= MaxStack
    BY <1>0, <1>10, EmptySeq DEF Call
  <2> QED
    BY <1>10, <2>4, <2>5, <2>6 DEF TypeOK, Call, Frame
<1>11. CASE Return
  <2>1. frames # <<>>
    BY <1>0, EmptySeq
  <2>2. frames' \in Seq(Frame) /\ Len(frames') = Len(frames) - 1
    BY <1>11, <2>1, WithoutLast DEF TypeOK, Return, Frame
  <2>3. Len(frames') \in 1..MaxDepth
    BY <1>0, <1>11, <2>2 DEF Return
  <2> QED
    BY <1>11, <2>2, <2>3 DEF TypeOK, Return, Frame
<1>12. CASE UNCHANGED vars
  BY <1>12 DEF TypeOK, vars
<1> QED
  BY <1>3, <1>4, <1>5, <1>6, <1>7, <1>8, <1>9, <1>10, <1>11, <1>12 DEF Next

-----------------------------------------------------------------------------
(* Where an instance is that never left its frame *)

Tainted == escaped \cup reassigned

\* The heap and the other frames only have instances that were given to them, and the
\* expression stack is of the active frame.
Local ==
    /\ heap \subseteq escaped
    /\ \A o \in Objects \ Tainted :
          /\ \A i, j \in DOMAIN frames :
                o \in Elements(frames[i]) /\ o \in Elements(frames[j]) => i = j
          /\ \A i \in DOMAIN frames :
                o \in Elements(stack) /\ o \in Elements(frames[i]) => i = Len(frames)

\* Instances are allocated before they are anywhere.
Made ==
    /\ Elements(pool) \subseteq made
    /\ Elements(stack) \cap Objects \subseteq made
    /\ \A i \in DOMAIN frames : Elements(frames[i]) \cap Objects \subseteq made
    /\ heap \subseteq made

\* One that is in the pool, is there once, and nowhere else.
Recycled ==
    \A i \in DOMAIN pool : pool[i] \notin Tainted =>
        /\ pool[i] \notin Elements(stack) /\ pool[i] \notin heap
        /\ \A j \in DOMAIN frames : pool[i] \notin Elements(frames[j])
        /\ \A j \in DOMAIN pool : pool[j] = pool[i] => j = i

IInv == TypeOK /\ Local /\ Made /\ Recycled

LEMMA RecycledSafely == IInv => LocalInstancesRecycledSafely
BY DEF IInv, Recycled, LocalInstancesRecycledSafely, Reachable, Tainted

\* References that move inside the active frame, and none into the pool.
LEMMA Moves ==
    ASSUME IInv, TypeOK', UNCHANGED <<frames, pool, made>>,
           escaped \subseteq escaped', reassigned \subseteq reassigned',
           heap' \subseteq escaped', heap' \subseteq heap \cup Elements(stack),
           Elements(stack')
               \subseteq Elements(stack) \cup Elements(Active) \cup heap \cup {Nothing},
           Nothing \notin Objects
    PROVE  IInv'
<1>1. Active = frames[Len(frames)] /\ Len(frames) \in DOMAIN frames
  BY Parts DEF Active, IInv
<1>2. \A o \in Objects \ Tainted' :
         /\ o \notin Tainted /\ o \notin heap
         /\ o \in Elements(stack') => o \in Elements(stack) \/ o \in Elements(frames[Len(frames)])
  BY <1>1 DEF Tainted, IInv, Local
<1>3. Local'
  <2> SUFFICES ASSUME NEW o \in Objects \ Tainted'
               PROVE  /\ \A i, j \in DOMAIN frames :
                            o \in Elements(frames[i]) /\ o \in Elements(frames[j]) => i = j
                      /\ \A i \in DOMAIN frames :
                            o \in Elements(stack') /\ o \in Elements(frames[i])
                                => i = Len(frames)
    BY DEF Local
  <2> QED
    BY <1>1, <1>2 DEF IInv, Local
<1>4. Made'
  BY <1>1 DEF IInv, Made, TypeOK
<1>5. Recycled'
  <2> SUFFICES ASSUME NEW i \in DOMAIN pool, pool[i] \notin Tainted'
               PROVE  /\ pool[i] \notin Elements(stack') /\ pool[i] \notin heap'
                      /\ \A j \in DOMAIN frames : pool[i] \notin Elements(frames[j])
                      /\ \A j \in DOMAIN pool : pool[j] = pool[i] => j = i
    BY DEF Recycled
  <2>1. pool[i] \in Objects
    BY LenProperties, ElementOfSeq DEF IInv, TypeOK
  <2> QED
    BY <1>1, <1>2, <2>1 DEF IInv, Recycled, Tainted
<1> QED
  BY <1>3, <1>4, <1>5 DEF IInv

\* A constructor call hands out an instance that is tainted for good, or one that is
\* nowhere else.
LEMMA ConstructKeeps == PoolAssumption /\ IInv /\ TypeOK' /\ Construct => IInv'
<1> SUFFICES ASSUME PoolAssumption, IInv, TypeOK', Construct PROVE IInv'
  OBVIOUS
<1>1. PICK o \in Objects :
        /\ IF pool # <<>>
           THEN o = pool[Len(pool)] /\ pool' = SubSeq(pool, 1, Len(pool) - 1)
           ELSE o \notin made /\ UNCHANGED pool
        /\ stack' = Append(stack, o) /\ made' = made \cup {o}
        /\ IF o \in Reachable \cup Elements(pool')
           THEN UNCHANGED <<escaped, reassigned>>
           ELSE escaped' = escaped \ {o} /\ reassigned' = reassigned \ {o}
  BY DEF Construct
<1>2. UNCHANGED <<frames, heap>>
  BY DEF Construct
<1>3. Elements(stack') = Elements(stack) \cup {o}
  <2>1. stack \in Seq(Objects \cup {Nothing}) /\ o \in Objects \cup {Nothing}
    BY DEF IInv, TypeOK
  <2> QED
    BY <1>1, <2>1, WithOneMore
<1>4. /\ DOMAIN pool' \subseteq DOMAIN pool
      /\ \A i \in DOMAIN pool' : pool'[i] = pool[i]
      /\ Elements(pool') \subseteq Elements(pool)
  <2>1. CASE pool # <<>>
    <3>1. pool \in Seq(Objects) /\ pool' = SubSeq(pool, 1, Len(pool) - 1)
      BY <1>1, <2>1 DEF IInv, TypeOK
    <3>2. /\ Len(pool) \in Nat \ {0} /\ DOMAIN pool = 1..Len(pool)
          /\ DOMAIN pool' = 1..(Len(pool) - 1)
          /\ \A i \in 1..(Len(pool) - 1) : pool'[i] = pool[i]
          /\ Elements(pool) = Elements(pool') \cup {pool[Len(pool)]}
      BY <2>1, <3>1, WithoutLast
    <3> QED
      BY <3>2
  <2>2. CASE pool = <<>>
    BY <1>1, <2>2
  <2> QED
    BY <2>1, <2>2
<1>5. o \in Reachable \cup Elements(pool') => o \in Tainted
  <2>1. CASE pool # <<>>
    <3>1. pool \in Seq(Objects) /\ pool' = SubSeq(pool, 1, Len(pool) - 1) /\ o = pool[Len(pool)]
      BY <1>1, <2>1 DEF IInv, TypeOK
    <3>2. /\ Len(pool) \in DOMAIN pool
          /\ DOMAIN pool' = 1..(Len(pool) - 1) /\ Len(pool) \notin 1..(Len(pool) - 1)
      <4>1. /\ Len(pool) \in Nat \ {0} /\ DOMAIN pool = 1..Len(pool)
            /\ DOMAIN pool' = 1..(Len(pool) - 1)
        BY <2>1, <3>1, WithoutLast
      <4> QED
        BY <4>1
    <3>3. o \in Elements(pool') => \E i \in DOMAIN pool : pool[i] = o /\ i # Len(pool)
      BY <1>4, <3>2 DEF Elements
    <3> QED
      BY <3>1, <3>2, <3>3 DEF IInv, Recycled, Reachable
  <2>2. CASE pool = <<>>
    <3>1. o \notin made /\ pool' = pool
      BY <1>1, <2>2
    <3>2. o \notin Elements(pool) /\ o \notin Reachable
      BY <3>1 DEF IInv, Made, Reachable
    <3> QED
      BY <3>1, <3>2
  <2> QED
    BY <2>1, <2>2
<1>6. /\ \A x \in Objects \ Tainted' : x = o \/ x \notin Tainted
      /\ o \notin Tainted' => o \notin Reachable \cup Elements(pool')
  BY <1>1, <1>5 DEF Tainted
<1>7. Local'
  <2>1. heap' \subseteq escaped'
    BY <1>1, <1>2 DEF IInv, Local, Reachable
  <2>2. ASSUME NEW x \in Objects \ Tainted'
        PROVE  /\ \A i, j \in DOMAIN frames :
                     x \in Elements(frames[i]) /\ x \in Elements(frames[j]) => i = j
               /\ \A i \in DOMAIN frames :
                     x \in Elements(stack') /\ x \in Elements(frames[i]) => i = Len(frames)
    <3>1. CASE x = o
      BY <1>6, <3>1 DEF Reachable
    <3>2. CASE x # o
      BY <1>3, <1>6, <3>2 DEF IInv, Local
    <3> QED
      BY <3>1, <3>2
  <2> QED
    BY <1>2, <2>1, <2>2 DEF Local
<1>8. Made'
  BY <1>1, <1>2, <1>3, <1>4 DEF IInv, Made
<1>9. Recycled'
  <2> SUFFICES ASSUME NEW i \in DOMAIN pool', pool'[i] \notin Tainted'
               PROVE  /\ pool'[i] \notin Elements(stack') /\ pool'[i] \notin heap
                      /\ \A j \in DOMAIN frames : pool'[i] \notin Elements(frames[j])
                      /\ \A j \in DOMAIN pool' : pool'[j] = pool'[i] => j = i
    BY <1>2 DEF Recycled
  <2>1. pool'[i] = pool[i] /\ pool[i] \in Objects /\ pool'[i] \in Elements(pool')
    BY <1>4, LenProperties, ElementOfSeq DEF IInv, TypeOK, Elements
  <2>2. pool[i] # o /\ pool[i] \notin Tainted
    BY <1>6, <2>1
  <2> QED
    BY <1>3, <1>4, <2>1, <2>2 DEF IInv, Recycled
<1> QED
  BY <1>7, <1>8, <1>9 DEF IInv

\* An instance that goes to the pool untainted was only in the local that lets go of it.
LEMMA SetLocalKeeps ==
    ASSUME PoolAssumption, IInv, TypeOK', NEW s \in Slots, SetLocal(s)
    PROVE  IInv'
<1> DEFINE n == Len(frames)
           old == Active[s]
<1>1. /\ stack # <<>> /\ stack' = Below /\ Elements(stack) = Elements(Below) \cup {Top}
      /\ Top \in Objects \cup {Nothing}
      /\ UNCHANGED <<heap, made, escaped>>
      /\ reassigned' = reassigned \cup ({old} \cap {Top} \cap Objects)
  BY Parts DEF SetLocal, IInv
<1>2. /\ n \in DOMAIN frames /\ Active = frames[n] /\ Active \in Frame
      /\ DOMAIN frames' = DOMAIN frames /\ Len(frames') = n
      /\ \A i \in DOMAIN frames \ {n} : frames'[i] = frames[i]
      /\ frames'[n] = [Active EXCEPT ![s] = Top]
  BY <1>1, Parts, Stored DEF SetLocal, IInv, Active
<1>3. /\ Elements(frames'[n]) = {Active[t] : t \in Slots \ {s}} \cup {Top}
      /\ Elements(Active) = {Active[t] : t \in Slots}
  BY <1>2 DEF Elements, Frame
<1>4. Tainted \subseteq Tainted'
  BY <1>1 DEF Tainted
<1>5. Local'
  <2> SUFFICES ASSUME NEW o \in Objects \ Tainted'
               PROVE  /\ \A i, j \in DOMAIN frames :
                            o \in Elements(frames'[i]) /\ o \in Elements(frames'[j]) => i = j
                      /\ \A i \in DOMAIN frames :
                            o \in Elements(Below) /\ o \in Elements(frames'[i]) => i = n
    BY <1>1, <1>2 DEF Local, IInv
  <2>1. \A i \in DOMAIN frames \ {n} :
           o \in Elements(frames'[i]) => o \notin Elements(stack) /\ o \notin Elements(frames[n])
    BY <1>2, <1>4 DEF IInv, Local
  <2>2. o \in Elements(frames'[n]) => o \in Elements(stack) \cup Elements(frames[n])
    BY <1>1, <1>2, <1>3
  <2> QED
    BY <1>1, <1>2, <1>4, <2>1, <2>2 DEF IInv, Local
<1>6. pool' = pool \/ (pool' = Append(pool, old) /\ old \in Objects /\ NoAlias(s, Below))
  BY <1>2 DEF SetLocal, NoAlias, Frame
<1>7. old \in Elements(frames[n])
  BY <1>2, <1>3
<1>8. Made'
  <2>1. Elements(pool') \subseteq Elements(pool) \cup ({old} \cap Objects)
    <3>1. CASE pool' = Append(pool, old) /\ old \in Objects
      <4>1. pool \in Seq(Objects)
        BY DEF IInv, TypeOK
      <4>2. Elements(Append(pool, old)) = Elements(pool) \cup {old}
        BY <3>1, <4>1, WithOneMore
      <4> QED
        BY <3>1, <4>2
    <3> QED
      BY <1>6, <3>1
  <2>2. Elements(pool') \subseteq made
    BY <1>2, <1>7, <2>1 DEF IInv, Made
  <2>3. \A i \in DOMAIN frames : Elements(frames'[i]) \cap Objects \subseteq made
    BY ZenonT(40), <1>1, <1>2, <1>3 DEF IInv, Made
  <2> QED
    BY <1>1, <1>2, <2>2, <2>3 DEF IInv, Made
<1>9. ASSUME NEW o \in Objects \ Tainted',
             o \notin heap, o \notin Elements(stack),
             \A j \in DOMAIN frames : o \notin Elements(frames[j])
      PROVE  /\ o \notin Elements(Below)
             /\ \A j \in DOMAIN frames : o \notin Elements(frames'[j])
  BY <1>1, <1>2, <1>3, <1>9
<1>10. CASE pool' = pool
  <2> SUFFICES ASSUME NEW i \in DOMAIN pool, pool[i] \notin Tainted'
               PROVE  /\ pool[i] \notin Elements(Below) /\ pool[i] \notin heap
                      /\ \A j \in DOMAIN frames : pool[i] \notin Elements(frames'[j])
                      /\ \A j \in DOMAIN pool : pool[j] = pool[i] => j = i
    BY <1>1, <1>2, <1>5, <1>8, <1>10 DEF IInv, Recycled
  <2>1. pool[i] \in Objects
    BY LenProperties, ElementOfSeq DEF IInv, TypeOK
  <2> QED
    BY <1>4, <1>9, <2>1 DEF IInv, Recycled
<1>11. CASE pool' = Append(pool, old) /\ old \in Objects /\ NoAlias(s, Below)
  <2>1. /\ Len(pool) \in Nat /\ DOMAIN pool = 1..Len(pool)
        /\ DOMAIN pool' = 1..(Len(pool) + 1)
        /\ \A i \in 1..Len(pool) : pool'[i] = pool[i]
        /\ pool'[Len(pool) + 1] = old
    BY <1>11, WithOneMore DEF IInv, TypeOK
  <2>2. ASSUME old \notin Tainted'
        PROVE  /\ old \notin Elements(Below) /\ old \notin heap
               /\ \A j \in DOMAIN frames : old \notin Elements(frames'[j])
               /\ \A i \in DOMAIN pool : pool[i] # old
    <3>1. old # Top /\ old \notin Tainted
      BY <1>1, <1>4, <1>11, <2>2 DEF Tainted
    <3>2. old \notin Elements(Below) /\ old \notin Elements(frames'[n])
      BY <1>3, <1>11, <3>1 DEF NoAlias
    <3>3. \A j \in DOMAIN frames \ {n} : old \notin Elements(frames'[j])
      BY <1>2, <1>7, <1>11, <3>1 DEF IInv, Local
    <3>4. old \notin heap
      BY <3>1 DEF IInv, Local, Tainted
    <3>5. \A i \in DOMAIN pool : pool[i] # old
      BY <1>2, <1>7, <3>1 DEF IInv, Recycled
    <3> QED
      BY <3>2, <3>3, <3>4, <3>5
  <2>3. ASSUME NEW i \in 1..Len(pool), pool[i] \notin Tainted'
        PROVE  /\ pool[i] \notin Elements(Below) /\ pool[i] \notin heap
               /\ \A j \in DOMAIN frames : pool[i] \notin Elements(frames'[j])
               /\ \A j \in DOMAIN pool : pool[j] = pool[i] => j = i
    <3>1. pool[i] \in Objects
      BY <2>1, LenProperties, ElementOfSeq DEF IInv, TypeOK
    <3> QED
      BY <1>4, <1>9, <2>1, <2>3, <3>1 DEF IInv, Recycled
  <2>4. Recycled'
    <3> SUFFICES ASSUME NEW i \in 1..(Len(pool) + 1), pool'[i] \notin Tainted'
                 PROVE  /\ pool'[i] \notin Elements(Below) /\ pool'[i] \notin heap
                        /\ \A j \in DOMAIN frames : pool'[i] \notin Elements(frames'[j])
                        /\ \A j \in 1..(Len(pool) + 1) : pool'[j] = pool'[i] => j = i
      BY <1>1, <1>2, <2>1 DEF Recycled
    <3>1. CASE i = Len(pool) + 1
      BY <2>1, <2>2, <3>1
    <3>2. CASE i \in 1..Len(pool)
      BY <2>1, <2>2, <2>3, <3>2
    <3> QED
      BY <2>1, <3>1, <3>2
  <2> QED
    BY <1>5, <1>8, <2>4 DEF IInv
<1> QED
  BY <1>6, <1>10, <1>11

\* A callee gets a tainted instance or none.
LEMMA CallKeeps == PoolAssumption /\ IInv /\ TypeOK' /\ Call => IInv'
<1> SUFFICES ASSUME PoolAssumption, IInv, TypeOK', Call PROVE IInv'
  OBVIOUS
<1> DEFINE n == Len(frames)
<1>1. PICK s \in Slots : frames' = Append(frames, [Empty EXCEPT ![s] = Top])
  BY DEF Call
<1>2. /\ stack' = <<>> /\ UNCHANGED <<heap, pool, made, reassigned>>
      /\ escaped' = escaped \cup ({Top} \cap Objects)
  BY DEF Call
<1>3. Top \in Objects \cup {Nothing} /\ Top \in Elements(stack) /\ Nothing \notin Objects
  <2>1. Len(stack) = 1
    BY DEF Call
  <2>2. stack # <<>>
    BY <2>1
  <2> QED
    BY <2>2, Parts DEF IInv, PoolAssumption
<1>4. /\ n \in Nat \ {0} /\ DOMAIN frames = 1..n /\ DOMAIN frames' = 1..(n + 1)
      /\ Len(frames') = n + 1
      /\ \A i \in 1..n : frames'[i] = frames[i]
      /\ frames'[n + 1] = [Empty EXCEPT ![s] = Top]
  <2>1. frames \in Seq(Frame) /\ [Empty EXCEPT ![s] = Top] \in Frame
    BY <1>3, Parts DEF IInv, TypeOK, Frame
  <2>2. n \in Nat \ {0}
    BY Parts DEF IInv
  <2> QED
    BY <1>1, <2>1, <2>2, WithOneMore
<1>5. Elements(frames'[n + 1]) \subseteq {Top, Nothing} /\ Elements(stack') = {}
  BY <1>2, <1>4 DEF Elements, Empty
<1>6. ASSUME NEW o \in Objects \ Tainted'
      PROVE  /\ o \notin Tainted
             /\ \A i \in 1..(n + 1) :
                   o \in Elements(frames'[i]) => i \in 1..n /\ o \in Elements(frames[i])
  <2>1. o \notin Tainted /\ o # Top
    BY <1>2 DEF Tainted
  <2>2. o \notin Elements(frames'[n + 1])
    BY <1>3, <1>5, <2>1
  <2>3. \A i \in 1..(n + 1) : i = n + 1 \/ i \in 1..n
    BY <1>4
  <2> QED
    BY <1>4, <2>1, <2>2, <2>3
<1>7. Local'
  <2> SUFFICES ASSUME NEW o \in Objects \ Tainted'
               PROVE  \A i, j \in 1..(n + 1) :
                         o \in Elements(frames'[i]) /\ o \in Elements(frames'[j]) => i = j
    BY <1>2, <1>4, <1>5 DEF IInv, Local
  <2> QED
    BY <1>4, <1>6 DEF IInv, Local
<1>8. Made'
  <2>1. ASSUME NEW i \in 1..(n + 1) PROVE Elements(frames'[i]) \cap Objects \subseteq made
    <3>1. CASE i = n + 1
      BY <1>3, <1>5, <3>1 DEF IInv, Made
    <3>2. CASE i \in 1..n
      BY <1>4, <3>2 DEF IInv, Made
    <3> QED
      BY <1>4, <3>1, <3>2
  <2> QED
    BY <1>2, <1>4, <1>5, <2>1 DEF IInv, Made
<1>9. Recycled'
  <2> SUFFICES ASSUME NEW i \in DOMAIN pool, pool[i] \notin Tainted'
               PROVE  /\ pool[i] \notin heap
                      /\ \A j \in 1..(n + 1) : pool[i] \notin Elements(frames'[j])
                      /\ \A j \in DOMAIN pool : pool[j] = pool[i] => j = i
    BY <1>2, <1>4, <1>5 DEF Recycled
  <2>1. pool[i] \in Objects
    BY LenProperties, ElementOfSeq DEF IInv, TypeOK
  <2> QED
    BY <1>4, <1>6, <2>1 DEF IInv, Recycled
<1> QED
  BY <1>7, <1>8, <1>9 DEF IInv

\* The frames that are left are those of before, without the one of the value returned.
LEMMA ReturnKeeps == PoolAssumption /\ IInv /\ TypeOK' /\ Return => IInv'
<1> SUFFICES ASSUME PoolAssumption, IInv, TypeOK', Return PROVE IInv'
  OBVIOUS
<1> DEFINE n == Len(frames)
<1>1. UNCHANGED <<stack, heap, pool, made, escaped, reassigned>>
  BY DEF Return
<1>2. n \in Nat \ {0} /\ DOMAIN frames = 1..n
  BY Parts DEF IInv
<1>3. /\ DOMAIN frames' = 1..(n - 1) /\ Len(frames') = n - 1
      /\ \A i \in 1..(n - 1) : frames'[i] = frames[i]
  <2>1. /\ frames \in Seq(Frame) /\ frames # <<>>
        /\ frames' = SubSeq(frames, 1, Len(frames) - 1)
    BY <1>2, EmptySeq DEF IInv, TypeOK, Frame, Return
  <2> QED
    BY <2>1, WithoutLast
<1>4. \A i \in 1..(n - 1) : i \in DOMAIN frames /\ i # n
  <2>1. n \in Nat
    BY <1>2
  <2>2. \A i \in 1..(n - 1) : i \in 1..n /\ i # n
    BY <2>1
  <2> QED
    BY <1>2, <2>2
<1>5. Local'
  BY <1>1, <1>3, <1>4 DEF IInv, Local, Tainted
<1>6. Made'
  BY <1>1, <1>3, <1>4 DEF IInv, Made
<1>7. Recycled'
  BY <1>1, <1>3, <1>4 DEF IInv, Recycled, Tainted
<1> QED
  BY <1>5, <1>6, <1>7 DEF IInv

LEMMA StepInvariant == PoolAssumption /\ IInv /\ [Next]_vars => IInv'
<1> SUFFICES ASSUME PoolAssumption, IInv, [Next]_vars PROVE IInv'
  OBVIOUS
<1>1. TypeOK' /\ Nothing \notin Objects
  BY StepTypeOK DEF IInv, PoolAssumption
<1>2. ASSUME stack # <<>> PROVE Top \in Elements(stack) /\ Elements(Below) \subseteq Elements(stack)
  BY <1>2, Parts DEF IInv
<1>3. CASE Freeze
  BY <1>1, <1>3, Moves DEF Freeze, IInv, Local
<1>4. CASE Load
  <2>1. PICK x \in Elements(Active) \cup heap \cup {Nothing} : Push(x)
    BY <1>4 DEF Load
  <2>2. x \in Objects \cup {Nothing} /\ stack \in Seq(Objects \cup {Nothing})
    BY Parts DEF IInv, TypeOK, Elements, Frame
  <2>3. Elements(stack') = Elements(stack) \cup {x}
    BY <2>1, <2>2, WithOneMore DEF Push
  <2> QED
    BY <1>1, <2>1, <2>3, Moves DEF Push, IInv, Local
<1>5. CASE Pop
  BY <1>1, <1>2, <1>5, Moves DEF Pop, IInv, Local
<1>6. CASE Escape
  <2>1. /\ UNCHANGED <<frames, pool, made>>
        /\ escaped \subseteq escaped' /\ reassigned \subseteq reassigned'
        /\ heap' \subseteq escaped' /\ heap' \subseteq heap \cup Elements(stack)
        /\ Elements(stack') \subseteq Elements(stack)
    BY <1>2, <1>6 DEF Escape, IInv, Local
  <2> QED
    BY <1>1, <2>1, Moves
<1>7. CASE Forget
  <2>1. heap' \subseteq heap /\ UNCHANGED <<frames, stack, pool, made, escaped, reassigned>>
    BY <1>7 DEF Forget
  <2> QED
    BY <1>1, <2>1, Moves DEF IInv, Local
<1>8. CASE UNCHANGED vars
  BY <1>1, <1>8, Moves DEF vars, IInv, Local
<1> QED
  BY <1>1, <1>3, <1>4, <1>5, <1>6, <1>7, <1>8, ConstructKeeps, SetLocalKeeps, CallKeeps,
     ReturnKeeps DEF Next

LEMMA InitInvariant == PoolAssumption /\ Init => IInv
<1> SUFFICES ASSUME PoolAssumption, Init PROVE IInv
  OBVIOUS
<1>1. /\ Elements(<<>>) = {} /\ DOMAIN <<>> = {} /\ Len(<<>>) = 0
      /\ <<>> \in Seq(Objects) /\ <<>> \in Seq(Objects \cup {Nothing})
  BY EmptySeq DEF Elements
<1>2. /\ Empty \in Frame /\ Elements(Empty) \subseteq {Nothing}
      /\ <<Empty>> \in Seq(Frame) /\ Len(<<Empty>>) = 1 /\ DOMAIN <<Empty>> = {1}
      /\ <<Empty>>[1] = Empty
  BY DEF Empty, Frame, Elements
<1>3. TypeOK
  BY <1>1, <1>2 DEF Init, TypeOK, PoolAssumption, Frame
<1>4. Local /\ Made /\ Recycled
  BY <1>1, <1>2 DEF Init, Local, Made, Recycled, Tainted, PoolAssumption
<1> QED
  BY <1>3, <1>4 DEF IInv

LEMMA AlwaysIInv ==
    ASSUME PoolAssumption
    PROVE  Spec => []IInv
<1>1. Init => IInv
  BY InitInvariant
<1>2. IInv /\ [Next]_vars => IInv'
  BY StepInvariant
<1> QED
  BY <1>1, <1>2, PTL DEF Spec

-----------------------------------------------------------------------------
(* Theorems *)

\* Every variable keeps its type: the pool and the frames stay within their sizes.
THEOREM TypeCorrect ==
    ASSUME PoolAssumption
    PROVE  Spec => []TypeOK
<1>1. IInv => TypeOK
  BY DEF IInv
<1> QED
  BY <1>1, AlwaysIInv, PTL

\* tryRecycleLocal, which only looks through one frame, is right about the instances that
\* never left theirs and were never stored in their own slot.
THEOREM LocalInstances ==
    ASSUME PoolAssumption
    PROVE  Spec => []LocalInstancesRecycledSafely
BY RecycledSafely, AlwaysIInv, PTL

\* acquireInstance thaws none of those that the program still holds.
THEOREM StayFrozen ==
    ASSUME PoolAssumption
    PROVE  Spec => FrozenStaysFrozen
<1> DEFINE Thaws == \A o \in frozen \ (escaped \cup reassigned) : o \in Reachable => o \in frozen'
<1>1. IInv /\ [Next]_vars => [Thaws]_vars
  <2> SUFFICES ASSUME IInv, Next,
                      NEW o \in frozen \ (escaped \cup reassigned), o \in Reachable
               PROVE  o \in frozen'
    OBVIOUS
  <2>1. CASE Construct
    <3>1. CASE pool = <<>>
      BY <2>1, <3>1 DEF Construct
    <3>2. CASE pool # <<>>
      <4>1. Len(pool) \in DOMAIN pool
        <5>1. pool \in Seq(Objects)
          BY DEF IInv, TypeOK
        <5>2. Len(pool) \in Nat \ {0} /\ DOMAIN pool = 1..Len(pool)
          BY <3>2, <5>1, WithoutLast
        <5> QED
          BY <5>2
      <4>2. pool[Len(pool)] # o
        BY <4>1 DEF IInv, Recycled, Tainted, Reachable
      <4>3. \E p \in Objects : p = pool[Len(pool)] /\ frozen' = frozen \ {p}
        BY <2>1, <3>2 DEF Construct
      <4> QED
        BY <4>2, <4>3
    <3> QED
      BY <3>1, <3>2
  <2> QED
    BY <2>1 DEF Next, SetLocal, Freeze, Load, Push, Pop, Escape, Forget, Call, Return
<1> QED
  BY <1>1, AlwaysIInv, PTL DEF Spec, FrozenStaysFrozen
=============================================================================
