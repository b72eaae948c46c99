---------------------------- MODULE FramesProofs ----------------------------
(***************************************************************************)
(* Frames, handlers and loops for any bounds: their types, the try that    *)
(* catches an exception, the stack under the active frame, and where each  *)
(* frame is.                                                               *)
(***************************************************************************)
EXTENDS Frames, Integers, SequenceTheorems, FiniteSetTheorems, WellFoundedInduction, TLAPS

-----------------------------------------------------------------------------
(* Sequences and numbers *)

\* A sequence without its last element.
LEMMA FrontOf ==
    ASSUME NEW S, NEW s \in Seq(S), s # <<>>
    PROVE  /\ Len(s) \in Nat \ {0} /\ DOMAIN s = 1..Len(s) /\ Len(s) \in DOMAIN s
           /\ Front(s) \in Seq(S) /\ Len(Front(s)) = Len(s) - 1
           /\ DOMAIN Front(s) = 1..(Len(s) - 1)
           /\ \A i \in 1..(Len(s) - 1) : Front(s)[i] = s[i]
           /\ Last(s) \in S /\ Last(s) = s[Len(s)]
<1>1. Len(s) \in Nat \ {0} /\ DOMAIN s = 1..Len(s)
  BY EmptySeq, LenProperties
<1>2. \A i \in 1..Len(s) : s[i] \in S
  BY ElementOfSeq
<1>3. \A i \in 1..(Len(s) - 1) : s[i] \in S
  BY <1>1, <1>2
<1>4. Front(s) \in Seq(S) /\ Len(Front(s)) = Len(s) - 1
      /\ \A i \in 1..(Len(s) - 1) : Front(s)[i] = s[i]
  BY <1>1, <1>3, SubSeqProperties DEF Front
<1>5. Len(s) \in 1..Len(s)
  BY <1>1
<1> QED
  BY <1>1, <1>2, <1>4, <1>5, LenProperties DEF Last

\* A sequence of one element more.
LEMMA Appended ==
    ASSUME NEW S, NEW s \in Seq(S), NEW x \in S
    PROVE  /\ Append(s, x) \in Seq(S) /\ Append(s, x) # <<>>
           /\ Len(s) \in Nat /\ DOMAIN s = 1..Len(s)
           /\ Len(Append(s, x)) = Len(s) + 1 /\ DOMAIN Append(s, x) = 1..(Len(s) + 1)
           /\ \A i \in 1..Len(s) : Append(s, x)[i] = s[i]
           /\ Append(s, x)[Len(s) + 1] = x /\ Last(Append(s, x)) = x
BY AppendProperties, LenProperties DEF Last

\* A sequence whose last element is replaced.
LEMMA Replaced ==
    ASSUME NEW S, NEW s \in Seq(S), s # <<>>, NEW x \in S
    PROVE  /\ Append(Front(s), x) \in Seq(S) /\ Append(Front(s), x) # <<>>
           /\ Len(Append(Front(s), x)) = Len(s) /\ DOMAIN Append(Front(s), x) = 1..Len(s)
           /\ Len(s) \in Nat \ {0} /\ DOMAIN s = 1..Len(s)
           /\ \A i \in 1..(Len(s) - 1) : Append(Front(s), x)[i] = s[i]
           /\ Append(Front(s), x)[Len(s)] = x /\ Last(Append(Front(s), x)) = x
<1>1. Front(s) \in Seq(S) /\ Len(Front(s)) = Len(s) - 1 /\ Len(s) \in Nat \ {0}
      /\ DOMAIN s = 1..Len(s) /\ \A i \in 1..(Len(s) - 1) : Front(s)[i] = s[i]
  BY FrontOf
<1> QED
  BY <1>1, Appended

\* A beginning of a sequence.
LEMMA Prefix ==
    ASSUME NEW S, NEW s \in Seq(S), NEW n \in 0..Len(s)
    PROVE  /\ SubSeq(s, 1, n) \in Seq(S) /\ Len(SubSeq(s, 1, n)) = n
           /\ DOMAIN SubSeq(s, 1, n) = 1..n
           /\ \A i \in 1..n : SubSeq(s, 1, n)[i] = s[i]
<1>1. Len(s) \in Nat /\ \A i \in 1..n : s[i] \in S
  BY LenProperties, ElementOfSeq
<1>2. SubSeq(s, 1, n) \in Seq(S) /\ Len(SubSeq(s, 1, n)) = n
      /\ \A i \in 1..n : SubSeq(s, 1, n)[i] = s[i]
  BY <1>1, SubSeqProperties
<1> QED
  BY <1>2, LenProperties

\* A number up to n is n or one before it.
LEMMA LastOrBefore ==
    ASSUME NEW n \in Nat, NEW i \in 1..n
    PROVE  i = n \/ i \in 1..(n - 1)
OBVIOUS

\* A set of numbers that are not negative has a least one.
LEMMA LeastOf ==
    ASSUME NEW S \in SUBSET Nat, S # {}
    PROVE  \E m \in S : \A k \in S : m <= k
<1> DEFINE Less == OpToRel(<, Nat)
<1>1. IsWellFoundedOn(Less, Nat)
  BY NatLessThanWellFounded
<1>2. \A a, b \in Nat : a < b => <<a, b>> \in Less
  BY DEF OpToRel
<1> HIDE DEF Less
<1>3. PICK m \in S : \A k \in S : ~ (<<k, m>> \in Less)
  BY <1>1, WFMin
<1>4. ASSUME NEW k \in S PROVE m <= k
  <2>1. k \in Nat /\ m \in Nat
    OBVIOUS
  <2>2. ~ (k < m)
    BY <1>2, <1>3, <2>1
  <2> QED
    BY <2>1, <2>2
<1> QED
  BY <1>4

\* Greatest finds the greatest of some numbers up to n.
LEMMA GreatestOf ==
    ASSUME NEW n \in Nat, NEW S \in SUBSET (1..n), S # {}
    PROVE  Greatest(S) \in S /\ \A k \in S : k <= Greatest(S)
<1> DEFINE Above == {n - k : k \in S}
<1>1. Above \in SUBSET Nat /\ Above # {}
  <2>1. PICK k \in S : TRUE
    OBVIOUS
  <2>2. n - k \in Above
    BY <2>1
  <2>3. ASSUME NEW l \in S PROVE n - l \in Nat
    <3>1. l \in 1..n
      OBVIOUS
    <3> QED
      BY <3>1
  <2> QED
    BY <2>2, <2>3
<1>2. PICK m \in Above : \A k \in Above : m <= k
  BY <1>1, LeastOf
<1>3. PICK g \in S : m = n - g
  BY <1>2
<1>4. \A k \in S : k <= g
  <2> SUFFICES ASSUME NEW k \in S PROVE k <= g
    OBVIOUS
  <2>1. n - k \in Above
    OBVIOUS
  <2>2. m <= n - k
    BY <1>2, <2>1
  <2> QED
    BY <1>3, <2>2
<1> QED
  BY <1>4 DEF Greatest

-----------------------------------------------------------------------------
(* The inductive invariant *)

\* The handlers of a frame and the tries it is in: there are never more tries than
\* handlers, whatever was jumped out of, and without a jump each handler remembers the
\* tries around its own.
FrameFine(f) ==
    /\ f.base < StackTop
    /\ Len(f.open) <= Len(f.handlers) /\ Len(f.handlers) <= MaxHandlers
    /\ \A j \in DOMAIN f.handlers :
          /\ Len(f.handlers[j].outer) < j
          /\ f.base <= f.handlers[j].depth /\ f.handlers[j].depth < StackTop
          /\ ~f.jumped => f.handlers[j].outer = [k \in 1..(j - 1) |-> f.handlers[k].try]
    /\ ~f.jumped => f.open = [j \in DOMAIN f.handlers |-> f.handlers[j].try]

\* A frame has its operands below every frame that was entered after it, and has room for
\* the result of the one it called.
Stacked(fs) ==
    \A i, j \in DOMAIN fs :
        i < j => fs[i].base + fs[i].depth <= fs[j].base /\ fs[i].depth < MaxDepth

\* Until a frame is resumed in a loop that had not called it, nothing lies between the
\* operands of a frame and the next one, a handler restores the stack of an empty
\* expression, and the loops are entered in the order of the frames.
Exact(fs) ==
    /\ \A i \in 1..(Len(fs) - 1) : fs[i].base + fs[i].depth = fs[i + 1].base
    /\ \A i, j \in DOMAIN fs : i < j => fs[i].level <= fs[j].level
    /\ \A i \in DOMAIN fs : \A j \in DOMAIN fs[i].handlers :
          fs[i].handlers[j].depth = fs[i].base

\* The frames in use and those released, n of them, are all different.
OnceOnly(fs, pool, n) ==
    /\ \A i, j \in DOMAIN fs : fs[i].id = fs[j].id => i = j
    /\ \A i, j \in DOMAIN pool : pool[i] = pool[j] => i = j
    /\ \A i \in DOMAIN fs, j \in DOMAIN pool : fs[i].id # pool[j]
    /\ \A i \in DOMAIN fs : fs[i].id <= n
    /\ \A i \in DOMAIN pool : pool[i] <= n
    /\ Len(fs) + Len(pool) = n

\* A frame that callValue entered is the first one of a loop that has not ended.
Closures(fs, ls) ==
    \A i \in DOMAIN fs :
        fs[i].via = "closure" =>
            /\ fs[i].level <= Len(ls)
            /\ ls[fs[i].level].base = i - 1
            /\ ls[fs[i].level].via = "closure"

\* The loops begin one above the other, each below a frame, and remember a stack that
\* holds the operands of the frame they are called from.
Nested(fs, ls) ==
    /\ ls # <<>> /\ Len(ls) <= MaxLevels
    /\ ls[1].base = 0
    /\ \A k, l \in DOMAIN ls : k < l => ls[k].base < ls[l].base
    /\ Last(ls).base < Len(fs)
    /\ \A k \in 2..Len(ls) : fs[ls[k].base].base + fs[ls[k].base].depth <= ls[k].sp

\* A frame below a loop was entered in one of the loops around that.
Layered(fs, ls) == \A k \in 2..Len(ls) : \A i \in 1..ls[k].base : fs[i].level < k

\* What holds of the frames and loops, in whatever state the VM is.
Sound(fs, pool, n, ls, again) ==
    /\ fs \in Seq(FrameRecords) /\ pool \in Seq(1..MaxFrames) /\ n \in 1..MaxFrames
    /\ ls \in Seq(Levels) /\ again \in BOOLEAN
    /\ \A i \in DOMAIN fs : FrameFine(fs[i])
    /\ Stacked(fs)
    /\ ~again => Exact(fs)
    /\ OnceOnly(fs, pool, n)
    /\ Closures(fs, ls)

\* The stack of the active frame while code runs.
Balanced ==
    /\ Active.base + Active.depth <= sp
    /\ ~resumed => /\ sp = Active.base + Active.depth
                   /\ \A i \in DOMAIN frames : frames[i].level <= Len(levels)

IInv ==
    /\ TypeOK
    /\ Sound(frames, framePool, made, levels, resumed)
    /\ status # "ended" => /\ Nested(frames, levels)
                           /\ ~resumed => Layered(frames, levels)
                           /\ Active.base <= sp
    /\ Running => Balanced
    /\ went # due => excused

-----------------------------------------------------------------------------
(* Loops *)

\* Every loop but the first is called from a frame that is not the active one.
LEMMA LoopsOf ==
    ASSUME FramesAssumption, NEW fs \in Seq(FrameRecords), NEW ls \in Seq(Levels), Nested(fs, ls)
    PROVE  /\ Len(ls) \in Nat \ {0} /\ DOMAIN ls = 1..Len(ls) /\ Last(ls) = ls[Len(ls)]
           /\ \A k \in 1..Len(ls) : ls[k] \in Levels /\ ls[k].base \in Nat /\ ls[k].sp \in Nat
           /\ Last(ls).base \in Nat /\ Last(ls).base < Len(fs)
           /\ \A k \in 1..Len(ls) : ls[k].base <= Last(ls).base
           /\ \A k \in 2..Len(ls) : ls[k].base \in 1..(Len(fs) - 1)
           /\ fs # <<>> /\ Len(fs) \in Nat \ {0} /\ DOMAIN fs = 1..Len(fs)
<1>1. Len(ls) \in Nat \ {0} /\ DOMAIN ls = 1..Len(ls) /\ Last(ls) = ls[Len(ls)]
  BY FrontOf DEF Nested
<1>2. \A k \in 1..Len(ls) : ls[k] \in Levels
  BY ElementOfSeq
<1>3. \A k \in 1..Len(ls) : ls[k].base \in Nat /\ ls[k].sp \in Nat
  BY <1>2 DEF Levels, FramesAssumption
<1>4. /\ \A k, l \in 1..Len(ls) : k < l => ls[k].base < ls[l].base
      /\ ls[1].base = 0
      /\ Last(ls).base < Len(fs)
  BY <1>1 DEF Nested
<1>5. Len(fs) \in Nat
  BY LenProperties
<1>6. \A k \in 1..Len(ls) : ls[k].base <= Last(ls).base
  BY <1>1, <1>3, <1>4
<1>7. \A k \in 2..Len(ls) : ls[k].base \in 1..(Len(fs) - 1)
  BY <1>1, <1>3, <1>4, <1>5, <1>6
<1>8. Last(ls).base \in Nat
  BY <1>1, <1>3
<1>9. Len(fs) # 0
  BY <1>4, <1>5, <1>8
<1>10. fs # <<>>
  BY <1>9
<1> QED
  BY <1>1, <1>2, <1>3, <1>4, <1>5, <1>6, <1>7, <1>8, <1>9, <1>10, LenProperties

-----------------------------------------------------------------------------
(* Straight code *)

\* A step that changes only the expression depth, the handlers and the tries of the active
\* frame.
LEMMA ActiveChanges ==
    ASSUME FramesAssumption, IInv, Running,
           NEW f \in FrameRecords, FrameFine(f),
           f.id = Active.id, f.base = Active.base, f.via = Active.via, f.level = Active.level,
           ~resumed => \A j \in DOMAIN f.handlers : f.handlers[j].depth = f.base,
           SetActive(f), sp' \in 0..StackTop, sp' = sp + f.depth - Active.depth,
           UNCHANGED <<framePool, made, levels, status>>, Quiet
    PROVE  IInv'
<1> DEFINE n == Len(frames)
<1>1. /\ frames \in Seq(FrameRecords) /\ levels \in Seq(Levels) /\ sp \in 0..StackTop
      /\ StackTop \in Nat /\ status = "running"
      /\ \A i \in DOMAIN frames : FrameFine(frames[i])
      /\ Stacked(frames) /\ (~resumed => Exact(frames))
      /\ OnceOnly(frames, framePool, made) /\ Closures(frames, levels)
      /\ Nested(frames, levels) /\ Balanced /\ (~resumed => Layered(frames, levels))
  BY DEF IInv, Sound, TypeOK, Running, FramesAssumption
<1>2. /\ frames # <<>>
      /\ \A k \in 2..Len(levels) : levels[k].base \in 1..(n - 1)
  BY <1>1, LoopsOf
<1>3. /\ frames' \in Seq(FrameRecords) /\ frames' # <<>> /\ Len(frames') = n
      /\ DOMAIN frames' = 1..n /\ DOMAIN frames = 1..n /\ n \in Nat \ {0}
      /\ \A i \in 1..(n - 1) : frames'[i] = frames[i]
      /\ frames'[n] = f /\ Active' = f
  <2>1. frames' = Append(Front(frames), f)
    BY DEF SetActive
  <2> QED
    BY <1>1, <1>2, <2>1, Replaced DEF Active
<1>4. /\ Active = frames[n] /\ Active \in FrameRecords
      /\ \A i \in 1..n : frames[i] \in FrameRecords
  BY <1>1, <1>2, <1>3, FrontOf, ElementOfSeq DEF Active
<1>5. \A i \in 1..n : /\ frames'[i].id = frames[i].id /\ frames'[i].base = frames[i].base
                      /\ frames'[i].via = frames[i].via /\ frames'[i].level = frames[i].level
                      /\ i < n => frames'[i] = frames[i]
  <2> SUFFICES ASSUME NEW i \in 1..n
               PROVE  /\ frames'[i].id = frames[i].id /\ frames'[i].base = frames[i].base
                      /\ frames'[i].via = frames[i].via /\ frames'[i].level = frames[i].level
                      /\ i < n => frames'[i] = frames[i]
    OBVIOUS
  <2>1. CASE i = n
    BY <1>3, <1>4, <2>1
  <2>2. CASE i \in 1..(n - 1)
    BY <1>3, <2>2
  <2>3. n \in Nat
    BY <1>3
  <2>4. i = n \/ i \in 1..(n - 1)
    BY <2>3, LastOrBefore
  <2> QED
    BY <2>1, <2>2, <2>4
<1>6. n \in Nat
  BY <1>3
<1>7. Sound(frames, framePool, made, levels, resumed)'
  <2>1. \A i \in DOMAIN frames' : FrameFine(frames'[i])
    BY <1>1, <1>3, <1>5
  <2>2. Stacked(frames')
    BY <1>1, <1>3, <1>5 DEF Stacked
  <2>3. ASSUME ~resumed PROVE Exact(frames')
    <3>1. ASSUME NEW i \in 1..(n - 1)
          PROVE  frames'[i].base + frames'[i].depth = frames'[i + 1].base
      BY <1>1, <1>3, <1>5, <2>3 DEF Exact
    <3>2. ASSUME NEW i \in 1..n, NEW j \in 1..n, i < j
          PROVE  frames'[i].level <= frames'[j].level
      BY <1>1, <1>3, <1>5, <2>3, <3>2 DEF Exact
    <3>3. ASSUME NEW i \in 1..n, NEW j \in DOMAIN frames'[i].handlers
          PROVE  frames'[i].handlers[j].depth = frames'[i].base
      <4>1. CASE i = n
        BY <1>3, <2>3, <4>1
      <4>2. CASE i \in 1..(n - 1)
        <5>1. frames'[i] = frames[i]
          BY <1>3, <4>2
        <5>2. j \in DOMAIN frames[i].handlers
          BY <5>1
        <5>3. frames[i].handlers[j].depth = frames[i].base
          BY <1>1, <1>3, <2>3, <5>2 DEF Exact
        <5> QED
          BY <5>1, <5>3
      <4>3. i = n \/ i \in 1..(n - 1)
        BY <1>6, LastOrBefore
      <4> QED
        BY <4>1, <4>2, <4>3
    <3> QED
      BY <1>3, <3>1, <3>2, <3>3 DEF Exact
  <2>4. OnceOnly(frames', framePool, made)
    <3>1. OnceOnly(frames, framePool, made)
      BY <1>1
    <3>2. \A i \in 1..n : frames'[i].id = frames[i].id
      BY <1>5
    <3>3. DOMAIN frames' = 1..n /\ DOMAIN frames = 1..n /\ Len(frames') = Len(frames)
      BY <1>3
    <3> QED
      BY <3>1, <3>2, <3>3 DEF OnceOnly
  <2>5. Closures(frames', levels)
    BY <1>1, <1>3, <1>5 DEF Closures
  <2> QED
    BY <1>3, <2>1, <2>2, <2>3, <2>4, <2>5 DEF IInv, Sound, Quiet
<1>8. Nested(frames', levels)
  BY <1>1, <1>2, <1>3, <1>5 DEF Nested
<1>9. Active.base \in Nat /\ Active.depth \in Nat /\ f.depth \in Nat
  BY <1>4 DEF FrameRecords, FramesAssumption
<1>10. Balanced'
  <2>1. Active'.base + Active'.depth <= sp'
    BY <1>1, <1>3, <1>9 DEF Balanced
  <2>2. ASSUME ~resumed
        PROVE  /\ sp' = Active'.base + Active'.depth
               /\ \A i \in DOMAIN frames' : frames'[i].level <= Len(levels)
    <3>1. sp = Active.base + Active.depth /\ \A i \in 1..n : frames[i].level <= Len(levels)
      BY <1>1, <1>3, <2>2 DEF Balanced
    <3> QED
      BY <1>3, <1>5, <1>9, <3>1
  <2> QED
    BY <2>1, <2>2 DEF Balanced, Quiet
<1>11. Active'.base <= sp'
  BY <1>1, <1>3, <1>9 DEF Balanced
<1>12. TypeOK'
  BY <1>1, <1>3 DEF IInv, TypeOK, Quiet
<1>13. ASSUME ~resumed PROVE Layered(frames', levels)
  <2> SUFFICES ASSUME NEW k \in 2..Len(levels), NEW i \in 1..levels[k].base
               PROVE  frames'[i].level < k
    BY DEF Layered
  <2>1. levels[k].base \in 1..(n - 1)
    BY <1>2
  <2>2. i \in 1..n
    BY <1>6, <2>1
  <2> QED
    BY <1>1, <1>5, <1>13, <2>2 DEF Layered
<1> QED
  BY <1>1, <1>7, <1>8, <1>10, <1>11, <1>12, <1>13 DEF IInv, Running, Quiet

\* A sequence has no more different elements than its length.
LEMMA FewElements ==
    ASSUME NEW S, NEW s \in Seq(S)
    PROVE  IsFiniteSet(Range(s)) /\ Cardinality(Range(s)) <= Len(s) /\ Cardinality(Range(s)) \in Nat
<1>1. DOMAIN s = 1..Len(s) /\ s \in Surjection(DOMAIN s, Range(s))
  BY LenProperties DEF Range, Surjection
<1>2. Len(s) \in Nat
  BY LenProperties
<1>3. IsFiniteSet(1..Len(s)) /\ Cardinality(1..Len(s)) = Len(s)
  <2>1. Cardinality(1..Len(s)) = IF 1 > Len(s) THEN 0 ELSE Len(s) - 1 + 1
    BY <1>2, FS_Interval
  <2>2. (IF 1 > Len(s) THEN 0 ELSE Len(s) - 1 + 1) = Len(s)
    BY <1>2
  <2>3. IsFiniteSet(1..Len(s))
    BY <1>2, FS_Interval
  <2> QED
    BY <2>1, <2>2, <2>3
<1>4. IsFiniteSet(Range(s)) /\ Cardinality(Range(s)) <= Len(s)
  BY <1>1, <1>3, FS_Surjection
<1> QED
  BY <1>4, FS_CardinalityType

\* There is a number left for one more try.
LEMMA FreshTryIsOne ==
    ASSUME FramesAssumption, Active \in FrameRecords, FrameFine(Active),
           Len(Active.handlers) < MaxHandlers
    PROVE  FreshTry \in Tries
<1> DEFINE q == [j \in DOMAIN Active.handlers |-> Active.handlers[j].try]
           a == Len(Active.open)
           b == Len(Active.handlers)
           m == 2 * MaxHandlers + 1
           A == Range(Active.open)
           B == Range(q)
<1>1. Active.open \in Seq(Tries) /\ Active.handlers \in Seq(Handlers)
  BY DEF FrameRecords
<1>2. /\ DOMAIN Active.handlers = 1..b
      /\ \A j \in DOMAIN Active.handlers : Active.handlers[j] \in Handlers
  BY <1>1, LenProperties, ElementOfSeq
<1>3. a \in Nat /\ b \in Nat
  BY <1>1, LenProperties
<1>4. q \in Seq(Tries) /\ Len(q) = b
  <2>1. \A j \in 1..b : Active.handlers[j].try \in Tries
    BY <1>2 DEF Handlers
  <2>2. q = [j \in 1..b |-> Active.handlers[j].try]
    BY <1>2
  <2>3. q \in Seq(Tries)
    BY <1>3, <2>1, <2>2, IsASeq
  <2> QED
    BY <1>3, <2>2, <2>3, LenProperties
<1>5. Known = A \cup B
  BY DEF Known, Range
<1>6. a <= b /\ b < MaxHandlers /\ MaxHandlers \in Nat
  BY DEF FrameFine, FramesAssumption
<1>7. /\ IsFiniteSet(A) /\ Cardinality(A) \in Nat /\ Cardinality(A) <= a
      /\ IsFiniteSet(B) /\ Cardinality(B) \in Nat /\ Cardinality(B) <= b
  <2> HIDE DEF q
  <2> QED
    BY <1>1, <1>4, FewElements
<1> HIDE DEF q, a, b, A, B
<1>8. /\ IsFiniteSet(A \cup B) /\ Cardinality(A \cup B) \in Nat
      /\ Cardinality(A \cup B) = Cardinality(A) + Cardinality(B) - Cardinality(A \cap B)
      /\ Cardinality(A \cap B) \in Nat
  BY <1>7, FS_Union, FS_Intersection, FS_CardinalityType
<1>9. Cardinality(A \cup B) < m /\ m \in Nat /\ 1 <= m
  BY <1>3, <1>6, <1>7, <1>8
<1> HIDE DEF m
<1>10. Cardinality(1..m) = m
  <2>1. Cardinality(1..m) = IF 1 > m THEN 0 ELSE m - 1 + 1
    BY <1>9, FS_Interval
  <2> QED
    BY <1>9, <2>1
<1>11. ~ (1..m \subseteq A \cup B)
  BY <1>8, <1>9, <1>10, FS_Subset
<1> QED
  BY <1>5, <1>11 DEF FreshTry, Tries, m

\* The active frame while code runs.
LEMMA ActiveRuns ==
    ASSUME FramesAssumption, IInv, Running
    PROVE  /\ Active \in FrameRecords /\ FrameFine(Active)
           /\ Active.base \in Nat /\ Active.depth \in 0..MaxDepth /\ Active.depth \in Nat
           /\ Active.handlers \in Seq(Handlers) /\ Active.open \in Seq(Tries)
           /\ sp \in 0..StackTop /\ sp \in Nat /\ Active.base + Active.depth <= sp
           /\ ~resumed =>
                 /\ sp = Active.base + Active.depth
                 /\ \A j \in DOMAIN Active.handlers : Active.handlers[j].depth = Active.base
<1>1. /\ frames \in Seq(FrameRecords) /\ levels \in Seq(Levels) /\ Nested(frames, levels)
      /\ sp \in 0..StackTop /\ Balanced
  BY DEF IInv, Sound, TypeOK, Running
<1>2. frames # <<>> /\ DOMAIN frames = 1..Len(frames) /\ Len(frames) \in Nat \ {0}
  BY <1>1, LoopsOf
<1>3. Active \in FrameRecords /\ Active = frames[Len(frames)] /\ Len(frames) \in DOMAIN frames
  BY <1>1, <1>2, FrontOf DEF Active
<1>4. /\ Active.base \in Nat /\ Active.depth \in 0..MaxDepth /\ Active.depth \in Nat
      /\ Active.handlers \in Seq(Handlers) /\ Active.open \in Seq(Tries) /\ sp \in Nat
  BY <1>1, <1>3 DEF FrameRecords, FramesAssumption
<1>5. FrameFine(Active) /\ (~resumed => Exact(frames))
  BY <1>3 DEF IInv, Sound
<1>6. ~resumed => \A j \in DOMAIN Active.handlers : Active.handlers[j].depth = Active.base
  BY <1>3, <1>5 DEF Exact
<1> QED
  BY <1>1, <1>3, <1>4, <1>5, <1>6 DEF Balanced

\* Another expression depth leaves the rest of a frame as it is.
LEMMA DepthChanges ==
    ASSUME NEW f \in FrameRecords, NEW d \in 0..MaxDepth
    PROVE  /\ [f EXCEPT !.depth = d] \in FrameRecords
           /\ [f EXCEPT !.depth = d].depth = d
           /\ [f EXCEPT !.depth = d].id = f.id /\ [f EXCEPT !.depth = d].base = f.base
           /\ [f EXCEPT !.depth = d].via = f.via /\ [f EXCEPT !.depth = d].level = f.level
           /\ [f EXCEPT !.depth = d].handlers = f.handlers
           /\ FrameFine(f) => FrameFine([f EXCEPT !.depth = d])
BY DEF FrameRecords, FrameFine

\* An operand is pushed.
LEMMA PushKeeps == FramesAssumption /\ IInv /\ Push => IInv'
<1> SUFFICES ASSUME FramesAssumption, IInv, Push PROVE IInv'
  OBVIOUS
<1> DEFINE f == [Active EXCEPT !.depth = @ + 1]
<1>1. Running
  BY DEF Push
<1>2. Active.depth + 1 \in 0..MaxDepth
  BY <1>1, ActiveRuns DEF FramesAssumption, Push
<1>3. /\ f \in FrameRecords /\ f.depth = Active.depth + 1
      /\ FrameFine(f) /\ f.id = Active.id /\ f.base = Active.base /\ f.via = Active.via
      /\ f.level = Active.level /\ f.handlers = Active.handlers
  BY <1>1, <1>2, ActiveRuns, DepthChanges
<1>4. sp' \in 0..StackTop /\ sp' = sp + f.depth - Active.depth
  BY <1>1, <1>3, ActiveRuns DEF Push, FramesAssumption
<1>5. SetActive(f) /\ UNCHANGED <<framePool, made, levels, status>> /\ Quiet
  BY DEF Push
<1> HIDE DEF f
<1> QED
  BY <1>1, <1>3, <1>4, <1>5, ActiveRuns, ActiveChanges

\* An operand is popped.
LEMMA PopKeeps == FramesAssumption /\ IInv /\ Pop => IInv'
<1> SUFFICES ASSUME FramesAssumption, IInv, Pop PROVE IInv'
  OBVIOUS
<1> DEFINE f == [Active EXCEPT !.depth = @ - 1]
<1>1. Running
  BY DEF Pop
<1>2. Active.depth - 1 \in 0..MaxDepth
  BY SMTT(30), <1>1, ActiveRuns DEF FramesAssumption, Pop
<1>3. /\ f \in FrameRecords /\ f.depth = Active.depth - 1
      /\ FrameFine(f) /\ f.id = Active.id /\ f.base = Active.base /\ f.via = Active.via
      /\ f.level = Active.level /\ f.handlers = Active.handlers
  BY <1>1, <1>2, ActiveRuns, DepthChanges
<1>4. sp' \in 0..StackTop /\ sp' = sp + f.depth - Active.depth
  BY SMTT(30), <1>1, <1>3, ActiveRuns DEF Pop, FramesAssumption
<1>5. SetActive(f) /\ UNCHANGED <<framePool, made, levels, status>> /\ Quiet
  BY DEF Pop
<1> HIDE DEF f
<1> QED
  BY <1>1, <1>3, <1>4, <1>5, ActiveRuns, ActiveChanges

\* OpPushHandler keeps the handlers in step with the tries.
LEMMA EnterTryKeeps == FramesAssumption /\ IInv /\ EnterTry => IInv'
<1> SUFFICES ASSUME FramesAssumption, IInv, EnterTry PROVE IInv'
  OBVIOUS
<1> DEFINE h == [try |-> FreshTry, depth |-> sp, outer |-> Active.open]
           f == [Active EXCEPT !.handlers = Append(@, h), !.open = Append(@, FreshTry)]
           b == Len(Active.handlers)
           a == Len(Active.open)
<1>1. Running /\ Active.depth = 0 /\ sp < StackTop /\ b < MaxHandlers
  BY DEF EnterTry
<1>2. FreshTry \in Tries
  BY <1>1, ActiveRuns, FreshTryIsOne
<1>3. h \in Handlers
  BY <1>1, <1>2, ActiveRuns DEF Handlers
<1>4. /\ Append(Active.handlers, h) \in Seq(Handlers)
      /\ Append(Active.open, FreshTry) \in Seq(Tries)
      /\ b \in Nat /\ DOMAIN Active.handlers = 1..b /\ a \in Nat
      /\ Len(Append(Active.handlers, h)) = b + 1 /\ Len(Append(Active.open, FreshTry)) = a + 1
      /\ DOMAIN Append(Active.handlers, h) = 1..(b + 1)
      /\ \A i \in 1..b : Append(Active.handlers, h)[i] = Active.handlers[i]
      /\ Append(Active.handlers, h)[b + 1] = h
      /\ DOMAIN Active.open = 1..a /\ DOMAIN Append(Active.open, FreshTry) = 1..(a + 1)
      /\ \A i \in 1..a : Append(Active.open, FreshTry)[i] = Active.open[i]
      /\ Append(Active.open, FreshTry)[a + 1] = FreshTry
  BY <1>1, <1>2, <1>3, ActiveRuns, Appended
<1>5. /\ f.handlers = Append(Active.handlers, h) /\ f.open = Append(Active.open, FreshTry)
      /\ f.id = Active.id /\ f.base = Active.base /\ f.via = Active.via
      /\ f.level = Active.level /\ f.depth = Active.depth /\ f.jumped = Active.jumped
  BY <1>1, ActiveRuns DEF FrameRecords
<1>6. f \in FrameRecords
  BY <1>1, <1>4, ActiveRuns DEF FrameRecords
<1> HIDE DEF f
<1>7. FrameFine(f)
  <2>1. f.base < StackTop /\ Len(f.open) <= Len(f.handlers) /\ Len(f.handlers) <= MaxHandlers
    BY <1>1, <1>4, <1>5, ActiveRuns DEF FrameFine, FramesAssumption
  <2>2. ~f.jumped => f.open = [j \in DOMAIN f.handlers |-> f.handlers[j].try]
    <3> SUFFICES ASSUME ~Active.jumped
                 PROVE  f.open = [j \in DOMAIN f.handlers |-> f.handlers[j].try]
      BY <1>5
    <3>1. Active.open = [j \in 1..b |-> Active.handlers[j].try]
      BY <1>1, <1>4, ActiveRuns DEF FrameFine
    <3>2. a = b
      BY <1>4, <3>1
    <3>3. ASSUME NEW j \in 1..(b + 1) PROVE f.open[j] = f.handlers[j].try
      <4>1. CASE j = b + 1
        BY <1>4, <1>5, <3>2, <4>1
      <4>2. CASE j \in 1..b
        BY <1>4, <1>5, <3>1, <3>2, <4>2
      <4> QED
        BY <1>4, <4>1, <4>2, LastOrBefore
    <3>4. f.open \in Seq(Tries) /\ DOMAIN f.open = 1..(b + 1)
      BY <1>4, <1>5, <3>2
    <3> QED
      BY <1>4, <1>5, <3>3, <3>4
  <2>3. ASSUME NEW j \in DOMAIN f.handlers
        PROVE  /\ Len(f.handlers[j].outer) < j
               /\ f.base <= f.handlers[j].depth /\ f.handlers[j].depth < StackTop
               /\ ~f.jumped => f.handlers[j].outer = [k \in 1..(j - 1) |-> f.handlers[k].try]
    <3>1. CASE j = b + 1
      <4>1. f.handlers[j] = h
        BY <1>4, <1>5, <3>1
      <4>2. Len(Active.open) < j
        BY <1>1, <1>4, <3>1, ActiveRuns DEF FrameFine
      <4>3. f.base <= sp
        BY <1>1, <1>5, ActiveRuns
      <4>4. ASSUME ~f.jumped
            PROVE  Active.open = [k \in 1..(j - 1) |-> f.handlers[k].try]
        <5>1. Active.open = [k \in 1..b |-> Active.handlers[k].try]
          BY <1>1, <1>4, <1>5, <4>4, ActiveRuns DEF FrameFine
        <5>2. j - 1 = b
          BY <1>4, <3>1
        <5>3. \A k \in 1..b : f.handlers[k].try = Active.handlers[k].try
          BY <1>4, <1>5
        <5> QED
          BY <5>1, <5>2, <5>3
      <4> QED
        BY <1>1, <4>1, <4>2, <4>3, <4>4
    <3>2. CASE j \in 1..b
      <4>1. f.handlers[j] = Active.handlers[j] /\ j \in DOMAIN Active.handlers
        BY <1>4, <1>5, <3>2
      <4>2. \A k \in 1..(j - 1) : f.handlers[k].try = Active.handlers[k].try
        BY <1>4, <1>5, <3>2
      <4>3. /\ Len(Active.handlers[j].outer) < j
            /\ Active.base <= Active.handlers[j].depth /\ Active.handlers[j].depth < StackTop
            /\ ~Active.jumped =>
                  Active.handlers[j].outer = [k \in 1..(j - 1) |-> Active.handlers[k].try]
        BY <1>1, <4>1, ActiveRuns DEF FrameFine
      <4> QED
        BY <1>5, <4>1, <4>2, <4>3
    <3>3. j = b + 1 \/ j \in 1..b
      <4>1. b \in Nat /\ j \in 1..(b + 1)
        BY <1>4, <1>5
      <4> QED
        BY <4>1
    <3> QED
      BY <3>1, <3>2, <3>3
  <2> QED
    BY <2>1, <2>2, <2>3 DEF FrameFine
<1>8. ~resumed => \A j \in DOMAIN f.handlers : f.handlers[j].depth = f.base
  <2> SUFFICES ASSUME ~resumed, NEW j \in 1..(b + 1) PROVE f.handlers[j].depth = f.base
    BY <1>4, <1>5
  <2>1. CASE j = b + 1
    BY <1>1, <1>4, <1>5, <2>1, ActiveRuns
  <2>2. CASE j \in 1..b
    BY SMTT(30), <1>1, <1>4, <1>5, <2>2, ActiveRuns
  <2> QED
    BY <1>4, <2>1, <2>2, LastOrBefore
<1>9. sp' \in 0..StackTop /\ sp' = sp + f.depth - Active.depth
  BY <1>1, <1>5, ActiveRuns DEF EnterTry
<1>10. SetActive(f) /\ UNCHANGED <<framePool, made, levels, status>> /\ Quiet
  BY DEF EnterTry, f
<1> QED
  BY <1>1, <1>5, <1>6, <1>7, <1>8, <1>9, <1>10, ActiveChanges

\* What a frame is without its last handler, with the tries o and d operands.
WithoutHandler(f, o, d) == [f EXCEPT !.handlers = Front(@), !.open = o, !.depth = d]

\* A frame that loses its last handler and keeps the tries that were around that one's.
LEMMA HandlerGoes ==
    ASSUME FramesAssumption, NEW f \in FrameRecords, FrameFine(f), f.handlers # <<>>,
           NEW o \in Seq(Tries), Len(o) < Len(f.handlers),
           ~f.jumped => o = [k \in 1..(Len(f.handlers) - 1) |-> f.handlers[k].try],
           NEW d \in 0..MaxDepth
    PROVE  LET g == WithoutHandler(f, o, d) IN
           /\ g \in FrameRecords /\ FrameFine(g)
           /\ g.id = f.id /\ g.base = f.base /\ g.via = f.via /\ g.level = f.level
           /\ g.depth = d /\ g.jumped = f.jumped /\ g.open = o /\ g.handlers = Front(f.handlers)
           /\ \A j \in DOMAIN g.handlers : j \in DOMAIN f.handlers /\ g.handlers[j] = f.handlers[j]
<1> DEFINE g == WithoutHandler(f, o, d)
           b == Len(f.handlers)
           q == Front(f.handlers)
<1>1. f.handlers \in Seq(Handlers)
  BY DEF FrameRecords
<1>2. /\ b \in Nat \ {0} /\ q \in Seq(Handlers) /\ Len(q) = b - 1 /\ DOMAIN q = 1..(b - 1)
      /\ DOMAIN f.handlers = 1..b
      /\ \A i \in 1..(b - 1) : q[i] = f.handlers[i]
  BY <1>1, FrontOf
<1>3. /\ g.handlers = q /\ g.open = o /\ g.depth = d /\ g.id = f.id /\ g.base = f.base
      /\ g.via = f.via /\ g.level = f.level /\ g.jumped = f.jumped
  BY DEF FrameRecords, WithoutHandler
<1>4. g \in FrameRecords
  BY <1>2 DEF FrameRecords, WithoutHandler
<1>5. Len(o) \in Nat
  BY LenProperties
<1>6. g.base < StackTop /\ Len(g.open) <= Len(g.handlers) /\ Len(g.handlers) <= MaxHandlers
  BY <1>2, <1>3, <1>5 DEF FrameFine, FramesAssumption
<1> HIDE DEF q, g
<1>7. \A j \in 1..(b - 1) : j \in 1..b /\ g.handlers[j] = f.handlers[j]
  BY <1>2, <1>3
<1>8. ~g.jumped => g.open = [j \in DOMAIN g.handlers |-> g.handlers[j].try]
  <2> SUFFICES ASSUME ~f.jumped PROVE o = [j \in 1..(b - 1) |-> g.handlers[j].try]
    BY <1>2, <1>3
  <2> QED
    BY <1>7
<1>9. ASSUME NEW j \in 1..(b - 1)
      PROVE  /\ Len(g.handlers[j].outer) < j
             /\ g.base <= g.handlers[j].depth /\ g.handlers[j].depth < StackTop
             /\ ~g.jumped => g.handlers[j].outer = [k \in 1..(j - 1) |-> g.handlers[k].try]
  <2>1. \A k \in 1..(j - 1) : g.handlers[k].try = f.handlers[k].try
    BY SMTT(30), <1>2, <1>7
  <2>2. j \in DOMAIN f.handlers /\ g.handlers[j] = f.handlers[j]
    BY <1>2, <1>7
  <2>3. /\ Len(f.handlers[j].outer) < j
        /\ f.base <= f.handlers[j].depth /\ f.handlers[j].depth < StackTop
        /\ ~f.jumped => f.handlers[j].outer = [k \in 1..(j - 1) |-> f.handlers[k].try]
    BY <2>2 DEF FrameFine
  <2> QED
    BY <1>3, <2>1, <2>2, <2>3
<1>10. FrameFine(g)
  BY <1>2, <1>3, <1>6, <1>8, <1>9 DEF FrameFine
<1>11. \A j \in DOMAIN g.handlers : j \in DOMAIN f.handlers /\ g.handlers[j] = f.handlers[j]
  BY <1>2, <1>3, <1>7
<1> QED
  BY <1>2, <1>3, <1>4, <1>10, <1>11 DEF g, q

\* OpPopHandler does so too.
LEMMA ExitTryKeeps == FramesAssumption /\ IInv /\ ExitTry => IInv'
<1> SUFFICES ASSUME FramesAssumption, IInv, ExitTry PROVE IInv'
  OBVIOUS
<1> DEFINE b == Len(Active.handlers)
           a == Len(Active.open)
           o == Front(Active.open)
           f == WithoutHandler(Active, o, 0)
<1>1. Running /\ Active.depth = 0 /\ Active.open # <<>>
  BY DEF ExitTry
<1>2. Active.open \in Seq(Tries) /\ Active.handlers \in Seq(Handlers) /\ Active \in FrameRecords
      /\ FrameFine(Active)
  BY <1>1, ActiveRuns
<1>3. /\ o \in Seq(Tries) /\ Len(o) = a - 1 /\ a \in Nat \ {0}
      /\ \A i \in 1..(a - 1) : o[i] = Active.open[i]
      /\ DOMAIN o = 1..(a - 1)
  BY <1>1, <1>2, FrontOf
<1>4. a <= b /\ b \in Nat /\ DOMAIN Active.handlers = 1..b
  BY <1>2, LenProperties DEF FrameFine
<1>5. Active.handlers # <<>> /\ Len(o) < b
  <2>1. b # 0 /\ a - 1 < b
    BY <1>3, <1>4
  <2> QED
    BY <1>3, <2>1
<1>6. ~Active.jumped => o = [k \in 1..(b - 1) |-> Active.handlers[k].try]
  <2> SUFFICES ASSUME ~Active.jumped PROVE o = [k \in 1..(b - 1) |-> Active.handlers[k].try]
    OBVIOUS
  <2>1. Active.open = [k \in 1..b |-> Active.handlers[k].try]
    BY <1>2, <1>4 DEF FrameFine
  <2>2. a = b
    BY <1>4, <2>1
  <2>3. \A k \in 1..(b - 1) : o[k] = Active.handlers[k].try
    BY <1>3, <1>4, <2>1, <2>2
  <2> QED
    BY <1>3, <2>2, <2>3
<1>7. 0 \in 0..MaxDepth
  BY DEF FramesAssumption
<1>8. /\ f \in FrameRecords /\ FrameFine(f)
      /\ f.id = Active.id /\ f.base = Active.base /\ f.via = Active.via /\ f.level = Active.level
      /\ f.depth = 0
      /\ \A j \in DOMAIN f.handlers :
            j \in DOMAIN Active.handlers /\ f.handlers[j] = Active.handlers[j]
  BY <1>2, <1>3, <1>5, <1>6, <1>7, HandlerGoes
<1>9. SetActive(f)
  <2>1. f = [Active EXCEPT !.handlers = IF @ # <<>> THEN Front(@) ELSE @, !.open = Front(@)]
    BY <1>1, <1>2, <1>5 DEF FrameRecords, WithoutHandler
  <2> QED
    BY <2>1 DEF ExitTry
<1>10. UNCHANGED <<framePool, made, sp, levels, status>> /\ Quiet
  BY DEF ExitTry
<1>11. sp' \in 0..StackTop /\ sp' = sp + f.depth - Active.depth
  BY <1>1, <1>8, <1>10, ActiveRuns
<1>12. ~resumed => \A j \in DOMAIN f.handlers : f.handlers[j].depth = f.base
  BY <1>1, <1>8, ActiveRuns
<1> HIDE DEF f
<1> QED
  BY <1>1, <1>8, <1>9, <1>10, <1>11, <1>12, ActiveChanges

\* A jump leaves fewer tries than handlers.
LEMMA JumpKeeps == FramesAssumption /\ IInv /\ Jump => IInv'
<1> SUFFICES ASSUME FramesAssumption, IInv, Jump PROVE IInv'
  OBVIOUS
<1>1. Running
  BY DEF Jump
<1>2. Active.open \in Seq(Tries) /\ Active.handlers \in Seq(Handlers) /\ Active \in FrameRecords
      /\ FrameFine(Active)
  BY <1>1, ActiveRuns
<1>3. PICK n \in 0..(Len(Active.open) - 1) :
          SetActive([Active EXCEPT !.open = SubSeq(@, 1, n), !.jumped = TRUE])
  BY DEF Jump
<1> DEFINE o == SubSeq(Active.open, 1, n)
           f == [Active EXCEPT !.open = o, !.jumped = TRUE]
<1>4. n \in 0..Len(Active.open) /\ n <= Len(Active.open) /\ Len(Active.open) \in Nat /\ n \in Nat
  BY <1>2, <1>3, LenProperties
<1>5. o \in Seq(Tries) /\ Len(o) = n
  BY <1>2, <1>4, Prefix
<1>6. /\ f.open = o /\ f.jumped = TRUE /\ f.handlers = Active.handlers
      /\ f.id = Active.id /\ f.base = Active.base /\ f.via = Active.via /\ f.level = Active.level
      /\ f.depth = Active.depth
  BY <1>2 DEF FrameRecords
<1>7. f \in FrameRecords
  BY <1>2, <1>5 DEF FrameRecords
<1>8. SetActive(f)
  BY <1>3
<1> HIDE DEF f, o
<1>9. Len(f.open) <= Len(f.handlers)
  <2>1. Len(Active.open) <= Len(Active.handlers) /\ Len(Active.handlers) \in Nat
    BY <1>2, LenProperties DEF FrameFine
  <2> QED
    BY <1>4, <1>5, <1>6, <2>1
<1>10. FrameFine(f)
  BY <1>2, <1>6, <1>9 DEF FrameFine
<1>11. UNCHANGED <<framePool, made, sp, levels, status>> /\ Quiet
  BY DEF Jump
<1>12. sp' \in 0..StackTop /\ sp' = sp + f.depth - Active.depth
  BY <1>1, <1>6, <1>11, ActiveRuns
<1>13. ~resumed => \A j \in DOMAIN f.handlers : f.handlers[j].depth = f.base
  BY <1>1, <1>6, ActiveRuns
<1> QED
  BY <1>1, <1>6, <1>7, <1>8, <1>10, <1>11, <1>12, <1>13, ActiveChanges

-----------------------------------------------------------------------------
(* Calls and returns *)

\* A sequence whose last element is replaced and that gets one more.
LEMMA Extended ==
    ASSUME NEW S, NEW s \in Seq(S), s # <<>>, NEW x \in S, NEW y \in S
    PROVE  LET t == Front(s) \o <<x, y>> IN
           /\ t \in Seq(S) /\ t # <<>> /\ Len(t) = Len(s) + 1 /\ DOMAIN t = 1..(Len(s) + 1)
           /\ Len(s) \in Nat \ {0} /\ DOMAIN s = 1..Len(s)
           /\ \A i \in 1..(Len(s) - 1) : t[i] = s[i]
           /\ t[Len(s)] = x /\ t[Len(s) + 1] = y /\ Last(t) = y
<1> DEFINE t == Front(s) \o <<x, y>>
<1>1. Front(s) \in Seq(S) /\ Len(Front(s)) = Len(s) - 1 /\ Len(s) \in Nat \ {0}
      /\ DOMAIN s = 1..Len(s) /\ \A i \in 1..(Len(s) - 1) : Front(s)[i] = s[i]
  BY FrontOf
<1>2. <<x, y>> \in Seq(S) /\ Len(<<x, y>>) = 2 /\ <<x, y>>[1] = x /\ <<x, y>>[2] = y
  OBVIOUS
<1>3. /\ t \in Seq(S) /\ Len(t) = Len(s) + 1
      /\ \A i \in 1..(Len(s) + 1) :
            t[i] = IF i <= Len(s) - 1 THEN Front(s)[i] ELSE <<x, y>>[i - (Len(s) - 1)]
  <2>1. /\ t \in Seq(S) /\ Len(t) = Len(Front(s)) + 2
        /\ \A i \in 1..(Len(Front(s)) + 2) :
              t[i] = IF i <= Len(Front(s)) THEN Front(s)[i] ELSE <<x, y>>[i - Len(Front(s))]
    BY <1>1, <1>2, ConcatProperties
  <2>2. Len(Front(s)) + 2 = Len(s) + 1
    BY <1>1
  <2> QED
    BY <1>1, <2>1, <2>2
<1> HIDE DEF t
<1>4. t[Len(s)] = x /\ t[Len(s) + 1] = y
  <2>1. /\ Len(s) \in 1..(Len(s) + 1) /\ ~ (Len(s) <= Len(s) - 1)
        /\ Len(s) - (Len(s) - 1) = 1
        /\ Len(s) + 1 \in 1..(Len(s) + 1) /\ ~ (Len(s) + 1 <= Len(s) - 1)
        /\ Len(s) + 1 - (Len(s) - 1) = 2
    BY <1>1
  <2> QED
    BY <1>2, <1>3, <2>1
<1>5. \A i \in 1..(Len(s) - 1) : t[i] = s[i]
  BY <1>1, <1>3
<1>6. t # <<>>
  BY <1>1, <1>3
<1>7. DOMAIN t = 1..(Len(s) + 1)
  BY <1>3, LenProperties
<1> QED
  BY <1>1, <1>3, <1>4, <1>5, <1>6, <1>7 DEF Last, t

\* The identity of the frame that acquireFrame returns.
Acquired == IF framePool # <<>> THEN Last(framePool) ELSE made + 1

\* The frame that is acquired is none of those in use, and leaves the pool.
LEMMA AcquiredIsFresh ==
    ASSUME FramesAssumption, Sound(frames, framePool, made, levels, resumed),
           NEW base, NEW via, NEW level, Acquire(base, via, level)
    PROVE  /\ Acquired \in 1..MaxFrames /\ framePool' \in Seq(1..MaxFrames)
           /\ made' \in 1..MaxFrames /\ Acquired <= made' /\ made <= made'
           /\ Len(frames) + 1 + Len(framePool') = made'
           /\ \A i \in DOMAIN frames : frames[i].id # Acquired /\ frames[i].id <= made'
           /\ \A j \in DOMAIN framePool' :
                 /\ j \in DOMAIN framePool /\ framePool'[j] = framePool[j]
                 /\ framePool'[j] # Acquired /\ framePool'[j] <= made'
<1> DEFINE p == Len(framePool)
<1>1. /\ frames \in Seq(FrameRecords) /\ framePool \in Seq(1..MaxFrames)
      /\ made \in 1..MaxFrames /\ OnceOnly(frames, framePool, made)
  BY DEF Sound
<1>2. /\ Len(frames) \in Nat /\ made \in Nat /\ MaxFrames \in Nat
      /\ p \in Nat /\ Len(frames) + p = made
  BY <1>1, LenProperties DEF FramesAssumption, OnceOnly
<1>3. /\ \A i \in DOMAIN frames : frames[i].id \in Nat /\ frames[i].id <= made
      /\ \A j \in DOMAIN framePool : framePool[j] \in Nat /\ framePool[j] <= made
  <2>1. \A i \in DOMAIN frames : frames[i] \in FrameRecords
    BY <1>1, ElementOfSeq, LenProperties
  <2>2. \A j \in DOMAIN framePool : framePool[j] \in 1..MaxFrames
    BY <1>1, ElementOfSeq, LenProperties
  <2> QED
    BY <1>1, <2>1, <2>2 DEF OnceOnly, FrameRecords
<1>4. IF framePool # <<>> THEN framePool' = Front(framePool) /\ made' = made
                          ELSE made < MaxFrames /\ made' = made + 1 /\ framePool' = framePool
  BY DEF Acquire
<1>5. CASE framePool # <<>>
  <2>1. /\ p \in Nat \ {0} /\ DOMAIN framePool = 1..p /\ p \in DOMAIN framePool
        /\ framePool' \in Seq(1..MaxFrames) /\ Len(framePool') = p - 1
        /\ DOMAIN framePool' = 1..(p - 1)
        /\ \A i \in 1..(p - 1) : framePool'[i] = framePool[i]
        /\ Acquired \in 1..MaxFrames /\ Acquired = framePool[p] /\ made' = made
    <3>1. framePool' = Front(framePool) /\ made' = made /\ Acquired = Last(framePool)
      BY <1>4, <1>5 DEF Acquired
    <3> QED
      BY <1>1, <1>5, <3>1, FrontOf
  <2>2. Len(frames) + 1 + Len(framePool') = made'
    <3>1. Len(framePool') = p - 1 /\ made' = made
      BY <2>1
    <3> QED
      BY <1>2, <3>1
  <2>3. Acquired <= made' /\ \A i \in DOMAIN frames : frames[i].id # Acquired
    BY <1>1, <2>1 DEF OnceOnly
  <2>4. \A j \in 1..(p - 1) : j \in 1..p /\ j # p
    BY <1>2
  <2>5. \A j \in DOMAIN framePool' : j \in DOMAIN framePool /\ framePool'[j] = framePool[j]
                                     /\ framePool'[j] # Acquired
    BY <1>1, <2>1, <2>4 DEF OnceOnly
  <2> QED
    BY <1>1, <1>2, <1>3, <2>1, <2>2, <2>3, <2>5
<1>6. CASE framePool = <<>>
  <2>1. framePool' = framePool /\ made' = made + 1 /\ Acquired = made + 1 /\ made < MaxFrames
    BY <1>4, <1>6 DEF Acquired
  <2>2. p = 0 /\ DOMAIN framePool = {}
    BY <1>6
  <2> QED
    BY <1>1, <1>2, <1>3, <2>1, <2>2
<1> QED
  BY <1>5, <1>6

\* A frame that has just been entered.
LEMMA NewFrameFine ==
    ASSUME FramesAssumption, NEW id \in 1..MaxFrames, NEW base \in 0..StackTop,
           base < StackTop, NEW via \in Vias, NEW level \in 1..MaxLevels
    PROVE  LET f == NewFrame(id, base, via, level) IN
           /\ f \in FrameRecords /\ FrameFine(f)
           /\ f.id = id /\ f.base = base /\ f.via = via /\ f.level = level /\ f.depth = 0
           /\ DOMAIN f.handlers = {}
BY DEF NewFrame, FrameRecords, FrameFine, FramesAssumption

\* How the loops change when a frame is entered: a call stays in its loop, a callback
\* starts one.
LoopsGrow(via, level) ==
    \/ via = "call" /\ level = Len(levels) /\ levels' = levels
    \/ /\ via # "call" /\ Len(levels) < MaxLevels /\ level = Len(levels) + 1
       /\ levels' = Append(levels, [base |-> Len(frames), via |-> via, sp |-> sp - 1])

\* The loops after that: those there were, and one at most above the active frame.
LEMMA LoopsGrown ==
    ASSUME FramesAssumption, IInv, Running, Active.depth > 0,
           NEW via \in Vias, NEW level, LoopsGrow(via, level), Len(frames) < MaxFrames
    PROVE  /\ levels' \in Seq(Levels) /\ levels' # <<>> /\ DOMAIN levels' = 1..level
           /\ Len(levels') = level /\ level \in 1..MaxLevels /\ Last(levels') = levels'[level]
           /\ Len(levels) \in Nat /\ Len(levels) <= level /\ level <= Len(levels) + 1
           /\ \A k \in 1..Len(levels) : levels'[k] = levels[k]
           /\ via = "call" => level = Len(levels)
           /\ via # "call" => level = Len(levels) + 1
           /\ level = Len(levels) + 1 =>
                 levels'[level] = [base |-> Len(frames), via |-> via, sp |-> sp - 1]
<1>1. /\ levels \in Seq(Levels) /\ levels # <<>> /\ Len(levels) <= MaxLevels
      /\ frames \in Seq(FrameRecords)
  BY DEF IInv, Sound, Running, Nested
<1>2. /\ Len(levels) \in Nat \ {0} /\ DOMAIN levels = 1..Len(levels)
      /\ Last(levels) = levels[Len(levels)]
  BY <1>1, FrontOf
<1>3. CASE via = "call" /\ level = Len(levels) /\ levels' = levels
  <2>1. \A a, b \in Nat :
            a # 0 /\ a <= b => a \in 1..b /\ a # a + 1 /\ a <= a /\ a <= a + 1
    OBVIOUS
  <2>2. Len(levels) \in Nat /\ Len(levels) # 0 /\ MaxLevels \in Nat
    BY <1>2 DEF FramesAssumption
  <2>3. /\ Len(levels) \in 1..MaxLevels /\ Len(levels) # Len(levels) + 1
        /\ Len(levels) <= Len(levels) /\ Len(levels) <= Len(levels) + 1
    BY <1>1, <2>1, <2>2
  <2> HIDE <2>1
  <2> QED
    BY <1>1, <1>2, <1>3, <2>3
<1>4. CASE via # "call" /\ level = Len(levels) + 1 /\ Len(levels) < MaxLevels
           /\ levels' = Append(levels, [base |-> Len(frames), via |-> via, sp |-> sp - 1])
  <2> DEFINE l == [base |-> Len(frames), via |-> via, sp |-> sp - 1]
  <2>1. Len(frames) \in 0..MaxFrames
    BY <1>1, LenProperties DEF FramesAssumption
  <2>2. sp - 1 \in 0..StackTop
    BY ActiveRuns DEF FramesAssumption
  <2>3. l \in Levels
    BY <2>1, <2>2 DEF Levels
  <2> HIDE DEF l
  <2>4. levels' = Append(levels, l)
    BY <1>4 DEF l
  <2>5. /\ levels' \in Seq(Levels) /\ levels' # <<>>
        /\ Len(levels') = level /\ DOMAIN levels' = 1..level
        /\ \A k \in 1..Len(levels) : levels'[k] = levels[k]
        /\ levels'[level] = l
    BY <1>1, <1>4, <2>3, <2>4, Appended
  <2>6. level \in 1..MaxLevels /\ Len(levels) <= level /\ level <= Len(levels) + 1
    BY <1>2, <1>4 DEF FramesAssumption
  <2>7. Last(levels') = levels'[level]
    BY <2>5 DEF Last
  <2> QED
    BY <1>2, <1>4, <2>5, <2>6, <2>7 DEF l
<1> QED
  BY <1>3, <1>4 DEF LoopsGrow

\* A frame is entered on top of the active one, by a call or by a callback.
LEMMA Entered ==
    ASSUME FramesAssumption, IInv, Running, Active.depth > 0,
           NEW via \in Vias, NEW level, LoopsGrow(via, level),
           Acquire(sp - 1, via, level), sp' = sp - 1, UNCHANGED status, Quiet
    PROVE  IInv'
<1> DEFINE n == Len(frames)
           m == Len(levels)
           f == [Active EXCEPT !.depth = Active.depth - 1]
           g == NewFrame(Acquired, sp - 1, via, level)
<1>1. /\ frames \in Seq(FrameRecords) /\ Sound(frames, framePool, made, levels, resumed)
      /\ \A i \in DOMAIN frames : FrameFine(frames[i])
      /\ Stacked(frames) /\ (~resumed => Exact(frames))
      /\ OnceOnly(frames, framePool, made) /\ Closures(frames, levels)
      /\ Nested(frames, levels) /\ Balanced /\ levels \in Seq(Levels)
      /\ (~resumed => Layered(frames, levels))
  BY DEF IInv, Sound, Running
<1>2. /\ frames # <<>> /\ n \in Nat \ {0} /\ DOMAIN frames = 1..n
      /\ \A k \in 2..m : levels[k].base \in 1..(n - 1)
      /\ \A k \in 1..m : levels[k].base \in Nat /\ levels[k].sp \in Nat
      /\ Last(levels).base \in Nat /\ Last(levels).base < n
      /\ m \in Nat \ {0} /\ DOMAIN levels = 1..m
      /\ \A k \in 1..m : levels[k].base <= Last(levels).base
  BY <1>1, LoopsOf
<1>3. n < MaxFrames /\ sp - 1 < StackTop
  BY DEF Acquire
<1>4. /\ levels' \in Seq(Levels) /\ levels' # <<>> /\ DOMAIN levels' = 1..level
      /\ Len(levels') = level /\ level \in 1..MaxLevels /\ Last(levels') = levels'[level]
      /\ m <= level /\ level <= m + 1
      /\ \A k \in 1..m : levels'[k] = levels[k]
      /\ via = "call" => level = m
      /\ via # "call" => level = m + 1
      /\ level = m + 1 => levels'[level] = [base |-> n, via |-> via, sp |-> sp - 1]
  BY <1>3, LoopsGrown
<1>5. /\ Active \in FrameRecords /\ FrameFine(Active) /\ Active.base \in Nat
      /\ Active.depth \in 0..MaxDepth /\ Active.depth \in Nat /\ sp \in Nat /\ sp \in 0..StackTop
      /\ Active.base + Active.depth <= sp
      /\ ~resumed => sp = Active.base + Active.depth
  BY ActiveRuns
<1>6. Active.depth - 1 \in 0..MaxDepth /\ sp - 1 \in 0..StackTop /\ MaxDepth \in Nat
  BY <1>5 DEF FramesAssumption
<1>7. /\ f \in FrameRecords /\ f.depth = Active.depth - 1 /\ FrameFine(f) /\ f.id = Active.id
      /\ f.base = Active.base /\ f.via = Active.via /\ f.level = Active.level
      /\ f.handlers = Active.handlers
  BY <1>5, <1>6, DepthChanges
<1>8. /\ Acquired \in 1..MaxFrames /\ framePool' \in Seq(1..MaxFrames)
      /\ made' \in 1..MaxFrames /\ Acquired <= made' /\ made <= made'
      /\ n + 1 + Len(framePool') = made'
      /\ \A i \in DOMAIN frames : frames[i].id # Acquired /\ frames[i].id <= made'
      /\ \A j \in DOMAIN framePool' :
            /\ j \in DOMAIN framePool /\ framePool'[j] = framePool[j]
            /\ framePool'[j] # Acquired /\ framePool'[j] <= made'
  BY <1>1, AcquiredIsFresh
<1>9. /\ g \in FrameRecords /\ FrameFine(g)
      /\ g.id = Acquired /\ g.base = sp - 1 /\ g.via = via /\ g.level = level /\ g.depth = 0
      /\ DOMAIN g.handlers = {}
  BY <1>3, <1>4, <1>6, <1>8, NewFrameFine
<1>10. frames' = Front(frames) \o <<f, g>>
  BY DEF Acquire, Acquired
<1> HIDE DEF f, g
<1>11. /\ frames' \in Seq(FrameRecords) /\ frames' # <<>> /\ Len(frames') = n + 1
       /\ DOMAIN frames' = 1..(n + 1)
       /\ \A i \in 1..(n - 1) : frames'[i] = frames[i]
       /\ frames'[n] = f /\ frames'[n + 1] = g /\ Last(frames') = g
  BY <1>1, <1>2, <1>7, <1>9, <1>10, Extended
<1>12. Active' = g /\ Active = frames[n]
  BY <1>11 DEF Active, Last
<1> HIDE DEF n, m
<1>13. \A i \in 1..n : /\ frames'[i].id = frames[i].id /\ frames'[i].base = frames[i].base
                       /\ frames'[i].via = frames[i].via /\ frames'[i].level = frames[i].level
                       /\ frames'[i].handlers = frames[i].handlers
                       /\ FrameFine(frames'[i])
  <2> SUFFICES ASSUME NEW i \in 1..n
               PROVE  /\ frames'[i].id = frames[i].id /\ frames'[i].base = frames[i].base
                      /\ frames'[i].via = frames[i].via /\ frames'[i].level = frames[i].level
                      /\ frames'[i].handlers = frames[i].handlers
                      /\ FrameFine(frames'[i])
    OBVIOUS
  <2>1. CASE i = n
    BY <1>7, <1>11, <1>12, <2>1
  <2>2. CASE i \in 1..(n - 1)
    BY <1>1, <1>2, <1>11, <2>2
  <2> QED
    BY <1>2, <2>1, <2>2, LastOrBefore
<1>14. \A i \in 1..(n + 1) : i = n + 1 \/ i \in 1..n
  BY <1>2
<1>15. \A i \in DOMAIN frames' : FrameFine(frames'[i])
  BY <1>9, <1>11, <1>13, <1>14
<1>16. \A i \in 1..n : /\ frames[i].base \in Nat /\ frames[i].depth \in Nat
                       /\ frames[i].level \in Nat
                       /\ i < n => frames[i].base + frames[i].depth <= Active.base
                                   /\ frames[i].depth < MaxDepth
  <2>1. \A i \in 1..n : frames[i] \in FrameRecords
    BY <1>1, <1>2, ElementOfSeq DEF n
  <2>2. \A i \in 1..n : frames[i].base \in Nat /\ frames[i].depth \in Nat
                        /\ frames[i].level \in Nat
    BY <2>1 DEF FrameRecords, FramesAssumption
  <2>3. n \in 1..n
    BY <1>2
  <2> QED
    BY <1>1, <1>2, <1>12, <2>2, <2>3 DEF Stacked
<1>17. Stacked(frames')
  <2> SUFFICES ASSUME NEW i \in 1..(n + 1), NEW j \in 1..(n + 1), i < j
               PROVE  frames'[i].base + frames'[i].depth <= frames'[j].base
                      /\ frames'[i].depth < MaxDepth
    BY <1>11 DEF Stacked
  <2>1. CASE i = n
    <3>1. j = n + 1
      BY <1>2, <2>1
    <3> QED
      BY <1>5, <1>6, <1>7, <1>9, <1>11, <2>1, <3>1
  <2>2. CASE i \in 1..(n - 1)
    <3>1. frames'[i] = frames[i] /\ frames[i].depth < MaxDepth
      BY <1>2, <1>11, <1>16, <2>2
    <3>2. CASE j = n + 1
      <4>1. frames[i].base + frames[i].depth <= Active.base
        <5>1. \A a \in Nat : \A b \in 1..(a - 1) : b \in 1..a /\ b < a
          OBVIOUS
        <5>2. n \in Nat
          BY <1>2
        <5>3. i \in 1..n /\ i < n
          BY <2>2, <5>1, <5>2
        <5> QED
          BY <1>16, <5>3
      <4>2. frames[i].base + frames[i].depth \in Nat
        <5>1. i \in 1..n
          BY <1>2
        <5> QED
          BY <1>16, <5>1
      <4>3. Active.base <= sp - 1
        BY <1>5
      <4>4. frames'[j].base = sp - 1
        BY <1>9, <1>11, <3>2
      <4> QED
        BY <1>5, <3>1, <4>1, <4>2, <4>3, <4>4
    <3>3. CASE j \in 1..n
      <4>1. i \in DOMAIN frames /\ j \in DOMAIN frames
        BY <1>2, <3>3
      <4>2. frames[i].base + frames[i].depth <= frames[j].base
        BY <1>1, <4>1 DEF Stacked
      <4> QED
        BY <1>13, <3>1, <3>3, <4>2
    <3> QED
      BY <1>14, <3>2, <3>3
  <2>3. i \in 1..n
    BY <1>2
  <2> QED
    BY <1>2, <2>1, <2>2, <2>3, LastOrBefore
<1>18. ASSUME ~resumed PROVE Exact(frames')
  <2>1. ASSUME NEW i \in 1..n PROVE frames'[i].base + frames'[i].depth = frames'[i + 1].base
    <3>1. CASE i = n
      BY <1>5, <1>7, <1>9, <1>11, <1>18, <3>1
    <3>2. CASE i \in 1..(n - 1)
      <4>1. frames[i].base + frames[i].depth = frames[i + 1].base
        BY <1>1, <1>18, <3>2 DEF Exact, n
      <4>2. i + 1 \in 1..n
        BY <1>2, <3>2
      <4> QED
        BY <1>11, <1>13, <3>2, <4>1, <4>2
    <3> QED
      BY <1>2, <3>1, <3>2, LastOrBefore
  <2>2. ASSUME NEW i \in 1..(n + 1), NEW j \in 1..(n + 1), i < j
        PROVE  frames'[i].level <= frames'[j].level
    <3>1. i \in 1..n
      BY <1>2, <2>2
    <3>2. CASE j \in 1..n
      BY <1>1, <1>2, <1>13, <1>18, <2>2, <3>1, <3>2 DEF Exact
    <3>3. CASE j = n + 1
      <4>1. frames[i].level <= m /\ frames[i].level \in Nat
        BY <1>1, <1>2, <1>16, <1>18, <3>1 DEF Balanced, m
      <4> QED
        BY <1>2, <1>4, <1>9, <1>11, <1>13, <3>1, <3>3, <4>1
    <3> QED
      BY <1>14, <3>2, <3>3
  <2>3. ASSUME NEW i \in 1..(n + 1), NEW j \in DOMAIN frames'[i].handlers
        PROVE  frames'[i].handlers[j].depth = frames'[i].base
    <3>1. CASE i = n + 1
      BY <1>9, <1>11, <3>1
    <3>2. CASE i \in 1..n
      BY <1>1, <1>2, <1>13, <1>18, <3>2 DEF Exact
    <3> QED
      BY <1>14, <3>1, <3>2
  <2>4. Len(frames') - 1 = n
    BY <1>2, <1>11
  <2> QED
    BY <1>11, <2>1, <2>2, <2>3, <2>4 DEF Exact
<1>19. OnceOnly(frames', framePool', made')
  <2>1. ASSUME NEW i \in 1..(n + 1), NEW j \in 1..(n + 1), frames'[i].id = frames'[j].id
        PROVE  i = j
    <3>1. CASE i \in 1..n /\ j \in 1..n
      BY ZenonT(40), <1>1, <1>2, <1>13, <2>1, <3>1 DEF OnceOnly
    <3>2. /\ frames'[n + 1].id = Acquired
          /\ \A k \in 1..n : frames'[k].id = frames[k].id /\ frames[k].id # Acquired
      BY <1>2, <1>8, <1>9, <1>11, <1>13
    <3>3. CASE i = n + 1 /\ j \in 1..n
      BY <2>1, <3>2, <3>3
    <3>4. CASE j = n + 1 /\ i \in 1..n
      BY <2>1, <3>2, <3>4
    <3> QED
      BY <1>14, <3>1, <3>3, <3>4
  <2>2. \A i, j \in DOMAIN framePool' : framePool'[i] = framePool'[j] => i = j
    BY <1>1, <1>8 DEF OnceOnly
  <2>3. ASSUME NEW i \in 1..(n + 1), NEW j \in DOMAIN framePool'
        PROVE  frames'[i].id # framePool'[j] /\ frames'[i].id <= made'
    <3>1. CASE i = n + 1
      BY <1>8, <1>9, <1>11, <3>1
    <3>2. CASE i \in 1..n
      <4>1. /\ i \in DOMAIN frames /\ j \in DOMAIN framePool
            /\ framePool'[j] = framePool[j] /\ framePool'[j] <= made'
        BY <1>2, <1>8, <3>2
      <4>2. frames[i].id # framePool[j] /\ frames[i].id <= made'
        BY <1>1, <1>8, <4>1 DEF OnceOnly
      <4> QED
        BY <1>13, <3>2, <4>1, <4>2
    <3> QED
      BY <1>14, <3>1, <3>2
  <2>4. ASSUME NEW i \in 1..(n + 1) PROVE frames'[i].id <= made'
    <3>1. CASE i = n + 1
      BY <1>8, <1>9, <1>11, <3>1
    <3>2. CASE i \in 1..n
      BY <1>2, <1>8, <1>13, <3>2
    <3> QED
      BY <1>14, <3>1, <3>2
  <2>5. Len(frames') + Len(framePool') = made'
    BY <1>8, <1>11 DEF n
  <2> QED
    BY <1>8, <1>11, <2>1, <2>2, <2>3, <2>4, <2>5 DEF OnceOnly
<1>20. Closures(frames', levels')
  <2> SUFFICES ASSUME NEW i \in 1..(n + 1), frames'[i].via = "closure"
               PROVE  /\ frames'[i].level <= level
                      /\ levels'[frames'[i].level].base = i - 1
                      /\ levels'[frames'[i].level].via = "closure"
    BY <1>4, <1>11 DEF Closures
  <2>1. CASE i = n + 1
    <3>1. via = "closure" /\ frames'[i].level = level /\ level = m + 1
      BY <1>4, <1>9, <1>11, <2>1
    <3>2. i - 1 = n
      BY <1>2, <2>1
    <3> QED
      BY <1>4, <3>1, <3>2
  <2>2. CASE i \in 1..n
    <3>1. /\ frames[i].level <= m
          /\ levels[frames[i].level].base = i - 1
          /\ levels[frames[i].level].via = "closure"
      BY <1>1, <1>2, <1>13, <2>2 DEF Closures, m
    <3>2. frames[i].level \in 1..m /\ frames[i].level <= level
      <4>1. frames[i] \in FrameRecords
        BY <1>1, <1>2, <2>2, ElementOfSeq DEF n
      <4>2. frames[i].level \in 1..MaxLevels
        BY <4>1 DEF FrameRecords
      <4> QED
        BY <1>2, <1>4, <3>1, <4>2
    <3> QED
      BY <1>4, <1>13, <2>2, <3>1, <3>2
  <2> QED
    BY <1>14, <2>1, <2>2
<1>21. Nested(frames', levels')
  <2>1. levels'[1].base = 0
    BY <1>1, <1>2, <1>4 DEF Nested
  <2>2. \A k \in 1..level : (k = m + 1 /\ level = m + 1) \/ k \in 1..m
    BY <1>2, <1>4
  <2>3. ASSUME NEW k \in 1..level, NEW l \in 1..level, k < l
        PROVE  levels'[k].base < levels'[l].base
    <3>1. k \in 1..m
      BY <1>2, <1>4, <2>3
    <3>2. CASE l \in 1..m
      BY <1>1, <1>2, <1>4, <2>3, <3>1, <3>2 DEF Nested
    <3>3. CASE l = m + 1 /\ level = m + 1
      <4>1. levels'[l].base = n
        BY <1>4, <3>3
      <4>2. levels[k].base <= Last(levels).base /\ Last(levels).base < n
        BY <1>2, <3>1
      <4>3. levels[k].base < n
        BY <1>2, <3>1, <4>2
      <4> QED
        BY <1>4, <3>1, <4>1, <4>3
    <3> QED
      BY <2>2, <3>2, <3>3
  <2>4. Last(levels').base < n + 1
    <3>1. CASE level = m + 1
      BY <1>2, <1>4, <3>1
    <3>2. CASE level = m
      <4>1. m \in 1..m
        BY <1>2
      <4>2. Last(levels') = levels[m]
        BY <1>4, <3>2, <4>1
      <4>3. Last(levels) = levels[m]
        BY DEF Last, m
      <4> QED
        BY <1>2, <4>2, <4>3
    <3> QED
      BY <1>2, <1>4, <3>1, <3>2
  <2>5. ASSUME NEW k \in 2..level
        PROVE  frames'[levels'[k].base].base + frames'[levels'[k].base].depth <= levels'[k].sp
    <3>1. CASE k = m + 1 /\ level = m + 1
      <4>1. levels'[k].base = n /\ levels'[k].sp = sp - 1
        BY <1>4, <3>1
      <4> QED
        BY SMTT(30), <1>5, <1>7, <1>11, <4>1
    <3>2. CASE k \in 1..m
      <4>1. k \in 2..m
        BY <1>2, <1>4, <3>2
      <4>2. levels'[k] = levels[k] /\ frames'[levels[k].base] = frames[levels[k].base]
        BY <1>2, <1>4, <1>11, <3>2, <4>1
      <4> QED
        BY <1>1, <4>1, <4>2 DEF Nested, m
    <3>3. k \in 1..level
      BY <1>4
    <3> QED
      BY <2>2, <3>1, <3>2, <3>3
  <2>6. Len(levels') <= MaxLevels
    BY <1>4
  <2> QED
    BY <1>4, <1>11, <2>1, <2>3, <2>4, <2>5, <2>6 DEF Nested
<1>22. /\ Active'.base + Active'.depth <= sp' /\ Active'.base <= sp'
       /\ sp' = Active'.base + Active'.depth
  BY <1>5, <1>9, <1>12
<1>23. ASSUME ~resumed, NEW i \in 1..(n + 1) PROVE frames'[i].level <= level
  <2>1. CASE i = n + 1
    BY <1>4, <1>9, <1>11, <2>1
  <2>2. CASE i \in 1..n
    <3>1. frames[i].level <= m /\ frames[i].level \in Nat
      BY <1>1, <1>2, <1>16, <1>23, <2>2 DEF Balanced, m
    <3> QED
      BY <1>2, <1>4, <1>13, <2>2, <3>1
  <2> QED
    BY <1>14, <2>1, <2>2
<1>24. Balanced'
  BY <1>4, <1>11, <1>22, <1>23 DEF Balanced, Quiet
<1>25. Sound(frames, framePool, made, levels, resumed)'
  BY <1>4, <1>8, <1>11, <1>15, <1>17, <1>18, <1>19, <1>20 DEF Sound, Quiet, IInv, TypeOK
<1>26. TypeOK'
  BY <1>4, <1>6, <1>8, <1>11 DEF TypeOK, IInv, Quiet
<1>27. ASSUME ~resumed PROVE Layered(frames', levels')
  <2> SUFFICES ASSUME NEW k \in 2..level, NEW i \in 1..levels'[k].base
               PROVE  frames'[i].level < k
    BY <1>4 DEF Layered
  <2>1. k \in 2..m \/ (k = m + 1 /\ level = m + 1)
    <3>1. m \in Nat /\ (level = m \/ level = m + 1)
      <4>1. \A a, b \in Nat : a <= b /\ b <= a + 1 => b = a \/ b = a + 1
        OBVIOUS
      <4>2. m \in Nat /\ level \in Nat
        BY <1>2, <1>4
      <4>3. m <= level /\ level <= m + 1
        BY <1>4
      <4> QED
        BY <4>1, <4>2, <4>3
    <3>2. CASE level = m
      BY <3>2
    <3>3. CASE level = m + 1
      BY <3>1, <3>3
    <3> QED
      BY <3>1, <3>2, <3>3
  <2>2. CASE k \in 2..m
    <3>1. levels'[k].base = levels[k].base /\ levels[k].base \in 1..(n - 1)
      BY <1>2, <1>4, <2>2
    <3>2. frames[i].level < k
      BY <1>1, <1>27, <2>2, <3>1 DEF Layered, m
    <3>3. i \in 1..n
      BY <1>2, <3>1
    <3> QED
      BY <1>13, <3>2, <3>3
  <2>3. CASE k = m + 1 /\ level = m + 1
    <3>1. levels'[k].base = n
      BY <1>4, <2>3
    <3>2. frames[i].level <= m /\ frames[i].level \in Nat
      BY <1>1, <1>2, <1>16, <1>27, <3>1 DEF Balanced, m
    <3> QED
      BY <1>2, <1>13, <2>3, <3>1, <3>2
  <2> QED
    BY <2>1, <2>2, <2>3
<1> QED
  BY <1>21, <1>22, <1>24, <1>25, <1>26, <1>27 DEF IInv, Quiet, Running

\* A call.
LEMMA CallKeeps == FramesAssumption /\ IInv /\ Call => IInv'
<1> SUFFICES ASSUME FramesAssumption, IInv, Call PROVE IInv'
  OBVIOUS
<1>1. /\ Running /\ Active.depth > 0 /\ Acquire(sp - 1, "call", Len(levels))
      /\ sp' = sp - 1 /\ UNCHANGED status /\ Quiet
  BY DEF Call
<1>2. "call" \in Vias /\ LoopsGrow("call", Len(levels))
  BY DEF Vias, LoopsGrow, Call
<1> QED
  BY <1>1, <1>2, Entered

\* A callback, which starts a loop.
LEMMA CallBackKeeps == FramesAssumption /\ IInv /\ CallBack => IInv'
<1> SUFFICES ASSUME FramesAssumption, IInv, CallBack PROVE IInv'
  OBVIOUS
<1>1. PICK via \in Vias \ {"call"} :
          /\ Acquire(sp - 1, via, Len(levels) + 1)
          /\ levels' = Append(levels, [base |-> Len(frames), via |-> via, sp |-> sp - 1])
  BY DEF CallBack
<1>2. /\ Running /\ Active.depth > 0 /\ Len(levels) < MaxLevels
      /\ sp' = sp - 1 /\ UNCHANGED status /\ Quiet
  BY DEF CallBack
<1>3. via \in Vias /\ LoopsGrow(via, Len(levels) + 1)
  BY <1>1, <1>2 DEF LoopsGrow
<1> QED
  BY <1>1, <1>2, <1>3, Entered

\* The frame that is returned from goes to the pool.
LEMMA ReleasedOnReturn ==
    ASSUME FramesAssumption, frames # <<>>, OnceOnly(frames, framePool, made),
           frames \in Seq(FrameRecords), framePool \in Seq(1..MaxFrames),
           framePool' = Append(framePool, Active.id), made' = made,
           NEW gs \in Seq(FrameRecords), Len(gs) = Len(frames) - 1,
           \A i \in DOMAIN gs : gs[i].id = frames[i].id
    PROVE  framePool' \in Seq(1..MaxFrames) /\ OnceOnly(gs, framePool', made')
<1> DEFINE n == Len(frames)
           p == Len(framePool)
<1>1. /\ n \in Nat \ {0} /\ DOMAIN frames = 1..n /\ n \in DOMAIN frames /\ Active = frames[n]
      /\ Active \in FrameRecords
  BY FrontOf DEF Active
<1>2. Active.id \in 1..MaxFrames
  BY <1>1 DEF FrameRecords
<1>3. /\ framePool' \in Seq(1..MaxFrames) /\ p \in Nat /\ DOMAIN framePool = 1..p
      /\ Len(framePool') = p + 1 /\ DOMAIN framePool' = 1..(p + 1)
      /\ \A i \in 1..p : framePool'[i] = framePool[i]
      /\ framePool'[p + 1] = Active.id
  BY <1>2, Appended
<1>4. DOMAIN gs = 1..(n - 1) /\ Len(gs) = n - 1
  BY LenProperties
<1>5. \A i \in 1..(n - 1) : i \in 1..n /\ i # n
  BY <1>1
<1>6. \A i \in 1..(p + 1) : i = p + 1 \/ i \in 1..p
  BY <1>3
<1> HIDE DEF n, p
<1>7. \A i \in 1..(n - 1) : gs[i].id = frames[i].id /\ gs[i].id # Active.id /\ gs[i].id <= made
  BY <1>1, <1>4, <1>5 DEF OnceOnly
<1>8. \A j \in 1..p : framePool[j] # Active.id /\ framePool[j] <= made
  BY <1>1, <1>3 DEF OnceOnly
<1>9. ASSUME NEW i \in 1..(n - 1), NEW j \in 1..(n - 1), gs[i].id = gs[j].id
      PROVE  i = j
  BY <1>1, <1>5, <1>7, <1>9 DEF OnceOnly
<1>10. ASSUME NEW i \in 1..(p + 1), NEW j \in 1..(p + 1), framePool'[i] = framePool'[j]
       PROVE  i = j
  <2>1. CASE i \in 1..p /\ j \in 1..p
    BY <1>3, <1>10, <2>1 DEF OnceOnly
  <2>2. CASE i \in 1..p /\ j = p + 1
    BY <1>3, <1>8, <1>10, <2>2
  <2>3. CASE i = p + 1 /\ j \in 1..p
    BY <1>3, <1>8, <1>10, <2>3
  <2> QED
    BY <1>6, <2>1, <2>2, <2>3
<1>11. ASSUME NEW i \in 1..(n - 1), NEW j \in 1..(p + 1) PROVE gs[i].id # framePool'[j]
  <2>1. CASE j \in 1..p
    <3>1. i \in DOMAIN frames /\ j \in DOMAIN framePool
      BY <1>1, <1>3, <1>5, <2>1
    <3>2. frames[i].id # framePool[j]
      BY <3>1 DEF OnceOnly
    <3> QED
      BY <1>3, <1>7, <2>1, <3>2
  <2>2. CASE j = p + 1
    BY <1>3, <1>7, <2>2
  <2> QED
    BY <1>6, <2>1, <2>2
<1>12. ASSUME NEW j \in 1..(p + 1) PROVE framePool'[j] <= made
  <2>1. CASE j \in 1..p
    BY <1>3, <1>8, <2>1
  <2>2. CASE j = p + 1
    BY <1>1, <1>3, <2>2 DEF OnceOnly
  <2> QED
    BY <1>6, <2>1, <2>2
<1>13. Len(gs) + Len(framePool') = made
  <2>1. n + p = made
    BY DEF OnceOnly, n, p
  <2>2. Len(gs) = n - 1 /\ Len(framePool') = p + 1
    BY <1>3, <1>4
  <2>3. n \in Nat /\ p \in Nat
    BY <1>1, <1>3
  <2>4. Len(gs) + Len(framePool') = (n - 1) + (p + 1)
    BY <2>2
  <2>5. (n - 1) + (p + 1) = n + p
    BY <2>3
  <2> QED
    BY <2>1, <2>4, <2>5
<1> QED
  BY <1>3, <1>4, <1>7, <1>9, <1>10, <1>11, <1>12, <1>13 DEF OnceOnly

\* The last frame returns: nothing is left to run.
LEMMA LastReturns ==
    ASSUME FramesAssumption, IInv, Return, Front(frames) = <<>>
    PROVE  IInv'
<1>1. /\ frames \in Seq(FrameRecords) /\ framePool \in Seq(1..MaxFrames)
      /\ OnceOnly(frames, framePool, made) /\ frames # <<>>
  BY LoopsOf DEF IInv, Sound, Return, Running
<1>2. /\ frames' = <<>> /\ sp' = 0 /\ status' = "ended" /\ levels' = levels /\ made' = made
      /\ framePool' = Append(framePool, Active.id) /\ Quiet
  BY DEF Return
<1>3. Len(frames) = 1 /\ frames' \in Seq(FrameRecords) /\ Len(frames') = 0 /\ DOMAIN frames' = {}
  <2>1. Len(frames) \in Nat /\ Len(Front(frames)) = Len(frames) - 1
    BY <1>1, FrontOf
  <2>2. Len(Front(frames)) = 0
    OBVIOUS
  <2> QED
    BY <1>2, <2>1, <2>2
<1>4. framePool' \in Seq(1..MaxFrames) /\ OnceOnly(frames', framePool', made')
  <2>1. Len(frames') = Len(frames) - 1 /\ \A i \in DOMAIN frames' : frames'[i].id = frames[i].id
    BY <1>3
  <2>2. frames' \in Seq(FrameRecords)
    BY <1>3
  <2> HIDE <1>3
  <2> QED
    BY <1>1, <1>2, <2>1, <2>2, ReleasedOnReturn
<1>5. Stacked(frames') /\ Exact(frames') /\ Closures(frames', levels')
  BY <1>3 DEF Stacked, Exact, Closures
<1>6. 0 \in 0..StackTop
  BY DEF FramesAssumption
<1>7. Sound(frames, framePool, made, levels, resumed)'
  BY <1>2, <1>3, <1>4, <1>5 DEF Sound, IInv, Quiet
<1>8. TypeOK'
  BY <1>2, <1>3, <1>4, <1>6 DEF TypeOK, IInv, Quiet
<1> QED
  BY <1>2, <1>7, <1>8 DEF IInv, Quiet, Running

\* A frame returns to the one below it, and ends the loop if that one started it.
LEMMA ReturnsToCaller ==
    ASSUME FramesAssumption, IInv, Return, Front(frames) # <<>>
    PROVE  IInv'
<1> DEFINE n == Len(frames)
           m == Len(levels)
           top == frames[n - 1]
           f == [top EXCEPT !.depth = top.depth + 1]
           ends == n - 1 = Last(levels).base
<1>1. /\ frames \in Seq(FrameRecords) /\ framePool \in Seq(1..MaxFrames)
      /\ \A i \in DOMAIN frames : FrameFine(frames[i])
      /\ Stacked(frames) /\ (~resumed => Exact(frames))
      /\ OnceOnly(frames, framePool, made) /\ Closures(frames, levels)
      /\ Nested(frames, levels) /\ Balanced /\ levels \in Seq(Levels)
      /\ (~resumed => Layered(frames, levels)) /\ Running
  BY DEF IInv, Sound, Running, Return
<1>2. /\ frames # <<>> /\ n \in Nat \ {0} /\ DOMAIN frames = 1..n /\ levels # <<>>
      /\ \A k \in 2..m : levels[k].base \in 1..(n - 1)
      /\ Last(levels).base \in Nat /\ Last(levels).base < n
      /\ m \in Nat \ {0} /\ DOMAIN levels = 1..m /\ Last(levels) = levels[m]
      /\ \A k \in 1..m : levels[k].base \in Nat
  BY <1>1, LoopsOf DEF Nested
<1>3. /\ Front(frames) \in Seq(FrameRecords) /\ Len(Front(frames)) = n - 1
      /\ DOMAIN Front(frames) = 1..(n - 1)
      /\ \A i \in 1..(n - 1) : Front(frames)[i] = frames[i]
  BY <1>1, <1>2, FrontOf
<1>4. n - 1 \in Nat \ {0} /\ n - 1 \in 1..n /\ n \in 1..n
  <2>1. Len(Front(frames)) # 0
    BY <1>3
  <2> QED
    BY <1>2, <1>3, <2>1
<1>5. /\ Active \in FrameRecords /\ FrameFine(Active) /\ Active.base \in Nat
      /\ Active.depth \in Nat /\ Active = frames[n]
  BY <1>1, ActiveRuns DEF Active, Last
<1>6. Last(Front(frames)) = top /\ top \in FrameRecords
  BY <1>1, <1>2, <1>3, <1>4, ElementOfSeq DEF Last
<1>7. /\ framePool' = Append(framePool, Active.id) /\ made' = made
      /\ frames' = Append(Front(Front(frames)), f)
      /\ sp' = Active.base + 1 /\ UNCHANGED status /\ Quiet
      /\ levels' = IF ends THEN Front(levels) ELSE levels
  BY <1>3, <1>6 DEF Return, AfterReturn
<1>8. top.base + top.depth <= Active.base /\ top.depth < MaxDepth
  <2>1. n - 1 < n
    BY <1>2
  <2> QED
    BY <1>1, <1>2, <1>4, <1>5, <2>1 DEF Stacked
<1>9. top.depth + 1 \in 0..MaxDepth /\ top.base \in Nat /\ top.depth \in Nat
  BY <1>6, <1>8 DEF FrameRecords, FramesAssumption
<1>10. sp' \in 0..StackTop
  BY <1>5, <1>7 DEF FrameFine, FramesAssumption
<1>11. FrameFine(top)
  BY <1>1, <1>2, <1>4
<1>12. /\ f \in FrameRecords /\ f.depth = top.depth + 1 /\ FrameFine(f) /\ f.id = top.id
       /\ f.base = top.base /\ f.via = top.via /\ f.level = top.level
       /\ f.handlers = top.handlers
  BY <1>6, <1>9, <1>11, DepthChanges
<1> HIDE DEF f
<1>13. /\ frames' \in Seq(FrameRecords) /\ frames' # <<>> /\ Len(frames') = n - 1
       /\ DOMAIN frames' = 1..(n - 1)
       /\ \A i \in 1..(n - 1 - 1) : frames'[i] = Front(frames)[i]
       /\ frames'[n - 1] = f /\ Last(frames') = f
  <2> DEFINE q == Front(frames)
  <2>1. q \in Seq(FrameRecords) /\ q # <<>> /\ frames' = Append(Front(q), f) /\ f \in FrameRecords
    BY <1>3, <1>7, <1>12
  <2>2. Len(q) = n - 1
    BY <1>3
  <2> HIDE DEF q, n
  <2>3. /\ frames' \in Seq(FrameRecords) /\ frames' # <<>> /\ Len(frames') = Len(q)
        /\ DOMAIN frames' = 1..Len(q)
        /\ \A i \in 1..(Len(q) - 1) : frames'[i] = q[i]
        /\ frames'[Len(q)] = f /\ Last(frames') = f
    BY <2>1, Replaced
  <2> QED
    BY <2>2, <2>3 DEF q
<1> HIDE DEF n, m
<1>14. \A i \in 1..(n - 1) : i \in 1..n /\ (i = n - 1 \/ i \in 1..(n - 1 - 1))
  BY <1>4
<1>15. \A i \in 1..(n - 1 - 1) : i \in 1..(n - 1) /\ i < n - 1
  BY <1>4
<1>16. \A i \in 1..(n - 1) : /\ frames'[i].id = frames[i].id /\ frames'[i].base = frames[i].base
                             /\ frames'[i].via = frames[i].via
                             /\ frames'[i].level = frames[i].level
                             /\ frames'[i].handlers = frames[i].handlers
                             /\ FrameFine(frames'[i])
                             /\ i # n - 1 => frames'[i] = frames[i]
  <2> SUFFICES ASSUME NEW i \in 1..(n - 1)
               PROVE  /\ frames'[i].id = frames[i].id /\ frames'[i].base = frames[i].base
                      /\ frames'[i].via = frames[i].via /\ frames'[i].level = frames[i].level
                      /\ frames'[i].handlers = frames[i].handlers /\ FrameFine(frames'[i])
                      /\ i # n - 1 => frames'[i] = frames[i]
    OBVIOUS
  <2>1. CASE i = n - 1
    BY <1>12, <1>13, <2>1
  <2>2. CASE i \in 1..(n - 1 - 1)
    <3>1. frames'[i] = frames[i]
      BY <1>3, <1>13, <1>15, <2>2
    <3>2. FrameFine(frames[i])
      BY <1>1, <1>2, <1>14, <1>15, <2>2
    <3> QED
      BY <3>1, <3>2
  <2> QED
    BY <1>14, <2>1, <2>2
<1>17. Active' = f
  BY <1>13 DEF Active
<1>18. /\ levels' \in Seq(Levels) /\ levels' # <<>> /\ Len(levels') \in 1..m
       /\ DOMAIN levels' = 1..Len(levels')
       /\ \A k \in 1..Len(levels') : levels'[k] = levels[k] /\ k \in 1..m
       /\ Last(levels').base < n - 1 /\ Last(levels') = levels[Len(levels')]
       /\ ends => m \in 2..m /\ Len(levels') = m - 1
       /\ ~ends => Len(levels') = m
  <2>1. CASE ends
    <3>1. /\ levels' \in Seq(Levels) /\ Len(levels') = m - 1 /\ DOMAIN levels' = 1..(m - 1)
          /\ \A k \in 1..(m - 1) : levels'[k] = levels[k]
      BY <1>1, <1>2, <1>7, <2>1, FrontOf DEF m
    <3>2. levels[1].base = 0 /\ levels[m].base = n - 1
      BY <1>1, <1>2, <2>1 DEF Nested
    <3>3. m # 1
      BY <1>4, <3>2
    <3>4. /\ m \in 2..m /\ m - 1 \in 1..m /\ m - 1 < m /\ m \in 1..m
          /\ m - 1 \in 1..(m - 1) /\ m - 1 # 0
      BY <1>2, <3>3
    <3>5. Last(levels') = levels[m - 1]
      BY <3>1, <3>4 DEF Last
    <3>6. levels[m - 1].base < levels[m].base
      BY <1>1, <1>2, <3>4 DEF Nested
    <3>7. \A k \in 1..(m - 1) : k \in 1..m
      BY <1>2
    <3>8. levels' # <<>>
      BY <3>1, <3>4
    <3> QED
      BY <2>1, <3>1, <3>2, <3>4, <3>5, <3>6, <3>7, <3>8
  <2>2. CASE ~ends
    <3>1. levels' = levels
      BY <1>7, <2>2
    <3>2. Last(levels).base < n - 1
      BY <1>2, <1>4, <2>2
    <3>3. m \in 1..m
      BY <1>2
    <3> QED
      BY <1>1, <1>2, <2>2, <3>1, <3>2, <3>3 DEF m
  <2> QED
    BY <2>1, <2>2
<1> DEFINE m2 == Len(levels')
<1>31. m2 \in Nat /\ m2 # 0 /\ m2 <= m /\ m2 \in 1..m /\ 1 \in 1..m2
  <2>1. m2 \in 1..m /\ m \in Nat
    BY <1>2, <1>18
  <2> HIDE DEF m2
  <2> QED
    BY <2>1
<1>32. \A k \in 2..m2 : k \in 1..m2 /\ k # 1
  OBVIOUS
<1> HIDE DEF m2, top, ends
<1>19. Stacked(frames')
  <2> SUFFICES ASSUME NEW i \in 1..(n - 1), NEW j \in 1..(n - 1), i < j
               PROVE  frames'[i].base + frames'[i].depth <= frames'[j].base
                      /\ frames'[i].depth < MaxDepth
    BY <1>13 DEF Stacked
  <2>1. frames'[i] = frames[i] /\ frames'[j].base = frames[j].base
    <3>1. i # n - 1
      BY <1>4
    <3> QED
      BY <1>16, <3>1
  <2> QED
    BY <1>1, <1>2, <1>14, <2>1 DEF Stacked
<1>20. ASSUME ~resumed PROVE Exact(frames')
  <2>1. ASSUME NEW i \in 1..(n - 1 - 1)
        PROVE  frames'[i].base + frames'[i].depth = frames'[i + 1].base
    <3>1. i \in 1..(n - 1) /\ i + 1 \in 1..(n - 1) /\ i # n - 1
      BY <1>4
    <3>2. frames[i].base + frames[i].depth = frames[i + 1].base
      BY <1>1, <1>20, <3>1 DEF Exact, n
    <3> QED
      BY <1>16, <3>1, <3>2
  <2>2. ASSUME NEW i \in 1..(n - 1), NEW j \in 1..(n - 1), i < j
        PROVE  frames'[i].level <= frames'[j].level
    BY <1>1, <1>2, <1>14, <1>16, <1>20, <2>2 DEF Exact
  <2>3. ASSUME NEW i \in 1..(n - 1), NEW j \in DOMAIN frames'[i].handlers
        PROVE  frames'[i].handlers[j].depth = frames'[i].base
    BY <1>1, <1>2, <1>14, <1>16, <1>20 DEF Exact
  <2> QED
    BY <1>13, <2>1, <2>2, <2>3 DEF Exact
<1>21. framePool' \in Seq(1..MaxFrames) /\ OnceOnly(frames', framePool', made')
  <2>1. \A i \in DOMAIN frames' : frames'[i].id = frames[i].id
    BY <1>13, <1>16
  <2>2. Len(frames') = Len(frames) - 1
    BY <1>13 DEF n
  <2> QED
    BY <1>1, <1>2, <1>7, <1>13, <2>1, <2>2, ReleasedOnReturn
<1>22. Closures(frames', levels')
  <2> SUFFICES ASSUME NEW i \in 1..(n - 1), frames'[i].via = "closure"
               PROVE  /\ frames'[i].level <= m2
                      /\ levels'[frames'[i].level].base = i - 1
                      /\ levels'[frames'[i].level].via = "closure"
    BY <1>13 DEF Closures, m2
  <2>1. /\ frames[i].level <= m /\ levels[frames[i].level].base = i - 1
        /\ levels[frames[i].level].via = "closure"
    BY <1>1, <1>2, <1>14, <1>16 DEF Closures, m
  <2>2. frames[i].level \in 1..m
    <3>1. frames[i] \in FrameRecords
      BY <1>1, <1>2, <1>14, ElementOfSeq DEF n
    <3>2. frames[i].level \in 1..MaxLevels
      BY <3>1 DEF FrameRecords
    <3> QED
      BY <1>2, <2>1, <3>2
  <2>3. frames[i].level \in 1..m2
    <3>1. CASE ends
      <4>1. frames[i].level # m
        <5>1. levels[m].base = n - 1 /\ i - 1 # n - 1
          BY <1>2, <1>4, <3>1 DEF ends
        <5> QED
          BY <2>1, <5>1
      <4>2. m2 = m - 1 /\ m \in Nat
        BY <1>2, <1>18, <3>1 DEF m2
      <4> QED
        BY <2>2, <4>1, <4>2
    <3>2. CASE ~ends
      BY <1>18, <2>2, <3>2 DEF m2
    <3> QED
      BY <3>1, <3>2
  <2>4. frames[i].level <= m2
    BY <1>31, <2>3
  <2> QED
    BY <1>16, <1>18, <2>1, <2>3, <2>4 DEF m2
<1>23. \A k \in 1..m2 : k # 1 => k \in 2..m /\ levels[k].base \in 1..(n - 1 - 1)
  <2> SUFFICES ASSUME NEW k \in 1..m2, k # 1
               PROVE  k \in 2..m /\ levels[k].base \in 1..(n - 1 - 1)
    OBVIOUS
  <2>1. m2 \in Nat /\ m2 \in 1..m /\ levels[m2].base < n - 1 /\ levels[m2].base \in Nat
    BY <1>2, <1>18, <1>31 DEF m2
  <2>2. k \in 2..m /\ k \in 1..m
    BY <1>2, <2>1
  <2>3. k = m2 \/ k < m2
    BY <2>1
  <2>4. k < m2 => levels[k].base < levels[m2].base
    BY <1>1, <1>2, <2>1, <2>2 DEF Nested
  <2>5. levels[k].base \in 1..(n - 1)
    BY <1>2, <2>2
  <2> QED
    BY <1>4, <2>1, <2>2, <2>3, <2>4, <2>5
<1>24. Nested(frames', levels')
  <2>1. levels'[1].base = 0 /\ m2 <= MaxLevels
    <3>1. 1 \in 1..m2 /\ m2 <= m
      BY <1>31
    <3>2. m <= MaxLevels /\ levels[1].base = 0
      BY <1>1 DEF Nested, m
    <3>3. m2 \in Nat /\ m \in Nat /\ MaxLevels \in Nat
      BY <1>2, <1>31 DEF FramesAssumption
    <3>4. m2 <= MaxLevels
      BY <3>1, <3>2, <3>3
    <3> QED
      BY <1>18, <3>1, <3>2, <3>4 DEF m2
  <2>2. ASSUME NEW k \in 1..m2, NEW l \in 1..m2, k < l PROVE levels'[k].base < levels'[l].base
    BY <1>1, <1>2, <1>18, <2>2 DEF Nested, m2
  <2>3. ASSUME NEW k \in 2..m2
        PROVE  frames'[levels'[k].base].base + frames'[levels'[k].base].depth <= levels'[k].sp
    <3>1. k \in 1..m2 /\ k # 1
      BY <1>32
    <3>2. /\ levels'[k] = levels[k] /\ k \in 2..m /\ levels[k].base \in 1..(n - 1 - 1)
      BY <1>18, <1>23, <3>1 DEF m2
    <3>3. frames'[levels[k].base] = frames[levels[k].base]
      BY <1>3, <1>13, <1>15, <3>2
    <3> QED
      BY <1>1, <3>2, <3>3 DEF Nested, m
  <2> QED
    BY <1>13, <1>18, <2>1, <2>2, <2>3 DEF Nested, m2
<1>25. ASSUME ~resumed
       PROVE  Layered(frames', levels') /\ \A i \in 1..(n - 1) : frames'[i].level <= m2
  <2>1. ASSUME NEW k \in 2..m2, NEW i \in 1..levels'[k].base PROVE frames'[i].level < k
    <3>1. k \in 1..m2 /\ k # 1
      BY <1>32
    <3>2. /\ levels'[k] = levels[k] /\ k \in 2..m /\ levels[k].base \in 1..(n - 1 - 1)
      BY <1>18, <1>23, <3>1 DEF m2
    <3>3. i \in 1..levels[k].base /\ frames[i].level < k
      BY <1>1, <1>25, <3>2 DEF Layered, m
    <3>4. i \in 1..(n - 1)
      BY <1>4, <3>2, <3>3
    <3> QED
      BY <1>16, <3>3, <3>4
  <2>2. ASSUME NEW i \in 1..(n - 1) PROVE frames'[i].level <= m2
    <3>1. frames'[i].level = frames[i].level /\ frames[i].level \in Nat
      <4>1. frames[i] \in FrameRecords
        BY <1>1, <1>2, <1>14, ElementOfSeq DEF n
      <4> QED
        BY <1>16, <4>1 DEF FrameRecords, FramesAssumption
    <3>2. CASE ends
      <4>1. m \in 2..m /\ levels[m].base = n - 1 /\ m2 = m - 1
        BY <1>2, <1>18, <3>2 DEF ends, m2
      <4>2. frames[i].level < m
        BY <1>1, <1>25, <4>1 DEF Layered, m
      <4> QED
        BY <1>2, <3>1, <4>1, <4>2
    <3>3. CASE ~ends
      BY <1>1, <1>2, <1>14, <1>18, <1>25, <3>1, <3>3 DEF Balanced, m, m2
    <3> QED
      BY <3>2, <3>3
  <2> QED
    BY <2>1, <2>2 DEF Layered, m2
<1>26. /\ Active'.base + Active'.depth <= sp' /\ Active'.base <= sp'
  <2>1. f.base + f.depth <= Active.base + 1 /\ f.base \in Nat /\ f.depth \in Nat
    BY <1>5, <1>8, <1>9, <1>12
  <2> QED
    BY <1>5, <1>7, <1>17, <2>1
<1>27. ASSUME ~resumed PROVE sp' = Active'.base + Active'.depth
  <2>1. top.base + top.depth = Active.base
    <3>1. n - 1 \in 1..(n - 1) /\ n - 1 + 1 = n
      BY <1>4
    <3> QED
      BY <1>1, <1>5, <1>27, <3>1 DEF Exact, n, top
  <2> QED
    BY <1>7, <1>9, <1>12, <1>17, <2>1
<1>28. Balanced'
  BY <1>13, <1>25, <1>26, <1>27, <1>7 DEF Balanced, Quiet, m2
<1>29. Sound(frames, framePool, made, levels, resumed)'
  BY <1>7, <1>13, <1>16, <1>18, <1>19, <1>20, <1>21, <1>22 DEF Sound, Quiet, IInv, TypeOK
<1>30. TypeOK'
  BY <1>7, <1>10, <1>13, <1>18, <1>21 DEF TypeOK, IInv, Quiet
<1> QED
  BY <1>7, <1>24, <1>25, <1>26, <1>28, <1>29, <1>30 DEF IInv, Quiet, Running

\* A return, from whichever frame.
LEMMA ReturnKeeps == FramesAssumption /\ IInv /\ Return => IInv'
BY LastReturns, ReturnsToCaller

-----------------------------------------------------------------------------
(* Exceptions *)

\* The frames above the n-th go to the pool: still every frame is in one place.
LEMMA ReleasedAbove ==
    ASSUME FramesAssumption, NEW fs \in Seq(FrameRecords), NEW pool \in Seq(1..MaxFrames),
           NEW m, OnceOnly(fs, pool, m), NEW n \in 0..Len(fs),
           NEW gs \in Seq(FrameRecords), Len(gs) = n, \A i \in DOMAIN gs : gs[i].id = fs[i].id
    PROVE  /\ pool \o Released(fs, n) \in Seq(1..MaxFrames)
           /\ OnceOnly(gs, pool \o Released(fs, n), m)
<1> DEFINE N == Len(fs)
           p == Len(pool)
           r == Released(fs, n)
           q == pool \o r
           d == N - n
<1>1. N \in Nat /\ DOMAIN fs = 1..N /\ p \in Nat /\ DOMAIN pool = 1..p /\ DOMAIN gs = 1..n
  BY LenProperties
<1>2. \A i \in 1..N : fs[i].id \in 1..MaxFrames
  <2>1. \A i \in 1..N : fs[i] \in FrameRecords
    BY ElementOfSeq
  <2> QED
    BY <2>1 DEF FrameRecords
<1>3. n \in Nat /\ n <= N /\ d \in Nat /\ n + d = N
  BY <1>1
<1>4. r = [k \in 1..d |-> fs[N + 1 - k].id]
  BY DEF Released
<1> HIDE DEF N, d
<1>5. \A k \in 1..d : N + 1 - k \in 1..N /\ ~ (N + 1 - k <= n)
  BY <1>1, <1>3
<1>6. r \in Seq(1..MaxFrames) /\ Len(r) = d
  <2>1. \A k \in 1..d : fs[N + 1 - k].id \in 1..MaxFrames
    BY <1>2, <1>5
  <2> HIDE DEF r
  <2>2. DOMAIN r = 1..d /\ r \in Seq(1..MaxFrames)
    BY <1>3, <1>4, <2>1, IsASeq
  <2> QED
    BY <1>3, <2>2, LenProperties
<1> HIDE DEF r
<1>7. /\ q \in Seq(1..MaxFrames) /\ Len(q) = p + d
      /\ \A i \in 1..(p + d) : q[i] = IF i <= p THEN pool[i] ELSE r[i - p]
  <2>1. /\ q \in Seq(1..MaxFrames) /\ Len(q) = p + Len(r)
        /\ \A i \in 1..(p + Len(r)) : q[i] = IF i <= p THEN pool[i] ELSE r[i - p]
    BY <1>6, ConcatProperties
  <2> QED
    BY <1>6, <2>1
<1>8. DOMAIN q = 1..(p + d)
  BY <1>7, LenProperties
<1> HIDE DEF q, p
<1>9. \A i \in 1..(p + d) :
         \/ i \in 1..p /\ q[i] = pool[i]
         \/ \E k \in 1..d : i = p + k /\ q[i] = fs[N + 1 - k].id
  <2> SUFFICES ASSUME NEW i \in 1..(p + d), ~ (i \in 1..p)
               PROVE  \E k \in 1..d : i = p + k /\ q[i] = fs[N + 1 - k].id
    <3>1. ASSUME NEW i \in 1..(p + d), i \in 1..p PROVE q[i] = pool[i]
      <4>1. i <= p
        BY <1>1, <3>1
      <4> QED
        BY <1>7, <4>1
    <3> QED
      BY <3>1
  <2>1. i - p \in 1..d /\ i = p + (i - p) /\ ~ (i <= p)
    BY <1>1, <1>3
  <2> QED
    BY <1>4, <1>7, <2>1
<1>10. ASSUME NEW i \in 1..(p + d), NEW j \in 1..(p + d), q[i] = q[j] PROVE i = j
  <2>1. CASE i \in 1..p /\ q[i] = pool[i] /\ j \in 1..p /\ q[j] = pool[j]
    BY <1>1, <1>10, <2>1 DEF OnceOnly
  <2>2. ASSUME i \in 1..p, q[i] = pool[i],
               NEW k \in 1..d, q[j] = fs[N + 1 - k].id
        PROVE  FALSE
    BY ZenonT(40), <1>1, <1>5, <1>10, <2>2 DEF OnceOnly
  <2>3. ASSUME j \in 1..p, q[j] = pool[j],
               NEW k \in 1..d, q[i] = fs[N + 1 - k].id
        PROVE  FALSE
    BY <1>1, <1>5, <1>10, <2>3 DEF OnceOnly
  <2>4. ASSUME NEW k \in 1..d, i = p + k, q[i] = fs[N + 1 - k].id,
               NEW l \in 1..d, j = p + l, q[j] = fs[N + 1 - l].id
        PROVE  i = j
    <3>1. N + 1 - k = N + 1 - l
      BY <1>1, <1>5, <1>10, <2>4 DEF OnceOnly
    <3>2. k = l
      BY <1>1, <1>3, <3>1
    <3> QED
      BY <2>4, <3>2
  <2> QED
    BY <1>9, <2>1, <2>2, <2>3, <2>4
<1>11. \A i \in 1..n : i \in 1..N /\ gs[i].id = fs[i].id
  BY <1>1, <1>3
<1>12. ASSUME NEW i \in 1..n, NEW j \in 1..(p + d) PROVE gs[i].id # q[j]
  <2>1. CASE j \in 1..p /\ q[j] = pool[j]
    BY <1>1, <1>11, <2>1 DEF OnceOnly
  <2>2. ASSUME NEW k \in 1..d, q[j] = fs[N + 1 - k].id, gs[i].id = q[j] PROVE FALSE
    <3>1. i = N + 1 - k
      BY <1>1, <1>5, <1>11, <2>2 DEF OnceOnly
    <3>2. i <= n
      BY <1>3
    <3> QED
      BY <1>5, <3>1, <3>2
  <2> QED
    BY <1>9, <2>1, <2>2
<1>13. ASSUME NEW j \in 1..(p + d) PROVE q[j] <= m
  <2>1. CASE j \in 1..p /\ q[j] = pool[j]
    BY <1>1, <2>1 DEF OnceOnly
  <2>2. ASSUME NEW k \in 1..d, q[j] = fs[N + 1 - k].id PROVE q[j] <= m
    BY <1>1, <1>5, <2>2 DEF OnceOnly
  <2> QED
    BY <1>9, <2>1, <2>2
<1>14. \A i, j \in 1..n : gs[i].id = gs[j].id => i = j
  BY <1>1, <1>11 DEF OnceOnly
<1>15. \A i \in 1..n : gs[i].id <= m
  BY <1>1, <1>11 DEF OnceOnly
<1>16. Len(gs) + Len(q) = m
  <2>1. N + p = m
    BY DEF OnceOnly, N, p
  <2>2. Len(gs) + Len(q) = n + (p + d)
    BY <1>7
  <2>3. n + (p + d) = N + p
    BY <1>1, <1>3
  <2> QED
    BY <2>1, <2>2, <2>3
<1>17. OnceOnly(gs, q, m)
  BY <1>1, <1>8, <1>10, <1>12, <1>13, <1>14, <1>15, <1>16 DEF OnceOnly
<1> QED
  BY <1>7, <1>17 DEF q, r

\* The frames of the running loop that have a handler, and those that are in a try.
Able(fs, base) == {i \in (base + 1)..Len(fs) : fs[i].handlers # <<>>}
Trying(fs, base) == {i \in (base + 1)..Len(fs) : fs[i].open # <<>>}

\* The search for a handler finds the last frame of the loop that has one, and such a frame
\* is found if one is in a try.
LEMMA CatcherFound ==
    ASSUME NEW fs \in Seq(FrameRecords), NEW base \in Nat,
           \A i \in DOMAIN fs : FrameFine(fs[i])
    PROVE  LET c == Catcher(fs, base) IN
           /\ Able(fs, base) = {} => c = 0
           /\ Able(fs, base) # {} => /\ c \in Able(fs, base) /\ c = Greatest(Able(fs, base))
                                     /\ c \in 1..Len(fs) /\ base < c /\ c # 0
           /\ Trying(fs, base) \subseteq Able(fs, base)
           /\ Trying(fs, base) # {} => /\ Greatest(Trying(fs, base)) \in Trying(fs, base)
                                       /\ Greatest(Trying(fs, base)) \in 1..Len(fs)
<1> DEFINE N == Len(fs)
           c == Catcher(fs, base)
<1>1. N \in Nat /\ DOMAIN fs = 1..N
  BY LenProperties
<1>2. \A i \in (base + 1)..N : i \in 1..N /\ base < i /\ i # 0
  BY <1>1
<1>3. Able(fs, base) \in SUBSET (1..N) /\ Trying(fs, base) \in SUBSET (1..N)
  BY <1>2 DEF Able, Trying
<1>4. Trying(fs, base) \subseteq Able(fs, base)
  <2> SUFFICES ASSUME NEW i \in (base + 1)..N, fs[i].open # <<>> PROVE fs[i].handlers # <<>>
    BY DEF Able, Trying
  <2>1. fs[i] \in FrameRecords /\ FrameFine(fs[i])
    BY <1>1, <1>2, ElementOfSeq
  <2>2. Len(fs[i].open) <= Len(fs[i].handlers)
    BY <2>1 DEF FrameFine
  <2>3. fs[i].open \in Seq(Tries) /\ fs[i].handlers \in Seq(Handlers)
    BY <2>1 DEF FrameRecords
  <2>4. Len(fs[i].open) \in Nat /\ Len(fs[i].open) # 0
    BY <2>3, EmptySeq, LenProperties
  <2>5. Len(fs[i].handlers) # 0
    BY <2>2, <2>4
  <2> QED
    BY <2>5
<1>5. c = IF Able(fs, base) = {} THEN 0 ELSE Greatest(Able(fs, base))
  BY DEF Catcher, Able
<1>6. ASSUME Able(fs, base) # {} PROVE c \in Able(fs, base) /\ c \in 1..N /\ base < c /\ c # 0
  <2>1. c \in Able(fs, base)
    BY <1>1, <1>3, <1>5, <1>6, GreatestOf
  <2>2. c \in (base + 1)..N
    BY <2>1 DEF Able
  <2> QED
    BY <1>2, <2>1, <2>2
<1>7. ASSUME Trying(fs, base) # {}
      PROVE  /\ Greatest(Trying(fs, base)) \in Trying(fs, base)
             /\ Greatest(Trying(fs, base)) \in 1..N
  BY <1>1, <1>3, <1>7, GreatestOf
<1> QED
  BY <1>4, <1>5, <1>6, <1>7

\* Without a jump, the handler that is found is that of the innermost try.
LEMMA CatchesInnermost ==
    ASSUME NEW fs \in Seq(FrameRecords), NEW base \in Nat,
           \A i \in DOMAIN fs : FrameFine(fs[i]),
           Able(fs, base) # {}, \A i \in (base + 1)..Len(fs) : ~fs[i].jumped
    PROVE  LET c == Catcher(fs, base) IN
           /\ Trying(fs, base) # {} /\ Greatest(Trying(fs, base)) = c
           /\ Last(fs[c].open) = Last(fs[c].handlers).try
<1> DEFINE N == Len(fs)
           c == Catcher(fs, base)
<1>1. N \in Nat /\ DOMAIN fs = 1..N
  BY LenProperties
<1>2. \A i \in (base + 1)..N : i \in 1..N
  BY <1>1
<1>3. ASSUME NEW i \in (base + 1)..N
      PROVE  /\ fs[i].open = [j \in 1..Len(fs[i].handlers) |-> fs[i].handlers[j].try]
             /\ fs[i].open \in Seq(Tries) /\ fs[i].handlers \in Seq(Handlers)
             /\ Len(fs[i].handlers) \in Nat /\ Len(fs[i].open) = Len(fs[i].handlers)
  <2>1. fs[i] \in FrameRecords /\ FrameFine(fs[i]) /\ ~fs[i].jumped
    BY <1>1, <1>2, ElementOfSeq
  <2>2. fs[i].open \in Seq(Tries) /\ fs[i].handlers \in Seq(Handlers)
    BY <2>1 DEF FrameRecords
  <2>3. DOMAIN fs[i].handlers = 1..Len(fs[i].handlers) /\ Len(fs[i].handlers) \in Nat
        /\ DOMAIN fs[i].open = 1..Len(fs[i].open) /\ Len(fs[i].open) \in Nat
    BY <2>2, LenProperties
  <2>4. fs[i].open = [j \in 1..Len(fs[i].handlers) |-> fs[i].handlers[j].try]
    BY <2>1, <2>3 DEF FrameFine
  <2>5. Len(fs[i].open) = Len(fs[i].handlers)
    BY <2>3, <2>4
  <2> QED
    BY <2>2, <2>3, <2>4, <2>5
<1>4. Trying(fs, base) = Able(fs, base)
  <2>1. ASSUME NEW i \in (base + 1)..N PROVE fs[i].open # <<>> <=> fs[i].handlers # <<>>
    BY <1>3, EmptySeq
  <2> QED
    BY <2>1 DEF Trying, Able
<1>5. c \in Able(fs, base) /\ c = Greatest(Able(fs, base))
  BY CatcherFound
<1>6. c \in (base + 1)..N /\ fs[c].handlers # <<>>
  BY <1>5 DEF Able
<1>7. Len(fs[c].handlers) \in 1..Len(fs[c].handlers)
  <2>1. Len(fs[c].handlers) # 0 /\ Len(fs[c].handlers) \in Nat
    BY <1>3, <1>6, EmptySeq
  <2> QED
    BY <2>1
<1>8. Last(fs[c].open) = Last(fs[c].handlers).try
  <2> DEFINE o == fs[c].open
             h == fs[c].handlers
  <2>1. o = [j \in 1..Len(h) |-> h[j].try] /\ Len(o) = Len(h)
    BY <1>3, <1>6
  <2>2. Len(h) \in 1..Len(h)
    BY <1>7
  <2> HIDE DEF o, h
  <2>3. o[Len(h)] = h[Len(h)].try
    BY <2>1, <2>2
  <2>4. Last(o) = h[Len(h)].try
    BY <2>1, <2>3 DEF Last
  <2>5. Last(h) = h[Len(h)]
    BY DEF Last
  <2> QED
    BY <2>4, <2>5 DEF o, h
<1> QED
  BY <1>4, <1>5, <1>8

\* The frames, the frames released, the loops and the stack that an exception is raised in.
Raisable(fs, pool, ls, top) ==
    /\ Sound(fs, pool, made, ls, resumed)
    /\ Nested(fs, ls)
    /\ ~resumed => Layered(fs, ls)
    /\ top \in 0..StackTop /\ Last(fs).base <= top /\ 1 <= MaxDepth

\* No frame of the running loop takes the exception.
LEMMA UncaughtKeeps ==
    ASSUME FramesAssumption, NEW fs, NEW pool, NEW ls, NEW top, Raisable(fs, pool, ls, top),
           Raise(fs, Last(ls).base, pool, top, Len(ls)), levels' = ls, UNCHANGED made,
           Catcher(fs, Last(ls).base) = 0
    PROVE  IInv'
<1> DEFINE base == Last(ls).base
<1>1. /\ Sound(fs, pool, made, ls, resumed) /\ Nested(fs, ls)
      /\ (~resumed => Layered(fs, ls)) /\ top \in 0..StackTop /\ Last(fs).base <= top
  BY DEF Raisable
<1>2. /\ fs \in Seq(FrameRecords) /\ pool \in Seq(1..MaxFrames) /\ made \in 1..MaxFrames
      /\ ls \in Seq(Levels) /\ resumed \in BOOLEAN /\ \A i \in DOMAIN fs : FrameFine(fs[i])
  BY <1>1 DEF Sound
<1>3. base \in Nat
  BY <1>1, <1>2, LoopsOf
<1> HIDE DEF base
<1>4. Catcher(fs, base) = 0 /\ Raise(fs, base, pool, top, Len(ls))
  BY DEF base
<1>5. /\ frames' = fs /\ framePool' = pool /\ sp' = top /\ status' = "failing"
      /\ went' = Nowhere /\ resumed' = resumed /\ excused' \in BOOLEAN
      /\ due' = IF Trying(fs, base) = {} THEN Nowhere
                ELSE <<Greatest(Trying(fs, base)), Last(fs[Greatest(Trying(fs, base))].open)>>
  BY <1>4 DEF Raise, Trying
<1>6. Trying(fs, base) = {}
  BY <1>2, <1>3, <1>4, CatcherFound
<1>7. due' = Nowhere
  BY <1>5, <1>6
<1>8. TypeOK'
  BY <1>1, <1>2, <1>5, <1>7 DEF TypeOK
<1>9. Sound(frames, framePool, made, levels, resumed)'
  BY <1>1, <1>5
<1>10. Nested(frames', levels') /\ (~resumed' => Layered(frames', levels'))
  BY <1>1, <1>5
<1>11. Active'.base <= sp'
  BY <1>1, <1>5 DEF Active
<1> QED
  BY <1>5, <1>7, <1>8, <1>9, <1>10, <1>11 DEF IInv, Running

\* A frame of the running loop takes the exception.
LEMMA CaughtKeeps ==
    ASSUME FramesAssumption, NEW fs, NEW pool, NEW ls, NEW top, Raisable(fs, pool, ls, top),
           Raise(fs, Last(ls).base, pool, top, Len(ls)), levels' = ls, UNCHANGED made,
           Catcher(fs, Last(ls).base) # 0
    PROVE  IInv'
<1> DEFINE base == Last(ls).base
           N == Len(fs)
           m == Len(ls)
           c == Catcher(fs, base)
           f == fs[c]
           h == Last(f.handlers)
           b == Len(f.handlers)
           g == WithoutHandler(f, h.outer, 1)
           kept == SubSeq(fs, 1, c - 1)
<1>1. /\ Sound(fs, pool, made, ls, resumed) /\ Nested(fs, ls)
      /\ (~resumed => Layered(fs, ls)) /\ top \in 0..StackTop /\ Last(fs).base <= top
      /\ 1 <= MaxDepth
  BY DEF Raisable
<1>2. /\ fs \in Seq(FrameRecords) /\ pool \in Seq(1..MaxFrames) /\ made \in 1..MaxFrames
      /\ ls \in Seq(Levels) /\ resumed \in BOOLEAN /\ \A i \in DOMAIN fs : FrameFine(fs[i])
      /\ Stacked(fs) /\ (~resumed => Exact(fs)) /\ OnceOnly(fs, pool, made) /\ Closures(fs, ls)
  BY <1>1 DEF Sound
<1>3. /\ base \in Nat /\ base < N /\ N \in Nat \ {0} /\ DOMAIN fs = 1..N
      /\ m \in Nat \ {0} /\ DOMAIN ls = 1..m
      /\ \A k \in 1..m : ls[k].base <= base /\ ls[k].base \in Nat
      /\ \A k \in 2..m : ls[k].base \in 1..(N - 1)
  BY <1>1, <1>2, LoopsOf
<1>4. /\ Raise(fs, base, pool, top, m) /\ c # 0
  OBVIOUS
<1> HIDE DEF base
<1>5. /\ c \in Able(fs, base) /\ c \in 1..N /\ base < c
      /\ Able(fs, base) # {}
      /\ Trying(fs, base) # {} => /\ Greatest(Trying(fs, base)) \in Trying(fs, base)
                                  /\ Greatest(Trying(fs, base)) \in 1..Len(fs)
  BY <1>2, <1>3, <1>4, CatcherFound
<1>6. f.handlers # <<>> /\ c \in (base + 1)..N
  BY <1>5 DEF Able
<1>7. f \in FrameRecords /\ FrameFine(f)
  BY <1>2, <1>3, <1>5, ElementOfSeq
<1>8. /\ frames' = Append(kept, g)
      /\ framePool' = pool \o Released(fs, c)
      /\ sp' = DepthRestored(h, top) + 1 /\ status' = "running" /\ went' = <<c, h.try>>
      /\ resumed' = (resumed \/ f.level > m)
      /\ due' = IF Trying(fs, base) = {} THEN Nowhere
                ELSE <<Greatest(Trying(fs, base)), Last(fs[Greatest(Trying(fs, base))].open)>>
      /\ excused' = \E i \in (base + 1)..N : fs[i].jumped
  BY <1>4 DEF Raise, Trying, WithoutHandler
<1> HIDE DEF c
<1>9. /\ f.handlers \in Seq(Handlers) /\ h \in Handlers /\ h = f.handlers[b]
      /\ b \in DOMAIN f.handlers /\ b \in Nat \ {0} /\ DOMAIN f.handlers = 1..b
  <2>1. f.handlers \in Seq(Handlers)
    BY <1>7 DEF FrameRecords
  <2> QED
    BY <1>6, <2>1, FrontOf
<1>10. /\ Len(h.outer) < b /\ f.base <= h.depth /\ h.depth < StackTop
       /\ ~f.jumped => h.outer = [k \in 1..(b - 1) |-> f.handlers[k].try]
  BY <1>7, <1>9 DEF FrameFine
<1>11. h.outer \in Seq(Tries) /\ h.try \in Tries /\ h.depth \in Nat /\ f.base \in Nat
       /\ f.level \in Nat /\ top \in Nat
  <2>1. f.base \in Nat /\ f.level \in Nat
    BY <1>7 DEF FrameRecords, FramesAssumption
  <2>2. h \in Handlers
    BY <1>9
  <2> HIDE DEF f, h
  <2>3. h.outer \in Seq(Tries) /\ h.try \in Tries /\ h.depth \in Nat
    BY <2>2 DEF Handlers, FramesAssumption
  <2>4. top \in Nat
    BY <1>1 DEF FramesAssumption
  <2> QED
    BY <2>1, <2>3, <2>4
<1>12. 1 \in 0..MaxDepth
  BY <1>1 DEF FramesAssumption
<1>13. /\ g \in FrameRecords /\ FrameFine(g) /\ g.id = f.id /\ g.base = f.base
       /\ g.via = f.via /\ g.level = f.level /\ g.depth = 1
       /\ \A j \in DOMAIN g.handlers : j \in DOMAIN f.handlers /\ g.handlers[j] = f.handlers[j]
  <2> HIDE DEF f, h
  <2>1. f.handlers # <<>>
    BY <1>6
  <2>2. Len(h.outer) < Len(f.handlers)
    BY <1>10
  <2>3. ~f.jumped => h.outer = [k \in 1..(Len(f.handlers) - 1) |-> f.handlers[k].try]
    BY <1>10
  <2> QED
    BY <1>7, <1>11, <1>12, <2>1, <2>2, <2>3, HandlerGoes
<1> HIDE DEF g
<1>14. /\ kept \in Seq(FrameRecords) /\ Len(kept) = c - 1
       /\ \A i \in 1..(c - 1) : kept[i] = fs[i]
  <2>1. c - 1 \in 0..Len(fs)
    BY <1>3, <1>5
  <2> QED
    BY <1>2, <2>1, Prefix
<1> HIDE DEF kept
<1>15. /\ frames' \in Seq(FrameRecords) /\ frames' # <<>> /\ Len(frames') = c
       /\ DOMAIN frames' = 1..c /\ frames'[c] = g /\ Last(frames') = g
       /\ \A i \in 1..(c - 1) : frames'[i] = fs[i]
  <2>1. /\ frames' \in Seq(FrameRecords) /\ frames' # <<>>
        /\ Len(frames') = Len(kept) + 1 /\ DOMAIN frames' = 1..(Len(kept) + 1)
        /\ \A i \in 1..Len(kept) : frames'[i] = kept[i]
        /\ frames'[Len(kept) + 1] = g /\ Last(frames') = g
    BY <1>8, <1>13, <1>14, Appended
  <2>2. Len(kept) + 1 = c
    BY <1>5, <1>14
  <2> QED
    BY <1>14, <2>1, <2>2
<1> HIDE DEF N, m, b
<1>16. c \in Nat /\ c # 0 /\ c <= N /\ c \in 1..c /\ N \in 1..N
  BY <1>3, <1>5
<1>17. \A i \in 1..c : i \in 1..N /\ (i = c \/ (i \in 1..(c - 1) /\ i # c))
  BY <1>3, <1>16
<1>18. \A i \in 1..c : /\ frames'[i].id = fs[i].id /\ frames'[i].base = fs[i].base
                       /\ frames'[i].via = fs[i].via /\ frames'[i].level = fs[i].level
                       /\ FrameFine(frames'[i])
                       /\ \A j \in DOMAIN frames'[i].handlers :
                             /\ j \in DOMAIN fs[i].handlers
                             /\ frames'[i].handlers[j] = fs[i].handlers[j]
                       /\ i # c => frames'[i] = fs[i]
  <2> SUFFICES ASSUME NEW i \in 1..c
               PROVE  /\ frames'[i].id = fs[i].id /\ frames'[i].base = fs[i].base
                      /\ frames'[i].via = fs[i].via /\ frames'[i].level = fs[i].level
                      /\ FrameFine(frames'[i])
                      /\ \A j \in DOMAIN frames'[i].handlers :
                            /\ j \in DOMAIN fs[i].handlers
                            /\ frames'[i].handlers[j] = fs[i].handlers[j]
                      /\ i # c => frames'[i] = fs[i]
    OBVIOUS
  <2>1. CASE i = c
    BY <1>13, <1>15, <2>1
  <2>2. CASE i \in 1..(c - 1)
    BY <1>2, <1>3, <1>15, <1>17, <2>2
  <2> QED
    BY <1>17, <2>1, <2>2
<1>19. Active' = g
  BY <1>15 DEF Active
<1>20. Stacked(frames')
  <2> SUFFICES ASSUME NEW i \in 1..c, NEW j \in 1..c, i < j
               PROVE  frames'[i].base + frames'[i].depth <= frames'[j].base
                      /\ frames'[i].depth < MaxDepth
    BY <1>15 DEF Stacked
  <2>1. i # c
    BY <1>16
  <2> QED
    BY <1>2, <1>3, <1>17, <1>18, <2>1 DEF Stacked
<1>21. ASSUME ~resumed PROVE Exact(frames')
  <2>1. ASSUME NEW i \in 1..(c - 1)
        PROVE  frames'[i].base + frames'[i].depth = frames'[i + 1].base
    <3>1. i \in 1..c /\ i + 1 \in 1..c /\ i # c /\ i \in 1..(N - 1)
      BY <1>3, <1>16
    <3>2. fs[i].base + fs[i].depth = fs[i + 1].base
      BY <1>2, <1>21, <3>1 DEF Exact, N
    <3> QED
      BY <1>18, <3>1, <3>2
  <2>2. ASSUME NEW i \in 1..c, NEW j \in 1..c, i < j
        PROVE  frames'[i].level <= frames'[j].level
    BY <1>2, <1>3, <1>17, <1>18, <1>21, <2>2 DEF Exact
  <2>3. ASSUME NEW i \in 1..c, NEW j \in DOMAIN frames'[i].handlers
        PROVE  frames'[i].handlers[j].depth = frames'[i].base
    <3>1. i \in DOMAIN fs
      BY <1>3, <1>17
    <3>2. j \in DOMAIN fs[i].handlers /\ frames'[i].handlers[j] = fs[i].handlers[j]
          /\ frames'[i].base = fs[i].base
      BY <1>18
    <3>3. fs[i].handlers[j].depth = fs[i].base
      BY <1>2, <1>21, <3>1, <3>2 DEF Exact
    <3> QED
      BY <3>2, <3>3
  <2> QED
    BY <1>15, <2>1, <2>2, <2>3 DEF Exact
<1>22. framePool' \in Seq(1..MaxFrames) /\ OnceOnly(frames', framePool', made)
  <2>1. c \in 0..Len(fs)
    BY <1>3, <1>16 DEF N
  <2>2. Len(frames') = c /\ \A i \in DOMAIN frames' : frames'[i].id = fs[i].id
    BY <1>15, <1>18
  <2>3. frames' \in Seq(FrameRecords)
    BY <1>15
  <2> QED
    BY <1>2, <1>8, <2>1, <2>2, <2>3, ReleasedAbove
<1>23. Closures(frames', ls)
  BY <1>2, <1>3, <1>15, <1>17, <1>18 DEF Closures
<1>24. \A k \in 2..m : ls[k].base \in 1..(c - 1)
  <2> SUFFICES ASSUME NEW k \in 2..m PROVE ls[k].base \in 1..(c - 1)
    OBVIOUS
  <2>1. k \in 1..m
    BY <1>3
  <2>2. ls[k].base <= base /\ ls[k].base \in Nat /\ ls[k].base \in 1..(N - 1)
    BY <1>3, <2>1
  <2> QED
    BY <1>3, <1>5, <1>16, <2>2
<1>25. Nested(frames', ls)
  <2>1. /\ ls # <<>> /\ Len(ls) <= MaxLevels /\ ls[1].base = 0
        /\ \A k, l \in DOMAIN ls : k < l => ls[k].base < ls[l].base
        /\ \A k \in 2..m : fs[ls[k].base].base + fs[ls[k].base].depth <= ls[k].sp
    BY <1>1 DEF Nested, m
  <2>2. Last(ls).base < c
    BY <1>5 DEF base
  <2>3. \A k \in 2..m : frames'[ls[k].base] = fs[ls[k].base]
    BY <1>15, <1>24
  <2> QED
    BY <1>15, <2>1, <2>2, <2>3 DEF Nested, m
<1>26. ASSUME ~resumed PROVE Layered(frames', ls)
  <2> SUFFICES ASSUME NEW k \in 2..m, NEW i \in 1..ls[k].base PROVE frames'[i].level < k
    BY DEF Layered, m
  <2>1. fs[i].level < k
    BY <1>1, <1>26 DEF Layered, m
  <2>2. ls[k].base \in 1..(c - 1)
    BY <1>24
  <2>3. i \in 1..c
    BY <1>16, <2>2
  <2> QED
    BY <1>18, <2>1, <2>3
<1>27. f.base <= top
  <2>1. CASE c = N
    BY <1>1, <2>1 DEF Last, N
  <2>2. CASE c # N
    <3>1. c < N
      BY <1>3, <1>16, <2>2
    <3>2. fs[c].base + fs[c].depth <= fs[N].base
      BY <1>2, <1>3, <1>5, <1>16, <3>1 DEF Stacked
    <3>3. fs[N].base <= top /\ fs[N] \in FrameRecords
      BY <1>1, <1>2, <1>16, ElementOfSeq DEF Last, N
    <3>4. fs[c].depth \in Nat /\ fs[N].base \in Nat
      BY <1>7, <3>3 DEF FrameRecords, FramesAssumption
    <3> QED
      BY <1>11, <3>2, <3>3, <3>4
  <2> QED
    BY <2>1, <2>2
<1>28. /\ sp' \in 0..StackTop /\ f.base + 1 <= sp'
       /\ h.depth = f.base => sp' = f.base + 1
  BY SMTT(30), <1>8, <1>10, <1>11, <1>27 DEF DepthRestored, FramesAssumption
<1>29. Active'.base + Active'.depth <= sp' /\ Active'.base <= sp'
  BY <1>11, <1>13, <1>19, <1>28
<1>30. ASSUME ~resumed'
       PROVE  /\ sp' = Active'.base + Active'.depth
              /\ \A i \in 1..c : frames'[i].level <= m
  <2>1. ~resumed /\ ~ (f.level > m)
    BY <1>8, <1>30
  <2>2. h.depth = f.base
    BY <1>2, <1>3, <1>5, <1>9, <2>1 DEF Exact
  <2>3. f.level <= m
    BY <1>3, <1>11, <2>1
  <2>4. ASSUME NEW i \in 1..c PROVE frames'[i].level <= m
    <3>1. CASE i = c
      BY <1>16, <1>18, <2>3, <3>1
    <3>2. CASE i # c
      <4>1. i < c /\ i \in DOMAIN fs /\ c \in DOMAIN fs
        BY <1>3, <1>5, <1>16, <1>17, <3>2
      <4>2. fs[i].level <= f.level
        BY <1>2, <2>1, <4>1 DEF Exact
      <4>3. fs[i] \in FrameRecords
        BY <1>2, <1>3, <4>1, ElementOfSeq DEF N
      <4>4. fs[i].level \in Nat
        BY <4>3 DEF FrameRecords, FramesAssumption
      <4> QED
        BY <1>3, <1>11, <1>18, <2>3, <4>2, <4>4
    <3> QED
      BY <3>1, <3>2
  <2> QED
    BY <1>13, <1>19, <1>28, <2>2, <2>4
<1>31. Balanced'
  BY <1>15, <1>29, <1>30 DEF Balanced, m
<1>32. ASSUME ~excused' PROVE went' = due'
  <2>1. \A i \in (base + 1)..N : ~fs[i].jumped
    BY <1>8, <1>32
  <2>2. /\ Trying(fs, base) # {} /\ Greatest(Trying(fs, base)) = c
        /\ Last(fs[c].open) = Last(fs[c].handlers).try
    BY <1>2, <1>3, <1>5, <2>1, CatchesInnermost DEF N, c
  <2> QED
    BY <1>8, <2>2
<1>33. \A i \in 1..N : i \in 1..MaxFrames
  <2>1. N + Len(pool) = made /\ Len(pool) \in Nat
    BY <1>2, LenProperties DEF OnceOnly, N
  <2>2. N <= MaxFrames
    BY <1>2, <1>3, <2>1 DEF FramesAssumption
  <2> QED
    BY <1>3, <2>2 DEF FramesAssumption
<1>34. went' \in (1..MaxFrames) \X Tries
  BY <1>5, <1>8, <1>11, <1>33
<1>35. due' \in (1..MaxFrames) \X Tries \cup {Nowhere}
  <2>1. CASE Trying(fs, base) = {}
    BY <1>8, <2>1
  <2>2. CASE Trying(fs, base) # {}
    <3> DEFINE i == Greatest(Trying(fs, base))
    <3>1. i \in Trying(fs, base) /\ i \in 1..N
      BY <1>5, <2>2 DEF N
    <3> HIDE DEF i
    <3>2. fs[i].open # <<>>
      BY <3>1 DEF Trying
    <3>3. fs[i] \in FrameRecords
      BY <1>2, <3>1, ElementOfSeq DEF N
    <3>4. fs[i].open \in Seq(Tries)
      BY <3>3 DEF FrameRecords
    <3>5. Last(fs[i].open) \in Tries
      BY <3>2, <3>4, FrontOf
    <3>6. due' = <<i, Last(fs[i].open)>>
      BY <1>8, <2>2 DEF i
    <3> QED
      BY <1>33, <3>1, <3>5, <3>6
  <2> QED
    BY <2>1, <2>2
<1>36. resumed' \in BOOLEAN /\ excused' \in BOOLEAN /\ (~resumed' => ~resumed)
  BY <1>2, <1>8
<1>37. Sound(frames, framePool, made, levels, resumed)'
  BY <1>2, <1>15, <1>18, <1>20, <1>21, <1>22, <1>23, <1>36 DEF Sound
<1>38. TypeOK'
  BY <1>2, <1>8, <1>15, <1>22, <1>28, <1>34, <1>35, <1>36 DEF TypeOK
<1> QED
  BY <1>25, <1>26, <1>29, <1>31, <1>32, <1>36, <1>37, <1>38 DEF IInv

\* Wherever an exception is raised, and whoever takes it.
LEMMA RaiseKeeps ==
    ASSUME FramesAssumption, NEW fs, NEW pool, NEW ls, NEW top, Raisable(fs, pool, ls, top),
           Raise(fs, Last(ls).base, pool, top, Len(ls)), levels' = ls, UNCHANGED made
    PROVE  IInv'
BY UncaughtKeeps, CaughtKeeps

\* OpThrow, or a call that fails.
LEMMA ThrowKeeps == FramesAssumption /\ IInv /\ Throw => IInv'
<1> SUFFICES ASSUME FramesAssumption, IInv, Throw PROVE IInv'
  OBVIOUS
<1>1. PICK top \in {sp - 1, sp} : Raise(frames, Last(levels).base, framePool, top, Len(levels))
  BY DEF Throw
<1>2. Running /\ Active.depth > 0 /\ levels' = levels /\ UNCHANGED made
  BY DEF Throw
<1>3. /\ Active.base \in Nat /\ Active.depth \in 0..MaxDepth /\ Active.depth \in Nat
      /\ sp \in 0..StackTop /\ sp \in Nat /\ Active.base + Active.depth <= sp
  BY <1>2, ActiveRuns
<1>4. top \in 0..StackTop /\ Active.base <= top /\ 1 <= MaxDepth
  BY <1>2, <1>3 DEF FramesAssumption
<1>5. Raisable(frames, framePool, levels, top)
  BY <1>2, <1>4 DEF Raisable, IInv, Running, Active
<1> QED
  BY <1>1, <1>2, <1>5, RaiseKeeps

\* An opcode that returns its error.
LEMMA FailKeeps == FramesAssumption /\ IInv /\ Fail => IInv'
<1> SUFFICES ASSUME FramesAssumption, IInv, Fail PROVE IInv'
  OBVIOUS
<1>1. /\ status = "running" /\ status' = "failing" /\ Quiet
      /\ UNCHANGED <<frames, framePool, made, sp, levels>>
  BY DEF Fail, Running
<1>2. TypeOK'
  BY <1>1 DEF IInv, TypeOK, Quiet
<1>3. Active' = Active
  BY <1>1 DEF Active
<1> QED
  BY <1>1, <1>2, <1>3 DEF IInv, Quiet, Running

\* The loops that are left when one has failed.
LEMMA LoopLeft ==
    ASSUME FramesAssumption, IInv, status # "ended", Len(levels) # 1
    PROVE  LET ls == Front(levels)
               l == Last(levels) IN
           /\ ls \in Seq(Levels) /\ Len(ls) = Len(levels) - 1
           /\ l \in Levels /\ l.base \in 1..(Len(frames) - 1) /\ Last(ls).base < l.base
           /\ \A k \in 2..Len(ls) : ls[k] = levels[k] /\ ls[k].base \in 1..(l.base - 1)
           /\ frames[l.base].base <= l.sp
           /\ Nested(frames, ls) /\ (~resumed => Layered(frames, ls)) /\ 1 <= MaxDepth
           /\ \A i \in DOMAIN frames :
                 frames[i].via = "closure" /\ (l.via # "closure" \/ i <= l.base) =>
                     /\ frames[i].level <= Len(ls)
                     /\ ls[frames[i].level].base = i - 1
                     /\ ls[frames[i].level].via = "closure"
<1> DEFINE m == Len(levels)
           n == Len(frames)
           ls == Front(levels)
           l == Last(levels)
<1>1. /\ frames \in Seq(FrameRecords) /\ levels \in Seq(Levels) /\ Nested(frames, levels)
      /\ Stacked(frames) /\ Closures(frames, levels) /\ (~resumed => Layered(frames, levels))
  BY DEF IInv, Sound
<1>2. /\ m \in Nat \ {0} /\ DOMAIN levels = 1..m /\ l = levels[m] /\ levels # <<>>
      /\ \A k \in 1..m : levels[k] \in Levels /\ levels[k].base \in Nat /\ levels[k].sp \in Nat
      /\ \A k \in 2..m : levels[k].base \in 1..(n - 1)
      /\ n \in Nat \ {0} /\ DOMAIN frames = 1..n
  BY <1>1, LoopsOf DEF Nested
<1>3. ls \in Seq(Levels) /\ Len(ls) = m - 1 /\ DOMAIN ls = 1..(m - 1)
      /\ \A k \in 1..(m - 1) : ls[k] = levels[k]
  BY <1>1, <1>2, FrontOf
<1> HIDE DEF ls
<1>4. m - 1 \in Nat /\ m - 1 # 0 /\ m - 1 \in 1..(m - 1) /\ m - 1 \in 1..m /\ m - 1 < m
      /\ m \in 1..m /\ m \in 2..m /\ 1 \in 1..(m - 1)
  BY <1>2
<1> HIDE DEF m, n
<1>5. \A k \in 1..(m - 1) : k \in 1..m /\ k < m
  BY <1>4
<1>6. \A k \in 2..(m - 1) : k \in 1..(m - 1) /\ k \in 2..m
  BY <1>4
<1>7. /\ levels[1].base = 0 /\ m <= MaxLevels
      /\ \A j, k \in 1..m : j < k => levels[j].base < levels[k].base
      /\ \A k \in 2..m :
            frames[levels[k].base].base + frames[levels[k].base].depth <= levels[k].sp
  BY <1>1, <1>2 DEF Nested, m
<1>8. Last(ls) = levels[m - 1] /\ Last(ls).base < l.base /\ ls # <<>>
  <2>1. Last(ls) = levels[m - 1]
    BY <1>3, <1>4 DEF Last
  <2>2. levels[m - 1].base < levels[m].base
    BY <1>4, <1>7
  <2>3. ls # <<>>
    BY <1>3, <1>4
  <2> QED
    BY <1>2, <2>1, <2>2, <2>3
<1>9. l \in Levels /\ l.base \in 1..(n - 1) /\ l.base \in Nat
  BY <1>2, <1>4
<1>10. \A k \in 2..(m - 1) : ls[k] = levels[k] /\ ls[k].base \in 1..(l.base - 1)
  <2> SUFFICES ASSUME NEW k \in 2..(m - 1)
               PROVE  ls[k] = levels[k] /\ ls[k].base \in 1..(l.base - 1)
    OBVIOUS
  <2>1. ls[k] = levels[k] /\ levels[k].base \in 1..(n - 1) /\ levels[k].base < levels[m].base
    BY <1>2, <1>3, <1>4, <1>5, <1>6, <1>7
  <2> QED
    BY <1>2, <1>9, <2>1
<1>11. l.base \in 1..n /\ l.base < n /\ n \in 1..n
  BY <1>2, <1>9
<1>12. frames[l.base] \in FrameRecords
  BY <1>1, <1>11, ElementOfSeq DEF n
<1>13. frames[l.base].base \in Nat /\ frames[l.base].depth \in Nat
  BY <1>12 DEF FrameRecords, FramesAssumption
<1>14. frames[l.base].base <= l.sp
  <2>1. frames[l.base].base + frames[l.base].depth <= l.sp
    BY <1>2, <1>4, <1>7
  <2>2. l.sp \in Nat
    BY <1>2, <1>4
  <2> QED
    BY <1>13, <2>1, <2>2
<1>15. 1 <= MaxDepth
  <2>1. frames[l.base].depth < MaxDepth
    BY <1>1, <1>2, <1>11 DEF Stacked
  <2> QED
    BY <1>13, <2>1 DEF FramesAssumption
<1>16. Nested(frames, ls)
  <2>1. m - 1 <= MaxLevels
    BY <1>2, <1>7 DEF FramesAssumption
  <2>2. ls[1].base = 0
    BY <1>3, <1>4, <1>7
  <2>3. \A j, k \in 1..(m - 1) : j < k => ls[j].base < ls[k].base
    BY <1>3, <1>5, <1>7
  <2>4. Last(ls).base < n
    <3>1. Last(ls).base \in Nat
      BY <1>2, <1>4, <1>8
    <3> QED
      BY <1>2, <1>8, <1>9, <1>11, <3>1
  <2>5. \A k \in 2..(m - 1) : frames[ls[k].base].base + frames[ls[k].base].depth <= ls[k].sp
    BY <1>6, <1>7, <1>10
  <2> QED
    BY <1>3, <1>8, <2>1, <2>2, <2>3, <2>4, <2>5 DEF Nested, n
<1>17. ASSUME ~resumed PROVE Layered(frames, ls)
  <2>1. ASSUME NEW k \in 2..(m - 1), NEW i \in 1..ls[k].base PROVE frames[i].level < k
    <3>1. k \in 2..m /\ ls[k] = levels[k]
      BY <1>6, <1>10
    <3> QED
      BY <1>1, <1>17, <3>1 DEF Layered, m
  <2> QED
    BY <1>3, <2>1 DEF Layered
<1>18. ASSUME NEW i \in 1..n, frames[i].via = "closure", l.via # "closure" \/ i <= l.base
       PROVE  /\ frames[i].level <= m - 1
              /\ ls[frames[i].level].base = i - 1
              /\ ls[frames[i].level].via = "closure"
  <2>1. /\ frames[i].level <= m
        /\ levels[frames[i].level].base = i - 1
        /\ levels[frames[i].level].via = "closure"
    BY <1>1, <1>2, <1>18 DEF Closures, m
  <2>2. frames[i] \in FrameRecords
    BY <1>1, ElementOfSeq DEF n
  <2>3. frames[i].level \in 1..MaxLevels
    BY <2>2 DEF FrameRecords
  <2>4. frames[i].level # m
    <3>1. CASE l.via # "closure"
      BY <1>2, <2>1, <3>1
    <3>2. CASE i <= l.base
      <4>1. i - 1 # l.base
        BY <1>9, <3>2
      <4> QED
        BY <1>2, <2>1, <4>1
    <3> QED
      BY <1>18, <3>1, <3>2
  <2>5. frames[i].level \in 1..(m - 1) /\ frames[i].level <= m - 1
    BY <1>2, <2>1, <2>3, <2>4
  <2> QED
    BY <1>3, <2>1, <2>5
<1> QED
  BY <1>2, <1>3, <1>8, <1>9, <1>10, <1>14, <1>15, <1>16, <1>17, <1>18 DEF ls, m, n

\* What callValue leaves of a loop that has failed: the frames below it.
LEMMA FramesBelow ==
    ASSUME FramesAssumption, IInv, status # "ended", Len(levels) # 1
    PROVE  LET l == Last(levels) IN
           Raisable(SubSeq(frames, 1, l.base), framePool \o Released(frames, l.base),
                    Front(levels), l.sp)
<1> DEFINE l == Last(levels)
           ls == Front(levels)
           fs == SubSeq(frames, 1, l.base)
           n == Len(frames)
           pool == framePool \o Released(frames, l.base)
<1>1. /\ frames \in Seq(FrameRecords) /\ framePool \in Seq(1..MaxFrames)
      /\ made \in 1..MaxFrames /\ resumed \in BOOLEAN
      /\ \A i \in DOMAIN frames : FrameFine(frames[i])
      /\ Stacked(frames) /\ (~resumed => Exact(frames)) /\ OnceOnly(frames, framePool, made)
  BY DEF IInv, Sound, TypeOK
<1>2. n \in Nat /\ DOMAIN frames = 1..n
  BY <1>1, LenProperties
<1>3. /\ ls \in Seq(Levels) /\ l \in Levels /\ l.base \in 1..(n - 1) /\ Last(ls).base < l.base
      /\ \A k \in 2..Len(ls) : ls[k].base \in 1..(l.base - 1)
      /\ frames[l.base].base <= l.sp
      /\ Nested(frames, ls) /\ (~resumed => Layered(frames, ls)) /\ 1 <= MaxDepth
      /\ \A i \in DOMAIN frames :
            frames[i].via = "closure" /\ (l.via # "closure" \/ i <= l.base) =>
                /\ frames[i].level <= Len(ls)
                /\ ls[frames[i].level].base = i - 1
                /\ ls[frames[i].level].via = "closure"
  BY LoopLeft
<1>4. /\ l.base \in 0..n /\ l.base \in Nat /\ l.base # 0 /\ l.base \in 1..l.base
      /\ \A i \in 1..l.base : i \in 1..n /\ i <= l.base
      /\ \A i \in 1..(l.base - 1) : i \in 1..(n - 1) /\ i \in 1..l.base /\ i + 1 \in 1..l.base
  BY <1>2, <1>3
<1>5. /\ fs \in Seq(FrameRecords) /\ Len(fs) = l.base /\ DOMAIN fs = 1..l.base
      /\ \A i \in 1..l.base : fs[i] = frames[i]
  BY <1>1, <1>4, Prefix
<1> HIDE DEF fs
<1>6. pool \in Seq(1..MaxFrames) /\ OnceOnly(fs, pool, made)
  <2>1. \A i \in DOMAIN fs : fs[i].id = frames[i].id
    BY <1>5
  <2>2. l.base \in 0..Len(frames) /\ Len(fs) = l.base /\ fs \in Seq(FrameRecords)
    BY <1>4, <1>5
  <2> HIDE DEF l
  <2> QED
    BY <1>1, <2>1, <2>2, ReleasedAbove
<1> HIDE DEF l, ls, pool
<1>7. \A i \in DOMAIN fs : FrameFine(fs[i])
  BY <1>1, <1>2, <1>4, <1>5
<1>8. Stacked(fs)
  BY <1>1, <1>2, <1>4, <1>5 DEF Stacked
<1>9. ASSUME ~resumed PROVE Exact(fs)
  <2>1. ASSUME NEW i \in 1..(l.base - 1) PROVE fs[i].base + fs[i].depth = fs[i + 1].base
    BY <1>1, <1>4, <1>5, <1>9 DEF Exact, n
  <2>2. \A i, j \in 1..l.base : i < j => fs[i].level <= fs[j].level
    BY <1>1, <1>2, <1>4, <1>5, <1>9 DEF Exact
  <2>3. \A i \in 1..l.base : \A j \in DOMAIN fs[i].handlers : fs[i].handlers[j].depth = fs[i].base
    BY <1>1, <1>2, <1>4, <1>5, <1>9 DEF Exact
  <2> QED
    BY <1>5, <2>1, <2>2, <2>3 DEF Exact
<1>10. Closures(fs, ls)
  BY <1>2, <1>3, <1>4, <1>5 DEF Closures
<1>11. Sound(fs, pool, made, ls, resumed)
  BY <1>1, <1>3, <1>5, <1>6, <1>7, <1>8, <1>9, <1>10 DEF Sound
<1>12. Nested(fs, ls)
  <2>1. \A k \in 2..Len(ls) : fs[ls[k].base] = frames[ls[k].base]
    BY <1>3, <1>4, <1>5
  <2> QED
    BY <1>3, <1>5, <2>1 DEF Nested
<1>13. ASSUME ~resumed PROVE Layered(fs, ls)
  <2> SUFFICES ASSUME NEW k \in 2..Len(ls), NEW i \in 1..ls[k].base PROVE fs[i].level < k
    BY DEF Layered
  <2>1. ls[k].base \in 1..(l.base - 1)
    BY <1>3
  <2>2. i \in 1..l.base
    BY <1>4, <2>1
  <2> QED
    BY <1>3, <1>5, <1>13, <2>2 DEF Layered
<1>14. l.sp \in 0..StackTop /\ Last(fs).base <= l.sp
  BY <1>3, <1>4, <1>5 DEF Levels, Last
<1> QED
  BY <1>3, <1>11, <1>12, <1>13, <1>14 DEF Raisable, l, ls, fs, pool

\* An error that leaves a loop.
LEMMA UnwindKeeps == FramesAssumption /\ IInv /\ Unwind => IInv'
<1> SUFFICES ASSUME FramesAssumption, IInv, Unwind PROVE IInv'
  OBVIOUS
<1> DEFINE l == Last(levels)
           ls == Front(levels)
<1>1. /\ status = "failing" /\ UNCHANGED made
      /\ TypeOK /\ Sound(frames, framePool, made, levels, resumed)
      /\ Active.base <= sp
  BY DEF Unwind, IInv
<1>2. CASE Len(levels) = 1
  <2>1. status' = "ended" /\ UNCHANGED <<frames, framePool, sp, levels>> /\ Quiet
    BY <1>2 DEF Unwind
  <2>2. TypeOK'
    BY <1>1, <2>1 DEF TypeOK, Quiet
  <2> QED
    BY <1>1, <2>1, <2>2 DEF IInv, Running, Quiet
<1>3. ASSUME Len(levels) # 1
      PROVE  /\ ls \in Seq(Levels) /\ Nested(frames, ls)
             /\ (~resumed => Layered(frames, ls)) /\ 1 <= MaxDepth /\ levels' = ls
             /\ Len(ls) = Len(levels) - 1
             /\ l.via # "closure" => Sound(frames, framePool, made, ls, resumed)
  <2>1. /\ ls \in Seq(Levels) /\ Nested(frames, ls) /\ Len(ls) = Len(levels) - 1
        /\ (~resumed => Layered(frames, ls)) /\ 1 <= MaxDepth
        /\ l.via # "closure" => Closures(frames, ls)
    BY <1>1, <1>3, LoopLeft DEF Closures
  <2> HIDE DEF l, ls
  <2>2. l.via # "closure" => Sound(frames, framePool, made, ls, resumed)
    BY <1>1, <2>1 DEF Sound
  <2> QED
    BY <1>3, <2>1, <2>2 DEF Unwind, l, ls
<1>4. CASE Len(levels) # 1 /\ l.via = "operator"
  <2>1. UNCHANGED <<frames, framePool, sp, status>> /\ Quiet /\ levels' = ls
    BY <1>4 DEF Unwind
  <2>2. TypeOK'
    BY <1>1, <1>3, <1>4, <2>1 DEF TypeOK, Quiet
  <2>3. Active' = Active /\ status' = "failing"
    BY <1>1, <2>1 DEF Active
  <2> HIDE DEF l, ls
  <2>4. /\ Sound(frames', framePool', made', levels', resumed') /\ Nested(frames', levels')
        /\ ~resumed' => Layered(frames', levels')
    BY <1>1, <1>3, <1>4, <2>1 DEF Quiet
  <2> QED
    BY <1>1, <2>1, <2>2, <2>3, <2>4 DEF IInv, Running, Quiet
<1>5. CASE Len(levels) # 1 /\ l.via = "closure"
  <2>1. Raisable(SubSeq(frames, 1, l.base), framePool \o Released(frames, l.base), ls, l.sp)
    BY <1>1, <1>5, FramesBelow
  <2>2. Raise(SubSeq(frames, 1, l.base), Last(ls).base, framePool \o Released(frames, l.base),
              l.sp, Len(ls))
    BY <1>3, <1>5 DEF Unwind, CleanUp
  <2> HIDE DEF l, ls
  <2> QED
    BY <1>1, <1>3, <1>5, <2>1, <2>2, RaiseKeeps
<1>6. CASE Len(levels) # 1 /\ l.via # "closure" /\ l.via # "operator"
  <2>1. Raise(frames, Last(ls).base, framePool, sp, Len(ls))
    BY <1>3, <1>6 DEF Unwind, CleanUp
  <2>2. Raisable(frames, framePool, ls, sp)
    BY <1>1, <1>3, <1>6 DEF Raisable, TypeOK, Active
  <2> HIDE DEF l, ls
  <2> QED
    BY <1>1, <1>3, <1>6, <2>1, <2>2, RaiseKeeps
<1> QED
  BY <1>2, <1>4, <1>5, <1>6

-----------------------------------------------------------------------------
(* The specification *)

\* Run starts with one frame and one loop.
LEMMA InitFine == FramesAssumption /\ Init => IInv
<1> SUFFICES ASSUME FramesAssumption, Init PROVE IInv
  OBVIOUS
<1> DEFINE f == NewFrame(1, 0, "call", 1)
           l == [base |-> 0, via |-> "call", sp |-> 0]
<1>1. /\ 1 \in 1..MaxFrames /\ 0 \in 0..StackTop /\ 0 < StackTop /\ 1 \in 1..MaxLevels
      /\ 0 \in 0..MaxFrames /\ 1 <= MaxLevels /\ "call" \in Vias
  BY DEF FramesAssumption, Vias
<1>2. /\ f \in FrameRecords /\ FrameFine(f)
      /\ f.id = 1 /\ f.base = 0 /\ f.via = "call" /\ f.level = 1 /\ f.depth = 0
      /\ DOMAIN f.handlers = {}
  BY <1>1, NewFrameFine
<1>3. l \in Levels /\ l.base = 0
  BY <1>1 DEF Levels
<1> HIDE DEF f, l
<1>4. /\ frames = <<f>> /\ levels = <<l>> /\ framePool = <<>> /\ made = 1 /\ sp = 0
      /\ status = "running" /\ went = Nowhere /\ due = Nowhere
      /\ excused = FALSE /\ resumed = FALSE
  BY DEF Init, f, l
<1>5. /\ frames \in Seq(FrameRecords) /\ Len(frames) = 1 /\ DOMAIN frames = {1}
      /\ frames[1] = f /\ Last(frames) = f /\ Active = f
  BY <1>2, <1>4 DEF Last, Active
<1>6. /\ levels \in Seq(Levels) /\ Len(levels) = 1 /\ DOMAIN levels = {1} /\ levels # <<>>
      /\ levels[1] = l /\ Last(levels) = l
  BY <1>3, <1>4 DEF Last
<1>7. framePool \in Seq(1..MaxFrames) /\ Len(framePool) = 0 /\ DOMAIN framePool = {}
  BY <1>4
<1>8. TypeOK
  BY <1>1, <1>4, <1>5, <1>6, <1>7 DEF TypeOK
<1>9. Stacked(frames) /\ Exact(frames)
  BY <1>2, <1>5 DEF Stacked, Exact
<1>10. OnceOnly(frames, framePool, made)
  BY <1>2, <1>4, <1>5, <1>7 DEF OnceOnly
<1>11. Closures(frames, levels)
  BY <1>2, <1>5 DEF Closures
<1>12. Sound(frames, framePool, made, levels, resumed)
  BY <1>1, <1>2, <1>4, <1>5, <1>6, <1>7, <1>9, <1>10, <1>11 DEF Sound
<1>13. Nested(frames, levels) /\ Layered(frames, levels)
  BY <1>1, <1>3, <1>5, <1>6 DEF Nested, Layered
<1>14. Active.base <= sp /\ Active.base + Active.depth = sp
  BY <1>2, <1>4, <1>5
<1>15. Balanced
  BY <1>2, <1>4, <1>5, <1>6, <1>14 DEF Balanced
<1> QED
  BY <1>4, <1>8, <1>12, <1>13, <1>14, <1>15 DEF IInv

\* Every step keeps the invariant.
LEMMA StepKeeps == FramesAssumption /\ IInv /\ [Next]_vars => IInv'
<1> SUFFICES ASSUME FramesAssumption, IInv, [Next]_vars PROVE IInv'
  OBVIOUS
<1>1. CASE Push
  BY <1>1, PushKeeps
<1>2. CASE Pop
  BY <1>2, PopKeeps
<1>3. CASE EnterTry
  BY <1>3, EnterTryKeeps
<1>4. CASE ExitTry
  BY <1>4, ExitTryKeeps
<1>5. CASE Jump
  BY <1>5, JumpKeeps
<1>6. CASE Call
  BY <1>6, CallKeeps
<1>7. CASE CallBack
  BY <1>7, CallBackKeeps
<1>8. CASE Return
  BY <1>8, ReturnKeeps
<1>9. CASE Throw
  BY <1>9, ThrowKeeps
<1>10. CASE Fail
  BY <1>10, FailKeeps
<1>11. CASE Unwind
  BY <1>11, UnwindKeeps
<1>12. CASE UNCHANGED vars
  <2>1. /\ UNCHANGED <<frames, framePool, made, sp, levels, status>>
        /\ UNCHANGED <<went, due, excused, resumed>>
    BY <1>12 DEF vars, ghostVars
  <2>2. TypeOK'
    BY <2>1 DEF IInv, TypeOK
  <2>3. Active' = Active
    BY <2>1 DEF Active
  <2>4. Balanced' <=> Balanced
    BY <2>1, <2>3 DEF Balanced
  <2> QED
    BY <2>1, <2>2, <2>3, <2>4 DEF IInv, Running
<1> QED
  BY <1>1, <1>2, <1>3, <1>4, <1>5, <1>6, <1>7, <1>8, <1>9, <1>10, <1>11, <1>12 DEF Next

\* Handlers mirror the open tries, an exception goes to the innermost of them, the stack is
\* balanced and every frame accounted for in each state of the invariant.
LEMMA InvariantImplies ==
    FramesAssumption /\ IInv => CatchIsInnermost /\ StackBalanced /\ FramesAccountedFor
<1> SUFFICES ASSUME FramesAssumption, IInv
             PROVE  CatchIsInnermost /\ StackBalanced /\ FramesAccountedFor
  OBVIOUS
<1>1. /\ frames \in Seq(FrameRecords) /\ levels \in Seq(Levels)
      /\ \A i \in DOMAIN frames : FrameFine(frames[i])
      /\ Stacked(frames) /\ (~resumed => Exact(frames))
      /\ OnceOnly(frames, framePool, made) /\ Closures(frames, levels)
  BY DEF IInv, Sound
<1>2. DOMAIN frames = 1..Len(frames) /\ Len(frames) \in Nat /\ Len(levels) \in Nat
  BY <1>1, LenProperties
<1>3. CatchIsInnermost
  <2>1. HandlersMirrorTries
    <3> SUFFICES ASSUME NEW i \in DOMAIN frames
                 PROVE  LET f == frames[i] IN
                        /\ ~f.jumped => [j \in DOMAIN f.handlers |-> f.handlers[j].try] = f.open
                        /\ ~resumed => \A j \in DOMAIN f.handlers : f.handlers[j].depth = f.base
      BY DEF HandlersMirrorTries
    <3>1. FrameFine(frames[i])
      BY <1>1
    <3>2. ~resumed => \A j \in DOMAIN frames[i].handlers :
                          frames[i].handlers[j].depth = frames[i].base
      BY <1>1 DEF Exact
    <3> QED
      BY <3>1, <3>2 DEF FrameFine
  <2> QED
    BY <2>1 DEF CatchIsInnermost, IInv
<1>4. \A i \in DOMAIN frames : frames[i].level \in Nat
  <2>1. \A i \in DOMAIN frames : frames[i] \in FrameRecords
    BY <1>1, <1>2, ElementOfSeq
  <2> QED
    BY <2>1 DEF FrameRecords, FramesAssumption
<1>5. ASSUME status = "running"
      PROVE  /\ sp >= Active.base + Active.depth
             /\ ~resumed => sp = Active.base + Active.depth
             /\ Len(frames) > Last(levels).base
             /\ \A i \in DOMAIN frames :
                   frames[i].level > Len(levels) => resumed /\ frames[i].via # "closure"
  <2>1. Running /\ Balanced /\ Nested(frames, levels)
    BY <1>5 DEF IInv, Running
  <2>2. Active.base \in Nat /\ Active.depth \in Nat /\ sp \in Nat
    BY <2>1, ActiveRuns
  <2>3. sp >= Active.base + Active.depth /\ (~resumed => sp = Active.base + Active.depth)
    BY <2>1, <2>2 DEF Balanced
  <2>4. Len(frames) > Last(levels).base
    <3>1. Last(levels).base < Len(frames) /\ Last(levels).base \in Nat
      BY <1>1, <2>1, LoopsOf
    <3> QED
      BY <1>2, <3>1
  <2>5. ASSUME NEW i \in DOMAIN frames, frames[i].level > Len(levels)
        PROVE  resumed /\ frames[i].via # "closure"
    <3>1. ~ (frames[i].level <= Len(levels))
      BY <1>2, <1>4, <2>5
    <3> QED
      BY <1>1, <2>1, <3>1 DEF Balanced, Closures, IInv, TypeOK
  <2> QED
    BY <2>3, <2>4, <2>5
<1>6. \A i \in 1..(Len(frames) - 1) : frames[i].base + frames[i].depth <= frames[i + 1].base
  <2> SUFFICES ASSUME NEW i \in 1..(Len(frames) - 1)
               PROVE  frames[i].base + frames[i].depth <= frames[i + 1].base
    OBVIOUS
  <2>1. i \in 1..Len(frames) /\ i + 1 \in 1..Len(frames) /\ i < i + 1
    BY <1>2
  <2> QED
    BY <1>1, <1>2, <2>1 DEF Stacked
<1>7. StackBalanced
  BY <1>5, <1>6 DEF StackBalanced
<1>8. OnePlaceEach
  BY <1>1 DEF OnceOnly, OnePlaceEach
<1>9. LeftoversReleased
  BY <1>5 DEF LeftoversReleased
<1> QED
  BY <1>3, <1>7, <1>8, <1>9 DEF FramesAccountedFor

\* The invariant holds in every state that the VM reaches.
THEOREM Invariance == ASSUME FramesAssumption PROVE Spec => []IInv
<1>1. Init => IInv
  BY InitFine
<1>2. IInv /\ [Next]_vars => IInv'
  BY StepKeeps
<1> QED
  BY <1>1, <1>2, PTL DEF Spec

\* Every frame, handler and loop has its type, whatever is called, thrown or unwound: no
\* stack pointer goes below zero or over the top that acquireFrame and OpPush check.
THEOREM TypeCorrect == ASSUME FramesAssumption PROVE Spec => []TypeOK
<1>1. IInv => TypeOK
  BY DEF IInv
<1> QED
  BY <1>1, Invariance, PTL

\* An exception goes to the handler of the innermost try that is open in the running loop,
\* unless a frame of that loop has jumped out of a try.
THEOREM InnermostCatches == ASSUME FramesAssumption PROVE Spec => []CatchIsInnermost
<1>1. IInv => CatchIsInnermost
  BY InvariantImplies
<1> QED
  BY <1>1, Invariance, PTL

\* The active frame has the operands its code expects on the stack, and no frame's
\* operands overlap those of the next.
THEOREM StackStaysBalanced == ASSUME FramesAssumption PROVE Spec => []StackBalanced
<1>1. IInv => StackBalanced
  BY InvariantImplies
<1> QED
  BY <1>1, Invariance, PTL

\* Every frame that acquireFrame has made is in use or in the pool, once, and frames of a
\* loop that is gone stay in use only below one that was resumed.
THEOREM NoFrameLost == ASSUME FramesAssumption PROVE Spec => []FramesAccountedFor
<1>1. IInv => FramesAccountedFor
  BY InvariantImplies
<1> QED
  BY <1>1, Invariance, PTL
=============================================================================
