--------------------------- MODULE EmitterProofs ---------------------------
(***************************************************************************)
(* Emitter for any number of locals, conditions and negations: the bytes   *)
(* are what the listing says.                                              *)
(*                                                                         *)
(* A chunk is good when its entries follow one another from the first byte *)
(* to the last, each on an instruction that does what it says; one extends *)
(* another when it is good and starts with it.  Every operation of the     *)
(* compiler extends the chunk it is given, or cuts it where an instruction *)
(* starts and extends that: the lemmas are about these two, then about the *)
(* peepholes, then about the actions.                                      *)
(*                                                                         *)
(* The invariant is conditional: it says nothing of a chunk whose operands *)
(* do not fit, or in which a peephole has taken an operand for an opcode.  *)
(* So a proof about a step needs that what fits after it has fitted before *)
(* it: that chunks, constants and locals only grow, whatever the operands. *)
(***************************************************************************)
EXTENDS Emitter, Integers, TLAPS

Cells == 0 .. 255
Words == {n \in Nat : n < 65536}
Steps == Ops \X Seq(Nat)
Entries == [at : Nat, does : Seq(Steps), goal : Nat]

-----------------------------------------------------------------------------
(* Bytes *)

\* No two instructions have the same opcode.
LEMMA OpcodesDiffer ==
    ASSUME NEW a \in Ops, NEW b \in Ops, Opcode[a] = Opcode[b]
    PROVE  a = b
BY DEF Ops, Opcode

\* An opcode is a byte.
LEMMA OpcodeIsByte == \A op \in Ops : Opcode[op] \in Cells
BY DEF Ops, Opcode, Cells

\* Whatever is cut down to a byte is one.
LEMMA HalvesAreBytes == \A n \in Int : Low(n) \in Cells /\ High(n) \in Cells
BY DEF Low, High, Byte, Cells

\* A byte that fits is kept, and so is a word that does.
LEMMA LowFits == \A n \in Cells : Low(n) = n
BY DEF Low, Byte, Cells

\* The two bytes of a word are the word.
LEMMA WordFits ==
    ASSUME NEW n \in Nat, n < 65536
    PROVE  High(n) * 256 + Low(n) = n
<1>1. n \div 256 \in Nat /\ n \div 256 < 256
  OBVIOUS
<1>2. PICK q \in Nat : n \div 256 = q /\ n % 256 = n - q * 256
  OBVIOUS
<1>3. \A k \in Nat : k < 256 => k % 256 = k
  OBVIOUS
<1>4. High(n) = q
  BY <1>1, <1>2, <1>3 DEF High, Byte
<1>5. Low(n) = n - q * 256
  BY <1>2 DEF Low, Byte
<1>6. q * 256 + (n - q * 256) = n
  OBVIOUS
<1> QED
  BY ONLY <1>4, <1>5, <1>6

-----------------------------------------------------------------------------
(* Sequences *)

\* What is where in a concatenation.
LEMMA Joined ==
    ASSUME NEW S, NEW a, NEW b, NEW c, a \in Seq(S), b \in Seq(S), c = a \o b
    PROVE  /\ c \in Seq(S) /\ Len(c) = Len(a) + Len(b) /\ Len(a) \in Nat /\ Len(b) \in Nat
           /\ \A i \in 1 .. Len(a) : c[i] = a[i]
           /\ \A i \in 1 .. Len(b) : c[Len(a) + i] = b[i]
OBVIOUS

\* Sequences with the same elements are the same.
LEMMA SameSequence ==
    ASSUME NEW S, NEW s \in Seq(S), NEW t \in Seq(S), Len(s) = Len(t),
           \A i \in 1 .. Len(s) : s[i] = t[i]
    PROVE  s = t
OBVIOUS

\* t is s with one element more.
LEMMA OneMore ==
    ASSUME NEW S, NEW s \in Seq(S), NEW x \in S, NEW t \in Seq(S), Len(t) = Len(s) + 1,
           \A i \in 1 .. Len(s) : t[i] = s[i], t[Len(s) + 1] = x
    PROVE  s \o <<x>> = t
<1> DEFINE u == s \o <<x>>
<1>1. /\ u \in Seq(S) /\ Len(u) = Len(s) + 1 /\ u[Len(s) + 1] = x
      /\ \A i \in 1 .. Len(s) : u[i] = s[i]
  OBVIOUS
<1> HIDE DEF u
<1>2. \A i \in 1 .. Len(u) : u[i] = t[i]
  BY <1>1
<1>3. u = t
  BY ONLY <1>1, <1>2, t \in Seq(S), Len(t) = Len(s) + 1, SameSequence
<1> QED
  BY ONLY <1>3 DEF u

\* Tuples written one element after the other: what fused instructions do.
LEMMA Two ==
    ASSUME NEW S, NEW a \in S, NEW b \in S
    PROVE  <<a>> \o <<b>> = <<a, b>>
<1> DEFINE s == <<a>>
           t == <<a, b>>
<1>1. s \in Seq(S) /\ Len(s) = 1 /\ t \in Seq(S) /\ Len(t) = Len(s) + 1 /\ t[Len(s) + 1] = b
  OBVIOUS
<1>2. \A i \in 1 .. 1 : t[i] = s[i]
  OBVIOUS
<1> HIDE DEF s, t
<1>3. s \o <<b>> = t
  BY ONLY <1>1, <1>2, b \in S, OneMore, Zenon
<1> QED
  BY ONLY <1>3 DEF s, t

\* ... and one element more.
LEMMA Three ==
    ASSUME NEW S, NEW a \in S, NEW b \in S, NEW c \in S
    PROVE  <<a, b>> \o <<c>> = <<a, b, c>>
<1> DEFINE s == <<a, b>>
           t == <<a, b, c>>
<1>1. s \in Seq(S) /\ Len(s) = 2 /\ t \in Seq(S) /\ Len(t) = Len(s) + 1 /\ t[Len(s) + 1] = c
  OBVIOUS
<1>2. \A i \in 1 .. 2 : t[i] = s[i]
  OBVIOUS
<1> HIDE DEF s, t
<1>3. s \o <<c>> = t
  BY ONLY <1>1, <1>2, c \in S, OneMore, Zenon
<1> QED
  BY ONLY <1>3 DEF s, t

\* ... and one element more.
LEMMA Four ==
    ASSUME NEW S, NEW a \in S, NEW b \in S, NEW c \in S, NEW d \in S
    PROVE  <<a, b, c>> \o <<d>> = <<a, b, c, d>>
<1> DEFINE s == <<a, b, c>>
           t == <<a, b, c, d>>
<1>1. s \in Seq(S) /\ Len(s) = 3 /\ t \in Seq(S) /\ Len(t) = Len(s) + 1 /\ t[Len(s) + 1] = d
  OBVIOUS
<1>2. \A i \in 1 .. 3 : t[i] = s[i]
  OBVIOUS
<1> HIDE DEF s, t
<1>3. s \o <<d>> = t
  BY ONLY <1>1, <1>2, d \in S, OneMore, Zenon
<1> QED
  BY ONLY <1>3 DEF s, t

\* ... and one element more.
LEMMA Five ==
    ASSUME NEW S, NEW a \in S, NEW b \in S, NEW c \in S, NEW d \in S, NEW e \in S
    PROVE  <<a, b, c, d>> \o <<e>> = <<a, b, c, d, e>>
<1> DEFINE s == <<a, b, c, d>>
           t == <<a, b, c, d, e>>
<1>1. s \in Seq(S) /\ Len(s) = 4 /\ t \in Seq(S) /\ Len(t) = Len(s) + 1 /\ t[Len(s) + 1] = e
  OBVIOUS
<1>2. \A i \in 1 .. 4 : t[i] = s[i]
  OBVIOUS
<1> HIDE DEF s, t
<1>3. s \o <<e>> = t
  BY ONLY <1>1, <1>2, e \in S, OneMore, Zenon
<1> QED
  BY ONLY <1>3 DEF s, t

\* The work of four entries with one step each, with nothing of a negation between.
LEMMA FourInOne ==
    ASSUME NEW S, NEW a \in S, NEW b \in S, NEW c \in S, NEW d \in S
    PROVE  <<a>> \o <<b>> \o <<c>> \o <<>> \o <<d>> = <<a, b, c, d>>
<1>1. <<a>> \o <<b>> = <<a, b>>
  BY ONLY a \in S, b \in S, Two
<1>2. <<a, b>> \o <<c>> = <<a, b, c>>
  BY ONLY a \in S, b \in S, c \in S, Three
<1>3. <<a, b, c>> \o <<>> = <<a, b, c>>
  OBVIOUS
<1>4. <<a, b, c>> \o <<d>> = <<a, b, c, d>>
  BY ONLY a \in S, b \in S, c \in S, d \in S, Four
<1> QED
  BY ONLY <1>1, <1>2, <1>3, <1>4, Zenon

\* A function over 1 .. n is a sequence.
LEMMA IsSequence ==
    ASSUME NEW S, NEW n \in Nat, NEW f, f \in [1 .. n -> S]
    PROVE  f \in Seq(S) /\ Len(f) = n
OBVIOUS

\* An opcode with operands is something that an entry can do.
LEMMA IsStep == \A op \in Ops, args \in Seq(Nat) : <<op, args>> \in Steps
BY DEF Steps

\* An instruction without operands, as what an entry does.
LEMMA WithoutOperands ==
    ASSUME NEW op \in Ops
    PROVE  <<<<op, <<>>>>>> \in Seq(Steps)
<1> DEFINE none == <<>>
<1>1. none \in Seq(Nat)
  OBVIOUS
<1> HIDE DEF none
<1>2. <<op, none>> \in Steps
  BY ONLY op \in Ops, <1>1, IsStep
<1>3. <<<<op, none>>>> \in Seq(Steps)
  BY ONLY <1>2
<1> QED
  BY ONLY <1>3 DEF none

-----------------------------------------------------------------------------
(* Kinds of instructions *)

BareOps == {"POP", "NOT", "ADD_NUM", "LESS_NUM", "GREATER_NUM"}

\* Every opcode is of one of the kinds that the widths tell apart.
LEMMA Kinds ==
    /\ Ops = BareOps \cup LocalOps \cup {"CONSTANT", "INVOKE_METHOD", "CALL_CONST"}
             \cup {"GET_LOCAL_ARRAY_FIELD"} \cup Jumps
    /\ Jumps = PlainJumps \cup FusedLocalJumps \cup FusedFieldJumps
    /\ Jumps \cap (BareOps \cup LocalOps \cup {"CONSTANT", "INVOKE_METHOD", "CALL_CONST"}
                   \cup {"GET_LOCAL_ARRAY_FIELD"}) = {}
BY DEF Ops, Opcode, BareOps, LocalOps, Jumps, PlainJumps, FusedLocalJumps, FusedFieldJumps

\* The width of each kind.
LEMMA Sizes ==
    ASSUME NEW op
    PROVE  /\ op \in BareOps => Size(op) = 1
           /\ op \in LocalOps => Size(op) = 2
           /\ op \in {"CONSTANT", "INVOKE_METHOD"} => Size(op) = 3
           /\ op \in {"CALL_CONST", "GET_LOCAL_ARRAY_FIELD"} => Size(op) = 4
           /\ op \in PlainJumps => Size(op) = 3
           /\ op \in FusedLocalJumps => Size(op) = 5
           /\ op \in FusedFieldJumps => Size(op) = 7
BY DEF Size, BareOps, LocalOps, Jumps, PlainJumps, FusedLocalJumps, FusedFieldJumps

\* Jumps are instructions.
LEMMA JumpsAreOps == Jumps \subseteq Ops
BY Kinds

\* An instruction has an opcode, a jump a distance too.
LEMMA SizePositive ==
    ASSUME NEW op \in Ops
    PROVE  Size(op) \in 1 .. 7 /\ (op \in Jumps => Size(op) >= 3)
BY Sizes, Kinds

-----------------------------------------------------------------------------
(* What is read where an instruction was written *)

\* An instruction with as many operands as it takes.
Shaped(op, args) ==
    /\ op \in Ops /\ args \in Seq(Int)
    /\ \/ op \in BareOps /\ Len(args) = 0
       \/ op \in LocalOps /\ Len(args) = 1
       \/ op \in {"CONSTANT"} \cup PlainJumps /\ Len(args) = 1
       \/ op = "INVOKE_METHOD" /\ Len(args) = 2
       \/ op = "CALL_CONST" /\ Len(args) = 2
       \/ op = "GET_LOCAL_ARRAY_FIELD" /\ Len(args) = 3
       \/ op \in FusedLocalJumps /\ Len(args) = 3
       \/ op \in FusedFieldJumps /\ Len(args) = 5

\* It takes as many bytes as it is said to, whatever the operands are.
LEMMA ShapedBytes ==
    ASSUME NEW op, NEW args, Shaped(op, args)
    PROVE  Bytes(op, args) \in Seq(Cells) /\ Len(Bytes(op, args)) = Size(op)
<1>1. /\ op \in Ops /\ Opcode[op] \in Cells /\ args \in Seq(Int)
      /\ \A m \in Int : Low(m) \in Cells /\ High(m) \in Cells
  BY OpcodeIsByte, HalvesAreBytes DEF Shaped
<1>2. \A k \in 1 .. Len(args) : Low(args[k]) \in Cells /\ High(args[k]) \in Cells
  BY ONLY <1>1
<1>3. CASE op \in BareOps /\ Len(args) = 0
  <2>1. Bytes(op, args) = <<Opcode[op]>>
    BY ONLY <1>3 DEF Bytes, BareOps, LocalOps, PlainJumps, FusedLocalJumps, FusedFieldJumps
  <2>2. Opcode[op] \in Cells
    BY ONLY <1>1
  <2>3. Bytes(op, args) \in Seq(Cells) /\ Len(Bytes(op, args)) = 1
    BY ONLY <2>1, <2>2
  <2> QED
    BY ONLY <1>1, <1>3, <2>3, Sizes
<1>4. CASE op \in LocalOps /\ Len(args) = 1
  <2>1. Bytes(op, args) = <<Opcode[op], Low(args[1])>>
    BY ONLY <1>4 DEF Bytes, BareOps, LocalOps, PlainJumps, FusedLocalJumps, FusedFieldJumps
  <2>2. /\ Opcode[op] \in Cells /\ Low(args[1]) \in Cells
    BY ONLY <1>1, <1>2, <1>4
  <2>3. Bytes(op, args) \in Seq(Cells) /\ Len(Bytes(op, args)) = 2
    BY ONLY <2>1, <2>2
  <2> QED
    BY ONLY <1>1, <1>4, <2>3, Sizes
<1>5. CASE op \in {"CONSTANT"} \cup PlainJumps /\ Len(args) = 1
  <2>1. Bytes(op, args) = <<Opcode[op], High(args[1]), Low(args[1])>>
    BY ONLY <1>5 DEF Bytes, BareOps, LocalOps, PlainJumps, FusedLocalJumps, FusedFieldJumps
  <2>2. /\ Opcode[op] \in Cells /\ High(args[1]) \in Cells /\ Low(args[1]) \in Cells
    BY ONLY <1>1, <1>2, <1>5
  <2>3. Bytes(op, args) \in Seq(Cells) /\ Len(Bytes(op, args)) = 3
    BY ONLY <2>1, <2>2
  <2> QED
    BY ONLY <1>1, <1>5, <2>3, Sizes
<1>6. CASE op = "INVOKE_METHOD" /\ Len(args) = 2
  <2>1. Bytes(op, args) = <<Opcode[op], Low(args[1]), Low(args[2])>>
    BY ONLY <1>6 DEF Bytes, BareOps, LocalOps, PlainJumps, FusedLocalJumps, FusedFieldJumps
  <2>2. /\ Opcode[op] \in Cells /\ Low(args[1]) \in Cells /\ Low(args[2]) \in Cells
    BY ONLY <1>1, <1>2, <1>6
  <2>3. Bytes(op, args) \in Seq(Cells) /\ Len(Bytes(op, args)) = 3
    BY ONLY <2>1, <2>2
  <2>4. op \in {"CONSTANT", "INVOKE_METHOD"}
    BY ONLY <1>6
  <2> QED
    BY ONLY <2>3, <2>4, Sizes
<1>7. CASE op = "CALL_CONST" /\ Len(args) = 2
  <2>1. Bytes(op, args) = <<Opcode[op], High(args[1]), Low(args[1]), Low(args[2])>>
    BY ONLY <1>7 DEF Bytes, BareOps, LocalOps, PlainJumps, FusedLocalJumps, FusedFieldJumps
  <2>2. /\ Opcode[op] \in Cells /\ High(args[1]) \in Cells /\ Low(args[1]) \in Cells
        /\ Low(args[2]) \in Cells
    BY ONLY <1>1, <1>2, <1>7
  <2>3. Bytes(op, args) \in Seq(Cells) /\ Len(Bytes(op, args)) = 4
    BY ONLY <2>1, <2>2
  <2>4. op \in {"CALL_CONST", "GET_LOCAL_ARRAY_FIELD"}
    BY ONLY <1>7
  <2> QED
    BY ONLY <2>3, <2>4, Sizes
<1>8. CASE op = "GET_LOCAL_ARRAY_FIELD" /\ Len(args) = 3
  <2>1. Bytes(op, args) = <<Opcode[op], Low(args[1]), Low(args[2]), Low(args[3])>>
    BY ONLY <1>8 DEF Bytes, BareOps, LocalOps, PlainJumps, FusedLocalJumps, FusedFieldJumps
  <2>2. /\ Opcode[op] \in Cells /\ Low(args[1]) \in Cells /\ Low(args[2]) \in Cells
        /\ Low(args[3]) \in Cells
    BY ONLY <1>1, <1>2, <1>8
  <2>3. Bytes(op, args) \in Seq(Cells) /\ Len(Bytes(op, args)) = 4
    BY ONLY <2>1, <2>2
  <2>4. op \in {"CALL_CONST", "GET_LOCAL_ARRAY_FIELD"}
    BY ONLY <1>8
  <2> QED
    BY ONLY <2>3, <2>4, Sizes
<1>9. CASE op \in FusedLocalJumps /\ Len(args) = 3
  <2>1. Bytes(op, args) = <<Opcode[op], Low(args[1]), Low(args[2]), High(args[3]), Low(args[3])>>
    BY ONLY <1>9 DEF Bytes, BareOps, LocalOps, PlainJumps, FusedLocalJumps, FusedFieldJumps
  <2>2. /\ Opcode[op] \in Cells /\ Low(args[1]) \in Cells /\ Low(args[2]) \in Cells
        /\ High(args[3]) \in Cells /\ Low(args[3]) \in Cells
    BY ONLY <1>1, <1>2, <1>9
  <2>3. Bytes(op, args) \in Seq(Cells) /\ Len(Bytes(op, args)) = 5
    BY ONLY <2>1, <2>2
  <2> QED
    BY ONLY <1>1, <1>9, <2>3, Sizes
<1>10. CASE op \in FusedFieldJumps /\ Len(args) = 5
  <2>1. Bytes(op, args) = <<Opcode[op], Low(args[1]), Low(args[2]), Low(args[3]), Low(args[4]),
                            High(args[5]), Low(args[5])>>
    BY ONLY <1>10 DEF Bytes, BareOps, LocalOps, PlainJumps, FusedLocalJumps, FusedFieldJumps
  <2>2. /\ Opcode[op] \in Cells /\ Low(args[1]) \in Cells /\ Low(args[2]) \in Cells
        /\ Low(args[3]) \in Cells /\ Low(args[4]) \in Cells /\ High(args[5]) \in Cells
        /\ Low(args[5]) \in Cells
    BY ONLY <1>1, <1>2, <1>10
  <2>3. Bytes(op, args) \in Seq(Cells) /\ Len(Bytes(op, args)) = 7
    BY ONLY <2>1, <2>2
  <2> QED
    BY ONLY <1>1, <1>10, <2>3, Sizes
<1> QED
  BY ONLY Shaped(op, args), <1>3, <1>4, <1>5, <1>6, <1>7, <1>8, <1>9, <1>10 DEF Shaped

\* The operands of an instruction that is no jump fit in the bytes they get.
ArgsFit(op, args) ==
    /\ op \in Ops /\ args \in Seq(Nat)
    /\ \/ op \in BareOps /\ Len(args) = 0
       \/ op \in LocalOps /\ Len(args) = 1 /\ args[1] \in Cells
       \/ op = "CONSTANT" /\ Len(args) = 1 /\ args[1] \in Words
       \/ op = "INVOKE_METHOD" /\ Len(args) = 2 /\ args[1] \in Cells /\ args[2] \in Cells
       \/ op = "CALL_CONST" /\ Len(args) = 2 /\ args[1] \in Words /\ args[2] \in Cells
       \/ /\ op = "GET_LOCAL_ARRAY_FIELD" /\ Len(args) = 3
          /\ args[1] \in Cells /\ args[2] \in Cells /\ args[3] \in Cells

\* An instruction that is no jump has as many bytes as it is said to have.
LEMMA BytesTyped ==
    ASSUME NEW op, NEW args, ArgsFit(op, args)
    PROVE  Bytes(op, args) \in Seq(Cells) /\ Len(Bytes(op, args)) = Size(op) /\ op \notin Jumps
<1>1. args \in Seq(Int)
  BY DEF ArgsFit
<1>2. Shaped(op, args)
  BY ONLY <1>1, ArgsFit(op, args) DEF ArgsFit, Shaped
<1>3. op \notin Jumps
  BY Kinds DEF ArgsFit
<1> QED
  BY ONLY <1>2, <1>3, ShapedBytes

\* The bytes of an instruction are in d after the first n.
Holds(d, n, op, args) == \A k \in 1 .. Size(op) : d[n + k] = Bytes(op, args)[k]

\* They are read as its opcode and its operands, wherever they are.
LEMMA ReadsArgs ==
    ASSUME NEW op, NEW args, ArgsFit(op, args), NEW d, NEW n \in Nat, Holds(d, n, op, args)
    PROVE  d[n + 1] = Opcode[op] /\ Operands(d, n, op) = args
<1>0. args \in Seq(Nat)
  BY DEF ArgsFit
<1>1. CASE op \in BareOps /\ Len(args) = 0
  <2>1. Bytes(op, args) = <<Opcode[op]>>
    BY ONLY <1>1 DEF Bytes, BareOps, LocalOps, PlainJumps, FusedLocalJumps, FusedFieldJumps
  <2>2. Size(op) = 1
    BY ONLY <1>1, Sizes
  <2>3. d[n + 1] = Opcode[op]
    BY ONLY <2>1, <2>2, n \in Nat, Holds(d, n, op, args) DEF Holds
  <2>4. Operands(d, n, op) = <<>>
    BY ONLY <1>1 DEF Operands, BareOps, LocalOps, PlainJumps, FusedLocalJumps, FusedFieldJumps
  <2>5. Operands(d, n, op) = args
    BY ONLY <2>4, <1>0, <1>1
  <2> QED
    BY <2>3, <2>5
<1>2. CASE op \in LocalOps /\ Len(args) = 1 /\ args[1] \in Cells
  <2>1. Bytes(op, args) = <<Opcode[op], Low(args[1])>>
    BY ONLY <1>2 DEF Bytes, BareOps, LocalOps, PlainJumps, FusedLocalJumps, FusedFieldJumps
  <2>2. Size(op) = 2
    BY ONLY <1>2, Sizes
  <2>3. /\ d[n + 1] = Opcode[op]
        /\ d[n + 2] = Low(args[1])
    BY ONLY <2>1, <2>2, n \in Nat, Holds(d, n, op, args) DEF Holds
  <2>4. Operands(d, n, op) = <<d[n + 2]>>
    BY ONLY <1>2 DEF Operands, BareOps, LocalOps, PlainJumps, FusedLocalJumps, FusedFieldJumps
  <2>5. d[n + 2] = args[1]
    BY ONLY <2>3, <1>2, LowFits
  <2>6. Operands(d, n, op) = args
    BY ONLY <2>4, <2>5, <1>0, <1>2
  <2> QED
    BY <2>3, <2>6
<1>3. CASE op = "CONSTANT" /\ Len(args) = 1 /\ args[1] \in Words
  <2>1. Bytes(op, args) = <<Opcode[op], High(args[1]), Low(args[1])>>
    BY ONLY <1>3 DEF Bytes, BareOps, LocalOps, PlainJumps, FusedLocalJumps, FusedFieldJumps
  <2>2. Size(op) = 3
    BY ONLY <1>3, Sizes
  <2>3. /\ d[n + 1] = Opcode[op]
        /\ d[n + 2] = High(args[1])
        /\ d[n + 3] = Low(args[1])
    BY ONLY <2>1, <2>2, n \in Nat, Holds(d, n, op, args) DEF Holds
  <2>4. Operands(d, n, op) = <<WordAt(d, n + 1)>>
    BY ONLY <1>3 DEF Operands, BareOps, LocalOps, PlainJumps, FusedLocalJumps, FusedFieldJumps
  <2>5. WordAt(d, n + 1) = args[1]
    BY ONLY <2>3, <1>3, n \in Nat, WordFits DEF WordAt, Byte, Words
  <2>6. Operands(d, n, op) = args
    BY ONLY <2>4, <2>5, <1>0, <1>3
  <2> QED
    BY <2>3, <2>6
<1>4. CASE op = "INVOKE_METHOD" /\ Len(args) = 2 /\ args[1] \in Cells /\ args[2] \in Cells
  <2>1. Bytes(op, args) = <<Opcode[op], Low(args[1]), Low(args[2])>>
    BY ONLY <1>4 DEF Bytes, BareOps, LocalOps, PlainJumps, FusedLocalJumps, FusedFieldJumps
  <2>2. Size(op) = 3
    BY ONLY <1>4, Sizes
  <2>3. /\ d[n + 1] = Opcode[op]
        /\ d[n + 2] = Low(args[1])
        /\ d[n + 3] = Low(args[2])
    BY ONLY <2>1, <2>2, n \in Nat, Holds(d, n, op, args) DEF Holds
  <2>4. Operands(d, n, op) = <<d[n + 2], d[n + 3]>>
    BY ONLY <1>4 DEF Operands, BareOps, LocalOps, PlainJumps, FusedLocalJumps, FusedFieldJumps
  <2>5. d[n + 2] = args[1] /\ d[n + 3] = args[2]
    BY ONLY <2>3, <1>4, LowFits
  <2>6. Operands(d, n, op) = args
    BY ONLY <2>4, <2>5, <1>0, <1>4
  <2> QED
    BY <2>3, <2>6
<1>5. CASE op = "CALL_CONST" /\ Len(args) = 2 /\ args[1] \in Words /\ args[2] \in Cells
  <2>1. Bytes(op, args) = <<Opcode[op], High(args[1]), Low(args[1]), Low(args[2])>>
    BY ONLY <1>5 DEF Bytes, BareOps, LocalOps, PlainJumps, FusedLocalJumps, FusedFieldJumps
  <2>2. Size(op) = 4
    BY ONLY <1>5, Sizes
  <2>3. /\ d[n + 1] = Opcode[op]
        /\ d[n + 2] = High(args[1])
        /\ d[n + 3] = Low(args[1])
        /\ d[n + 4] = Low(args[2])
    BY ONLY <2>1, <2>2, n \in Nat, Holds(d, n, op, args) DEF Holds
  <2>4. Operands(d, n, op) = <<WordAt(d, n + 1), d[n + 4]>>
    BY ONLY <1>5 DEF Operands, BareOps, LocalOps, PlainJumps, FusedLocalJumps, FusedFieldJumps
  <2>5. WordAt(d, n + 1) = args[1] /\ d[n + 4] = args[2]
    BY ONLY <2>3, <1>5, n \in Nat, LowFits, WordFits DEF WordAt, Byte, Words
  <2>6. Operands(d, n, op) = args
    BY ONLY <2>4, <2>5, <1>0, <1>5
  <2> QED
    BY <2>3, <2>6
<1>6. CASE /\ op = "GET_LOCAL_ARRAY_FIELD" /\ Len(args) = 3
           /\ args[1] \in Cells /\ args[2] \in Cells /\ args[3] \in Cells
  <2>1. Bytes(op, args) = <<Opcode[op], Low(args[1]), Low(args[2]), Low(args[3])>>
    BY ONLY <1>6 DEF Bytes, BareOps, LocalOps, PlainJumps, FusedLocalJumps, FusedFieldJumps
  <2>2. Size(op) = 4
    BY ONLY <1>6, Sizes
  <2>3. /\ d[n + 1] = Opcode[op]
        /\ d[n + 2] = Low(args[1])
        /\ d[n + 3] = Low(args[2])
        /\ d[n + 4] = Low(args[3])
    BY ONLY <2>1, <2>2, n \in Nat, Holds(d, n, op, args) DEF Holds
  <2>4. Operands(d, n, op) = <<d[n + 2], d[n + 3], d[n + 4]>>
    BY ONLY <1>6 DEF Operands, BareOps, LocalOps, PlainJumps, FusedLocalJumps, FusedFieldJumps
  <2>5. d[n + 2] = args[1] /\ d[n + 3] = args[2] /\ d[n + 4] = args[3]
    BY ONLY <2>3, <1>6, LowFits
  <2>6. Operands(d, n, op) = args
    BY ONLY <2>4, <2>5, <1>0, <1>6
  <2> QED
    BY <2>3, <2>6
<1> QED
  BY <1>1, <1>2, <1>3, <1>4, <1>5, <1>6 DEF ArgsFit

\* The operands of a jump, the distance last, fit in the bytes they get.
JumpFits(op, args) ==
    /\ op \in Jumps /\ args \in Seq(Nat)
    /\ \/ op \in PlainJumps /\ Len(args) = 1 /\ args[1] \in Words
       \/ /\ op \in FusedLocalJumps /\ Len(args) = 3
          /\ args[1] \in Cells /\ args[2] \in Cells /\ args[3] \in Words
       \/ /\ op \in FusedFieldJumps /\ Len(args) = 5
          /\ args[1] \in Cells /\ args[2] \in Cells /\ args[3] \in Cells
          /\ args[4] \in Cells /\ args[5] \in Words

\* The bytes of a jump are bytes, as many as its width.
LEMMA JumpTyped ==
    ASSUME NEW op, NEW args, JumpFits(op, args)
    PROVE  Bytes(op, args) \in Seq(Cells) /\ Len(Bytes(op, args)) = Size(op) /\ op \in Ops
<1>1. args \in Seq(Int) /\ op \in Ops
  BY Kinds DEF JumpFits
<1>2. Shaped(op, args)
  BY ONLY <1>1, JumpFits(op, args) DEF JumpFits, Shaped
<1> QED
  BY ONLY <1>1, <1>2, ShapedBytes

\* The bytes of a jump are read as its opcode, its operands and its distance.
LEMMA ReadsJump ==
    ASSUME NEW op, NEW args, JumpFits(op, args), NEW d, NEW n \in Nat, Holds(d, n, op, args)
    PROVE  /\ d[n + 1] = Opcode[op]
           /\ WordAt(d, n + Size(op) - 2) = args[Len(args)]
           /\ op \in PlainJumps => Operands(d, n, op) = <<>>
           /\ op \in FusedLocalJumps => Operands(d, n, op) = <<args[1], args[2]>>
           /\ op \in FusedFieldJumps =>
                Operands(d, n, op) = <<args[1], args[2], args[3], args[4]>>
<1>1. CASE op \in PlainJumps /\ Len(args) = 1 /\ args[1] \in Words
  <2>1. Bytes(op, args)
          = <<Opcode[op], High(args[1]), Low(args[1])>>
    BY ONLY <1>1 DEF Bytes, BareOps, LocalOps, PlainJumps, FusedLocalJumps, FusedFieldJumps
  <2>2. Size(op) = 3
    BY ONLY <1>1, Sizes
  <2>3. /\ d[n + 1] = Opcode[op]
        /\ d[n + 2] = High(args[1])
        /\ d[n + 3] = Low(args[1])
    BY ONLY <2>1, <2>2, n \in Nat, Holds(d, n, op, args) DEF Holds
  <2>4. Operands(d, n, op) = <<>>
    BY ONLY <1>1 DEF Operands, BareOps, LocalOps, PlainJumps, FusedLocalJumps, FusedFieldJumps
  <2>6. WordAt(d, n + 1) = args[1]
    BY ONLY <2>3, <1>1, n \in Nat, WordFits DEF WordAt, Byte, Words
  <2>7. n + Size(op) - 2 = n + 1 /\ Len(args) = 1
    BY ONLY <2>2, <1>1, n \in Nat
  <2>8. /\ op \in PlainJumps
        /\ op \notin FusedLocalJumps
        /\ op \notin FusedFieldJumps
    BY ONLY <1>1 DEF PlainJumps, FusedLocalJumps, FusedFieldJumps
  <2> QED
    BY ONLY <2>3, <2>4, <2>6, <2>7, <2>8
<1>2. CASE /\ op \in FusedLocalJumps /\ Len(args) = 3
           /\ args[1] \in Cells /\ args[2] \in Cells /\ args[3] \in Words
  <2>1. Bytes(op, args)
          = <<Opcode[op], Low(args[1]), Low(args[2]), High(args[3]), Low(args[3])>>
    BY ONLY <1>2 DEF Bytes, BareOps, LocalOps, PlainJumps, FusedLocalJumps, FusedFieldJumps
  <2>2. Size(op) = 5
    BY ONLY <1>2, Sizes
  <2>3. /\ d[n + 1] = Opcode[op]
        /\ d[n + 2] = Low(args[1])
        /\ d[n + 3] = Low(args[2])
        /\ d[n + 4] = High(args[3])
        /\ d[n + 5] = Low(args[3])
    BY ONLY <2>1, <2>2, n \in Nat, Holds(d, n, op, args) DEF Holds
  <2>4. Operands(d, n, op) = <<d[n + 2], d[n + 3]>>
    BY ONLY <1>2 DEF Operands, BareOps, LocalOps, PlainJumps, FusedLocalJumps, FusedFieldJumps
  <2>5. /\ d[n + 2] = args[1]
        /\ d[n + 3] = args[2]
    BY ONLY <2>3, <1>2, LowFits
  <2>6. WordAt(d, n + 3) = args[3]
    BY ONLY <2>3, <1>2, n \in Nat, WordFits DEF WordAt, Byte, Words
  <2>7. n + Size(op) - 2 = n + 3 /\ Len(args) = 3
    BY ONLY <2>2, <1>2, n \in Nat
  <2>8. /\ op \notin PlainJumps
        /\ op \in FusedLocalJumps
        /\ op \notin FusedFieldJumps
    BY ONLY <1>2 DEF PlainJumps, FusedLocalJumps, FusedFieldJumps
  <2>9. Operands(d, n, op) = <<args[1], args[2]>>
    BY ONLY <2>4, <2>5
  <2> QED
    BY ONLY <2>3, <2>9, <2>6, <2>7, <2>8
<1>3. CASE /\ op \in FusedFieldJumps /\ Len(args) = 5
           /\ args[1] \in Cells /\ args[2] \in Cells /\ args[3] \in Cells
           /\ args[4] \in Cells /\ args[5] \in Words
  <2>1. Bytes(op, args)
          = <<Opcode[op], Low(args[1]), Low(args[2]), Low(args[3]), Low(args[4]),
              High(args[5]), Low(args[5])>>
    BY ONLY <1>3 DEF Bytes, BareOps, LocalOps, PlainJumps, FusedLocalJumps, FusedFieldJumps
  <2>2. Size(op) = 7
    BY ONLY <1>3, Sizes
  <2>3. /\ d[n + 1] = Opcode[op]
        /\ d[n + 2] = Low(args[1])
        /\ d[n + 3] = Low(args[2])
        /\ d[n + 4] = Low(args[3])
        /\ d[n + 5] = Low(args[4])
        /\ d[n + 6] = High(args[5])
        /\ d[n + 7] = Low(args[5])
    BY ONLY <2>1, <2>2, n \in Nat, Holds(d, n, op, args) DEF Holds
  <2>4. Operands(d, n, op) = <<d[n + 2], d[n + 3], d[n + 4], d[n + 5]>>
    BY ONLY <1>3 DEF Operands, BareOps, LocalOps, PlainJumps, FusedLocalJumps, FusedFieldJumps
  <2>5. /\ d[n + 2] = args[1]
        /\ d[n + 3] = args[2]
        /\ d[n + 4] = args[3]
        /\ d[n + 5] = args[4]
    BY ONLY <2>3, <1>3, LowFits
  <2>6. WordAt(d, n + 5) = args[5]
    BY ONLY <2>3, <1>3, n \in Nat, WordFits DEF WordAt, Byte, Words
  <2>7. n + Size(op) - 2 = n + 5 /\ Len(args) = 5
    BY ONLY <2>2, <1>3, n \in Nat
  <2>8. /\ op \notin PlainJumps
        /\ op \notin FusedLocalJumps
        /\ op \in FusedFieldJumps
    BY ONLY <1>3 DEF PlainJumps, FusedLocalJumps, FusedFieldJumps
  <2>9. Operands(d, n, op) = <<args[1], args[2], args[3], args[4]>>
    BY ONLY <2>4, <2>5
  <2> QED
    BY ONLY <2>3, <2>9, <2>6, <2>7, <2>8
<1> QED
  BY <1>1, <1>2, <1>3 DEF JumpFits

\* What is read depends on the bytes of the instruction alone, and not on the distance.
LEMMA SameOperands ==
    ASSUME NEW op \in Ops, NEW c, NEW d, NEW at \in Nat,
           \A k \in 1 .. Size(op) :
             (op \in Jumps => k <= Size(op) - 2) => d[at + k] = c[at + k]
    PROVE  Operands(d, at, op) = Operands(c, at, op)
<1>1. CASE op \in BareOps \cup PlainJumps
  BY ONLY <1>1 DEF Operands, BareOps, LocalOps, PlainJumps, FusedLocalJumps, FusedFieldJumps
<1>2. CASE op \in LocalOps
  <2>1. Size(op) = 2 /\ op \notin Jumps
    BY ONLY <1>2, Sizes, Kinds
  <2>2. /\ d[at + 2] = c[at + 2]
    BY <2>1
  <2> QED
    BY ONLY <2>2, <1>2 DEF Operands, BareOps, LocalOps, PlainJumps, FusedLocalJumps, FusedFieldJumps
<1>3. CASE op = "CONSTANT"
  <2>1. Size(op) = 3 /\ op \notin Jumps
    BY ONLY <1>3, Sizes, Kinds
  <2>2. /\ d[at + 2] = c[at + 2]
        /\ d[at + 3] = c[at + 3]
    BY <2>1
  <2>3. WordAt(d, at + 1) = WordAt(c, at + 1)
    BY ONLY <2>2, at \in Nat DEF WordAt
  <2> QED
    BY ONLY <2>2, <2>3, <1>3
    DEF Operands, BareOps, LocalOps, PlainJumps, FusedLocalJumps, FusedFieldJumps
<1>4. CASE op = "INVOKE_METHOD"
  <2>1. Size(op) = 3 /\ op \notin Jumps
    BY ONLY <1>4, Sizes, Kinds
  <2>2. /\ d[at + 2] = c[at + 2]
        /\ d[at + 3] = c[at + 3]
    BY <2>1
  <2> QED
    BY ONLY <2>2, <1>4 DEF Operands, BareOps, LocalOps, PlainJumps, FusedLocalJumps, FusedFieldJumps
<1>5. CASE op = "CALL_CONST"
  <2>1. Size(op) = 4 /\ op \notin Jumps
    BY ONLY <1>5, Sizes, Kinds
  <2>2. /\ d[at + 2] = c[at + 2]
        /\ d[at + 3] = c[at + 3]
        /\ d[at + 4] = c[at + 4]
    BY <2>1
  <2>3. WordAt(d, at + 1) = WordAt(c, at + 1)
    BY ONLY <2>2, at \in Nat DEF WordAt
  <2> QED
    BY ONLY <2>2, <2>3, <1>5
    DEF Operands, BareOps, LocalOps, PlainJumps, FusedLocalJumps, FusedFieldJumps
<1>6. CASE op = "GET_LOCAL_ARRAY_FIELD"
  <2>1. Size(op) = 4 /\ op \notin Jumps
    BY ONLY <1>6, Sizes, Kinds
  <2>2. /\ d[at + 2] = c[at + 2]
        /\ d[at + 3] = c[at + 3]
        /\ d[at + 4] = c[at + 4]
    BY <2>1
  <2> QED
    BY ONLY <2>2, <1>6 DEF Operands, BareOps, LocalOps, PlainJumps, FusedLocalJumps, FusedFieldJumps
<1>7. CASE op \in FusedLocalJumps
  <2>1. Size(op) = 5 /\ op \in Jumps
    BY ONLY <1>7, Sizes, Kinds
  <2>2. /\ d[at + 2] = c[at + 2]
        /\ d[at + 3] = c[at + 3]
    BY <2>1
  <2> QED
    BY ONLY <2>2, <1>7 DEF Operands, BareOps, LocalOps, PlainJumps, FusedLocalJumps, FusedFieldJumps
<1>8. CASE op \in FusedFieldJumps
  <2>1. Size(op) = 7 /\ op \in Jumps
    BY ONLY <1>8, Sizes, Kinds
  <2>2. /\ d[at + 2] = c[at + 2]
        /\ d[at + 3] = c[at + 3]
        /\ d[at + 4] = c[at + 4]
        /\ d[at + 5] = c[at + 5]
    BY <2>1
  <2> QED
    BY ONLY <2>2, <1>8 DEF Operands, BareOps, LocalOps, PlainJumps, FusedLocalJumps, FusedFieldJumps
<1> QED
  BY <1>1, <1>2, <1>3, <1>4, <1>5, <1>6, <1>7, <1>8, Kinds

-----------------------------------------------------------------------------
(* Chunks that are what their listings say                                 *)

Typed(w) == w.code \in Seq(Cells) /\ w.meant \in Seq(Entries)

\* The entries follow one another, each on an instruction that does what it says.
Good(w) ==
    /\ Typed(w)
    /\ Start(w, 1) = 0
    /\ \A i \in 1 .. Len(w.meant) : IsWritten(w, i) /\ w.meant[i].at < Len(w.code)
    /\ \A i, j \in 1 .. Len(w.meant) : i < j => w.meant[i].at < w.meant[j].at

\* Every jump that has a place to go to goes there.
GoesRight(w) ==
    \A i \in 1 .. Len(w.meant) :
        w.meant[i].goal \in 0 .. Len(w.meant) + 1 /\ GoesToGoal(w, i)

\* w is v with something more at the end, that starts with an instruction.
Continues(v, w) ==
    /\ Len(v.code) <= Len(w.code)
    /\ \A k \in 1 .. Len(v.code) : w.code[k] = v.code[k]
    /\ Len(v.meant) <= Len(w.meant)
    /\ \A i \in 1 .. Len(v.meant) : w.meant[i] = v.meant[i]
    /\ Start(w, Len(v.meant) + 1) = Len(v.code)

\* What the types of a chunk give a proof.
LEMMA TypedChunk ==
    ASSUME NEW w, Typed(w)
    PROVE  /\ w.code \in Seq(Cells) /\ w.meant \in Seq(Entries)
           /\ Len(w.code) \in Nat /\ Len(w.meant) \in Nat
           /\ \A k \in 1 .. Len(w.code) : w.code[k] \in Nat /\ w.code[k] <= 255
           /\ \A i \in 1 .. Len(w.meant) :
                w.meant[i].at \in Nat /\ w.meant[i].goal \in Nat /\ w.meant[i].does \in Seq(Steps)
<1>1. w.code \in Seq(Cells) /\ w.meant \in Seq(Entries)
  BY DEF Typed
<1>2. \A k \in 1 .. Len(w.code) : w.code[k] \in Cells
  BY <1>1
<1>3. \A i \in 1 .. Len(w.meant) : w.meant[i] \in Entries
  BY <1>1
<1>4. \A i \in 1 .. Len(w.meant) :
        w.meant[i].at \in Nat /\ w.meant[i].goal \in Nat /\ w.meant[i].does \in Seq(Steps)
  BY ONLY <1>3 DEF Entries
<1>5. \A x \in Cells : x \in Nat /\ x <= 255
  BY DEF Cells
<1>6. \A k \in 1 .. Len(w.code) : w.code[k] \in Nat /\ w.code[k] <= 255
  BY ONLY <1>2, <1>5
<1> QED
  BY <1>1, <1>4, <1>6

\* The next entry is at most at the end of the code.
LEMMA Starts ==
    ASSUME NEW w, Good(w)
    PROVE  /\ \A i \in 1 .. Len(w.meant) + 1 : Start(w, i) \in Nat /\ Start(w, i) <= Len(w.code)
           /\ \A i \in 1 .. Len(w.meant) : Start(w, i) = w.meant[i].at
           /\ Start(w, Len(w.meant) + 1) = Len(w.code)
           /\ \A i, j \in 1 .. Len(w.meant) + 1 : i < j => Start(w, i) < Start(w, j)
<1>1. Typed(w)
  BY DEF Good
<1>2. /\ Len(w.code) \in Nat /\ Len(w.meant) \in Nat
      /\ \A i \in 1 .. Len(w.meant) : w.meant[i].at \in Nat
  BY ONLY <1>1, TypedChunk
<1>3. /\ \A i \in 1 .. Len(w.meant) : w.meant[i].at < Len(w.code)
      /\ \A i, j \in 1 .. Len(w.meant) : i < j => w.meant[i].at < w.meant[j].at
  BY DEF Good
<1>4. /\ \A i \in 1 .. Len(w.meant) : Start(w, i) = w.meant[i].at
      /\ Start(w, Len(w.meant) + 1) = Len(w.code)
  BY ONLY <1>2 DEF Start
<1>5. ASSUME NEW i \in 1 .. Len(w.meant) + 1
      PROVE  Start(w, i) \in Nat /\ Start(w, i) <= Len(w.code)
  <2>1. CASE i = Len(w.meant) + 1
    BY <1>2, <1>4, <2>1
  <2>2. CASE i \in 1 .. Len(w.meant)
    BY <1>2, <1>3, <1>4, <2>2
  <2> QED
    BY <1>2, <2>1, <2>2
<1>6. ASSUME NEW i \in 1 .. Len(w.meant) + 1, NEW j \in 1 .. Len(w.meant) + 1, i < j
      PROVE  Start(w, i) < Start(w, j)
  <2>1. i \in 1 .. Len(w.meant)
    BY <1>2, <1>6
  <2>2. CASE j = Len(w.meant) + 1
    BY <1>3, <1>4, <2>1, <2>2
  <2>3. CASE j # Len(w.meant) + 1
    BY <1>2, <1>3, <1>4, <1>6, <2>1, <2>3
  <2> QED
    BY <2>2, <2>3
<1> QED
  BY ONLY <1>4, <1>5, <1>6

\* An entry stays good where the bytes of its instruction stay, but for a distance.
LEMMA StaysWritten ==
    ASSUME NEW v, NEW w, NEW i, NEW j, IsWritten(v, i),
           Start(v, i) \in Nat,
           Start(w, j) = Start(v, i), Start(w, j + 1) = Start(v, i + 1),
           w.meant[j].does = v.meant[i].does,
           \A k \in Start(v, i) + 1 .. Start(v, i + 1) :
             \/ w.code[k] = v.code[k]
             \/ k > Start(v, i + 1) - 2 /\ \E op \in Jumps : v.code[Start(v, i) + 1] = Opcode[op]
    PROVE  IsWritten(w, j)
<1>1. PICK op \in Ops : /\ v.code[Start(v, i) + 1] = Opcode[op]
                        /\ Start(v, i + 1) = Start(v, i) + Size(op)
                        /\ Plain(op, Operands(v.code, Start(v, i), op)) = v.meant[i].does
  BY DEF IsWritten
<1> DEFINE at == Start(v, i)
<1>2. Size(op) \in 1 .. 7 /\ (op \in Jumps => Size(op) >= 3)
  BY SizePositive
<1>3. ASSUME NEW o \in Jumps, v.code[at + 1] = Opcode[o] PROVE op \in Jumps
  <2>1. o \in Ops
    BY JumpsAreOps
  <2>2. Opcode[op] = Opcode[o]
    BY <1>1, <1>3
  <2>3. op = o
    BY <2>1, <2>2, OpcodesDiffer
  <2> QED
    BY <2>3
<1>4. \A k \in 1 .. Size(op) :
        (op \in Jumps => k <= Size(op) - 2) => w.code[at + k] = v.code[at + k]
  BY <1>1, <1>2, <1>3
<1>5. w.code[at + 1] = v.code[at + 1]
  BY <1>2, <1>4
<1>6. Operands(w.code, at, op) = Operands(v.code, at, op)
  BY <1>4, SameOperands
<1> QED
  BY <1>1, <1>5, <1>6 DEF IsWritten

\* The instruction where a jump's opcode is has room for its distance.
LEMMA JumpIsLong ==
    ASSUME NEW v, NEW i, IsWritten(v, i), Start(v, i) \in Nat,
           NEW op \in Jumps, v.code[Start(v, i) + 1] = Opcode[op]
    PROVE  Start(v, i + 1) = Start(v, i) + Size(op) /\ Start(v, i + 1) >= Start(v, i) + 3
<1>1. PICK o \in Ops : /\ v.code[Start(v, i) + 1] = Opcode[o]
                       /\ Start(v, i + 1) = Start(v, i) + Size(o)
                       /\ Plain(o, Operands(v.code, Start(v, i), o)) = v.meant[i].does
  BY ONLY IsWritten(v, i) DEF IsWritten
<1>2. op \in Ops
  BY JumpsAreOps
<1>5. Opcode[o] = Opcode[op]
  BY ONLY <1>1, v.code[Start(v, i) + 1] = Opcode[op]
<1>3. o = op
  BY ONLY <1>5, <1>2, o \in Ops, OpcodesDiffer
<1>4. Size(op) \in 1 .. 7 /\ Size(op) >= 3
  BY ONLY <1>2, op \in Jumps, SizePositive
<1> QED
  BY <1>1, <1>3, <1>4

\* What is appended moves no instruction.
LEMMA ContinuesStarts ==
    ASSUME NEW v, NEW w, Good(v), Typed(w), Continues(v, w)
    PROVE  \A i \in 1 .. Len(v.meant) + 1 : Start(w, i) = Start(v, i)
<1>1. Typed(v)
  BY DEF Good
<1>2. Len(v.meant) \in Nat /\ Len(w.meant) \in Nat
  BY <1>1, TypedChunk
<1> SUFFICES ASSUME NEW i \in 1 .. Len(v.meant) + 1 PROVE Start(w, i) = Start(v, i)
  OBVIOUS
<1>3. CASE i = Len(v.meant) + 1
  BY <1>3, Starts DEF Continues
<1>4. CASE i \in 1 .. Len(v.meant)
  <2>1. i # Len(w.meant) + 1 /\ i # Len(v.meant) + 1
    BY <1>2, <1>4 DEF Continues
  <2> QED
    BY <2>1, <1>4 DEF Continues, Start
<1> QED
  BY <1>2, <1>3, <1>4

\* What was there stays as good as it was.
LEMMA ContinuesGood ==
    ASSUME NEW v, NEW w, Good(v), Typed(w), Continues(v, w)
    PROVE  /\ \A i \in 1 .. Len(v.meant) : IsWritten(w, i)
           /\ \A i \in 1 .. Len(v.meant) : GoesToGoal(v, i) /\ v.meant[i].goal <= Len(v.meant) + 1
                                             => GoesToGoal(w, i)
<1>1. Typed(v)
  BY DEF Good
<1>2. /\ Len(v.meant) \in Nat /\ Len(w.meant) \in Nat /\ Len(v.code) \in Nat
      /\ \A i \in 1 .. Len(v.meant) : v.meant[i].goal \in Nat
  BY <1>1, TypedChunk
<1>3. \A i \in 1 .. Len(v.meant) + 1 : Start(w, i) = Start(v, i)
  BY ContinuesStarts
<1>4. \A k \in 1 .. Len(v.code) : w.code[k] = v.code[k]
  BY DEF Continues
<1> SUFFICES ASSUME NEW i \in 1 .. Len(v.meant)
             PROVE  /\ IsWritten(w, i)
                    /\ GoesToGoal(v, i) /\ v.meant[i].goal <= Len(v.meant) + 1
                         => GoesToGoal(w, i)
  OBVIOUS
<1>5. /\ Start(v, i) \in Nat /\ Start(v, i + 1) \in Nat /\ Start(v, i) < Start(v, i + 1)
      /\ Start(v, i + 1) <= Len(v.code)
      /\ Start(w, i) = Start(v, i) /\ Start(w, i + 1) = Start(v, i + 1)
  BY <1>2, <1>3, Starts
<1>6. w.meant[i] = v.meant[i]
  BY DEF Continues
<1>7. \A k \in Start(v, i) + 1 .. Start(v, i + 1) : w.code[k] = v.code[k]
  BY <1>2, <1>4, <1>5
<1>8. IsWritten(v, i)
  BY DEF Good
<1>9. IsWritten(w, i)
  BY <1>5, <1>6, <1>7, <1>8, StaysWritten
<1>10. ASSUME GoesToGoal(v, i), v.meant[i].goal <= Len(v.meant) + 1
       PROVE  GoesToGoal(w, i)
  <2> SUFFICES ASSUME v.meant[i].goal # 0 PROVE GoesToGoal(w, i)
    BY <1>6 DEF GoesToGoal
  <2>1. Start(w, v.meant[i].goal) = Start(v, v.meant[i].goal)
    BY <1>2, <1>3, <1>10
  <2>2. PICK op \in Jumps : v.code[Start(v, i) + 1] = Opcode[op]
    BY <1>10, <2>1 DEF GoesToGoal
  <2>3. Start(v, i + 1) >= Start(v, i) + 3
    BY <1>5, <1>8, <2>2, JumpIsLong
  <2>4. /\ w.code[Start(v, i) + 1] = v.code[Start(v, i) + 1]
        /\ w.code[Start(v, i + 1)] = v.code[Start(v, i + 1)]
        /\ w.code[Start(v, i + 1) - 1] = v.code[Start(v, i + 1) - 1]
    BY ONLY <1>5, <1>7, <2>3
  <2>5. WordAt(w.code, Start(v, i + 1) - 2) = WordAt(v.code, Start(v, i + 1) - 2)
    BY ONLY <1>5, <2>3, <2>4 DEF WordAt
  <2>6. /\ Start(v, v.meant[i].goal)
             = IF v.code[Start(v, i) + 1] = Opcode.LOOP
               THEN Start(v, i + 1) - WordAt(v.code, Start(v, i + 1) - 2)
               ELSE Start(v, i + 1) + WordAt(v.code, Start(v, i + 1) - 2)
    BY <1>10 DEF GoesToGoal
  <2> QED
    BY ONLY <1>5, <1>6, <2>1, <2>2, op \in Jumps, <2>4, <2>5, <2>6 DEF GoesToGoal
<1> QED
  BY <1>9, <1>10

\* A continuation of a continuation is one.
LEMMA ContinuesOn ==
    ASSUME NEW u, NEW v, NEW w, Typed(u), Good(v), Typed(w), Continues(u, v), Continues(v, w)
    PROVE  Continues(u, w)
<1>1. Typed(v)
  BY DEF Good
<1>2. /\ Len(u.meant) \in Nat /\ Len(v.meant) \in Nat /\ Len(w.meant) \in Nat
      /\ Len(u.code) \in Nat /\ Len(v.code) \in Nat /\ Len(w.code) \in Nat
  BY <1>1, TypedChunk
<1>3. \A i \in 1 .. Len(v.meant) + 1 : Start(w, i) = Start(v, i)
  BY ContinuesStarts
<1>4. /\ Len(u.code) <= Len(v.code) /\ Len(v.code) <= Len(w.code)
      /\ Len(u.meant) <= Len(v.meant) /\ Len(v.meant) <= Len(w.meant)
      /\ Start(v, Len(u.meant) + 1) = Len(u.code)
  BY DEF Continues
<1>5. Start(w, Len(u.meant) + 1) = Len(u.code)
  BY <1>2, <1>3, <1>4
<1>6. \A k \in 1 .. Len(u.code) : w.code[k] = u.code[k]
  BY <1>2, <1>4 DEF Continues
<1>7. \A i \in 1 .. Len(u.meant) : w.meant[i] = u.meant[i]
  BY <1>2, <1>4 DEF Continues
<1> QED
  BY <1>2, <1>4, <1>5, <1>6, <1>7 DEF Continues

\* What is added to a good chunk makes it a good one if it is good by itself.
LEMMA GrowGood ==
    ASSUME NEW v, NEW w, Good(v), Typed(w), Continues(v, w),
           \A i \in Len(v.meant) + 1 .. Len(w.meant) :
             IsWritten(w, i) /\ Len(v.code) <= w.meant[i].at /\ w.meant[i].at < Len(w.code),
           \A i, j \in Len(v.meant) + 1 .. Len(w.meant) : i < j => w.meant[i].at < w.meant[j].at
    PROVE  Good(w)
<1>1. Typed(v)
  BY DEF Good
<1>2. /\ Len(v.meant) \in Nat /\ Len(w.meant) \in Nat /\ Len(v.meant) <= Len(w.meant)
      /\ Len(v.code) \in Nat /\ Len(w.code) \in Nat /\ Len(v.code) <= Len(w.code)
      /\ \A i \in 1 .. Len(w.meant) : w.meant[i].at \in Nat
  BY <1>1, TypedChunk DEF Continues
<1>3. \A i \in 1 .. Len(v.meant) : w.meant[i] = v.meant[i]
  BY DEF Continues
<1>4. Start(w, 1) = 0
  <2>1. Start(w, 1) = Start(v, 1)
    BY <1>2, ContinuesStarts
  <2> QED
    BY <2>1 DEF Good
<1>5. ASSUME NEW i \in 1 .. Len(w.meant)
      PROVE  IsWritten(w, i) /\ w.meant[i].at < Len(w.code)
  <2>1. CASE i \in 1 .. Len(v.meant)
    <3>1. v.meant[i].at < Len(v.code)
      BY <2>1 DEF Good
    <3>2. IsWritten(w, i)
      BY <2>1, ContinuesGood
    <3>3. w.meant[i].at < Len(w.code)
      <4>1. w.meant[i] = v.meant[i]
        BY ONLY <1>3, <2>1
      <4>2. w.meant[i].at \in Nat
        BY ONLY <1>2, i \in 1 .. Len(w.meant)
      <4> QED
        BY ONLY <1>2, <3>1, <4>1, <4>2
    <3> QED
      BY ONLY <3>2, <3>3
  <2>2. CASE i \in Len(v.meant) + 1 .. Len(w.meant)
    BY <2>2
  <2>3. i \in 1 .. Len(v.meant) \/ i \in Len(v.meant) + 1 .. Len(w.meant)
    BY ONLY <1>2, i \in 1 .. Len(w.meant)
  <2> QED
    BY ONLY <2>1, <2>2, <2>3
<1>6. ASSUME NEW i \in 1 .. Len(w.meant), NEW j \in 1 .. Len(w.meant), i < j
      PROVE  w.meant[i].at < w.meant[j].at
  <2>1. CASE j \in 1 .. Len(v.meant)
    <3>1. i \in 1 .. Len(v.meant)
      BY <1>2, <1>6, <2>1
    <3>2. v.meant[i].at < v.meant[j].at
      BY <1>6, <2>1, <3>1 DEF Good
    <3> QED
      BY <1>3, <2>1, <3>1, <3>2
  <2>2. CASE i \in 1 .. Len(v.meant) /\ j \in Len(v.meant) + 1 .. Len(w.meant)
    <3>1. v.meant[i].at < Len(v.code)
      BY <2>2 DEF Good
    <3>2. w.meant[i] = v.meant[i]
      BY ONLY <1>3, <2>2
    <3>3. Len(v.code) <= w.meant[j].at
      BY <2>2
    <3>4. w.meant[i].at \in Nat /\ w.meant[j].at \in Nat
      BY ONLY <1>2, i \in 1 .. Len(w.meant), j \in 1 .. Len(w.meant)
    <3> QED
      BY ONLY <1>2, <3>1, <3>2, <3>3, <3>4
  <2>3. CASE i \in Len(v.meant) + 1 .. Len(w.meant)
    <3>1. j \in Len(v.meant) + 1 .. Len(w.meant)
      BY <1>2, <1>6, <2>3
    <3> QED
      BY <1>6, <2>3, <3>1
  <2> QED
    BY <1>2, <2>1, <2>2, <2>3
<1> QED
  BY <1>4, <1>5, <1>6 DEF Good

\* w is v with these bytes, that are read as this instruction and do what the entry says.
Appended(v, w, op, bytes, entry) ==
    /\ op \in Ops /\ bytes \in Seq(Cells) /\ Len(bytes) = Size(op) /\ entry \in Entries
    /\ w.code = v.code \o bytes /\ w.meant = Append(v.meant, entry) /\ entry.at = Len(v.code)
    /\ w.code[Len(v.code) + 1] = Opcode[op]
    /\ Plain(op, Operands(w.code, Len(v.code), op)) = entry.does

\* An instruction that says what its entry says keeps a chunk good.
LEMMA AppendGood ==
    ASSUME NEW v, NEW w, NEW op, NEW bytes, NEW entry, Good(v), Appended(v, w, op, bytes, entry)
    PROVE  /\ Good(w) /\ Continues(v, w)
           /\ Len(w.code) = Len(v.code) + Size(op) /\ Len(w.meant) = Len(v.meant) + 1
           /\ w.meant[Len(w.meant)] = entry
<1> DEFINE m == Len(v.meant)
           n == Len(v.code)
<1>0. /\ op \in Ops /\ bytes \in Seq(Cells) /\ Len(bytes) = Size(op) /\ entry \in Entries
      /\ w.code = v.code \o bytes /\ w.meant = Append(v.meant, entry) /\ entry.at = Len(v.code)
      /\ w.code[Len(v.code) + 1] = Opcode[op]
      /\ Plain(op, Operands(w.code, Len(v.code), op)) = entry.does
  BY DEF Appended
<1>1. Typed(v)
  BY DEF Good
<1>2. /\ m \in Nat /\ n \in Nat /\ v.code \in Seq(Cells) /\ v.meant \in Seq(Entries)
      /\ Size(op) \in 1 .. 7
  BY ONLY <1>0, <1>1, TypedChunk, SizePositive
<1> HIDE DEF m, n
<1>3. Typed(w)
  <2>1. v.code \o bytes \in Seq(Cells)
    BY ONLY <1>2, <1>0
  <2>2. Append(v.meant, entry) \in Seq(Entries)
    BY ONLY <1>2, <1>0
  <2> QED
    BY ONLY <2>1, <2>2, <1>0 DEF Typed
<1>4. /\ Len(w.code) = n + Size(op)
      /\ \A k \in 1 .. n : w.code[k] = v.code[k]
  BY ONLY <1>2, <1>0 DEF n
<1>5. /\ Len(w.meant) = m + 1 /\ w.meant[m + 1] = entry
      /\ \A i \in 1 .. m : w.meant[i] = v.meant[i]
  BY ONLY <1>2, <1>0 DEF m
<1>6. Start(w, m + 1) = n
  <2>1. m + 1 # Len(w.meant) + 1
    BY ONLY <1>2, <1>5
  <2> QED
    BY ONLY <2>1, <1>5, <1>0 DEF Start, n
<1>7. Start(w, m + 2) = n + Size(op)
  <2>1. m + 2 = Len(w.meant) + 1
    BY ONLY <1>2, <1>5
  <2> QED
    BY ONLY <2>1, <1>4 DEF Start
<1>8. Continues(v, w)
  <2>1. n <= Len(w.code) /\ m <= Len(w.meant)
    BY ONLY <1>2, <1>4, <1>5
  <2> QED
    BY ONLY <2>1, <1>4, <1>5, <1>6 DEF Continues, m, n
<1>9. IsWritten(w, m + 1)
  <2>1. m + 1 + 1 = m + 2
    BY ONLY <1>2
  <2>2. w.code[n + 1] = Opcode[op] /\ Plain(op, Operands(w.code, n, op)) = entry.does
    BY ONLY <1>0 DEF n
  <2>3. op \in Ops
    BY ONLY <1>0
  <2>4. w.meant[m + 1].does = entry.does
    BY ONLY <1>5
  <2> QED
    BY ONLY <1>6, <1>7, <2>1, <2>2, <2>3, <2>4 DEF IsWritten
<1>10. \A i \in m + 1 .. Len(w.meant) : i = m + 1
  BY ONLY <1>2, <1>5
<1>11. w.meant[m + 1].at = n /\ n < Len(w.code) /\ n <= n
  BY ONLY <1>2, <1>4, <1>5, <1>0 DEF n
<1>12. \A i \in m + 1 .. Len(w.meant) :
         IsWritten(w, i) /\ n <= w.meant[i].at /\ w.meant[i].at < Len(w.code)
  BY ONLY <1>9, <1>10, <1>11
<1>13. \A i, j \in m + 1 .. Len(w.meant) : i < j => w.meant[i].at < w.meant[j].at
  BY ONLY <1>2, <1>10
<1>14. Good(w)
  BY ONLY Good(v), <1>3, <1>8, <1>12, <1>13, GrowGood DEF m, n
<1> QED
  BY ONLY <1>4, <1>5, <1>8, <1>14 DEF m, n

\* w is v with good entries more that have no place to go to.
Extends(v, w) ==
    /\ Good(w) /\ Continues(v, w)
    /\ \A i \in Len(v.meant) + 1 .. Len(w.meant) : w.meant[i].goal = 0

\* The entry written last has this opcode, and the chunk knows where.
Ends(w, op) ==
    /\ Len(w.meant) \in Nat \ {0} /\ w.last = w.meant[Len(w.meant)].at
    /\ w.code[w.last + 1] = Opcode[op]

\* An extension of an extension is one.
LEMMA ExtendsOn ==
    ASSUME NEW u, NEW v, NEW w, Typed(u), Extends(u, v), Extends(v, w)
    PROVE  Extends(u, w) /\ Len(u.meant) <= Len(v.meant) /\ Len(v.meant) <= Len(w.meant)
<1>1. Good(v) /\ Good(w) /\ Continues(u, v) /\ Continues(v, w) /\ Typed(v) /\ Typed(w)
  BY DEF Extends, Good
<1>2. Len(u.meant) \in Nat /\ Len(v.meant) \in Nat /\ Len(w.meant) \in Nat
  BY ONLY Typed(u), <1>1, TypedChunk
<1>3. Continues(u, w)
  BY ONLY Typed(u), <1>1, ContinuesOn
<1>4. /\ Len(u.meant) <= Len(v.meant) /\ Len(v.meant) <= Len(w.meant)
      /\ \A i \in 1 .. Len(v.meant) : w.meant[i] = v.meant[i]
  BY ONLY <1>1 DEF Continues
<1>5. /\ \A i \in Len(u.meant) + 1 .. Len(v.meant) : v.meant[i].goal = 0
      /\ \A i \in Len(v.meant) + 1 .. Len(w.meant) : w.meant[i].goal = 0
  BY DEF Extends
<1>6. ASSUME NEW i \in Len(u.meant) + 1 .. Len(w.meant) PROVE w.meant[i].goal = 0
  <2>1. CASE i <= Len(v.meant)
    <3>1. i \in 1 .. Len(v.meant) /\ i \in Len(u.meant) + 1 .. Len(v.meant)
      BY ONLY <2>1, <1>2, <1>4, i \in Len(u.meant) + 1 .. Len(w.meant)
    <3> QED
      BY ONLY <3>1, <1>4, <1>5
  <2>2. CASE ~(i <= Len(v.meant))
    <3>1. i \in Len(v.meant) + 1 .. Len(w.meant)
      BY ONLY <2>2, <1>2, <1>4, i \in Len(u.meant) + 1 .. Len(w.meant)
    <3> QED
      BY ONLY <3>1, <1>5
  <2> QED
    BY ONLY <2>1, <2>2
<1> QED
  BY ONLY <1>1, <1>3, <1>4, <1>6 DEF Extends

\* Only jumps do more than one plain instruction.
LEMMA PlainOfBare == \A op, args : op \notin Jumps => Plain(op, args) = <<<<op, args>>>>
BY DEF Plain, Jumps, PlainJumps, FusedLocalJumps, FusedFieldJumps

\* emit: an instruction whose operands fit.
LEMMA EmitGood ==
    ASSUME NEW v, Good(v), NEW op, NEW args, ArgsFit(op, args)
    PROVE  /\ Extends(v, Emit(v, op, args)) /\ Ends(Emit(v, op, args), op)
           /\ Len(Emit(v, op, args).meant) = Len(v.meant) + 1
<1> DEFINE w == Emit(v, op, args)
           bytes == Bytes(op, args)
           entry == Item(Len(v.code), <<<<op, args>>>>)
           n == Len(v.code)
<1>1. Typed(v)
  BY DEF Good
<1>2. n \in Nat /\ v.code \in Seq(Cells) /\ Len(v.meant) \in Nat /\ v.meant \in Seq(Entries)
  BY ONLY <1>1, TypedChunk
<1>3. bytes \in Seq(Cells) /\ Len(bytes) = Size(op) /\ op \notin Jumps
  BY ONLY ArgsFit(op, args), BytesTyped
<1>4. op \in Ops /\ args \in Seq(Nat)
  BY DEF ArgsFit
<1>5. entry \in Entries
  <2>1. <<op, args>> \in Steps
    BY ONLY <1>4 DEF Steps
  <2>2. <<<<op, args>>>> \in Seq(Steps)
    BY ONLY <2>1
  <2> QED
    BY ONLY <1>2, <2>2 DEF Item, Entries
<1>6. /\ w.code = v.code \o bytes /\ w.meant = Append(v.meant, entry) /\ w.last = n
      /\ entry.at = n /\ entry.goal = 0 /\ entry.does = <<<<op, args>>>>
  BY DEF Emit, Item
<1> HIDE DEF w, bytes, entry
<1>7. Holds(w.code, n, op, args)
  BY ONLY SMTT(30), <1>2, <1>3, <1>6 DEF n, bytes, Holds
<1>8. w.code[n + 1] = Opcode[op] /\ Operands(w.code, n, op) = args
  BY ONLY <1>2, <1>7, ArgsFit(op, args), ReadsArgs
<1>9. Plain(op, Operands(w.code, n, op)) = entry.does
  BY ONLY <1>3, <1>6, <1>8, PlainOfBare
<1>10. /\ Good(w) /\ Continues(v, w)
       /\ Len(w.meant) = Len(v.meant) + 1 /\ w.meant[Len(w.meant)] = entry
  <2>1. Appended(v, w, op, bytes, entry)
    BY ONLY <1>3, <1>4, <1>5, <1>6, <1>8, <1>9 DEF n, Appended
  <2> QED
    BY ONLY Good(v), <2>1, AppendGood
<1>11. \A i \in Len(v.meant) + 1 .. Len(w.meant) : w.meant[i].goal = 0
  BY ONLY <1>2, <1>6, <1>10
<1>12. Len(w.meant) \in Nat \ {0}
  BY ONLY <1>2, <1>10
<1>13. Extends(v, w) /\ Ends(w, op) /\ Len(w.meant) = Len(v.meant) + 1
  BY ONLY <1>6, <1>8, <1>10, <1>11, <1>12 DEF Extends, Ends
<1> QED
  BY ONLY <1>13 DEF w

\* Where an entry starts there is an instruction, and the next entry is right behind it.
LEMMA EntryReads ==
    ASSUME NEW w, NEW i, NEW op \in Ops, Good(w), i \in 1 .. Len(w.meant),
           w.code[w.meant[i].at + 1] = Opcode[op]
    PROVE  /\ Start(w, i + 1) = w.meant[i].at + Size(op)
           /\ w.meant[i].does = Plain(op, Operands(w.code, w.meant[i].at, op))
<1>1. Start(w, i) = w.meant[i].at
  BY ONLY Good(w), i \in 1 .. Len(w.meant), Starts
<1>2. IsWritten(w, i)
  BY ONLY Good(w), i \in 1 .. Len(w.meant) DEF Good
<1>3. PICK o \in Ops : /\ w.code[Start(w, i) + 1] = Opcode[o]
                       /\ Start(w, i + 1) = Start(w, i) + Size(o)
                       /\ Plain(o, Operands(w.code, Start(w, i), o)) = w.meant[i].does
  BY ONLY <1>2 DEF IsWritten
<1>4. Opcode[o] = Opcode[op]
  BY ONLY <1>1, <1>3, w.code[w.meant[i].at + 1] = Opcode[op]
<1>5. o = op
  BY ONLY <1>4, o \in Ops, op \in Ops, OpcodesDiffer
<1> QED
  BY ONLY <1>1, <1>3, <1>5

\* No two entries start in the same place.
LEMMA SameStart ==
    ASSUME NEW w, NEW i, NEW j, Good(w), i \in 1 .. Len(w.meant) + 1, j \in 1 .. Len(w.meant) + 1,
           Start(w, i) = Start(w, j)
    PROVE  i = j
<1>1. Len(w.meant) \in Nat
  BY TypedChunk DEF Good
<1>2. /\ \A a, b \in 1 .. Len(w.meant) + 1 : a < b => Start(w, a) < Start(w, b)
      /\ Start(w, i) \in Nat /\ Start(w, j) \in Nat
  BY ONLY Good(w), i \in 1 .. Len(w.meant) + 1, j \in 1 .. Len(w.meant) + 1, Starts
<1>3. ~(i < j) /\ ~(j < i)
  BY ONLY <1>2, i \in 1 .. Len(w.meant) + 1, j \in 1 .. Len(w.meant) + 1, Start(w, i) = Start(w, j)
<1> QED
  BY ONLY <1>1, <1>3, i \in 1 .. Len(w.meant) + 1, j \in 1 .. Len(w.meant) + 1

\* The first k entries of v, and their bytes.
Trimmed(v, w, k) ==
    /\ w.meant = SubSeq(v.meant, 1, k) /\ w.code = SubSeq(v.code, 1, Start(v, k + 1))

\* A chunk cut where an instruction starts is good.
LEMMA TrimGood ==
    ASSUME NEW v, NEW w, NEW k, Good(v), k \in 0 .. Len(v.meant), Trimmed(v, w, k)
    PROVE  /\ Good(w) /\ Continues(w, v) /\ Len(w.meant) = k /\ Len(w.code) = Start(v, k + 1)
           /\ \A i \in 1 .. k : w.meant[i] = v.meant[i]
<1> DEFINE n == Start(v, k + 1)
           m == Len(v.meant)
<1>1. Typed(v)
  BY DEF Good
<1>2. /\ m \in Nat /\ Len(v.code) \in Nat /\ v.code \in Seq(Cells) /\ v.meant \in Seq(Entries)
      /\ \A i \in 1 .. m : v.meant[i].at \in Nat
  BY ONLY <1>1, TypedChunk
<1>3. k \in Nat /\ k <= m /\ k + 1 \in 1 .. m + 1
  BY ONLY <1>2, k \in 0 .. Len(v.meant)
<1>4. n \in Nat /\ n <= Len(v.code)
  BY ONLY Good(v), <1>3, Starts
<1>5. /\ \A i \in 1 .. m : Start(v, i) = v.meant[i].at
      /\ \A i, j \in 1 .. m + 1 : i < j => Start(v, i) < Start(v, j)
  BY ONLY Good(v), Starts
<1> HIDE DEF n
<1>6. w.code \in Seq(Cells) /\ Len(w.code) = n /\ \A x \in 1 .. n : w.code[x] = v.code[x]
  BY ONLY <1>2, <1>4, Trimmed(v, w, k) DEF Trimmed, n
<1>7. w.meant \in Seq(Entries) /\ Len(w.meant) = k /\ \A i \in 1 .. k : w.meant[i] = v.meant[i]
  BY ONLY <1>2, <1>3, Trimmed(v, w, k) DEF Trimmed
<1>8. ASSUME NEW i \in 1 .. k + 1 PROVE Start(w, i) = Start(v, i)
  <2>1. CASE i = k + 1
    BY ONLY <2>1, <1>6, <1>7 DEF Start, n
  <2>2. CASE i # k + 1
    <3>1. i \in 1 .. k /\ i # Len(w.meant) + 1 /\ i # m + 1
      BY ONLY <2>2, <1>2, <1>3, <1>7, i \in 1 .. k + 1
    <3> QED
      BY ONLY <3>1, <1>7 DEF Start
  <2> QED
    BY ONLY <2>1, <2>2
<1>9. Start(w, 1) = 0
  <2>1. 1 \in 1 .. k + 1
    BY ONLY <1>3
  <2>2. Start(v, 1) = 0
    BY ONLY Good(v) DEF Good
  <2> QED
    BY ONLY <2>1, <2>2, <1>8
<1>10. ASSUME NEW i \in 1 .. k PROVE IsWritten(w, i) /\ w.meant[i].at < Len(w.code)
  <2>1. i \in 1 .. m /\ i \in 1 .. m + 1 /\ i \in 1 .. k + 1 /\ i + 1 \in 1 .. k + 1
        /\ i + 1 \in 1 .. m + 1 /\ i < k + 1
    BY ONLY <1>2, <1>3, i \in 1 .. k
  <2>2. IsWritten(v, i)
    BY ONLY Good(v), <2>1 DEF Good
  <2>3. Start(w, i) = Start(v, i) /\ Start(w, i + 1) = Start(v, i + 1)
    BY ONLY <1>8, <2>1
  <2>4. Start(v, i) \in Nat /\ Start(v, i + 1) \in Nat
    BY ONLY Good(v), <2>1, Starts
  <2>5. Start(v, i) < n
    BY ONLY <1>3, <1>5, <2>1 DEF n
  <2>6. Start(v, i + 1) <= n
    <3>1. CASE i + 1 = k + 1
      BY ONLY <3>1, <1>4 DEF n
    <3>2. CASE i + 1 # k + 1
      <4>1. i + 1 < k + 1
        BY ONLY <3>2, <1>3, i \in 1 .. k
      <4>2. Start(v, i + 1) < n
        BY ONLY <4>1, <1>3, <1>5, <2>1 DEF n
      <4> QED
        BY ONLY <4>2, <2>4, <1>4
    <3> QED
      BY ONLY <3>1, <3>2
  <2>7. \A x \in Start(v, i) + 1 .. Start(v, i + 1) : w.code[x] = v.code[x]
    BY ONLY <1>4, <1>6, <2>4, <2>6
  <2>8. w.meant[i] = v.meant[i]
    BY ONLY <1>7, i \in 1 .. k
  <2>9. IsWritten(w, i)
    BY ONLY <2>2, <2>3, <2>4, <2>7, <2>8, StaysWritten
  <2> QED
    BY ONLY <2>9, <2>8, <2>5, <2>1, <1>5, <1>6
<1>11. ASSUME NEW i \in 1 .. k, NEW j \in 1 .. k, i < j PROVE w.meant[i].at < w.meant[j].at
  <2>1. i \in 1 .. m /\ j \in 1 .. m
    BY ONLY <1>2, <1>3, i \in 1 .. k, j \in 1 .. k
  <2>2. v.meant[i].at < v.meant[j].at
    BY ONLY Good(v), <2>1, i < j DEF Good
  <2> QED
    BY ONLY <2>2, <1>7, i \in 1 .. k, j \in 1 .. k
<1>12. Good(w)
  BY ONLY <1>6, <1>7, <1>9, <1>10, <1>11 DEF Good, Typed
<1>13. Continues(w, v)
  BY ONLY <1>3, <1>4, <1>6, <1>7 DEF Continues, n
<1> QED
  BY ONLY <1>6, <1>7, <1>12, <1>13 DEF n

\* What a jump has before its distance fits in the bytes it gets.
OperandsFit(op, operands) ==
    /\ op \in Jumps /\ operands \in Seq(Nat)
    /\ \/ op \in PlainJumps /\ Len(operands) = 0
       \/ /\ op \in FusedLocalJumps /\ Len(operands) = 2
          /\ operands[1] \in Cells /\ operands[2] \in Cells
       \/ /\ op \in FusedFieldJumps /\ Len(operands) = 4
          /\ operands[1] \in Cells /\ operands[2] \in Cells /\ operands[3] \in Cells
          /\ operands[4] \in Cells

\* The operands of a jump, with its distance.
LEMMA WithDistance ==
    ASSUME NEW op, NEW operands, NEW distance, OperandsFit(op, operands), distance \in Words
    PROVE  /\ JumpFits(op, Append(operands, distance))
           /\ Len(Append(operands, distance)) = Len(operands) + 1
           /\ Append(operands, distance)[Len(operands) + 1] = distance
           /\ \A k \in 1 .. Len(operands) : Append(operands, distance)[k] = operands[k]
<1> DEFINE args == Append(operands, distance)
<1>1. operands \in Seq(Nat) /\ Len(operands) \in Nat /\ distance \in Nat /\ op \in Jumps
  BY DEF OperandsFit, Words
<1>2. /\ args \in Seq(Nat) /\ Len(args) = Len(operands) + 1 /\ args[Len(operands) + 1] = distance
      /\ \A k \in 1 .. Len(operands) : args[k] = operands[k]
  BY ONLY <1>1
<1> HIDE DEF args
<1>3. JumpFits(op, args)
  <2>1. CASE op \in PlainJumps /\ Len(operands) = 0
    <3>1. Len(args) = 1 /\ args[1] = distance
      BY ONLY <1>2, <2>1
    <3> QED
      BY ONLY <3>1, <1>1, <1>2, <2>1, distance \in Words DEF JumpFits
  <2>2. CASE /\ op \in FusedLocalJumps /\ Len(operands) = 2
             /\ operands[1] \in Cells /\ operands[2] \in Cells
    <3>1. Len(args) = 3 /\ args[1] = operands[1] /\ args[2] = operands[2] /\ args[3] = distance
      BY ONLY <1>2, <2>2
    <3> QED
      BY ONLY <3>1, <1>1, <1>2, <2>2, distance \in Words DEF JumpFits
  <2>3. CASE /\ op \in FusedFieldJumps /\ Len(operands) = 4
             /\ operands[1] \in Cells /\ operands[2] \in Cells /\ operands[3] \in Cells
             /\ operands[4] \in Cells
    <3>1. /\ Len(args) = 5 /\ args[1] = operands[1] /\ args[2] = operands[2]
          /\ args[3] = operands[3] /\ args[4] = operands[4] /\ args[5] = distance
      BY ONLY <1>2, <2>3
    <3> QED
      BY ONLY <3>1, <1>1, <1>2, <2>3, distance \in Words DEF JumpFits
  <2> QED
    BY ONLY <2>1, <2>2, <2>3, OperandsFit(op, operands) DEF OperandsFit
<1> QED
  BY ONLY <1>2, <1>3 DEF args

\* w is v and a jump, that does this and is to go there.
JumpAppended(v, w, op, operands, distance, does, goal) ==
    /\ OperandsFit(op, operands) /\ distance \in Words
    /\ does \in Seq(Steps) /\ does = Plain(op, operands) /\ goal \in Nat
    /\ w.code = v.code \o Bytes(op, Append(operands, distance))
    /\ w.meant = Append(v.meant, [at |-> Len(v.code), does |-> does, goal |-> goal])

\* A jump that says what its entry says keeps a chunk good.
LEMMA JumpGood ==
    ASSUME NEW v, NEW w, NEW op, NEW operands, NEW distance, NEW does, NEW goal, Good(v),
           JumpAppended(v, w, op, operands, distance, does, goal)
    PROVE  /\ Good(w) /\ Continues(v, w)
           /\ Len(w.code) = Len(v.code) + Size(op) /\ Len(w.meant) = Len(v.meant) + 1
           /\ w.meant[Len(v.meant) + 1] = [at |-> Len(v.code), does |-> does, goal |-> goal]
           /\ w.code[Len(v.code) + 1] = Opcode[op]
           /\ WordAt(w.code, Len(w.code) - 2) = distance
<1> DEFINE args == Append(operands, distance)
           bytes == Bytes(op, args)
           entry == [at |-> Len(v.code), does |-> does, goal |-> goal]
           n == Len(v.code)
<1>0. /\ OperandsFit(op, operands) /\ distance \in Words
      /\ does \in Seq(Steps) /\ does = Plain(op, operands) /\ goal \in Nat
      /\ w.code = v.code \o bytes /\ w.meant = Append(v.meant, entry)
  BY DEF JumpAppended
<1>1. n \in Nat /\ v.code \in Seq(Cells) /\ Len(v.meant) \in Nat
  BY TypedChunk DEF Good
<1>2. /\ JumpFits(op, args) /\ Len(args) = Len(operands) + 1 /\ args[Len(operands) + 1] = distance
      /\ \A k \in 1 .. Len(operands) : args[k] = operands[k]
  BY ONLY <1>0, WithDistance
<1> HIDE DEF args
<1>3. bytes \in Seq(Cells) /\ Len(bytes) = Size(op) /\ op \in Ops /\ Size(op) \in 1 .. 7
  BY ONLY <1>2, JumpTyped, SizePositive
<1>4. entry.at = n /\ entry.does = does /\ entry.goal = goal /\ entry \in Entries
  BY ONLY <1>0, <1>1 DEF Entries
<1> HIDE DEF entry
<1>5. Holds(w.code, n, op, args)
  <2>1. w.code = v.code \o bytes
    BY ONLY <1>0
  <2> HIDE DEF bytes
  <2>2. \A k \in 1 .. Size(op) : w.code[n + k] = bytes[k]
    BY ONLY <1>1, <1>3, <2>1 DEF n
  <2> QED
    BY ONLY <2>2 DEF Holds, bytes
<1>6. /\ w.code[n + 1] = Opcode[op]
      /\ WordAt(w.code, n + Size(op) - 2) = args[Len(args)]
      /\ op \in PlainJumps => Operands(w.code, n, op) = <<>>
      /\ op \in FusedLocalJumps => Operands(w.code, n, op) = <<args[1], args[2]>>
      /\ op \in FusedFieldJumps =>
           Operands(w.code, n, op) = <<args[1], args[2], args[3], args[4]>>
  BY ONLY <1>1, <1>2, <1>5, ReadsJump
<1>7. Operands(w.code, n, op) = operands
  <2>1. operands \in Seq(Nat)
    BY ONLY <1>0 DEF OperandsFit
  <2>2. CASE op \in PlainJumps /\ Len(operands) = 0
    BY ONLY <2>1, <2>2, <1>6
  <2>3. CASE op \in FusedLocalJumps /\ Len(operands) = 2
    <3>1. args[1] = operands[1] /\ args[2] = operands[2]
      BY ONLY <2>3, <1>2
    <3>2. operands = <<operands[1], operands[2]>>
      BY ONLY <2>1, <2>3
    <3> QED
      BY ONLY <2>3, <3>1, <3>2, <1>6
  <2>4. CASE op \in FusedFieldJumps /\ Len(operands) = 4
    <3>1. /\ args[1] = operands[1] /\ args[2] = operands[2]
          /\ args[3] = operands[3] /\ args[4] = operands[4]
      BY ONLY <2>4, <1>2
    <3>2. operands = <<operands[1], operands[2], operands[3], operands[4]>>
      BY ONLY <2>1, <2>4
    <3> QED
      BY ONLY <2>4, <3>1, <3>2, <1>6
  <2> QED
    BY ONLY <2>2, <2>3, <2>4, <1>0 DEF OperandsFit
<1>8. Appended(v, w, op, bytes, entry)
  BY ONLY <1>0, <1>3, <1>4, <1>6, <1>7 DEF Appended, n
<1>9. /\ Good(w) /\ Continues(v, w)
      /\ Len(w.code) = Len(v.code) + Size(op) /\ Len(w.meant) = Len(v.meant) + 1
      /\ w.meant[Len(w.meant)] = entry
  BY ONLY Good(v), <1>8, AppendGood
<1>10. WordAt(w.code, Len(w.code) - 2) = distance
  <2>1. Len(args) = Len(operands) + 1
    BY ONLY <1>2
  <2>2. args[Len(args)] = distance
    BY ONLY <2>1, <1>2
  <2>3. Len(w.code) = n + Size(op)
    BY ONLY <1>9 DEF n
  <2>4. WordAt(w.code, n + Size(op) - 2) = distance
    BY ONLY <1>6, <2>2
  <2>5. Len(w.code) - 2 = n + Size(op) - 2
    <3>1. n \in Nat /\ Size(op) \in Nat
      BY ONLY <1>1, <1>3
    <3>2. Len(w.code) \in Nat
      BY ONLY <2>3, <3>1
    <3> HIDE DEF n
    <3> QED
      BY ONLY <2>3, <3>1, <3>2
  <2> QED
    BY ONLY <2>4, <2>5
<1>11. w.meant[Len(v.meant) + 1] = entry
  BY ONLY <1>9
<1>12. w.code[Len(v.code) + 1] = Opcode[op]
  BY ONLY <1>6 DEF n
<1> QED
  BY ONLY <1>9, <1>10, <1>11, <1>12 DEF entry

\* What is cut off after some chunk leaves an extension of that chunk.
LEMMA TrimExtends ==
    ASSUME NEW d, NEW v, NEW w, NEW k, Typed(d), Extends(d, v),
           Len(d.meant) <= k, k \in 0 .. Len(v.meant), Trimmed(v, w, k)
    PROVE  Extends(d, w)
<1>1. Good(v) /\ Continues(d, v)
  BY DEF Extends
<1>2. /\ Len(d.meant) \in Nat /\ Len(v.meant) \in Nat /\ Len(d.code) \in Nat
      /\ Len(v.code) \in Nat /\ k \in Nat
  BY ONLY Typed(d), <1>1, k \in 0 .. Len(v.meant), TypedChunk DEF Good
<1>3. /\ Good(w) /\ Continues(w, v) /\ Len(w.meant) = k /\ Len(w.code) = Start(v, k + 1)
      /\ \A i \in 1 .. k : w.meant[i] = v.meant[i]
  BY ONLY <1>1, k \in 0 .. Len(v.meant), Trimmed(v, w, k), TrimGood
<1>4. /\ Len(d.code) <= Len(v.code) /\ Len(d.meant) <= Len(v.meant)
      /\ \A x \in 1 .. Len(d.code) : v.code[x] = d.code[x]
      /\ \A i \in 1 .. Len(d.meant) : v.meant[i] = d.meant[i]
      /\ Start(v, Len(d.meant) + 1) = Len(d.code)
  BY ONLY <1>1 DEF Continues
<1>5. Len(d.meant) + 1 \in 1 .. Len(v.meant) + 1 /\ k + 1 \in 1 .. Len(v.meant) + 1
  BY ONLY <1>2, <1>4, k \in 0 .. Len(v.meant)
<1>6. Len(w.code) \in Nat
  BY ONLY <1>3, TypedChunk DEF Good
<1>7. Len(d.code) <= Len(w.code)
  <2>1. CASE Len(d.meant) = k
    BY ONLY <2>1, <1>2, <1>3, <1>4
  <2>2. CASE Len(d.meant) # k
    <3>1. Len(d.meant) + 1 < k + 1
      BY ONLY <2>2, <1>2, Len(d.meant) <= k
    <3>2. Start(v, Len(d.meant) + 1) < Start(v, k + 1)
      BY ONLY <1>1, <1>5, <3>1, Starts
    <3> QED
      BY ONLY <3>2, <1>2, <1>3, <1>4, <1>6
  <2> QED
    BY ONLY <2>1, <2>2
<1>8. \A x \in 1 .. Len(w.code) : v.code[x] = w.code[x]
  BY ONLY <1>3 DEF Continues
<1>9. \A x \in 1 .. Len(d.code) : w.code[x] = d.code[x]
  BY ONLY <1>2, <1>4, <1>6, <1>7, <1>8
<1>10. \A i \in 1 .. Len(d.meant) : w.meant[i] = d.meant[i]
  BY ONLY <1>2, <1>3, <1>4, Len(d.meant) <= k
<1>11. Start(w, Len(d.meant) + 1) = Len(d.code)
  <2>1. Len(d.meant) + 1 \in 1 .. Len(w.meant) + 1
    BY ONLY <1>2, <1>3, Len(d.meant) <= k
  <2>2. \A i \in 1 .. Len(w.meant) + 1 : Start(v, i) = Start(w, i)
    BY ONLY <1>1, <1>3, ContinuesStarts DEF Good
  <2> QED
    BY ONLY <2>1, <2>2, <1>4
<1>12. Continues(d, w)
  BY ONLY <1>3, <1>7, <1>9, <1>10, <1>11, Len(d.meant) <= k DEF Continues
<1>13. \A i \in Len(d.meant) + 1 .. Len(w.meant) : w.meant[i].goal = 0
  <2>1. \A i \in Len(d.meant) + 1 .. Len(v.meant) : v.meant[i].goal = 0
    BY DEF Extends
  <2>2. \A i \in Len(d.meant) + 1 .. k : i \in 1 .. k /\ i \in Len(d.meant) + 1 .. Len(v.meant)
    BY ONLY <1>2, k \in 0 .. Len(v.meant)
  <2> QED
    BY ONLY <2>1, <2>2, <1>3
<1> QED
  BY ONLY <1>3, <1>12, <1>13 DEF Extends

\* w is v and that many negations, one after the other.
NegatedBy(v, w, nots) ==
    /\ Len(w.meant) = Len(v.meant) + nots /\ Len(w.code) = Len(v.code) + nots
    /\ \A i \in 1 .. nots : /\ w.meant[Len(v.meant) + i].at = Len(v.code) + i - 1
                            /\ w.meant[Len(v.meant) + i].does = <<<<"NOT", <<>>>>>>
                            /\ w.code[Len(v.code) + i] = Opcode.NOT

\* Any number of negations keeps a chunk good.
LEMMA NegatedGood ==
    ASSUME NEW v, NEW nots, Good(v), nots \in Nat
    PROVE  Extends(v, Negated(v, nots)) /\ NegatedBy(v, Negated(v, nots), nots)
<1> DEFINE w == Negated(v, nots)
           n == Len(v.code)
           m == Len(v.meant)
           bytes == [i \in 1 .. nots |-> Opcode.NOT]
           entries == [i \in 1 .. nots |-> Item(n + i - 1, <<<<"NOT", <<>>>>>>)]
<1>1. /\ m \in Nat /\ n \in Nat /\ v.code \in Seq(Cells) /\ v.meant \in Seq(Entries)
      /\ Len(v.meant) = m /\ Len(v.code) = n
  BY TypedChunk DEF Good
<1> HIDE DEF n, m
<1>2. bytes \in Seq(Cells) /\ Len(bytes) = nots /\ \A i \in 1 .. nots : bytes[i] = Opcode.NOT
  <2>1. Opcode.NOT \in Cells
    BY DEF Opcode, Cells
  <2> QED
    BY ONLY <2>1, nots \in Nat
<1>3. /\ entries \in Seq(Entries) /\ Len(entries) = nots
      /\ \A i \in 1 .. nots : entries[i] = Item(n + i - 1, <<<<"NOT", <<>>>>>>)
  <2>1. <<<<"NOT", <<>>>>>> \in Seq(Steps)
    <3>1. "NOT" \in Ops
      BY DEF Ops, Opcode
    <3> QED
      BY ONLY <3>1, WithoutOperands
  <2>2. \A i \in 1 .. nots : Item(n + i - 1, <<<<"NOT", <<>>>>>>) \in Entries
    BY ONLY <2>1, <1>1, nots \in Nat DEF Item, Entries
  <2>3. entries \in [1 .. nots -> Entries]
    BY ONLY <2>2
  <2>4. \A i \in 1 .. nots : entries[i] = Item(n + i - 1, <<<<"NOT", <<>>>>>>)
    OBVIOUS
  <2> HIDE DEF entries
  <2>5. entries \in Seq(Entries) /\ Len(entries) = nots
    BY ONLY <2>3, nots \in Nat, IsSequence
  <2> QED
    BY ONLY <2>4, <2>5
<1>4. w.code = v.code \o bytes /\ w.meant = v.meant \o entries
  <2>1. w.code = v.code \o bytes
    BY ONLY Zenon DEF Negated
  <2>2. w.meant = v.meant \o entries
    BY ONLY Zenon DEF Negated, n
  <2> QED
    BY ONLY <2>1, <2>2
<1> HIDE DEF w, bytes, entries
<1>5. /\ w.code \in Seq(Cells) /\ Len(w.code) = n + nots
      /\ \A k \in 1 .. n : w.code[k] = v.code[k]
      /\ \A i \in 1 .. nots : w.code[n + i] = bytes[i]
  <2>1. /\ w.code \in Seq(Cells) /\ Len(w.code) = Len(v.code) + Len(bytes)
        /\ \A i \in 1 .. Len(v.code) : w.code[i] = v.code[i]
        /\ \A i \in 1 .. Len(bytes) : w.code[Len(v.code) + i] = bytes[i]
    <3>1. v.code \in Seq(Cells) /\ bytes \in Seq(Cells) /\ w.code = v.code \o bytes
      BY ONLY <1>1, <1>2, <1>4
    <3> QED
      BY ONLY <3>1, Joined
  <2>2. Len(bytes) = nots /\ Len(v.code) = n /\ n \in Nat
    BY ONLY <1>1, <1>2
  <2> QED
    BY ONLY <2>1, <2>2, nots \in Nat
<1>6. /\ w.meant \in Seq(Entries) /\ Len(w.meant) = m + nots
      /\ \A i \in 1 .. m : w.meant[i] = v.meant[i]
      /\ \A i \in 1 .. nots : w.meant[m + i] = entries[i]
  <2>1. /\ w.meant \in Seq(Entries) /\ Len(w.meant) = Len(v.meant) + Len(entries)
        /\ \A i \in 1 .. Len(v.meant) : w.meant[i] = v.meant[i]
        /\ \A i \in 1 .. Len(entries) : w.meant[Len(v.meant) + i] = entries[i]
    <3>1. v.meant \in Seq(Entries) /\ entries \in Seq(Entries) /\ w.meant = v.meant \o entries
      BY ONLY <1>1, <1>3, <1>4
    <3> QED
      BY ONLY <3>1, Joined
  <2>2. Len(entries) = nots /\ Len(v.meant) = m /\ m \in Nat
    BY ONLY <1>1, <1>3
  <2> QED
    BY ONLY <2>1, <2>2, nots \in Nat
<1>7. ASSUME NEW i \in 1 .. nots
      PROVE  /\ w.meant[m + i].at = n + i - 1 /\ w.meant[m + i].goal = 0
             /\ w.meant[m + i].does = <<<<"NOT", <<>>>>>>
  BY ONLY <1>3, <1>6, i \in 1 .. nots DEF Item
<1>8. ASSUME NEW i \in 1 .. nots + 1 PROVE Start(w, m + i) = n + i - 1
  <2>1. CASE i = nots + 1
    <3>1. m + i = Len(w.meant) + 1 /\ n + i - 1 = Len(w.code)
      BY ONLY <2>1, <1>1, <1>5, <1>6, nots \in Nat
    <3> QED
      BY ONLY <3>1 DEF Start
  <2>2. CASE i # nots + 1
    <3>1. i \in 1 .. nots /\ m + i # Len(w.meant) + 1
      BY ONLY <2>2, <1>1, <1>6, nots \in Nat, i \in 1 .. nots + 1
    <3> QED
      BY ONLY <3>1, <1>7 DEF Start
  <2> QED
    BY ONLY <2>1, <2>2
<1>9. Continues(v, w)
  <2>1. Start(w, m + 1) = n
    <3>1. 1 \in 1 .. nots + 1 /\ n + 1 - 1 = n
      BY ONLY <1>1, nots \in Nat
    <3> QED
      BY ONLY <3>1, <1>8
  <2>2. n <= Len(w.code) /\ m <= Len(w.meant)
    BY ONLY <1>1, <1>5, <1>6, nots \in Nat
  <2> QED
    BY ONLY <2>1, <2>2, <1>5, <1>6 DEF Continues, n, m
<1>10. ASSUME NEW i \in 1 .. nots PROVE IsWritten(w, m + i)
  <2>1. /\ Start(w, m + i) = n + i - 1 /\ Start(w, m + i + 1) = n + i
    <3>1. i \in 1 .. nots + 1 /\ i + 1 \in 1 .. nots + 1
      BY ONLY nots \in Nat, i \in 1 .. nots
    <3>2. m + i + 1 = m + (i + 1) /\ n + i = n + (i + 1) - 1
      BY ONLY <1>1, nots \in Nat, i \in 1 .. nots
    <3> QED
      BY ONLY <3>1, <3>2, <1>8
  <2>2. n + i - 1 + 1 = n + i
    BY ONLY <1>1, nots \in Nat, i \in 1 .. nots
  <2>3. w.code[n + i] = Opcode["NOT"]
    BY ONLY <1>2, <1>5, i \in 1 .. nots
  <2>4. Operands(w.code, n + i - 1, "NOT") = <<>>
    BY DEF Operands, LocalOps, PlainJumps, FusedLocalJumps, FusedFieldJumps
  <2>5. "NOT" \notin Jumps /\ "NOT" \in Ops /\ Size("NOT") = 1
    BY Sizes DEF Jumps, PlainJumps, FusedLocalJumps, FusedFieldJumps, Ops, Opcode, BareOps
  <2>6. Plain("NOT", <<>>) = <<<<"NOT", <<>>>>>>
    BY ONLY <2>5, PlainOfBare
  <2>7. Plain("NOT", Operands(w.code, Start(w, m + i), "NOT")) = w.meant[m + i].does
    BY ONLY <2>1, <2>4, <2>6, <1>7, i \in 1 .. nots
  <2>8. w.code[Start(w, m + i) + 1] = Opcode["NOT"]
    BY ONLY <2>1, <2>2, <2>3
  <2>9. Start(w, m + i + 1) = Start(w, m + i) + Size("NOT")
    BY ONLY <2>1, <2>2, <2>5
  <2> QED
    BY ONLY <2>5, <2>7, <2>8, <2>9 DEF IsWritten
<1>11. \A i \in m + 1 .. Len(w.meant) : i - m \in 1 .. nots /\ m + (i - m) = i
  BY ONLY <1>1, <1>6, nots \in Nat
<1>12. ASSUME NEW i \in m + 1 .. Len(w.meant)
       PROVE  /\ IsWritten(w, i) /\ w.meant[i].at = n + (i - m) - 1 /\ w.meant[i].goal = 0
              /\ n <= w.meant[i].at /\ w.meant[i].at < Len(w.code)
  <2>1. i - m \in 1 .. nots /\ m + (i - m) = i
    BY ONLY <1>11, i \in m + 1 .. Len(w.meant)
  <2>2. IsWritten(w, i) /\ w.meant[i].at = n + (i - m) - 1 /\ w.meant[i].goal = 0
    BY ONLY <2>1, <1>7, <1>10
  <2> QED
    BY ONLY <2>1, <2>2, <1>1, <1>5, nots \in Nat
<1>13. ASSUME NEW i \in m + 1 .. Len(w.meant), NEW j \in m + 1 .. Len(w.meant), i < j
       PROVE  w.meant[i].at < w.meant[j].at
  <2>1. w.meant[i].at = n + (i - m) - 1 /\ w.meant[j].at = n + (j - m) - 1
    BY ONLY <1>12, i \in m + 1 .. Len(w.meant), j \in m + 1 .. Len(w.meant)
  <2>2. i \in Nat /\ j \in Nat
    BY ONLY <1>1, <1>6, nots \in Nat, i \in m + 1 .. Len(w.meant), j \in m + 1 .. Len(w.meant)
  <2> QED
    BY ONLY <2>1, <2>2, <1>1, i < j
<1>14. Good(w)
  <2>1. Typed(w)
    BY ONLY <1>5, <1>6 DEF Typed
  <2>2. \A i \in m + 1 .. Len(w.meant) :
          IsWritten(w, i) /\ n <= w.meant[i].at /\ w.meant[i].at < Len(w.code)
    BY ONLY <1>12
  <2>3. \A i, j \in m + 1 .. Len(w.meant) : i < j => w.meant[i].at < w.meant[j].at
    BY ONLY <1>13
  <2> QED
    BY ONLY Good(v), <2>1, <2>2, <2>3, <1>9, GrowGood DEF n, m
<1>15. Extends(v, w)
  BY ONLY <1>9, <1>12, <1>14 DEF Extends, m
<1>16. \A i \in 1 .. nots :
         /\ w.meant[m + i].at = n + i - 1 /\ w.meant[m + i].does = <<<<"NOT", <<>>>>>>
         /\ w.code[n + i] = Opcode.NOT
  BY ONLY <1>2, <1>5, <1>7
<1>17. NegatedBy(v, w, nots)
  BY ONLY <1>5, <1>6, <1>16 DEF NegatedBy, n, m
<1> QED
  BY ONLY <1>15, <1>17 DEF w

\* peepholeNotFold takes one negation away, if there is one, and the jump is to make up for it.
Folding(f) ==
    \/ f.op = "JUMP_IF_FALSE_POP" /\ f.does = <<>>
    \/ f.op = "JUMP_IF_TRUE_POP" /\ f.does = <<<<"NOT", <<>>>>>>

\* A negation folded into the jump is one instruction less, and nothing else.
LEMMA NotFoldGood ==
    ASSUME NEW v, NEW nots, NEW op, Good(v), nots \in Nat,
           op \in Ops, op # "NOT", Ends(v, op)
    PROVE  LET f == NotFold(Negated(v, nots), "JUMP_IF_FALSE_POP")
           IN /\ Extends(v, f) /\ Folding(f)
              /\ \A i \in Len(v.meant) + 1 .. Len(f.meant) :
                   f.code[f.meant[i].at + 1] = Opcode["NOT"]
<1> DEFINE c == Negated(v, nots)
           f == NotFold(c, "JUMP_IF_FALSE_POP")
           n == Len(v.code)
           m == Len(v.meant)
<1>1. n \in Nat /\ m \in Nat /\ Typed(v)
  BY TypedChunk DEF Good
<1>2. /\ Extends(v, c) /\ Len(c.meant) = m + nots /\ Len(c.code) = n + nots
      /\ \A i \in 1 .. nots : c.code[n + i] = Opcode.NOT
      /\ \A i \in 1 .. nots :
           c.meant[m + i].at = n + i - 1 /\ c.meant[m + i].does = <<<<"NOT", <<>>>>>>
  <2>1. Extends(v, c) /\ NegatedBy(v, c, nots)
    BY ONLY Good(v), nots \in Nat, NegatedGood, Zenon
  <2> HIDE DEF c
  <2> QED
    BY ONLY <2>1, Zenon DEF NegatedBy, n, m
<1>3. c.last = IF nots = 0 THEN v.last ELSE n + nots - 1
  BY ONLY Zenon DEF Negated
<1>4. Good(c) /\ Continues(v, c)
  BY ONLY <1>2 DEF Extends
<1>5. /\ \A x \in 1 .. n : c.code[x] = v.code[x]
      /\ \A i \in 1 .. m : c.meant[i] = v.meant[i]
  BY ONLY <1>4 DEF Continues
<1> HIDE DEF c, n, m
<1>7. ASSUME NEW i \in m + 1 .. Len(c.meant) PROVE c.code[c.meant[i].at + 1] = Opcode["NOT"]
  <2>1. i - m \in 1 .. nots /\ m + (i - m) = i /\ n + (i - m) - 1 + 1 = n + (i - m)
    BY ONLY <1>1, <1>2, nots \in Nat, i \in m + 1 .. Len(c.meant)
  <2>2. c.meant[i].at = n + (i - m) - 1
    BY ONLY <1>2, <2>1
  <2> QED
    BY ONLY <1>2, <2>1, <2>2
<1>8. CASE nots = 0
  <2>1. /\ Len(v.meant) \in Nat \ {0} /\ v.last = v.meant[m].at /\ v.code[v.last + 1] = Opcode[op]
    BY DEF Ends, m
  <2>2. m \in 1 .. m /\ v.last \in Nat /\ v.last < n
    BY ONLY <1>1, <2>1, Good(v), TypedChunk DEF Good, m, n
  <2>3. c.last = v.last /\ c.code[c.last + 1] = Opcode[op]
    BY ONLY <1>1, <1>3, <1>5, <1>8, <2>1, <2>2
  <2>4. Opcode[op] # Opcode.NOT
    <3>1. "NOT" \in Ops /\ Opcode.NOT = Opcode["NOT"]
      BY DEF Ops, Opcode
    <3> QED
      BY ONLY <3>1, op \in Ops, op # "NOT", OpcodesDiffer
  <2>5. f.code = c.code /\ f.meant = c.meant /\ f.op = "JUMP_IF_FALSE_POP" /\ f.does = <<>>
    BY ONLY <2>3, <2>4 DEF NotFold
  <2> HIDE DEF f
  <2>6. Trimmed(c, f, Len(c.meant))
    <3>1. Start(c, Len(c.meant) + 1) = Len(c.code)
      BY DEF Start
    <3>2. c.code \in Seq(Cells) /\ c.meant \in Seq(Entries)
      BY ONLY <1>4 DEF Good, Typed
    <3>3. SubSeq(c.code, 1, Len(c.code)) = c.code /\ SubSeq(c.meant, 1, Len(c.meant)) = c.meant
      BY ONLY <3>2
    <3> QED
      BY ONLY <3>1, <3>3, <2>5 DEF Trimmed
  <2>7. m <= Len(c.meant) /\ Len(c.meant) \in 0 .. Len(c.meant)
    BY ONLY <1>1, <1>2, nots \in Nat
  <2>8. Extends(v, f)
    BY ONLY <1>1, <1>2, <2>6, <2>7, TrimExtends DEF m
  <2>9. Folding(f)
    BY ONLY <2>5 DEF Folding
  <2>10. \A i \in m + 1 .. Len(f.meant) : f.code[f.meant[i].at + 1] = Opcode["NOT"]
    BY ONLY <1>7, <2>5
  <2> QED
    BY ONLY <2>8, <2>9, <2>10 DEF f, c, m
<1>9. CASE nots # 0
  <2> DEFINE k == m + nots - 1
  <2>1. /\ nots \in 1 .. nots /\ k \in Nat /\ k + 1 = m + nots /\ k + 1 = Len(c.meant)
        /\ k = Len(c.meant) - 1 /\ m <= k /\ k \in 0 .. Len(c.meant)
        /\ Len(c.meant) \in 1 .. Len(c.meant)
    BY ONLY <1>1, <1>2, <1>9, nots \in Nat
  <2>2. c.last = n + nots - 1 /\ c.last + 1 = n + nots /\ c.last < Len(c.code)
    BY ONLY <1>1, <1>2, <1>3, <1>9, nots \in Nat
  <2>3. c.code[c.last + 1] = Opcode.NOT
    BY ONLY <1>2, <2>1, <2>2
  <2>4. /\ c.meant[Len(c.meant)].at = c.last
        /\ c.meant[Len(c.meant)].does = <<<<"NOT", <<>>>>>>
    BY ONLY <1>2, <2>1, <2>2
  <2>5. /\ f.code = SubSeq(c.code, 1, c.last) /\ f.meant = SubSeq(c.meant, 1, k)
        /\ f.op = "JUMP_IF_TRUE_POP" /\ f.does = <<<<"NOT", <<>>>>>>
    <3>1. /\ f.code = SubSeq(c.code, 1, c.last) /\ f.meant = SubSeq(c.meant, 1, Len(c.meant) - 1)
          /\ f.op = "JUMP_IF_TRUE_POP" /\ f.does = c.meant[Len(c.meant)].does
      <4>1. f = [code |-> SubSeq(c.code, 1, c.last),
                 meant |-> SubSeq(c.meant, 1, Len(c.meant) - 1),
                 op |-> "JUMP_IF_TRUE_POP", does |-> c.meant[Len(c.meant)].does]
        BY ONLY <2>2, <2>3, Zenon DEF NotFold
      <4> HIDE DEF f
      <4> QED
        BY ONLY <4>1, Zenon
    <3> QED
      BY ONLY <2>1, <2>4, <3>1
  <2> HIDE DEF f, k
  <2>6. Start(c, k + 1) = c.last
    BY ONLY <1>4, <2>1, <2>4, Starts
  <2>7. Trimmed(c, f, k)
    BY ONLY <2>5, <2>6, Zenon DEF Trimmed
  <2>8. Extends(v, f)
    BY ONLY <1>1, <1>2, <2>1, <2>7, TrimExtends DEF m
  <2>9. Folding(f)
    BY ONLY <2>5 DEF Folding
  <2>10. /\ Good(f) /\ Continues(f, c) /\ Len(f.meant) = k
         /\ \A i \in 1 .. k : f.meant[i] = c.meant[i]
    BY ONLY <1>4, <2>1, <2>7, TrimGood
  <2>11. ASSUME NEW i \in m + 1 .. Len(f.meant)
         PROVE  f.code[f.meant[i].at + 1] = Opcode["NOT"]
    <3>1. i \in 1 .. k /\ i \in m + 1 .. Len(c.meant) /\ i \in 1 .. Len(f.meant)
      BY ONLY <1>1, <2>1, <2>10, i \in m + 1 .. Len(f.meant)
    <3>2. f.meant[i].at \in Nat /\ f.meant[i].at < Len(f.code) /\ Len(f.code) \in Nat
      BY ONLY <2>10, <3>1, TypedChunk DEF Good
    <3>3. f.meant[i].at + 1 \in 1 .. Len(f.code)
      BY ONLY <3>2
    <3>4. c.code[f.meant[i].at + 1] = f.code[f.meant[i].at + 1]
      BY ONLY <2>10, <3>3 DEF Continues
    <3> QED
      BY ONLY <1>7, <2>10, <3>1, <3>4
  <2> QED
    BY ONLY <2>8, <2>9, <2>11 DEF f, c, m
<1> QED
  BY ONLY <1>8, <1>9

\* The last entry is a jump that is not back.
EndsInJump(w) ==
    /\ Len(w.meant) \in Nat \ {0}
    /\ \E op \in Jumps \ {"LOOP"} : w.code[w.meant[Len(w.meant)].at + 1] = Opcode[op]

\* A jump appended extends a chunk and is the last in it.
LEMMA JumpEnds ==
    ASSUME NEW u, NEW v, NEW w, NEW op, NEW operands, NEW does, Typed(u), Extends(u, v),
           JumpAppended(v, w, op, operands, 0, does, 0), op # "LOOP"
    PROVE  Extends(u, w) /\ EndsInJump(w) /\ Len(w.meant) = Len(v.meant) + 1
<1>1. Good(v) /\ Typed(v)
  BY DEF Extends, Good
<1>2. /\ Good(w) /\ Continues(v, w) /\ Len(w.meant) = Len(v.meant) + 1
      /\ w.meant[Len(v.meant) + 1] = [at |-> Len(v.code), does |-> does, goal |-> 0]
      /\ w.code[Len(v.code) + 1] = Opcode[op]
  BY ONLY <1>1, JumpAppended(v, w, op, operands, 0, does, 0), JumpGood
<1>3. Len(v.meant) \in Nat
  BY ONLY <1>1, TypedChunk
<1>4. w.meant[Len(v.meant) + 1].at = Len(v.code) /\ w.meant[Len(v.meant) + 1].goal = 0
  BY ONLY <1>2
<1>5. \A i \in Len(v.meant) + 1 .. Len(w.meant) : w.meant[i].goal = 0
  BY ONLY <1>2, <1>3, <1>4
<1>6. Extends(v, w)
  BY ONLY <1>2, <1>5 DEF Extends
<1>7. Extends(u, w)
  BY ONLY <1>6, Typed(u), Extends(u, v), ExtendsOn
<1>8. op \in Jumps \ {"LOOP"}
  BY DEF JumpAppended, OperandsFit
<1>9. EndsInJump(w)
  <2>1. Len(w.meant) \in Nat \ {0} /\ w.meant[Len(w.meant)].at = Len(v.code)
    BY ONLY <1>2, <1>3, <1>4
  <2> QED
    BY ONLY <1>2, <1>8, <2>1 DEF EndsInJump
<1> QED
  BY ONLY <1>2, <1>7, <1>9

\* What the VM reads after an opcode that takes a slot.
LEMMA OperandOfLocal ==
    \A op \in LocalOps : \A bytes, at : Operands(bytes, at, op) = <<bytes[at + 2]>>
<1> SUFFICES ASSUME NEW op \in LocalOps, NEW bytes, NEW at
             PROVE  Operands(bytes, at, op) = <<bytes[at + 2]>>
  OBVIOUS
<1> QED
  BY ONLY op \in LocalOps
  DEF Operands, LocalOps, PlainJumps, FusedLocalJumps, FusedFieldJumps

\* What the VM reads after the opcode for a field of an element.
LEMMA OperandsOfField ==
    \A bytes, at : Operands(bytes, at, "GET_LOCAL_ARRAY_FIELD")
                     = <<bytes[at + 2], bytes[at + 3], bytes[at + 4]>>
BY DEF Operands, LocalOps, PlainJumps, FusedLocalJumps, FusedFieldJumps

\* The operands and the comparison that a peephole looks for are the last three entries, if
\* entries start where it looks.
Looked(f, op, first, size) ==
    /\ op \in {"LESS_NUM", "GREATER_NUM"} /\ first \in {"GET_LOCAL", "GET_LOCAL_ARRAY_FIELD"}
    /\ size = 3 + Size(first)
    /\ f.code[Len(f.code)] = Opcode[op] /\ f.code[Len(f.code) - 2] = Opcode["GET_LOCAL"]
    /\ f.code[Len(f.code) - size + 1] = Opcode[first]
    /\ \E i \in 1 .. Len(f.meant) : f.meant[i].at = Len(f.code) - 1
    /\ \E i \in 1 .. Len(f.meant) : f.meant[i].at = Len(f.code) - 3
    /\ \E i \in 1 .. Len(f.meant) : f.meant[i].at = Len(f.code) - size

\* If instructions start where a peephole looks, the three entries it joins are the last.
LEMMA LastThree ==
    ASSUME NEW f, NEW op, NEW first, NEW size, Good(f), Looked(f, op, first, size)
    PROVE  /\ Len(f.meant) - 3 \in Nat /\ Len(f.code) - size \in Nat
           /\ f.meant[Len(f.meant)].does = <<<<op, <<>>>>>>
           /\ f.meant[Len(f.meant) - 1].does = <<<<"GET_LOCAL", <<f.code[Len(f.code) - 1]>>>>>>
           /\ f.meant[Len(f.meant) - 2].does
                = <<<<first, Operands(f.code, Len(f.code) - size, first)>>>>
           /\ f.meant[Len(f.meant)].at = Len(f.code) - 1
           /\ Start(f, Len(f.meant) - 2) = Len(f.code) - size
           /\ \A k \in 1 .. Len(f.code) : f.code[k] \in Cells
<1> DEFINE n == Len(f.code)
           m == Len(f.meant)
<1>1. /\ n \in Nat /\ m \in Nat /\ \A i \in 1 .. m : f.meant[i].at \in Nat
      /\ f.code \in Seq(Cells)
  BY TypedChunk DEF Good
<1>2. /\ op \in {"LESS_NUM", "GREATER_NUM"} /\ first \in {"GET_LOCAL", "GET_LOCAL_ARRAY_FIELD"}
      /\ size = 3 + Size(first)
      /\ f.code[n] = Opcode[op] /\ f.code[n - 2] = Opcode["GET_LOCAL"]
      /\ f.code[n - size + 1] = Opcode[first]
  BY DEF Looked
<1>20. /\ \E i \in 1 .. m : f.meant[i].at = n - 1
       /\ \E i \in 1 .. m : f.meant[i].at = n - 3
       /\ \E i \in 1 .. m : f.meant[i].at = n - size
  BY ONLY Looked(f, op, first, size), Zenon DEF Looked
<1> HIDE DEF n, m
<1>3. PICK i \in 1 .. m : f.meant[i].at = n - 1
  BY ONLY <1>20
<1>4. PICK j \in 1 .. m : f.meant[j].at = n - 3
  BY ONLY <1>20
<1>5. PICK k \in 1 .. m : f.meant[k].at = n - size
  BY ONLY <1>20
<1>6. /\ op \in Ops /\ first \in Ops /\ "GET_LOCAL" \in Ops
      /\ op \notin Jumps /\ first \notin Jumps /\ "GET_LOCAL" \notin Jumps
      /\ op \in BareOps /\ "GET_LOCAL" \in LocalOps
  <2>1. op \in {"LESS_NUM", "GREATER_NUM"} /\ first \in {"GET_LOCAL", "GET_LOCAL_ARRAY_FIELD"}
    BY ONLY <1>2
  <2>2. /\ op \in BareOps /\ "GET_LOCAL" \in LocalOps
        /\ op \notin Jumps /\ first \notin Jumps /\ "GET_LOCAL" \notin Jumps
    BY ONLY <2>1 DEF Jumps, PlainJumps, FusedLocalJumps, FusedFieldJumps, BareOps, LocalOps
  <2>3. op \in Ops /\ first \in Ops /\ "GET_LOCAL" \in Ops
    BY ONLY <2>1 DEF Ops, Opcode
  <2> QED
    BY ONLY <2>2, <2>3
<1>7. Size(op) = 1 /\ Size("GET_LOCAL") = 2 /\ Size(first) \in {2, 4} /\ size \in {5, 7}
  BY ONLY <1>2, <1>6, Sizes
<1> HIDE DEF n, m
<1>8. /\ Start(f, m + 1) = n /\ \A a \in 1 .. m : Start(f, a) = f.meant[a].at
  BY ONLY Good(f), Starts DEF n, m
<1>9. i = m
  <2>1. f.code[f.meant[i].at + 1] = Opcode[op]
    <3>1. n - 1 + 1 = n
      BY ONLY <1>1
    <3> QED
      BY ONLY <1>2, <1>3, <3>1
  <2>2. Start(f, i + 1) = f.meant[i].at + Size(op)
    BY ONLY Good(f), <1>6, i \in 1 .. m, <2>1, EntryReads DEF m
  <2>3. Start(f, i + 1) = Start(f, m + 1) /\ m + 1 \in 1 .. m + 1
    BY ONLY <1>1, <1>3, <1>7, <1>8, <2>2
  <2>4. i + 1 = m + 1
    <3>1. i + 1 \in 1 .. m + 1
      BY ONLY <1>1, i \in 1 .. m
    <3> QED
      BY ONLY Good(f), <3>1, <2>3, SameStart DEF m
  <2> QED
    BY ONLY <2>4, <1>1, i \in 1 .. m
<1>10. j + 1 = m
  <2>1. f.code[f.meant[j].at + 1] = Opcode["GET_LOCAL"]
    <3>1. n - 3 + 1 = n - 2
      BY ONLY <1>1
    <3> QED
      BY ONLY <1>2, <1>4, <3>1
  <2>2. Start(f, j + 1) = f.meant[j].at + Size("GET_LOCAL")
    BY ONLY Good(f), <1>6, j \in 1 .. m, <2>1, EntryReads DEF m
  <2>3. Start(f, j + 1) = n - 1
    BY ONLY <1>1, <1>4, <1>7, <2>2
  <2>4. Start(f, m) = n - 1 /\ m \in 1 .. m + 1
    BY ONLY <1>1, <1>3, <1>8, <1>9, i \in 1 .. m
  <2>5. Start(f, j + 1) = Start(f, m)
    BY ONLY <2>3, <2>4
  <2> QED
    <3>1. j + 1 \in 1 .. m + 1
      BY ONLY <1>1, j \in 1 .. m
    <3> QED
      BY ONLY Good(f), <3>1, <2>4, <2>5, SameStart DEF m
<1>11. k + 1 = j
  <2>1. f.code[f.meant[k].at + 1] = Opcode[first]
    BY ONLY <1>2, <1>5
  <2>2. Start(f, k + 1) = f.meant[k].at + Size(first)
    BY ONLY Good(f), <1>6, k \in 1 .. m, <2>1, EntryReads DEF m
  <2>3. Start(f, k + 1) = n - 3
    BY ONLY <1>1, <1>2, <1>5, <1>7, <2>2
  <2>4. Start(f, j) = n - 3 /\ j \in 1 .. m + 1
    BY ONLY <1>1, <1>4, <1>8, j \in 1 .. m
  <2>5. Start(f, k + 1) = Start(f, j)
    BY ONLY <2>3, <2>4
  <2> QED
    <3>1. k + 1 \in 1 .. m + 1
      BY ONLY <1>1, k \in 1 .. m
    <3> QED
      BY ONLY Good(f), <3>1, <2>4, <2>5, SameStart DEF m
<1>12. m - 3 \in Nat /\ k = m - 2 /\ j = m - 1
  BY ONLY <1>1, <1>10, <1>11, k \in 1 .. m, j \in 1 .. m
<1>13. n - size \in Nat /\ n - 3 \in Nat
  <2>1. f.meant[k].at \in Nat /\ f.meant[j].at \in Nat
    BY ONLY <1>1, k \in 1 .. m, j \in 1 .. m
  <2> QED
    BY ONLY <2>1, <1>4, <1>5
<1>14. f.meant[m].does = <<<<op, <<>>>>>>
  <2>1. n - 1 + 1 = n
    BY ONLY <1>1
  <2>2. f.meant[m].does = Plain(op, Operands(f.code, n - 1, op))
    BY ONLY Good(f), <1>2, <1>3, <1>6, <1>9, <2>1, EntryReads DEF m
  <2>3. Operands(f.code, n - 1, op) = <<>>
    BY ONLY <1>2 DEF Operands, LocalOps, PlainJumps, FusedLocalJumps, FusedFieldJumps
  <2> QED
    BY ONLY <2>2, <2>3, <1>6, PlainOfBare
<1>15. f.meant[m - 1].does = <<<<"GET_LOCAL", <<f.code[n - 1]>>>>>>
  <2>1. n - 3 + 1 = n - 2
    BY ONLY <1>1
  <2>2. f.meant[j].does = Plain("GET_LOCAL", Operands(f.code, n - 3, "GET_LOCAL"))
    <3>1. f.code[f.meant[j].at + 1] = Opcode["GET_LOCAL"]
      BY ONLY <1>2, <1>4, <2>1
    <3>2. f.meant[j].does = Plain("GET_LOCAL", Operands(f.code, f.meant[j].at, "GET_LOCAL"))
      <4>1. "GET_LOCAL" \in Ops
        BY ONLY <1>6
      <4> QED
        BY ONLY Good(f), <4>1, j \in 1 .. m, <3>1, EntryReads, Zenon DEF m
    <3> QED
      BY ONLY <1>4, <3>2
  <2>3. Operands(f.code, n - 3, "GET_LOCAL") = <<f.code[n - 1]>>
    <3>1. Operands(f.code, n - 3, "GET_LOCAL") = <<f.code[n - 3 + 2]>>
      BY ONLY <1>6, OperandOfLocal, Zenon
    <3>2. n - 3 + 2 = n - 1
      BY ONLY <1>1
    <3> QED
      BY ONLY <3>1, <3>2, Zenon
  <2> QED
    BY ONLY <2>2, <2>3, <1>6, <1>12, PlainOfBare
<1>16. f.meant[m - 2].does = <<<<first, Operands(f.code, n - size, first)>>>>
  <2>1. f.meant[k].does = Plain(first, Operands(f.code, n - size, first))
    BY ONLY Good(f), <1>2, <1>5, <1>6, k \in 1 .. m, EntryReads DEF m
  <2> QED
    BY ONLY <2>1, <1>6, <1>12, PlainOfBare
<1>17. \A x \in 1 .. n : f.code[x] \in Cells
  BY ONLY <1>1 DEF n
<1>18. f.meant[m].at = n - 1 /\ Start(f, m - 2) = n - size
  <2>1. f.meant[m].at = n - 1
    BY ONLY <1>3, <1>9
  <2>2. Start(f, k) = n - size
    BY ONLY <1>5, <1>8, k \in 1 .. m
  <2> QED
    BY ONLY <2>1, <2>2, <1>12
<1> QED
  BY ONLY <1>12, <1>13, <1>14, <1>15, <1>16, <1>17, <1>18, Zenon DEF n, m

\* The comparison that a peephole sees last is the one written last, and not what was there
\* before: all that follows it are negations.
LEMMA ComparedLast ==
    ASSUME NEW v, NEW f, NEW op, NEW compared, NEW first, NEW size, Good(v), Extends(v, f),
           op \in Ops, Ends(v, op), Looked(f, compared, first, size),
           \A i \in Len(v.meant) + 1 .. Len(f.meant) :
             f.code[f.meant[i].at + 1] = Opcode["NOT"]
    PROVE  op = compared /\ Len(f.meant) = Len(v.meant)
<1> DEFINE n == Len(f.code)
           m == Len(f.meant)
           k == Len(v.meant)
<1>1. Good(f) /\ Continues(v, f)
  BY DEF Extends
<1>2. /\ n \in Nat /\ m \in Nat /\ k \in Nat /\ Len(v.code) \in Nat
      /\ \A i \in 1 .. k : v.meant[i].at \in Nat
  BY ONLY <1>1, Good(v), TypedChunk DEF Good
<1>3. /\ k <= m /\ \A i \in 1 .. k : f.meant[i] = v.meant[i]
      /\ \A x \in 1 .. Len(v.code) : f.code[x] = v.code[x]
  BY ONLY <1>1 DEF Continues
<1>4. m - 3 \in Nat /\ f.meant[m].at = n - 1
  BY ONLY <1>1, Looked(f, compared, first, size), LastThree
<1>5. f.code[n] = Opcode[compared] /\ compared \in {"LESS_NUM", "GREATER_NUM"}
  BY DEF Looked
<1> HIDE DEF n, m
<1>6. f.code[f.meant[m].at + 1] = Opcode[compared]
  <2>1. n - 1 + 1 = n
    BY ONLY <1>2
  <2> QED
    BY ONLY <2>1, <1>4, <1>5
<1>7. compared \in Ops /\ "NOT" \in Ops /\ compared # "NOT"
  BY ONLY <1>5 DEF Ops, Opcode
<1>8. m = k
  <2>1. CASE m # k
    <3>1. m \in k + 1 .. m
      BY ONLY <2>1, <1>2, <1>3
    <3>2. f.code[f.meant[m].at + 1] = Opcode["NOT"]
      BY <3>1 DEF m
    <3>3. Opcode[compared] = Opcode["NOT"]
      BY ONLY <3>2, <1>6
    <3> QED
      BY ONLY <3>3, <1>7, OpcodesDiffer
  <2> QED
    BY ONLY <2>1
<1>9. k \in 1 .. k
  BY ONLY <1>2, <1>4, <1>8
<1>10. v.last = v.meant[k].at /\ v.code[v.last + 1] = Opcode[op]
  BY DEF Ends
<1>11. v.last \in Nat /\ v.last < Len(v.code)
  <2>1. v.meant[k].at < Len(v.code)
    BY ONLY Good(v), <1>9 DEF Good
  <2> QED
    BY ONLY <1>2, <1>9, <1>10, <2>1
<1>12. v.last + 1 \in 1 .. Len(v.code)
  BY ONLY <1>2, <1>11
<1>13. f.code[v.last + 1] = Opcode[op]
  BY ONLY <1>3, <1>10, <1>12
<1>14. f.meant[m].at = v.last
  BY ONLY <1>3, <1>8, <1>9, <1>10
<1>15. Opcode[compared] = Opcode[op]
  BY ONLY <1>6, <1>13, <1>14
<1>16. compared = op
  BY ONLY <1>7, <1>15, op \in Ops, OpcodesDiffer
<1> QED
  BY ONLY <1>8, <1>16 DEF m, k

\* One jump in the place of the last three entries.
LEMMA Fused ==
    ASSUME NEW u, NEW f, NEW compared, NEW first, NEW size, NEW op, NEW operands, NEW does,
           Typed(u), Extends(u, f), Looked(f, compared, first, size),
           Len(u.meant) + 3 <= Len(f.meant), OperandsFit(op, operands), op # "LOOP",
           f.meant[Len(f.meant) - 2].does \o f.meant[Len(f.meant) - 1].does
             \o f.meant[Len(f.meant)].does \o f.does \o does = Plain(op, operands),
           Plain(op, operands) \in Seq(Steps)
    PROVE  LET w == JumpInstead(f, size, op, operands, does)
           IN Extends(u, w) /\ EndsInJump(w) /\ Len(u.meant) < Len(w.meant)
<1> DEFINE w == JumpInstead(f, size, op, operands, does)
           n == Len(f.code)
           m == Len(f.meant)
           k == m - 3
           all == f.meant[m - 2].does \o f.meant[m - 1].does \o f.meant[m].does \o f.does \o does
           t == [code |-> SubSeq(f.code, 1, n - size), meant |-> SubSeq(f.meant, 1, k)]
<1>1. Good(f)
  BY DEF Extends
<1>2. n \in Nat /\ m \in Nat /\ Len(u.meant) \in Nat
  BY ONLY <1>1, Typed(u), TypedChunk DEF Good
<1>3. k \in Nat /\ n - size \in Nat /\ Start(f, m - 2) = n - size
  BY ONLY <1>1, Looked(f, compared, first, size), LastThree
<1>4. size # 0
  <2>1. first \in {"GET_LOCAL", "GET_LOCAL_ARRAY_FIELD"} /\ size = 3 + Size(first)
    BY ONLY Looked(f, compared, first, size) DEF Looked
  <2>2. first \in Ops
    BY ONLY <2>1 DEF Ops, Opcode
  <2>3. Size(first) \in 1 .. 7
    BY ONLY <2>2, SizePositive
  <2> QED
    BY ONLY <2>1, <2>3
<1>5. /\ w.code = SubSeq(f.code, 1, n - size) \o Bytes(op, Append(operands, 0))
      /\ w.meant = Append(SubSeq(f.meant, 1, k), Item(n - size, all))
  BY ONLY <1>4, Zenon DEF JumpInstead
<1>6. t.code = SubSeq(f.code, 1, n - size) /\ t.meant = SubSeq(f.meant, 1, k)
  BY ONLY Zenon
<1> HIDE DEF w, n, m, t, k
<1>7. k + 1 = m - 2 /\ k \in 0 .. m /\ Len(u.meant) <= k
  BY ONLY <1>2, <1>3, Len(u.meant) + 3 <= Len(f.meant) DEF m, k
<1>8. Trimmed(f, t, k)
  BY ONLY <1>3, <1>6, <1>7, Zenon DEF Trimmed
<1>9. Good(t) /\ Len(t.meant) = k /\ Len(t.code) = Start(f, k + 1)
  BY ONLY <1>1, <1>7, <1>8, TrimGood DEF m
<1>10. Extends(u, t)
  BY ONLY Typed(u), Extends(u, f), <1>7, <1>8, TrimExtends DEF m
<1>11. Len(t.code) = n - size
  BY ONLY <1>3, <1>7, <1>9
<1>12. w.code = t.code \o Bytes(op, Append(operands, 0))
  BY ONLY <1>5, <1>6
<1>13. w.meant = Append(t.meant, [at |-> Len(t.code), does |-> all, goal |-> 0])
  BY ONLY <1>5, <1>6, <1>11, Zenon DEF Item
<1>14. all = Plain(op, operands) /\ all \in Seq(Steps)
  BY DEF m
<1> HIDE DEF all
<1>15. 0 \in Words /\ 0 \in Nat
  BY ONLY DEF Words
<1>16. JumpAppended(t, w, op, operands, 0, all, 0)
  BY ONLY <1>12, <1>13, <1>14, <1>15, OperandsFit(op, operands), Zenon DEF JumpAppended
<1>17. Extends(u, w) /\ EndsInJump(w) /\ Len(w.meant) = Len(t.meant) + 1
  BY ONLY Typed(u), <1>10, <1>16, op # "LOOP", JumpEnds
<1>18. Len(u.meant) < Len(w.meant)
  BY ONLY <1>2, <1>3, <1>7, <1>9, <1>17
<1> QED
  BY ONLY <1>17, <1>18 DEF w

\* Bytes counted from the end.
LEMMA AtEnd ==
    ASSUME NEW bytes, Len(bytes) \in Nat
    PROVE  /\ FromEnd(bytes, 1) = bytes[Len(bytes)] /\ FromEnd(bytes, 2) = bytes[Len(bytes) - 1]
           /\ FromEnd(bytes, 3) = bytes[Len(bytes) - 2] /\ FromEnd(bytes, 4) = bytes[Len(bytes) - 3]
           /\ FromEnd(bytes, 5) = bytes[Len(bytes) - 4] /\ FromEnd(bytes, 6) = bytes[Len(bytes) - 5]
           /\ FromEnd(bytes, 7) = bytes[Len(bytes) - 6]
<1> DEFINE n == Len(bytes)
<1> HIDE DEF n
<1>1. /\ n + 1 - 1 = n /\ n + 1 - 2 = n - 1 /\ n + 1 - 3 = n - 2 /\ n + 1 - 4 = n - 3
      /\ n + 1 - 5 = n - 4 /\ n + 1 - 6 = n - 5 /\ n + 1 - 7 = n - 6
  BY DEF n
<1> QED
  BY ONLY <1>1, Zenon DEF FromEnd, n

\* The opcodes that the peepholes look for.
LEMMA Numbers ==
    /\ Opcode.LESS_NUM = 41 /\ Opcode["LESS_NUM"] = 41
    /\ Opcode.GREATER_NUM = 42 /\ Opcode["GREATER_NUM"] = 42
    /\ Opcode.GET_LOCAL = 7 /\ Opcode["GET_LOCAL"] = 7
    /\ Opcode.GET_LOCAL_ARRAY_FIELD = 99 /\ Opcode["GET_LOCAL_ARRAY_FIELD"] = 99
BY DEF Opcode

Compared(bytes) == IF IsLess(bytes) THEN "LESS_NUM" ELSE "GREATER_NUM"

\* peepholeArrayFieldCmp fires, and not by mistake: what it has found.
LEMMA LooksAtField ==
    ASSUME NEW f, Len(f.code) \in Nat, ArrayFieldCmp(f.code, f.op), ~Mistaken(f)
    PROVE  Looked(f, Compared(f.code), "GET_LOCAL_ARRAY_FIELD", 7)
<1> DEFINE n == Len(f.code)
           looked(back) == \A b \in back : \E i \in 1 .. Len(f.meant) : f.meant[i].at = n - b
<1>1. /\ f.op = "JUMP_IF_FALSE_POP" /\ n >= 7
      /\ FromEnd(f.code, 1) \in {41, 42} /\ FromEnd(f.code, 7) = 99 /\ FromEnd(f.code, 3) = 7
  BY ONLY ArrayFieldCmp(f.code, f.op), Numbers DEF ArrayFieldCmp, Compares
<1>2. f.code[n] \in {41, 42} /\ f.code[n - 2] = 7 /\ f.code[n - 6] = 99 /\ n >= 5
  BY ONLY <1>1, Len(f.code) \in Nat, AtEnd
<1>3. looked({7, 3, 1})
  <2>1. ~looked({7, 3, 1}) => Mistaken(f)
    BY ONLY <1>1, <1>2, Zenon DEF Mistaken
  <2> QED
    BY ONLY <2>1, ~Mistaken(f)
<1>4. f.code[n] = Opcode[Compared(f.code)] /\ Compared(f.code) \in {"LESS_NUM", "GREATER_NUM"}
  <2>1. FromEnd(f.code, 1) = f.code[n]
    BY ONLY Len(f.code) \in Nat, AtEnd
  <2> QED
    BY ONLY <1>2, <2>1, Numbers DEF Compared, IsLess
<1>5. Size("GET_LOCAL_ARRAY_FIELD") = 4
  BY ONLY Sizes
<1>6. n - 7 + 1 = n - 6 /\ 7 = 3 + Size("GET_LOCAL_ARRAY_FIELD")
  BY ONLY <1>5, Len(f.code) \in Nat
<1>7. f.code[n - 2] = Opcode["GET_LOCAL"] /\ f.code[n - 6] = Opcode["GET_LOCAL_ARRAY_FIELD"]
  BY ONLY <1>2, Numbers
<1>8. /\ \E i \in 1 .. Len(f.meant) : f.meant[i].at = n - 1
      /\ \E i \in 1 .. Len(f.meant) : f.meant[i].at = n - 3
      /\ \E i \in 1 .. Len(f.meant) : f.meant[i].at = n - 7
  BY ONLY <1>3
<1>9. "GET_LOCAL_ARRAY_FIELD" \in {"GET_LOCAL", "GET_LOCAL_ARRAY_FIELD"}
  OBVIOUS
<1> QED
  BY ONLY <1>4, <1>6, <1>7, <1>8, <1>9, Zenon DEF Looked

\* peepholeLocalLocalCmp fires, and not by mistake: what it has found.
LEMMA LooksAtLocals ==
    ASSUME NEW f, Len(f.code) \in Nat, ~ArrayFieldCmp(f.code, f.op), LocalLocalCmp(f.code, f.op),
           ~Mistaken(f)
    PROVE  Looked(f, Compared(f.code), "GET_LOCAL", 5)
<1> DEFINE n == Len(f.code)
           looked(back) == \A b \in back : \E i \in 1 .. Len(f.meant) : f.meant[i].at = n - b
<1>1. /\ n >= 5 /\ FromEnd(f.code, 1) \in {41, 42}
      /\ FromEnd(f.code, 5) = 7 /\ FromEnd(f.code, 3) = 7
  BY ONLY LocalLocalCmp(f.code, f.op), Numbers DEF LocalLocalCmp, Compares
<1>2. f.code[n] \in {41, 42} /\ f.code[n - 2] = 7 /\ f.code[n - 4] = 7
  BY ONLY <1>1, Len(f.code) \in Nat, AtEnd
<1>3. ~(f.op = "JUMP_IF_FALSE_POP" /\ n >= 7 /\ f.code[n - 6] = 99)
  <2>1. FromEnd(f.code, 7) = f.code[n - 6]
    BY ONLY Len(f.code) \in Nat, AtEnd
  <2> QED
    BY ONLY <1>1, <2>1, ~ArrayFieldCmp(f.code, f.op), Numbers
    DEF ArrayFieldCmp, Compares
<1>4. looked({5, 3, 1})
  <2>1. ~looked({5, 3, 1}) => Mistaken(f)
    BY ONLY <1>1, <1>2, <1>3, Zenon DEF Mistaken
  <2> QED
    BY ONLY <2>1, ~Mistaken(f)
<1>5. f.code[n] = Opcode[Compared(f.code)] /\ Compared(f.code) \in {"LESS_NUM", "GREATER_NUM"}
  <2>1. FromEnd(f.code, 1) = f.code[n]
    BY ONLY Len(f.code) \in Nat, AtEnd
  <2> QED
    BY ONLY <1>2, <2>1, Numbers DEF Compared, IsLess
<1>6. Size("GET_LOCAL") = 2
  BY ONLY Sizes DEF LocalOps
<1>7. n - 5 + 1 = n - 4 /\ 5 = 3 + Size("GET_LOCAL")
  BY ONLY <1>6, Len(f.code) \in Nat
<1>8. f.code[n - 2] = Opcode["GET_LOCAL"] /\ f.code[n - 4] = Opcode["GET_LOCAL"]
  BY ONLY <1>2, Numbers
<1>9. /\ \E i \in 1 .. Len(f.meant) : f.meant[i].at = n - 1
      /\ \E i \in 1 .. Len(f.meant) : f.meant[i].at = n - 3
      /\ \E i \in 1 .. Len(f.meant) : f.meant[i].at = n - 5
  BY ONLY <1>4
<1>10. "GET_LOCAL" \in {"GET_LOCAL", "GET_LOCAL_ARRAY_FIELD"}
  OBVIOUS
<1> QED
  BY ONLY <1>5, <1>7, <1>8, <1>9, <1>10, Zenon DEF Looked

\* The plain instructions that fused jumps are made of.
LEMMA StepsUsed ==
    /\ "JUMP_IF_FALSE_POP" \in Ops /\ "NOT" \in Ops /\ "LESS_NUM" \in Ops
    /\ "GREATER_NUM" \in Ops /\ "GET_LOCAL" \in Ops /\ "GET_LOCAL_ARRAY_FIELD" \in Ops
    /\ "JUMP" \in Ops
BY DEF Ops, Opcode

\* An instruction without operands is something that an entry can do.
LEMMA StepWithoutOperands ==
    ASSUME NEW op \in Ops
    PROVE  <<op, <<>>>> \in Steps
<1> DEFINE none == <<>>
<1>1. none \in Seq(Nat)
  OBVIOUS
<1> HIDE DEF none
<1>2. <<op, none>> \in Steps
  BY ONLY op \in Ops, <1>1, IsStep
<1> QED
  BY ONLY <1>2 DEF none

\* So are those that a fused jump reads its operands with.
LEMMA StepsWithOperands ==
    /\ \A a \in Nat : <<"GET_LOCAL", <<a>>>> \in Steps
    /\ \A a, b, c \in Nat : <<"GET_LOCAL_ARRAY_FIELD", <<a, b, c>>>> \in Steps
<1>1. ASSUME NEW a \in Nat PROVE <<"GET_LOCAL", <<a>>>> \in Steps
  <2> DEFINE args == <<a>>
  <2>1. args \in Seq(Nat)
    OBVIOUS
  <2> HIDE DEF args
  <2>2. <<"GET_LOCAL", args>> \in Steps
    BY ONLY <2>1, StepsUsed, IsStep
  <2> QED
    BY ONLY <2>2 DEF args
<1>2. ASSUME NEW a \in Nat, NEW b \in Nat, NEW c \in Nat
      PROVE  <<"GET_LOCAL_ARRAY_FIELD", <<a, b, c>>>> \in Steps
  <2> DEFINE args == <<a, b, c>>
  <2>1. args \in Seq(Nat)
    OBVIOUS
  <2> HIDE DEF args
  <2>2. <<"GET_LOCAL_ARRAY_FIELD", args>> \in Steps
    BY ONLY <2>1, StepsUsed, IsStep
  <2> QED
    BY ONLY <2>2 DEF args
<1> QED
  BY <1>1, <1>2

Asked == <<<<"JUMP_IF_FALSE_POP", <<>>>>>>

\* peepholeArrayFieldCmp: a field of an element, a local and a comparison in one jump.
LEMMA FieldFused ==
    ASSUME NEW u, NEW f, Typed(u), Extends(u, f), Folding(f), ArrayFieldCmp(f.code, f.op),
           Looked(f, Compared(f.code), "GET_LOCAL_ARRAY_FIELD", 7),
           Len(u.meant) + 3 <= Len(f.meant)
    PROVE  LET bytes == f.code
               w == JumpInstead(f, 7, FusedFieldOp(bytes),
                                <<FromEnd(bytes, 6), FromEnd(bytes, 5), FromEnd(bytes, 4),
                                  FromEnd(bytes, 2)>>, Asked)
           IN Extends(u, w) /\ EndsInJump(w) /\ Len(u.meant) < Len(w.meant)
<1> DEFINE n == Len(f.code)
           m == Len(f.meant)
           op == FusedFieldOp(f.code)
           operands == <<FromEnd(f.code, 6), FromEnd(f.code, 5), FromEnd(f.code, 4),
                         FromEnd(f.code, 2)>>
           field == <<"GET_LOCAL_ARRAY_FIELD", <<f.code[n - 5], f.code[n - 4], f.code[n - 3]>>>>
           loc == <<"GET_LOCAL", <<f.code[n - 1]>>>>
           cmp == <<Compared(f.code), <<>>>>
           test == <<"JUMP_IF_FALSE_POP", <<>>>>
<1>1. Good(f)
  BY DEF Extends
<1>2. n \in Nat
  BY ONLY <1>1, TypedChunk DEF Good
<1>3. /\ n - 7 \in Nat
      /\ f.meant[m].does = <<cmp>> /\ f.meant[m - 1].does = <<loc>>
      /\ f.meant[m - 2].does
           = <<<<"GET_LOCAL_ARRAY_FIELD", Operands(f.code, n - 7, "GET_LOCAL_ARRAY_FIELD")>>>>
      /\ \A k \in 1 .. n : f.code[k] \in Cells
  BY ONLY <1>1, Looked(f, Compared(f.code), "GET_LOCAL_ARRAY_FIELD", 7), LastThree
<1> HIDE DEF n, m
<1>4. f.meant[m - 2].does = <<field>>
  <2>1. n - 7 + 2 = n - 5 /\ n - 7 + 3 = n - 4 /\ n - 7 + 4 = n - 3
    BY ONLY <1>2
  <2>2. Operands(f.code, n - 7, "GET_LOCAL_ARRAY_FIELD")
          = <<f.code[n - 7 + 2], f.code[n - 7 + 3], f.code[n - 7 + 4]>>
    BY ONLY OperandsOfField
  <2> QED
    BY ONLY <1>3, <2>1, <2>2, Zenon
<1>5. operands = <<f.code[n - 5], f.code[n - 4], f.code[n - 3], f.code[n - 1]>>
  BY ONLY <1>2, AtEnd, Zenon DEF n
<1>6. /\ n - 5 \in 1 .. n /\ n - 4 \in 1 .. n /\ n - 3 \in 1 .. n /\ n - 1 \in 1 .. n
  BY ONLY <1>2, <1>3
<1>7. /\ f.code[n - 5] \in Cells /\ f.code[n - 4] \in Cells /\ f.code[n - 3] \in Cells
      /\ f.code[n - 1] \in Cells
  BY ONLY <1>3, <1>6
<1>8. /\ f.code[n - 5] \in Nat /\ f.code[n - 4] \in Nat /\ f.code[n - 3] \in Nat
      /\ f.code[n - 1] \in Nat
  <2>1. \A x \in Cells : x \in Nat
    BY DEF Cells
  <2> QED
    BY ONLY <1>7, <2>1
<1>9. f.does = <<>>
  BY ONLY ArrayFieldCmp(f.code, f.op), Folding(f) DEF ArrayFieldCmp, Folding
<1>10. /\ field \in Steps /\ loc \in Steps /\ cmp \in Steps /\ test \in Steps
  <2>1. Compared(f.code) \in Ops
    BY ONLY StepsUsed DEF Compared
  <2>2. cmp \in Steps
    BY ONLY <2>1, StepWithoutOperands
  <2>3. test \in Steps
    BY ONLY StepsUsed, StepWithoutOperands
  <2>4. field \in Steps /\ loc \in Steps
    BY ONLY <1>8, StepsWithOperands
  <2> QED
    BY ONLY <2>2, <2>3, <2>4
<1>11. Plain(op, operands) = <<field, loc, cmp, test>>
  <2>1. /\ operands[1] = f.code[n - 5] /\ operands[2] = f.code[n - 4]
        /\ operands[3] = f.code[n - 3] /\ operands[4] = f.code[n - 1]
    BY ONLY <1>5
  <2> HIDE DEF operands
  <2>2. CASE IsLess(f.code)
    BY ONLY <2>1, <2>2 DEF FusedFieldOp, Plain, Compared
  <2>3. CASE ~IsLess(f.code)
    BY ONLY <2>1, <2>3 DEF FusedFieldOp, Plain, Compared
  <2> QED
    BY ONLY <2>2, <2>3
<1> HIDE DEF field, loc, cmp, test
<1>12. <<field>> \o <<loc>> \o <<cmp>> \o <<>> \o <<test>> = <<field, loc, cmp, test>>
  BY ONLY <1>10, FourInOne
<1>13. Asked = <<test>>
  BY DEF Asked, test
<1>14. f.meant[m - 2].does \o f.meant[m - 1].does \o f.meant[m].does \o f.does \o Asked
         = Plain(op, operands)
  BY ONLY <1>3, <1>4, <1>9, <1>11, <1>12, <1>13, Zenon
<1>15. Plain(op, operands) \in Seq(Steps)
  <2>1. <<field, loc, cmp, test>> \in Seq(Steps)
    BY ONLY <1>10
  <2> QED
    BY ONLY <2>1, <1>11, Zenon
<1>16. OperandsFit(op, operands) /\ op # "LOOP"
  <2>1. op \in FusedFieldJumps /\ op \in Jumps /\ op # "LOOP"
    BY ONLY DEF FusedFieldOp, FusedFieldJumps, Jumps
  <2> HIDE DEF op
  <2>2. /\ operands \in Seq(Nat) /\ Len(operands) = 4
        /\ operands[1] \in Cells /\ operands[2] \in Cells /\ operands[3] \in Cells
        /\ operands[4] \in Cells
    BY ONLY <1>5, <1>7, <1>8
  <2> HIDE DEF operands
  <2> QED
    BY ONLY <2>1, <2>2 DEF OperandsFit
<1> HIDE DEF op, operands
<1> DEFINE w == JumpInstead(f, 7, op, operands, Asked)
<1>17. Extends(u, w) /\ EndsInJump(w) /\ Len(u.meant) < Len(w.meant)
  BY ONLY <1>14, <1>15, <1>16, Typed(u), Extends(u, f),
          Looked(f, Compared(f.code), "GET_LOCAL_ARRAY_FIELD", 7),
          Len(u.meant) + 3 <= Len(f.meant), Fused, Zenon DEF m
<1> QED
  BY ONLY <1>17 DEF w, op, operands

\* peepholeLocalLocalCmp: two locals and a comparison in one jump.
LEMMA LocalsFused ==
    ASSUME NEW u, NEW f, Typed(u), Extends(u, f), Folding(f),
           Looked(f, Compared(f.code), "GET_LOCAL", 5), Len(u.meant) + 3 <= Len(f.meant)
    PROVE  LET bytes == f.code
               w == JumpInstead(f, 5, FusedLocalOp(bytes, f.op),
                                <<FromEnd(bytes, 4), FromEnd(bytes, 2)>>, Asked)
           IN Extends(u, w) /\ EndsInJump(w) /\ Len(u.meant) < Len(w.meant)
<1> DEFINE n == Len(f.code)
           m == Len(f.meant)
           op == FusedLocalOp(f.code, f.op)
           operands == <<FromEnd(f.code, 4), FromEnd(f.code, 2)>>
           one == <<"GET_LOCAL", <<f.code[n - 3]>>>>
           two == <<"GET_LOCAL", <<f.code[n - 1]>>>>
           cmp == <<Compared(f.code), <<>>>>
           negation == <<"NOT", <<>>>>
           test == <<"JUMP_IF_FALSE_POP", <<>>>>
<1>1. Good(f)
  BY DEF Extends
<1>2. n \in Nat
  BY ONLY <1>1, TypedChunk DEF Good
<1>3. /\ n - 5 \in Nat
      /\ f.meant[m].does = <<cmp>> /\ f.meant[m - 1].does = <<two>>
      /\ f.meant[m - 2].does = <<<<"GET_LOCAL", Operands(f.code, n - 5, "GET_LOCAL")>>>>
      /\ \A k \in 1 .. n : f.code[k] \in Cells
  BY ONLY <1>1, Looked(f, Compared(f.code), "GET_LOCAL", 5), LastThree
<1> HIDE DEF n, m
<1>4. f.meant[m - 2].does = <<one>>
  <2>1. n - 5 + 2 = n - 3
    BY ONLY <1>2
  <2>2. "GET_LOCAL" \in LocalOps
    BY DEF LocalOps
  <2>3. Operands(f.code, n - 5, "GET_LOCAL") = <<f.code[n - 5 + 2]>>
    BY ONLY <2>2, OperandOfLocal, Zenon
  <2> QED
    BY ONLY <1>3, <2>1, <2>3, Zenon
<1>5. operands = <<f.code[n - 3], f.code[n - 1]>>
  BY ONLY <1>2, AtEnd, Zenon DEF n
<1>6. n - 3 \in 1 .. n /\ n - 1 \in 1 .. n
  BY ONLY <1>2, <1>3
<1>7. f.code[n - 3] \in Cells /\ f.code[n - 1] \in Cells
  BY ONLY <1>3, <1>6
<1>8. f.code[n - 3] \in Nat /\ f.code[n - 1] \in Nat
  <2>1. \A x \in Cells : x \in Nat
    BY DEF Cells
  <2> QED
    BY ONLY <1>7, <2>1
<1>9. /\ one \in Steps /\ two \in Steps /\ cmp \in Steps /\ negation \in Steps /\ test \in Steps
  <2>1. Compared(f.code) \in Ops
    BY ONLY StepsUsed DEF Compared
  <2>2. cmp \in Steps
    BY ONLY <2>1, StepWithoutOperands
  <2>3. test \in Steps /\ negation \in Steps
    BY ONLY StepsUsed, StepWithoutOperands
  <2>4. one \in Steps /\ two \in Steps
    BY ONLY <1>8, StepsWithOperands
  <2> QED
    BY ONLY <2>2, <2>3, <2>4
<1>10. operands[1] = f.code[n - 3] /\ operands[2] = f.code[n - 1]
  BY ONLY <1>5
<1>11. /\ operands \in Seq(Nat) /\ Len(operands) = 2
       /\ operands[1] \in Cells /\ operands[2] \in Cells
  BY ONLY <1>5, <1>7, <1>8
<1> HIDE DEF operands
<1>12. OperandsFit(op, operands) /\ op # "LOOP"
  <2>1. op \in FusedLocalJumps /\ op \in Jumps /\ op # "LOOP"
    BY ONLY DEF FusedLocalOp, FusedLocalJumps, Jumps
  <2> HIDE DEF op
  <2> QED
    BY ONLY <2>1, <1>11 DEF OperandsFit
<1>13. Asked = <<test>>
  BY DEF Asked, test
<1>14. /\ f.meant[m - 2].does \o f.meant[m - 1].does \o f.meant[m].does \o f.does \o Asked
            = Plain(op, operands)
       /\ Plain(op, operands) \in Seq(Steps)
  <2>1. CASE f.op = "JUMP_IF_FALSE_POP" /\ f.does = <<>>
    <3>1. Plain(op, operands) = <<one, two, cmp, test>>
      <4>1. CASE IsLess(f.code)
        BY ONLY <1>10, <2>1, <4>1 DEF FusedLocalOp, Plain, Compared
      <4>2. CASE ~IsLess(f.code)
        BY ONLY <1>10, <2>1, <4>2 DEF FusedLocalOp, Plain, Compared
      <4> QED
        BY ONLY <4>1, <4>2
    <3> HIDE DEF one, two, cmp, negation, test
    <3>2. <<one>> \o <<two>> \o <<cmp>> \o <<>> \o <<test>> = <<one, two, cmp, test>>
      BY ONLY <1>9, FourInOne
    <3>3. <<one, two, cmp, test>> \in Seq(Steps)
      BY ONLY <1>9
    <3> QED
      BY ONLY <1>3, <1>4, <1>13, <2>1, <3>1, <3>2, <3>3, Zenon
  <2>2. CASE f.op = "JUMP_IF_TRUE_POP" /\ f.does = <<negation>>
    <3>1. Plain(op, operands) = <<one, two, cmp, negation, test>>
      <4>1. CASE IsLess(f.code)
        BY ONLY <1>10, <2>2, <4>1 DEF FusedLocalOp, Plain, Compared
      <4>2. CASE ~IsLess(f.code)
        BY ONLY <1>10, <2>2, <4>2 DEF FusedLocalOp, Plain, Compared
      <4> QED
        BY ONLY <4>1, <4>2
    <3> HIDE DEF one, two, cmp, negation, test
    <3>2. <<one>> \o <<two>> \o <<cmp>> \o <<negation>> \o <<test>>
            = <<one, two, cmp, negation, test>>
      <4>1. <<one>> \o <<two>> = <<one, two>>
        BY ONLY <1>9, Two
      <4>2. <<one, two>> \o <<cmp>> = <<one, two, cmp>>
        BY ONLY <1>9, Three
      <4>3. <<one, two, cmp>> \o <<negation>> = <<one, two, cmp, negation>>
        BY ONLY <1>9, Four
      <4>4. <<one, two, cmp, negation>> \o <<test>> = <<one, two, cmp, negation, test>>
        BY ONLY <1>9, Five
      <4> QED
        BY ONLY <4>1, <4>2, <4>3, <4>4, Zenon
    <3>3. <<one, two, cmp, negation, test>> \in Seq(Steps)
      BY ONLY <1>9
    <3>4. f.meant[m - 2].does \o f.meant[m - 1].does \o f.meant[m].does \o f.does \o Asked
            = <<one>> \o <<two>> \o <<cmp>> \o <<negation>> \o <<test>>
      BY ONLY <1>3, <1>4, <1>13, <2>2, Zenon
    <3> QED
      BY ONLY <3>1, <3>2, <3>3, <3>4, Zenon
  <2>3. \/ f.op = "JUMP_IF_FALSE_POP" /\ f.does = <<>>
        \/ f.op = "JUMP_IF_TRUE_POP" /\ f.does = <<negation>>
    BY ONLY Folding(f), Zenon DEF Folding
  <2> QED
    BY ONLY <2>1, <2>2, <2>3, Zenon
<1> HIDE DEF op
<1> DEFINE w == JumpInstead(f, 5, op, operands, Asked)
<1>15. Extends(u, w) /\ EndsInJump(w) /\ Len(u.meant) < Len(w.meant)
  BY ONLY <1>12, <1>14, Typed(u), Extends(u, f),
          Looked(f, Compared(f.code), "GET_LOCAL", 5),
          Len(u.meant) + 3 <= Len(f.meant), Fused, Zenon DEF m
<1> QED
  BY ONLY <1>15 DEF w, op, operands

\* A jump behind what there is.
LEMMA JumpPlain ==
    ASSUME NEW u, NEW f, NEW op, NEW does, Typed(u), Extends(u, f), op \in PlainJumps,
           op # "LOOP", f.does \o does = Plain(op, <<>>), Plain(op, <<>>) \in Seq(Steps)
    PROVE  LET w == JumpInstead(f, 0, op, <<>>, does)
           IN Extends(u, w) /\ EndsInJump(w) /\ Len(u.meant) < Len(w.meant)
<1> DEFINE w == JumpInstead(f, 0, op, <<>>, does)
           all == f.does \o does
<1>1. Good(f) /\ Continues(u, f)
  BY DEF Extends
<1>2. /\ f.code \in Seq(Cells) /\ Len(f.code) \in Nat /\ Len(f.meant) \in Nat
      /\ Len(u.meant) \in Nat
  BY ONLY <1>1, Typed(u), TypedChunk DEF Good
<1>3. Len(f.code) - 0 = Len(f.code) /\ SubSeq(f.code, 1, Len(f.code)) = f.code
  BY ONLY <1>2
<1>4. /\ w.code = f.code \o Bytes(op, Append(<<>>, 0))
      /\ w.meant = Append(f.meant, [at |-> Len(f.code), does |-> all, goal |-> 0])
  <2>1. /\ w.code = SubSeq(f.code, 1, Len(f.code) - 0) \o Bytes(op, Append(<<>>, 0))
        /\ w.meant = Append(f.meant, Item(Len(f.code) - 0, all))
    BY ONLY Zenon DEF JumpInstead
  <2> HIDE DEF w, all
  <2> QED
    BY ONLY <1>3, <2>1, Zenon DEF Item
<1> DEFINE none == <<>>
<1>5. OperandsFit(op, none)
  <2>1. none \in Seq(Nat) /\ Len(none) = 0
    OBVIOUS
  <2>2. op \in Jumps
    BY DEF Jumps
  <2> HIDE DEF none
  <2> QED
    BY ONLY <2>1, <2>2, op \in PlainJumps DEF OperandsFit
<1>6. 0 \in Words /\ 0 \in Nat
  BY DEF Words
<1>7. all = Plain(op, none) /\ all \in Seq(Steps)
  OBVIOUS
<1> HIDE DEF w, all
<1>8. JumpAppended(f, w, op, none, 0, all, 0)
  BY ONLY <1>4, <1>5, <1>6, <1>7, Zenon DEF JumpAppended
<1> HIDE DEF none
<1>9. Extends(u, w) /\ EndsInJump(w) /\ Len(w.meant) = Len(f.meant) + 1
  BY ONLY <1>8, Typed(u), Extends(u, f), op # "LOOP", JumpEnds
<1>10. Len(u.meant) <= Len(f.meant)
  BY ONLY <1>1 DEF Continues
<1>11. Len(u.meant) < Len(w.meant)
  BY ONLY <1>2, <1>9, <1>10
<1> QED
  BY ONLY <1>9, <1>11 DEF w

\* emitJump behind a condition, if the peepholes are not mistaken.
LEMMA ConditionalJump ==
    ASSUME NEW u, NEW v, NEW op, NEW nots, Typed(u), Extends(u, v), Ends(v, op), op \in Ops,
           op # "NOT", nots \in Nat,
           op \in {"LESS_NUM", "GREATER_NUM"} => Len(u.meant) + 3 <= Len(v.meant),
           ~Mistaken(NotFold(Negated(v, nots), "JUMP_IF_FALSE_POP"))
    PROVE  LET w == WithJump(Negated(v, nots), "JUMP_IF_FALSE_POP")
           IN Extends(u, w) /\ EndsInJump(w) /\ Len(u.meant) < Len(w.meant)
<1> DEFINE f == NotFold(Negated(v, nots), "JUMP_IF_FALSE_POP")
           w == WithJump(Negated(v, nots), "JUMP_IF_FALSE_POP")
           field == JumpInstead(f, 7, FusedFieldOp(f.code),
                                <<FromEnd(f.code, 6), FromEnd(f.code, 5), FromEnd(f.code, 4),
                                  FromEnd(f.code, 2)>>,
                                Asked)
           two == JumpInstead(f, 5, FusedLocalOp(f.code, f.op),
                              <<FromEnd(f.code, 4), FromEnd(f.code, 2)>>, Asked)
           plain == JumpInstead(f, 0, f.op, <<>>, Asked)
           Done(x) == Extends(u, x) /\ EndsInJump(x) /\ Len(u.meant) < Len(x.meant)
<1>1. Good(v)
  BY DEF Extends
<1>2. /\ Extends(v, f) /\ Folding(f)
      /\ \A i \in Len(v.meant) + 1 .. Len(f.meant) : f.code[f.meant[i].at + 1] = Opcode["NOT"]
  BY ONLY <1>1, op \in Ops, op # "NOT", nots \in Nat, Ends(v, op), NotFoldGood
<1>3. w = IF ArrayFieldCmp(f.code, f.op) THEN field
          ELSE IF LocalLocalCmp(f.code, f.op) THEN two ELSE plain
  BY ONLY Zenon DEF WithJump, Asked
<1>4. ~Mistaken(f)
  OBVIOUS
<1> HIDE DEF f, w
<1>5. Extends(u, f)
  BY ONLY <1>2, Typed(u), Extends(u, v), ExtendsOn
<1>6. Good(f) /\ Len(f.code) \in Nat
  BY ONLY <1>5, TypedChunk DEF Extends, Good
<1>7. ASSUME NEW first, NEW size, Looked(f, Compared(f.code), first, size)
      PROVE  Len(u.meant) + 3 <= Len(f.meant)
  <2>1. op = Compared(f.code) /\ Len(f.meant) = Len(v.meant)
    BY ONLY <1>1, <1>2, <1>7, op \in Ops, Ends(v, op), ComparedLast
  <2>2. Compared(f.code) \in {"LESS_NUM", "GREATER_NUM"}
    BY DEF Compared
  <2> QED
    BY <2>1, <2>2
<1>8. CASE ArrayFieldCmp(f.code, f.op)
  <2>1. Looked(f, Compared(f.code), "GET_LOCAL_ARRAY_FIELD", 7)
    BY ONLY <1>4, <1>6, <1>8, LooksAtField
  <2>2. Done(field)
    BY ONLY <1>2, <1>5, <1>7, <1>8, <2>1, Typed(u), FieldFused, Zenon
  <2> QED
    BY ONLY <1>3, <1>8, <2>2, Zenon DEF w
<1>9. CASE ~ArrayFieldCmp(f.code, f.op) /\ LocalLocalCmp(f.code, f.op)
  <2>1. Looked(f, Compared(f.code), "GET_LOCAL", 5)
    BY ONLY <1>4, <1>6, <1>9, LooksAtLocals
  <2>2. Done(two)
    BY ONLY <1>2, <1>5, <1>7, <2>1, Typed(u), LocalsFused, Zenon
  <2> QED
    BY ONLY <1>3, <1>9, <2>2, Zenon DEF w
<1>10. CASE ~ArrayFieldCmp(f.code, f.op) /\ ~LocalLocalCmp(f.code, f.op)
  <2>1. /\ f.op \in PlainJumps /\ f.op # "LOOP"
        /\ f.does \o Asked = Plain(f.op, <<>>) /\ Plain(f.op, <<>>) \in Seq(Steps)
    <3> DEFINE test == <<"JUMP_IF_FALSE_POP", <<>>>>
               negation == <<"NOT", <<>>>>
    <3>1. test \in Steps /\ negation \in Steps
      BY ONLY StepsUsed, StepWithoutOperands
    <3>2. CASE f.op = "JUMP_IF_FALSE_POP" /\ f.does = <<>>
      <4>1. f.op \in PlainJumps /\ f.op # "LOOP" /\ Plain(f.op, <<>>) = <<test>>
        BY ONLY <3>2 DEF PlainJumps, Plain
      <4> HIDE DEF test
      <4>2. <<>> \o <<test>> = <<test>> /\ <<test>> \in Seq(Steps)
        BY ONLY <3>1
      <4> QED
        BY ONLY <3>2, <4>1, <4>2, Zenon DEF Asked, test
    <3>3. CASE f.op = "JUMP_IF_TRUE_POP" /\ f.does = <<negation>>
      <4>1. f.op \in PlainJumps /\ f.op # "LOOP" /\ Plain(f.op, <<>>) = <<negation, test>>
        BY ONLY <3>3 DEF PlainJumps, Plain
      <4> HIDE DEF test, negation
      <4>2. <<negation>> \o <<test>> = <<negation, test>> /\ <<negation, test>> \in Seq(Steps)
        BY ONLY <3>1, Two
      <4>3. Asked = <<test>>
        BY DEF Asked, test
      <4> QED
        BY ONLY <3>3, <4>1, <4>2, <4>3, Zenon
    <3>4. \/ f.op = "JUMP_IF_FALSE_POP" /\ f.does = <<>>
          \/ f.op = "JUMP_IF_TRUE_POP" /\ f.does = <<negation>>
      BY ONLY <1>2, Zenon DEF Folding
    <3> QED
      BY ONLY <3>2, <3>3, <3>4, Zenon
  <2>2. Done(plain)
    BY ONLY <1>5, <2>1, Typed(u), JumpPlain, Zenon
  <2> QED
    BY ONLY <1>3, <1>10, <2>2, Zenon DEF w
<1> QED
  BY ONLY <1>8, <1>9, <1>10

\* The jump over an else is as it is asked for.
LEMMA JumpOver ==
    ASSUME NEW u, Good(u)
    PROVE  LET w == WithJump(u, "JUMP")
           IN Extends(u, w) /\ EndsInJump(w) /\ Len(u.meant) < Len(w.meant)
<1> DEFINE f == NotFold(u, "JUMP")
           w == WithJump(u, "JUMP")
           over == <<"JUMP", <<>>>>
           Done(x) == Extends(u, x) /\ EndsInJump(x) /\ Len(u.meant) < Len(x.meant)
<1>1. f.code = u.code /\ f.meant = u.meant /\ f.op = "JUMP" /\ f.does = <<>>
  BY DEF NotFold
<1>2. w = JumpInstead(f, 0, f.op, <<>>, <<over>>)
  BY <1>1 DEF WithJump, ArrayFieldCmp, LocalLocalCmp
<1> HIDE DEF f, w
<1>3. Typed(u) /\ Len(u.code) \in Nat /\ Len(u.meant) \in Nat
  BY TypedChunk DEF Good
<1>4. Typed(f) /\ Continues(u, f) /\ Len(f.meant) = Len(u.meant)
  <2>1. Start(f, Len(u.meant) + 1) = Len(u.code)
    BY ONLY <1>1 DEF Start
  <2> QED
    BY ONLY <1>1, <1>3, <2>1 DEF Typed, Continues
<1>5. Len(u.meant) + 1 .. Len(f.meant) = {}
  BY ONLY <1>3, <1>4
<1>6. Good(f)
  BY ONLY <1>4, <1>5, Good(u), GrowGood
<1>7. Extends(u, f)
  BY ONLY <1>4, <1>5, <1>6 DEF Extends
<1>8. /\ f.op \in PlainJumps /\ f.op # "LOOP" /\ f.does \o <<over>> = Plain(f.op, <<>>)
      /\ Plain(f.op, <<>>) \in Seq(Steps)
  <2>1. over \in Steps
    BY ONLY StepsUsed, StepWithoutOperands
  <2>2. f.op \in PlainJumps /\ f.op # "LOOP" /\ Plain(f.op, <<>>) = <<over>>
    BY ONLY <1>1 DEF PlainJumps, Plain
  <2> HIDE DEF over
  <2>3. <<>> \o <<over>> = <<over>> /\ <<over>> \in Seq(Steps)
    BY ONLY <2>1
  <2> QED
    BY ONLY <1>1, <2>2, <2>3, Zenon
<1>9. Done(JumpInstead(f, 0, f.op, <<>>, <<over>>))
  BY ONLY <1>3, <1>7, <1>8, JumpPlain, Zenon
<1> QED
  BY ONLY <1>2, <1>9, Zenon DEF w

-----------------------------------------------------------------------------
(* Conditions *)

\* Operands that fit, instruction by instruction.
LEMMA ArgsOf ==
    /\ \A op \in LocalOps : \A a \in Cells : ArgsFit(op, <<a>>)
    /\ \A a \in Words : ArgsFit("CONSTANT", <<a>>)
    /\ \A a \in Words, b \in Cells : ArgsFit("CALL_CONST", <<a, b>>)
    /\ \A a, b \in Cells : ArgsFit("INVOKE_METHOD", <<a, b>>)
    /\ \A a, b, c \in Cells : ArgsFit("GET_LOCAL_ARRAY_FIELD", <<a, b, c>>)
    /\ \A op \in BareOps : ArgsFit(op, <<>>)
<1>1. (\A a \in Cells : a \in Nat) /\ (\A a \in Words : a \in Nat)
  BY DEF Cells, Words
<1>2. /\ \A a \in Nat : <<a>> \in Seq(Nat) /\ Len(<<a>>) = 1 /\ <<a>>[1] = a
      /\ \A a, b \in Nat : <<a, b>> \in Seq(Nat) /\ Len(<<a, b>>) = 2
      /\ \A a, b, c \in Nat : <<a, b, c>> \in Seq(Nat) /\ Len(<<a, b, c>>) = 3
      /\ <<>> \in Seq(Nat) /\ Len(<<>>) = 0
  OBVIOUS
<1>3. ASSUME NEW op \in LocalOps, NEW a \in Cells PROVE ArgsFit(op, <<a>>)
  BY <1>1, <1>2, Kinds DEF ArgsFit
<1>4. ASSUME NEW a \in Words PROVE ArgsFit("CONSTANT", <<a>>)
  BY <1>1, <1>2, Kinds DEF ArgsFit
<1>5. ASSUME NEW a \in Words, NEW b \in Cells PROVE ArgsFit("CALL_CONST", <<a, b>>)
  BY <1>1, <1>2, Kinds DEF ArgsFit
<1>6. ASSUME NEW a \in Cells, NEW b \in Cells PROVE ArgsFit("INVOKE_METHOD", <<a, b>>)
  BY <1>1, <1>2, Kinds DEF ArgsFit
<1>7. ASSUME NEW a \in Cells, NEW b \in Cells, NEW c \in Cells
      PROVE  ArgsFit("GET_LOCAL_ARRAY_FIELD", <<a, b, c>>)
  BY <1>1, <1>2, Kinds DEF ArgsFit
<1>8. ASSUME NEW op \in BareOps PROVE ArgsFit(op, <<>>)
  BY <1>2, Kinds DEF ArgsFit
<1> QED
  BY ONLY <1>3, <1>4, <1>5, <1>6, <1>7, <1>8, Zenon

\* An instruction after others.
LEMMA EmitMore ==
    ASSUME NEW u, NEW v, NEW op, NEW args, Typed(u), Extends(u, v), ArgsFit(op, args)
    PROVE  /\ Extends(u, Emit(v, op, args)) /\ Ends(Emit(v, op, args), op)
           /\ Len(Emit(v, op, args).meant) = Len(v.meant) + 1
<1> DEFINE w == Emit(v, op, args)
<1>1. Good(v)
  BY DEF Extends
<1>2. Extends(v, w) /\ Ends(w, op) /\ Len(w.meant) = Len(v.meant) + 1
  BY ONLY <1>1, ArgsFit(op, args), EmitGood
<1> HIDE DEF w
<1>3. Extends(u, w)
  BY ONLY <1>2, Typed(u), Extends(u, v), ExtendsOn
<1> QED
  BY ONLY <1>2, <1>3 DEF w

\* A chunk extends itself.
LEMMA ExtendsItself ==
    ASSUME NEW u, Good(u)
    PROVE  Extends(u, u)
<1>1. Typed(u) /\ Len(u.code) \in Nat /\ Len(u.meant) \in Nat
  BY TypedChunk DEF Good
<1>2. Start(u, Len(u.meant) + 1) = Len(u.code)
  BY Zenon DEF Start
<1>3. Len(u.meant) + 1 .. Len(u.meant) = {}
  BY ONLY <1>1
<1> QED
  BY ONLY <1>1, <1>2, <1>3, Good(u) DEF Extends, Continues

Sought == {"NOT", "LESS_NUM", "GREATER_NUM"}

\* w is u with entries more, the last of them with an opcode that no peephole looks for at the
\* end.
Operand(u, w) ==
    /\ Extends(u, w) /\ Len(u.meant) + 1 <= Len(w.meant)
    /\ \E op \in Ops \ Sought : Ends(w, op)

\* An instruction that no peephole looks for, at the end of an operand.
LEMMA OperandEnds ==
    ASSUME NEW u, NEW v, NEW op, NEW args, Typed(u), Extends(u, v), ArgsFit(op, args),
           op \notin Sought
    PROVE  Operand(u, Emit(v, op, args))
<1> DEFINE w == Emit(v, op, args)
<1>1. Len(u.meant) \in Nat /\ Len(v.meant) \in Nat /\ Len(u.meant) <= Len(v.meant)
  BY ONLY Typed(u), Extends(u, v), TypedChunk DEF Extends, Good, Continues
<1>2. Extends(u, w) /\ Ends(w, op) /\ Len(w.meant) = Len(v.meant) + 1
  BY ONLY Typed(u), Extends(u, v), ArgsFit(op, args), EmitMore
<1> HIDE DEF w
<1>3. Len(u.meant) + 1 <= Len(w.meant)
  BY ONLY <1>1, <1>2
<1>4. op \in Ops \ Sought
  BY DEF ArgsFit
<1> QED
  BY ONLY <1>2, <1>3, <1>4 DEF Operand, w

\* The left side of a comparison, while slots and constants fit.
LEMMA LeftGood ==
    ASSUME NEW u, NEW kind \in LeftSides, Good(u), locals \in 1 .. 256, consts \in Nat,
           consts + LeftConsts(kind) <= 65536
    PROVE  Operand(u, LeftSide(u, kind))
<1>1. Typed(u)
  BY DEF Good
<1>2. Extends(u, u)
  BY ExtendsItself
<1>3. Newest \in Cells /\ 0 \in Cells /\ 1 \in Cells 
  BY DEF Newest, Cells
<1>4. LeftConsts(kind) = 1 => consts \in Words
  BY DEF Words
<1>5. /\ "GET_LOCAL" \in LocalOps /\ "GET_CAPTURE" \in LocalOps /\ "ADD_NUM" \in BareOps
  BY DEF LocalOps, BareOps
<1>7. Sought \cap {"GET_LOCAL", "CONSTANT", "GET_CAPTURE", "ADD_NUM", "CALL_CONST",
                   "INVOKE_METHOD", "GET_LOCAL_ARRAY_FIELD"} = {}
  BY DEF Sought
<1> DEFINE own == Emit(u, "GET_LOCAL", <<Newest>>)
           first == Emit(u, "GET_LOCAL", <<0>>)
<1>6. Extends(u, own) /\ Extends(u, first)
  <2>1. ArgsFit("GET_LOCAL", <<Newest>>) /\ ArgsFit("GET_LOCAL", <<0>>)
    BY ONLY <1>3, <1>5, ArgsOf
  <2> QED
    BY ONLY <1>1, <1>2, <2>1, EmitMore
<1> HIDE DEF own, first
<1>8. CASE kind = "local"
  <2>1. ArgsFit("GET_LOCAL", <<Newest>>)
    BY ONLY <1>3, <1>5, ArgsOf
  <2>2. Operand(u, Emit(u, "GET_LOCAL", <<Newest>>))
    BY ONLY <1>1, <1>2, <1>7, <2>1, OperandEnds
  <2> QED
    BY ONLY <1>8, <2>2 DEF LeftSide
<1>9. CASE kind = "literal"
  <2>1. ArgsFit("CONSTANT", <<consts>>)
    BY ONLY <1>4, <1>9, ArgsOf DEF LeftConsts
  <2>2. Operand(u, Emit(u, "CONSTANT", <<consts>>))
    BY ONLY <1>1, <1>2, <1>7, <2>1, OperandEnds
  <2> QED
    BY ONLY <1>9, <2>2 DEF LeftSide
<1>10. CASE kind = "captured"
  <2>1. ArgsFit("GET_CAPTURE", <<0>>)
    BY ONLY <1>3, <1>5, ArgsOf
  <2>2. Operand(u, Emit(u, "GET_CAPTURE", <<0>>))
    BY ONLY <1>1, <1>2, <1>7, <2>1, OperandEnds
  <2> QED
    BY ONLY <1>10, <2>2 DEF LeftSide
<1>11. CASE kind = "sum"
  <2>1. ArgsFit("CONSTANT", <<consts>>) /\ ArgsFit("ADD_NUM", <<>>)
    BY ONLY <1>4, <1>5, <1>11, ArgsOf DEF LeftConsts
  <2> DEFINE both == Emit(own, "CONSTANT", <<consts>>)
  <2>2. Extends(u, both)
    BY ONLY <1>1, <1>6, <2>1, EmitMore
  <2> HIDE DEF both
  <2>3. Operand(u, Emit(both, "ADD_NUM", <<>>))
    BY ONLY <1>1, <1>7, <2>1, <2>2, OperandEnds
  <2> QED
    BY ONLY <1>11, <2>3, Zenon DEF LeftSide, both, own
<1>12. CASE kind = "call"
  <2>1. ArgsFit("CALL_CONST", <<consts, 1>>)
    BY ONLY <1>3, <1>4, <1>12, ArgsOf DEF LeftConsts
  <2>2. Operand(u, Emit(own, "CALL_CONST", <<consts, 1>>))
    BY ONLY <1>1, <1>6, <1>7, <2>1, OperandEnds
  <2> QED
    BY ONLY <1>12, <2>2, Zenon DEF LeftSide, own
<1>13. CASE kind = "method"
  <2>1. ArgsFit("GET_LOCAL", <<Newest>>) /\ ArgsFit("INVOKE_METHOD", <<Newest, 1>>)
    BY ONLY <1>3, <1>5, ArgsOf
  <2> DEFINE both == Emit(first, "GET_LOCAL", <<Newest>>)
  <2>2. Extends(u, both)
    BY ONLY <1>1, <1>6, <2>1, EmitMore
  <2> HIDE DEF both
  <2>3. Operand(u, Emit(both, "INVOKE_METHOD", <<Newest, 1>>))
    BY ONLY <1>1, <1>7, <2>1, <2>2, OperandEnds
  <2> QED
    BY ONLY <1>13, <2>3, Zenon DEF LeftSide, both, first
<1>14. CASE kind = "field"
  <2>1. ArgsFit("GET_LOCAL_ARRAY_FIELD", <<0, Newest, 0>>)
    BY ONLY <1>3, ArgsOf
  <2>2. Operand(u, Emit(u, "GET_LOCAL_ARRAY_FIELD", <<0, Newest, 0>>))
    BY ONLY <1>1, <1>2, <1>7, <2>1, OperandEnds
  <2> QED
    BY ONLY <1>14, <2>2 DEF LeftSide
<1> QED
  BY <1>8, <1>9, <1>10, <1>11, <1>12, <1>13, <1>14 DEF LeftSides

\* v is u and a condition before its negations.
Condition(u, v, op) ==
    /\ Extends(u, v) /\ Ends(v, op) /\ op \in Ops /\ op # "NOT"
    /\ op \in {"LESS_NUM", "GREATER_NUM"} => Len(u.meant) + 3 <= Len(v.meant)

\* compileBinary and the other conditions, while slots and constants fit.
LEMMA ConditionGood ==
    ASSUME NEW u, NEW left \in LeftSides, NEW right \in {"local", "literal", "none"},
           NEW op \in {"LESS_NUM", "GREATER_NUM"}, NEW nots, Good(u), locals \in 1 .. 256,
           consts \in Nat, consts + LeftConsts(left) + RightConsts(right) <= 65536
    PROVE  \E v, o : Comparison(u, left, right, op, nots) = Negated(v, nots) /\ Condition(u, v, o)
<1> DEFINE onLeft == LeftSide(u, left)
<1>1. Typed(u)
  BY DEF Good
<1>2. LeftConsts(left) \in {0, 1} /\ RightConsts(right) \in {0, 1}
  BY DEF LeftConsts, RightConsts
<1>3. Operand(u, onLeft)
  <2>1. consts + LeftConsts(left) <= 65536
    BY <1>2
  <2> QED
    BY <2>1, LeftGood
<1> HIDE DEF onLeft
<1>4. CASE right = "none"
  <2>1. PICK o \in Ops \ Sought : Ends(onLeft, o)
    BY ONLY <1>3 DEF Operand
  <2>2. Condition(u, onLeft, o)
    BY ONLY <1>3, <2>1 DEF Operand, Condition, Sought
  <2>3. Comparison(u, left, right, op, nots) = Negated(onLeft, nots)
    BY ONLY <1>4, Zenon DEF Comparison, onLeft
  <2> QED
    BY ONLY <2>2, <2>3, Zenon
<1>5. CASE right # "none"
  <2> DEFINE onRight == RightSide(onLeft, right, consts + LeftConsts(left))
             w == Emit(onRight, op, <<>>)
  <2>1. Extends(u, onLeft)
    BY ONLY <1>3 DEF Operand
  <2>2. Extends(u, onRight) /\ Len(onRight.meant) = Len(onLeft.meant) + 1
    <3>1. CASE right = "local"
      <4>1. "GET_LOCAL" \in LocalOps /\ 0 \in Cells
        BY DEF LocalOps, Cells
      <4>2. ArgsFit("GET_LOCAL", <<0>>)
        BY ONLY <4>1, ArgsOf
      <4> DEFINE e == Emit(onLeft, "GET_LOCAL", <<0>>)
      <4>3. Extends(u, e) /\ Len(e.meant) = Len(onLeft.meant) + 1
        BY ONLY <1>1, <2>1, <4>2, EmitMore
      <4> QED
        BY ONLY <3>1, <4>3, Zenon DEF RightSide
    <3>2. CASE right # "local"
      <4> DEFINE constant == consts + LeftConsts(left)
      <4>1. constant \in Words
        <5>1. RightConsts(right) = 1
          BY <1>5, <3>2 DEF RightConsts
        <5> QED
          BY <1>2, <5>1 DEF Words
      <4> HIDE DEF constant
      <4>2. ArgsFit("CONSTANT", <<constant>>)
        BY ONLY <4>1, ArgsOf, Zenon
      <4> DEFINE e == Emit(onLeft, "CONSTANT", <<constant>>)
      <4>3. Extends(u, e) /\ Len(e.meant) = Len(onLeft.meant) + 1
        BY ONLY <1>1, <2>1, <4>2, EmitMore
      <4> QED
        BY ONLY <3>2, <4>3, Zenon DEF RightSide, constant
    <3> QED
      BY ONLY <3>1, <3>2
  <2> HIDE DEF onRight
  <2>3. Extends(u, w) /\ Ends(w, op) /\ Len(w.meant) = Len(onRight.meant) + 1
    <3>1. op \in BareOps
      BY DEF BareOps
    <3>2. ArgsFit(op, <<>>)
      BY ONLY <3>1, ArgsOf
    <3> QED
      BY ONLY <1>1, <2>2, <3>2, EmitMore, ZenonT(30)
  <2>4. Comparison(u, left, right, op, nots) = Negated(w, nots)
    BY ONLY <1>5, Zenon DEF Comparison, onLeft, onRight
  <2> HIDE DEF w
  <2>5. Len(u.meant) \in Nat /\ Len(onLeft.meant) \in Nat
    BY ONLY <1>1, <2>1, TypedChunk DEF Extends, Good
  <2>6. Len(u.meant) + 3 <= Len(w.meant)
    BY ONLY <1>3, <2>2, <2>3, <2>5 DEF Operand
  <2>7. op \in Ops /\ op # "NOT"
    BY StepsUsed
  <2>8. Condition(u, w, op)
    BY ONLY <2>3, <2>6, <2>7, Zenon DEF Condition
  <2> QED
    BY ONLY <2>4, <2>8, Zenon
<1> QED
  BY ONLY <1>4, <1>5

\* A condition and its jump.
LEMMA TestGood ==
    ASSUME NEW u, NEW left \in LeftSides, NEW right \in {"local", "literal", "none"},
           NEW op \in {"LESS_NUM", "GREATER_NUM"}, NEW nots \in Nat, Good(u), locals \in 1 .. 256,
           consts \in Nat, consts + LeftConsts(left) + RightConsts(right) <= 65536,
           ~Mistaken(NotFold(Comparison(u, left, right, op, nots), "JUMP_IF_FALSE_POP"))
    PROVE  LET w == WithJump(Comparison(u, left, right, op, nots), "JUMP_IF_FALSE_POP")
           IN Extends(u, w) /\ EndsInJump(w) /\ Len(u.meant) < Len(w.meant)
<1>1. PICK v, o : Comparison(u, left, right, op, nots) = Negated(v, nots) /\ Condition(u, v, o)
  BY ConditionGood
<1>2. Typed(u)
  BY DEF Good
<1>3. /\ Extends(u, v) /\ Ends(v, o) /\ o \in Ops /\ o # "NOT"
      /\ o \in {"LESS_NUM", "GREATER_NUM"} => Len(u.meant) + 3 <= Len(v.meant)
  BY ONLY <1>1 DEF Condition
<1>4. ~Mistaken(NotFold(Negated(v, nots), "JUMP_IF_FALSE_POP"))
  BY ONLY <1>1, Zenon,
          ~Mistaken(NotFold(Comparison(u, left, right, op, nots), "JUMP_IF_FALSE_POP"))
<1> DEFINE w == WithJump(Negated(v, nots), "JUMP_IF_FALSE_POP")
<1>5. Extends(u, w) /\ EndsInJump(w) /\ Len(u.meant) < Len(w.meant)
  BY ONLY <1>2, <1>3, <1>4, nots \in Nat, ConditionalJump, Zenon
<1> QED
  BY ONLY <1>1, <1>5, Zenon

-----------------------------------------------------------------------------
(* Jumps to fill in *)

\* A jump whose distance is not known yet and, of a loop, where it starts.
Pending(w, o) ==
    /\ o.from \in 1 .. Len(w.meant)
    /\ \E op \in Jumps \ {"LOOP"} : w.code[Start(w, o.from) + 1] = Opcode[op]
    /\ o.hole = Start(w, o.from + 1) - 2
    /\ o.kind = "loop" => o.first \in 1 .. Len(w.meant) /\ o.start = w.meant[o.first].at

\* The entries of v are in w where they were, and with the same opcodes.
SamePlaces(v, w) ==
    /\ Len(v.meant) \in Nat /\ Len(w.meant) \in Nat /\ Len(v.meant) <= Len(w.meant)
    /\ \A i \in 1 .. Len(v.meant) + 1 : Start(w, i) = Start(v, i)
    /\ \A i \in 1 .. Len(v.meant) :
         /\ w.meant[i].at = v.meant[i].at
         /\ w.code[Start(v, i) + 1] = v.code[Start(v, i) + 1]

\* What moves no instruction leaves a statement waiting.
LEMMA StaysPending ==
    ASSUME NEW v, NEW w, NEW o, SamePlaces(v, w), Pending(v, o)
    PROVE  Pending(w, o)
<1>1. /\ Len(v.meant) \in Nat /\ Len(w.meant) \in Nat /\ Len(v.meant) <= Len(w.meant)
      /\ o.from \in 1 .. Len(v.meant)
  BY DEF SamePlaces, Pending
<1>2. o.from \in 1 .. Len(w.meant) /\ o.from \in 1 .. Len(v.meant) + 1
      /\ o.from + 1 \in 1 .. Len(v.meant) + 1
  BY ONLY <1>1
<1>3. /\ Start(w, o.from) = Start(v, o.from) /\ Start(w, o.from + 1) = Start(v, o.from + 1)
      /\ w.code[Start(v, o.from) + 1] = v.code[Start(v, o.from) + 1]
  BY ONLY <1>1, <1>2, SamePlaces(v, w), Zenon DEF SamePlaces
<1>4. ASSUME o.kind = "loop"
      PROVE  o.first \in 1 .. Len(w.meant) /\ o.start = w.meant[o.first].at
  <2>1. o.first \in 1 .. Len(v.meant) /\ o.start = v.meant[o.first].at
    BY ONLY <1>4, Pending(v, o) DEF Pending
  <2>2. w.meant[o.first].at = v.meant[o.first].at
    BY ONLY <2>1, SamePlaces(v, w), Zenon DEF SamePlaces
  <2>3. o.first \in 1 .. Len(w.meant)
    BY ONLY <1>1, <2>1
  <2> QED
    BY ONLY <2>1, <2>2, <2>3
<1> QED
  BY ONLY <1>2, <1>3, <1>4, Pending(v, o), Zenon DEF Pending

\* What is appended leaves every instruction where it was.
LEMMA ContinuesPlaces ==
    ASSUME NEW v, NEW w, Good(v), Typed(w), Continues(v, w)
    PROVE  SamePlaces(v, w)
<1>1. /\ Typed(v) /\ Len(v.meant) \in Nat /\ Len(w.meant) \in Nat
      /\ Len(v.code) \in Nat
  BY TypedChunk DEF Good
<1>2. \A i \in 1 .. Len(v.meant) + 1 : Start(w, i) = Start(v, i)
  BY ONLY Good(v), Typed(w), Continues(v, w), ContinuesStarts
<1>3. ASSUME NEW i \in 1 .. Len(v.meant)
      PROVE  /\ w.meant[i].at = v.meant[i].at
             /\ w.code[Start(v, i) + 1] = v.code[Start(v, i) + 1]
  <2>1. w.meant[i] = v.meant[i]
    BY ONLY <1>3, i \in 1 .. Len(v.meant), Continues(v, w), Zenon DEF Continues
  <2>2. /\ Start(v, i) \in Nat /\ Start(v, i + 1) \in Nat
        /\ Start(v, i) < Start(v, i + 1) /\ Start(v, i + 1) <= Len(v.code)
    <3>1. i \in 1 .. Len(v.meant) + 1 /\ i + 1 \in 1 .. Len(v.meant) + 1 /\ i < i + 1
      BY ONLY <1>1, i \in 1 .. Len(v.meant)
    <3> QED
      BY ONLY <3>1, Good(v), Starts
  <2>3. Start(v, i) + 1 \in 1 .. Len(v.code)
    BY ONLY <1>1, <2>2
  <2> QED
    BY ONLY <2>1, <2>3, Continues(v, w), Zenon DEF Continues
<1> QED
  BY ONLY <1>1, <1>2, <1>3, Continues(v, w) DEF SamePlaces, Continues

\* What has been added without places to go to leaves the jumps going where they went.
LEMMA ExtendsRight ==
    ASSUME NEW v, NEW w, Good(v), GoesRight(v), Extends(v, w)
    PROVE  GoesRight(w)
<1>1. /\ Typed(v) /\ Good(w) /\ Typed(w) /\ Continues(v, w)
      /\ \A i \in Len(v.meant) + 1 .. Len(w.meant) : w.meant[i].goal = 0
  BY DEF Extends, Good
<1>2. Len(v.meant) \in Nat /\ Len(w.meant) \in Nat /\ Len(v.meant) <= Len(w.meant)
  BY ONLY <1>1, TypedChunk DEF Continues
<1>3. ASSUME NEW i \in 1 .. Len(w.meant)
      PROVE  w.meant[i].goal \in 0 .. Len(w.meant) + 1 /\ GoesToGoal(w, i)
  <2>1. CASE i \in 1 .. Len(v.meant)
    <3>1. v.meant[i].goal \in 0 .. Len(v.meant) + 1 /\ GoesToGoal(v, i)
      BY ONLY <2>1, GoesRight(v) DEF GoesRight
    <3>2. v.meant[i].goal <= Len(v.meant) + 1 /\ v.meant[i].goal \in 0 .. Len(w.meant) + 1
      BY ONLY <1>2, <3>1
    <3>3. GoesToGoal(w, i)
      BY ONLY <1>1, <2>1, <3>1, <3>2, Good(v), ContinuesGood
    <3>4. w.meant[i] = v.meant[i]
      BY ONLY <1>1, <2>1, Zenon DEF Continues
    <3> QED
      BY ONLY <3>2, <3>3, <3>4, Zenon
  <2>2. CASE i \notin 1 .. Len(v.meant)
    <3>1. i \in Len(v.meant) + 1 .. Len(w.meant)
      BY ONLY <1>2, <2>2, i \in 1 .. Len(w.meant)
    <3>2. w.meant[i].goal = 0
      BY ONLY <1>1, <3>1
    <3>3. GoesToGoal(w, i)
      BY ONLY <3>2, Zenon DEF GoesToGoal
    <3> QED
      BY ONLY <1>2, <3>2, <3>3
  <2> QED
    BY ONLY <2>1, <2>2
<1> QED
  BY ONLY <1>3 DEF GoesRight

\* LOOP is the jump that goes back.
LEMMA LoopGoesBack ==
    /\ \A op \in Jumps \ {"LOOP"} : Opcode[op] # Opcode.LOOP
    /\ Opcode["LOOP"] = Opcode.LOOP
<1>1. \A op \in {"JUMP", "JUMP_IF_FALSE_POP", "JUMP_IF_TRUE_POP"} : Opcode[op] # Opcode.LOOP
  BY DEF Opcode
<1>2. \A op \in FusedLocalJumps : Opcode[op] # Opcode.LOOP
  BY DEF Opcode, FusedLocalJumps
<1>3. \A op \in FusedFieldJumps : Opcode[op] # Opcode.LOOP
  BY DEF Opcode, FusedFieldJumps
<1>4. Opcode["LOOP"] = Opcode.LOOP
  BY DEF Opcode
<1> QED
  BY ONLY <1>1, <1>2, <1>3, <1>4 DEF Jumps, PlainJumps

\* p is w with the distance d in the bytes before e, and the goal of one entry set.
Leads(w, p, from, e, d) ==
    /\ from \in 1 .. Len(w.meant) /\ e = Start(w, from + 1) /\ d = Len(w.code) - e
    /\ \E op \in Jumps \ {"LOOP"} : w.code[Start(w, from) + 1] = Opcode[op]
    /\ p.code = [w.code EXCEPT ![e - 1] = High(d), ![e] = Low(d)]
    /\ p.meant = [w.meant EXCEPT ![from] = [@ EXCEPT !.goal = Len(w.meant) + 1]]

\* Where things are when a distance is filled in.
LEMMA LeadPlaces ==
    ASSUME NEW w, NEW p, NEW from, NEW e, NEW d, Good(w), Leads(w, p, from, e, d)
    PROVE  /\ Len(w.meant) \in Nat /\ Len(w.code) \in Nat
           /\ Start(w, from) \in Nat /\ e \in Nat /\ Start(w, from) + 3 <= e /\ e <= Len(w.code)
           /\ d \in Nat /\ d <= Len(w.code)
           /\ \A i \in 1 .. Len(w.meant) + 1 : Start(w, i) \in Nat
           /\ \A i \in 1 .. Len(w.meant) + 1 : i <= from => Start(w, i) <= Start(w, from)
           /\ \A i \in 1 .. Len(w.meant) + 1 : i > from => e <= Start(w, i)
<1>1. /\ Typed(w) /\ Len(w.meant) \in Nat /\ Len(w.code) \in Nat
      /\ \A i \in 1 .. Len(w.meant) : IsWritten(w, i)
  BY TypedChunk DEF Good
<1>2. from \in 1 .. Len(w.meant) /\ e = Start(w, from + 1) /\ d = Len(w.code) - e
  BY DEF Leads
<1>3. from \in 1 .. Len(w.meant) + 1 /\ from + 1 \in 1 .. Len(w.meant) + 1
  BY ONLY <1>1, <1>2
<1>4. /\ \A i \in 1 .. Len(w.meant) + 1 : Start(w, i) \in Nat /\ Start(w, i) <= Len(w.code)
      /\ \A i, j \in 1 .. Len(w.meant) + 1 : i < j => Start(w, i) < Start(w, j)
  BY ONLY Good(w), Starts
<1>5. Start(w, from) \in Nat /\ e \in Nat /\ e <= Len(w.code)
  BY ONLY <1>2, <1>3, <1>4
<1>6. PICK op \in Jumps : w.code[Start(w, from) + 1] = Opcode[op]
  BY ONLY Leads(w, p, from, e, d) DEF Leads
<1>7. e >= Start(w, from) + 3
  BY ONLY <1>1, <1>2, <1>5, op \in Jumps, <1>6, JumpIsLong
<1>8. d \in Nat /\ d <= Len(w.code)
  BY ONLY <1>1, <1>2, <1>5
<1>9. ASSUME NEW i \in 1 .. Len(w.meant) + 1, i <= from
      PROVE  Start(w, i) <= Start(w, from)
  <2>1. CASE i = from
    BY ONLY <1>5, <2>1
  <2>2. CASE i # from
    <3>1. i < from
      BY ONLY <1>1, <1>2, <1>9, <2>2, i \in 1 .. Len(w.meant) + 1
    <3>2. Start(w, i) < Start(w, from) /\ Start(w, i) \in Nat
      BY ONLY <1>3, <1>4, <3>1, i \in 1 .. Len(w.meant) + 1
    <3> QED
      BY ONLY <1>5, <3>2
  <2> QED
    BY ONLY <2>1, <2>2
<1>10. ASSUME NEW i \in 1 .. Len(w.meant) + 1, i > from
       PROVE  e <= Start(w, i)
  <2>1. CASE i = from + 1
    BY ONLY <1>2, <1>5, <2>1
  <2>2. CASE i # from + 1
    <3>1. from + 1 < i
      BY ONLY <1>1, <1>2, <1>10, <2>2, i \in 1 .. Len(w.meant) + 1
    <3>2. Start(w, from + 1) < Start(w, i) /\ Start(w, i) \in Nat
      BY ONLY <1>3, <1>4, <3>1, i \in 1 .. Len(w.meant) + 1
    <3> QED
      BY ONLY <1>2, <1>5, <3>2
  <2> QED
    BY ONLY <2>1, <2>2
<1> QED
  BY ONLY <1>1, <1>4, <1>5, <1>7, <1>8, <1>9, <1>10

\* A distance filled in changes two bytes.
LEMMA LeadBytes ==
    ASSUME NEW w, NEW p, NEW from, NEW e, NEW d, Good(w), Leads(w, p, from, e, d)
    PROVE  /\ p.code \in Seq(Cells) /\ Len(p.code) = Len(w.code)
           /\ \A k \in 1 .. Len(w.code) : k # e - 1 /\ k # e => p.code[k] = w.code[k]
           /\ p.code[e - 1] = High(d) /\ p.code[e] = Low(d)
<1>1. /\ Len(w.code) \in Nat /\ e \in Nat /\ d \in Nat /\ Start(w, from) \in Nat
      /\ Start(w, from) + 3 <= e /\ e <= Len(w.code)
  BY ONLY Good(w), Leads(w, p, from, e, d), LeadPlaces
<1>2. w.code \in Seq(Cells)
  BY DEF Good, Typed
<1>3. e - 1 \in 1 .. Len(w.code) /\ e \in 1 .. Len(w.code) /\ e - 1 # e
  BY ONLY <1>1
<1>4. High(d) \in Cells /\ Low(d) \in Cells
  BY ONLY <1>1, HalvesAreBytes
<1>5. p.code = [w.code EXCEPT ![e - 1] = High(d), ![e] = Low(d)]
  BY DEF Leads
<1> DEFINE h == High(d)
           l == Low(d)
<1> HIDE DEF h, l
<1>6. p.code = [w.code EXCEPT ![e - 1] = h, ![e] = l] /\ h \in Cells /\ l \in Cells
  BY ONLY <1>4, <1>5 DEF h, l
<1>7. /\ p.code \in Seq(Cells) /\ Len(p.code) = Len(w.code)
      /\ \A k \in 1 .. Len(w.code) : k # e - 1 /\ k # e => p.code[k] = w.code[k]
      /\ p.code[e - 1] = h /\ p.code[e] = l
  BY ONLY <1>2, <1>3, <1>6
<1> QED
  BY ONLY <1>7 DEF h, l

\* A distance filled in gives one entry its goal.
LEMMA LeadListing ==
    ASSUME NEW w, NEW p, NEW from, NEW e, NEW d, Good(w), Leads(w, p, from, e, d)
    PROVE  /\ p.meant \in Seq(Entries) /\ Len(p.meant) = Len(w.meant)
           /\ \A i \in 1 .. Len(w.meant) :
                /\ p.meant[i].at = w.meant[i].at /\ p.meant[i].does = w.meant[i].does
                /\ i # from => p.meant[i] = w.meant[i]
           /\ p.meant[from].goal = Len(w.meant) + 1
           /\ \A i \in 1 .. Len(w.meant) + 1 : Start(p, i) = Start(w, i)
<1>1. w.meant \in Seq(Entries) /\ Len(w.meant) \in Nat /\ Typed(w)
  BY TypedChunk DEF Good
<1>2. /\ from \in 1 .. Len(w.meant)
      /\ p.meant = [w.meant EXCEPT ![from] = [@ EXCEPT !.goal = Len(w.meant) + 1]]
  BY DEF Leads
<1> DEFINE entry == [w.meant[from] EXCEPT !.goal = Len(w.meant) + 1]
<1>3. w.meant[from] \in Entries
  BY ONLY <1>1, <1>2
<1>4. /\ entry \in Entries /\ entry.at = w.meant[from].at /\ entry.does = w.meant[from].does
      /\ entry.goal = Len(w.meant) + 1
  <2> DEFINE x == w.meant[from]
             g == Len(w.meant) + 1
  <2>1. x \in Entries /\ g \in Nat
    BY ONLY <1>1, <1>3
  <2> HIDE DEF x, g
  <2>2. /\ [x EXCEPT !.goal = g] \in Entries /\ [x EXCEPT !.goal = g].at = x.at
        /\ [x EXCEPT !.goal = g].does = x.does /\ [x EXCEPT !.goal = g].goal = g
    BY ONLY <2>1 DEF Entries
  <2> QED
    BY ONLY <2>2 DEF x, g
<1>5. p.meant = [w.meant EXCEPT ![from] = entry]
  BY ONLY <1>2, Zenon
<1> HIDE DEF entry
<1>6. /\ p.meant \in Seq(Entries) /\ Len(p.meant) = Len(w.meant) /\ p.meant[from] = entry
      /\ \A i \in 1 .. Len(w.meant) : i # from => p.meant[i] = w.meant[i]
  BY ONLY <1>1, <1>2, <1>4, <1>5
<1>7. \A i \in 1 .. Len(w.meant) :
        p.meant[i].at = w.meant[i].at /\ p.meant[i].does = w.meant[i].does
  BY ONLY <1>4, <1>6, Zenon
<1>8. Len(p.code) = Len(w.code)
  BY ONLY Good(w), Leads(w, p, from, e, d), LeadBytes
<1>9. ASSUME NEW i \in 1 .. Len(w.meant) + 1
      PROVE  Start(p, i) = Start(w, i)
  <2>1. CASE i = Len(w.meant) + 1
    BY ONLY <1>6, <1>8, <2>1, Zenon DEF Start
  <2>2. CASE i # Len(w.meant) + 1
    <3>1. i \in 1 .. Len(w.meant)
      BY ONLY <1>1, <2>2, i \in 1 .. Len(w.meant) + 1
    <3> QED
      BY ONLY <1>6, <1>7, <2>2, <3>1, Zenon DEF Start
  <2> QED
    BY ONLY <2>1, <2>2
<1> QED
  BY ONLY <1>4, <1>6, <1>7, <1>9

\* A distance filled in: the chunk stays good and the jump goes to its end.
LEMMA LeadGood ==
    ASSUME NEW w, NEW p, NEW from, NEW e, NEW d, Good(w), GoesRight(w), Leads(w, p, from, e, d),
           Len(w.code) < 65536
    PROVE  Good(p) /\ GoesRight(p) /\ SamePlaces(w, p)
<1>1. /\ Len(w.meant) \in Nat /\ Len(w.code) \in Nat
      /\ Start(w, from) \in Nat /\ e \in Nat /\ Start(w, from) + 3 <= e /\ e <= Len(w.code)
      /\ d \in Nat /\ d <= Len(w.code)
      /\ \A i \in 1 .. Len(w.meant) + 1 : Start(w, i) \in Nat
      /\ \A i \in 1 .. Len(w.meant) + 1 : i <= from => Start(w, i) <= Start(w, from)
      /\ \A i \in 1 .. Len(w.meant) + 1 : i > from => e <= Start(w, i)
  BY ONLY Good(w), Leads(w, p, from, e, d), LeadPlaces
<1>2. /\ p.code \in Seq(Cells) /\ Len(p.code) = Len(w.code)
      /\ \A k \in 1 .. Len(w.code) : k # e - 1 /\ k # e => p.code[k] = w.code[k]
      /\ p.code[e - 1] = High(d) /\ p.code[e] = Low(d)
  BY ONLY Good(w), Leads(w, p, from, e, d), LeadBytes
<1>3. /\ p.meant \in Seq(Entries) /\ Len(p.meant) = Len(w.meant)
      /\ \A i \in 1 .. Len(w.meant) :
           /\ p.meant[i].at = w.meant[i].at /\ p.meant[i].does = w.meant[i].does
           /\ i # from => p.meant[i] = w.meant[i]
      /\ p.meant[from].goal = Len(w.meant) + 1
      /\ \A i \in 1 .. Len(w.meant) + 1 : Start(p, i) = Start(w, i)
  BY ONLY Good(w), Leads(w, p, from, e, d), LeadListing
<1>4. /\ from \in 1 .. Len(w.meant) /\ e = Start(w, from + 1) /\ d = Len(w.code) - e
      /\ \E op \in Jumps \ {"LOOP"} : w.code[Start(w, from) + 1] = Opcode[op]
  BY DEF Leads
<1>5. /\ \A i \in 1 .. Len(w.meant) : IsWritten(w, i) /\ w.meant[i].at < Len(w.code)
      /\ \A i, j \in 1 .. Len(w.meant) : i < j => w.meant[i].at < w.meant[j].at
      /\ Start(w, 1) = 0
  BY DEF Good
<1>6. /\ \A i \in 1 .. Len(w.meant) + 1 : Start(w, i) \in Nat /\ Start(w, i) <= Len(w.code)
      /\ \A i, j \in 1 .. Len(w.meant) + 1 : i < j => Start(w, i) < Start(w, j)
      /\ \A i \in 1 .. Len(w.meant) : Start(w, i) = w.meant[i].at
      /\ Start(w, Len(w.meant) + 1) = Len(w.code)
  BY ONLY Good(w), Starts
<1>7. Typed(p)
  BY ONLY <1>2, <1>3 DEF Typed
\* All bytes of an instruction stay but the last two of the jump.
<1>8. ASSUME NEW i \in 1 .. Len(w.meant)
      PROVE  /\ Start(w, i) \in Nat /\ Start(w, i + 1) \in Nat /\ Start(w, i) < Start(w, i + 1)
             /\ Start(w, i + 1) <= Len(w.code)
             /\ Start(p, i) = Start(w, i) /\ Start(p, i + 1) = Start(w, i + 1)
             /\ i # from => \A k \in Start(w, i) + 1 .. Start(w, i + 1) : p.code[k] = w.code[k]
             /\ i = from => \A k \in Start(w, i) + 1 .. Start(w, i + 1) :
                              k <= e - 2 => p.code[k] = w.code[k]
  <2>1. /\ i \in 1 .. Len(w.meant) + 1 /\ i + 1 \in 1 .. Len(w.meant) + 1 /\ i < i + 1
        /\ i # from => (i + 1 <= from \/ i > from)
    <3>1. Len(w.meant) \in Nat /\ from \in 1 .. Len(w.meant)
      BY ONLY <1>1, <1>4
    <3> QED
      BY ONLY <3>1, i \in 1 .. Len(w.meant)
  <2>2. /\ Start(w, i) \in Nat /\ Start(w, i + 1) \in Nat /\ Start(w, i) < Start(w, i + 1)
        /\ Start(w, i + 1) <= Len(w.code)
        /\ Start(p, i) = Start(w, i) /\ Start(p, i + 1) = Start(w, i + 1)
    BY ONLY <1>3, <1>6, <2>1
  <2>3. ASSUME i # from, NEW k \in Start(w, i) + 1 .. Start(w, i + 1)
        PROVE  p.code[k] = w.code[k]
    <3>1. k \in 1 .. Len(w.code)
      BY ONLY <1>1, <2>2, k \in Start(w, i) + 1 .. Start(w, i + 1)
    <3>2. Start(w, i + 1) <= Start(w, from) \/ e <= Start(w, i)
      BY ONLY <1>1, <2>1, <2>3
    <3>3. k # e - 1 /\ k # e
      BY ONLY <1>1, <2>2, <3>2, k \in Start(w, i) + 1 .. Start(w, i + 1)
    <3> QED
      BY ONLY <1>2, <3>1, <3>3
  <2>4. ASSUME i = from, NEW k \in Start(w, i) + 1 .. Start(w, i + 1), k <= e - 2
        PROVE  p.code[k] = w.code[k]
    <3>1. k \in 1 .. Len(w.code) /\ k # e - 1 /\ k # e
      BY ONLY <1>1, <2>2, <2>4, k \in Start(w, i) + 1 .. Start(w, i + 1)
    <3> QED
      BY ONLY <1>2, <3>1
  <2> QED
    BY ONLY <2>2, <2>3, <2>4
<1>9. ASSUME NEW i \in 1 .. Len(w.meant)
      PROVE  IsWritten(p, i)
  <2>1. /\ IsWritten(w, i) /\ p.meant[i].does = w.meant[i].does
        /\ Start(w, i) \in Nat /\ Start(p, i) = Start(w, i) /\ Start(p, i + 1) = Start(w, i + 1)
    BY ONLY <1>3, <1>5, <1>8, i \in 1 .. Len(w.meant)
  <2>2. \A k \in Start(w, i) + 1 .. Start(w, i + 1) :
          \/ p.code[k] = w.code[k]
          \/ k > Start(w, i + 1) - 2 /\ \E op \in Jumps : w.code[Start(w, i) + 1] = Opcode[op]
    <3>1. CASE i # from
      BY ONLY <1>8, <3>1, i \in 1 .. Len(w.meant)
    <3>2. CASE i = from
      <4>1. \E op \in Jumps : w.code[Start(w, i) + 1] = Opcode[op]
        BY ONLY <1>4, <3>2
      <4>2. ASSUME NEW k \in Start(w, i) + 1 .. Start(w, i + 1)
            PROVE  p.code[k] = w.code[k] \/ k > Start(w, i + 1) - 2
        <5>1. k \in Nat /\ e \in Nat /\ Start(w, i + 1) = e
          BY ONLY <1>1, <1>4, <1>8, <3>2, i \in 1 .. Len(w.meant),
                  k \in Start(w, i) + 1 .. Start(w, i + 1)
        <5>2. k <= e - 2 \/ k > e - 2
          BY ONLY <5>1
        <5> QED
          BY ONLY <1>8, <3>2, <5>1, <5>2, i \in 1 .. Len(w.meant),
                  k \in Start(w, i) + 1 .. Start(w, i + 1)
      <4> QED
        BY ONLY <4>1, <4>2
    <3> QED
      BY ONLY <3>1, <3>2
  <2> QED
    BY ONLY <2>1, <2>2, StaysWritten
<1>10. Good(p)
  <2>1. Start(p, 1) = 0
    BY ONLY <1>1, <1>3, <1>5
  <2> QED
    BY ONLY <1>2, <1>3, <1>5, <1>7, <1>9, <2>1, Zenon DEF Good
<1>11. ASSUME NEW i \in 1 .. Len(w.meant)
       PROVE  p.code[Start(w, i) + 1] = w.code[Start(w, i) + 1]
  <2>1. Start(w, i) + 1 \in Start(w, i) + 1 .. Start(w, i + 1)
    BY ONLY <1>8, i \in 1 .. Len(w.meant)
  <2>2. i = from => Start(w, i) + 1 <= e - 2
    BY ONLY <1>1
  <2> QED
    BY ONLY <1>8, <2>1, <2>2, i \in 1 .. Len(w.meant)
<1>12. SamePlaces(w, p)
  BY ONLY <1>1, <1>3, <1>11 DEF SamePlaces
<1>13. ASSUME NEW i \in 1 .. Len(w.meant)
       PROVE  p.meant[i].goal \in 0 .. Len(w.meant) + 1 /\ GoesToGoal(p, i)
  <2>1. CASE i = from
    <3>1. p.meant[i].goal = Len(w.meant) + 1
      BY ONLY <1>3, <2>1
    <3>2. Start(p, i + 1) = e
      BY ONLY <1>4, <1>8, <2>1
    <3>3. Start(p, p.meant[i].goal) = e + d
      <4>1. Len(w.code) \in Nat /\ e \in Nat /\ d = Len(w.code) - e
        BY ONLY <1>1, <1>4
      <4>2. Len(w.code) = e + d
        BY ONLY <4>1
      <4>3. Len(w.meant) + 1 \in 1 .. Len(w.meant) + 1
        BY ONLY <1>1
      <4>4. Start(p, Len(w.meant) + 1) = Len(w.code)
        BY ONLY <1>3, <1>6, <4>3
      <4> QED
        BY ONLY <3>1, <4>2, <4>4, Zenon
    <3>4. WordAt(p.code, e - 2) = d
      <4>1. High(d) * 256 + Low(d) = d
        BY ONLY <1>1, Len(w.code) < 65536, WordFits
      <4>2. e - 2 + 1 = e - 1 /\ e - 2 + 2 = e
        BY ONLY <1>1
      <4> QED
        BY ONLY <1>2, <4>1, <4>2 DEF WordAt, Byte
    <3>5. PICK op \in Jumps \ {"LOOP"} : w.code[Start(w, i) + 1] = Opcode[op]
      BY ONLY <1>4, <2>1
    <3>6. p.code[Start(p, i) + 1] = Opcode[op] /\ Opcode[op] # Opcode.LOOP
      BY ONLY <1>8, <1>11, <3>5, LoopGoesBack, op \in Jumps \ {"LOOP"}, i \in 1 .. Len(w.meant)
    <3>7. GoesToGoal(p, i)
      <4>1. op \in Jumps
        OBVIOUS
      <4> QED
        BY ONLY <3>2, <3>3, <3>4, <3>6, <4>1, Zenon DEF GoesToGoal
    <3> QED
      BY ONLY <1>1, <3>1, <3>7
  <2>2. CASE i # from
    <3>1. p.meant[i] = w.meant[i] /\ w.meant[i].goal \in 0 .. Len(w.meant) + 1 /\ GoesToGoal(w, i)
      BY ONLY <1>3, <2>2, GoesRight(w), i \in 1 .. Len(w.meant) DEF GoesRight
    <3>2. CASE w.meant[i].goal = 0
      <4>1. GoesToGoal(p, i)
        BY ONLY <3>1, <3>2, Zenon DEF GoesToGoal
      <4> QED
        BY ONLY <3>1, <4>1
    <3>3. CASE w.meant[i].goal # 0
      <4> DEFINE g == w.meant[i].goal
      <4>1. PICK op \in Jumps : w.code[Start(w, i) + 1] = Opcode[op]
        BY ONLY <3>1, <3>3 DEF GoesToGoal
      <4>2. Start(w, i + 1) >= Start(w, i) + 3
        BY ONLY <1>5, <1>8, <4>1, op \in Jumps, i \in 1 .. Len(w.meant), JumpIsLong
      <4>3. /\ Start(w, i + 1) - 1 \in Start(w, i) + 1 .. Start(w, i + 1)
            /\ Start(w, i + 1) \in Start(w, i) + 1 .. Start(w, i + 1)
            /\ Start(w, i + 1) - 2 + 1 = Start(w, i + 1) - 1
            /\ Start(w, i + 1) - 2 + 2 = Start(w, i + 1)
        BY ONLY <1>8, <4>2, i \in 1 .. Len(w.meant)
      <4>4. /\ p.code[Start(w, i + 1) - 1] = w.code[Start(w, i + 1) - 1]
            /\ p.code[Start(w, i + 1)] = w.code[Start(w, i + 1)]
        BY ONLY <1>8, <2>2, <4>3, i \in 1 .. Len(w.meant)
      <4>5. WordAt(p.code, Start(w, i + 1) - 2) = WordAt(w.code, Start(w, i + 1) - 2)
        BY ONLY <4>3, <4>4, Zenon DEF WordAt
      <4>6. Start(p, g) = Start(w, g)
        <5>1. g \in 1 .. Len(w.meant) + 1
          BY ONLY <1>1, <3>1, <3>3
        <5> QED
          BY ONLY <1>3, <5>1
      <4>7. /\ Start(p, i) = Start(w, i) /\ Start(p, i + 1) = Start(w, i + 1)
            /\ p.code[Start(w, i) + 1] = w.code[Start(w, i) + 1]
        BY ONLY <1>8, <1>11, i \in 1 .. Len(w.meant)
      <4>8. GoesToGoal(p, i)
        BY ONLY <3>1, <4>5, <4>6, <4>7, Zenon DEF GoesToGoal
      <4> QED
        BY ONLY <3>1, <4>8
    <3> QED
      BY ONLY <3>2, <3>3
  <2> QED
    BY ONLY <2>1, <2>2
<1>14. GoesRight(p)
  BY ONLY <1>3, <1>13 DEF GoesRight
<1> QED
  BY ONLY <1>10, <1>12, <1>14

\* patchJump: a jump that was pending leads to the end of the code, and others go where they
\* went.
LEMMA LeadHereGood ==
    ASSUME NEW w, NEW o, Good(w), GoesRight(w), Pending(w, o), Len(w.code) < 65536
    PROVE  LET p == LeadHere(w, o)
           IN /\ Good(p) /\ GoesRight(p) /\ SamePlaces(w, p)
              /\ Len(p.code) = Len(w.code) /\ Len(p.meant) = Len(w.meant)
<1> DEFINE p == LeadHere(w, o)
           e == Start(w, o.from + 1)
           d == Len(w.code) - e
<1>1. /\ Typed(w) /\ Len(w.meant) \in Nat /\ Len(w.code) \in Nat
  BY TypedChunk DEF Good
<1>2. /\ o.from \in 1 .. Len(w.meant) /\ o.hole = e - 2
      /\ \E op \in Jumps \ {"LOOP"} : w.code[Start(w, o.from) + 1] = Opcode[op]
  BY DEF Pending
<1>3. e \in Nat
  <2>1. o.from + 1 \in 1 .. Len(w.meant) + 1
    BY ONLY <1>1, <1>2
  <2> QED
    BY ONLY <2>1, Good(w), Starts
<1> HIDE DEF e
<1>4. o.hole + 1 = e - 1 /\ o.hole + 2 = e /\ Distance(w.code, o.hole) = d
  BY ONLY <1>1, <1>2, <1>3 DEF Distance
<1>5. p.code = [w.code EXCEPT ![e - 1] = High(d), ![e] = Low(d)]
  <2>1. p.code = [w.code EXCEPT ![o.hole + 1] = High(Distance(w.code, o.hole)),
                                ![o.hole + 2] = Low(Distance(w.code, o.hole))]
    BY ONLY Zenon DEF LeadHere, Patched
  <2> QED
    BY ONLY <1>4, <2>1, Zenon
<1>6. p.meant = [w.meant EXCEPT ![o.from] = [@ EXCEPT !.goal = Len(w.meant) + 1]]
  BY ONLY Zenon DEF LeadHere
<1> HIDE DEF p, d
<1>7. Leads(w, p, o.from, e, d)
  BY ONLY <1>2, <1>5, <1>6, Zenon DEF Leads, e, d
<1>8. Good(p) /\ GoesRight(p) /\ SamePlaces(w, p)
  BY ONLY <1>7, Good(w), GoesRight(w), Len(w.code) < 65536, LeadGood
<1>9. Len(p.code) = Len(w.code) /\ Len(p.meant) = Len(w.meant)
  BY ONLY <1>7, Good(w), LeadBytes, LeadListing
<1> QED
  BY ONLY <1>8, <1>9 DEF p

\* emitLoop: back to where the loop starts.
LEMMA EmitLoopGood ==
    ASSUME NEW w, NEW o, Good(w), GoesRight(w), o.first \in 1 .. Len(w.meant),
           o.start = w.meant[o.first].at, Len(w.code) + 3 < 65536
    PROVE  LET x == EmitLoop(w, o)
           IN Good(x) /\ GoesRight(x) /\ Continues(w, x) /\ Len(x.code) = Len(w.code) + 3
<1> DEFINE x == EmitLoop(w, o)
           back == Back(w.code, o.start)
           does == <<<<"LOOP", <<>>>>>>
           none == <<>>
<1>1. /\ Typed(w) /\ Len(w.meant) \in Nat /\ Len(w.code) \in Nat
  BY TypedChunk DEF Good
<1>2. o.start \in Nat /\ o.start <= Len(w.code) /\ Start(w, o.first) = o.start
  <2>1. o.first \in 1 .. Len(w.meant) + 1
    BY ONLY <1>1, o.first \in 1 .. Len(w.meant)
  <2>2. /\ Start(w, o.first) \in Nat /\ Start(w, o.first) <= Len(w.code)
        /\ Start(w, o.first) = w.meant[o.first].at
    BY ONLY <2>1, Good(w), o.first \in 1 .. Len(w.meant), Starts
  <2> QED
    BY ONLY <2>2, o.start = w.meant[o.first].at
<1>3. back \in Nat /\ back < 65536 /\ back = Len(w.code) + 3 - o.start
  BY ONLY <1>1, <1>2, Len(w.code) + 3 < 65536 DEF Back
<1>4. back \in Words
  BY ONLY <1>3 DEF Words
<1>5. x.code = w.code \o Bytes("LOOP", <<back>>)
  BY ONLY Zenon DEF EmitLoop
<1>6. x.meant = Append(w.meant, [at |-> Len(w.code), does |-> does, goal |-> o.first])
  <2>1. [Item(Len(w.code), does) EXCEPT !.goal = o.first]
          = [at |-> Len(w.code), does |-> does, goal |-> o.first]
    BY DEF Item
  <2>2. x.meant = Append(w.meant, [Item(Len(w.code), does) EXCEPT !.goal = o.first])
    BY ONLY Zenon DEF EmitLoop
  <2> QED
    BY ONLY <2>1, <2>2, Zenon
<1>7. OperandsFit("LOOP", none)
  <2>1. "LOOP" \in Jumps /\ "LOOP" \in PlainJumps
    BY DEF Jumps, PlainJumps
  <2>2. none \in Seq(Nat) /\ Len(none) = 0
    OBVIOUS
  <2> QED
    BY ONLY <2>1, <2>2, Zenon DEF OperandsFit
<1>8. does \in Seq(Steps) /\ does = Plain("LOOP", none)
  <2>1. "LOOP" \in Ops
    BY DEF Ops, Opcode
  <2>2. does \in Seq(Steps)
    BY ONLY <2>1, WithoutOperands
  <2>3. does = Plain("LOOP", none)
    BY ONLY DEF Plain
  <2> QED
    BY ONLY <2>2, <2>3
<1>9. Append(none, back) = <<back>>
  BY ONLY <1>3
<1>10. o.first \in Nat
  BY ONLY <1>1, o.first \in 1 .. Len(w.meant)
<1> HIDE DEF x, back, does, none
<1>11. JumpAppended(w, x, "LOOP", none, back, does, o.first)
  BY ONLY <1>4, <1>5, <1>6, <1>7, <1>8, <1>9, <1>10, Zenon DEF JumpAppended
<1>12. /\ Good(x) /\ Continues(w, x)
       /\ Len(x.code) = Len(w.code) + Size("LOOP") /\ Len(x.meant) = Len(w.meant) + 1
       /\ x.meant[Len(w.meant) + 1] = [at |-> Len(w.code), does |-> does, goal |-> o.first]
       /\ x.code[Len(w.code) + 1] = Opcode["LOOP"]
       /\ WordAt(x.code, Len(x.code) - 2) = back
  BY ONLY <1>11, Good(w), JumpGood
<1>13. Len(x.code) = Len(w.code) + 3
  <2>1. "LOOP" \in PlainJumps
    BY DEF PlainJumps
  <2>2. Size("LOOP") = 3
    BY ONLY <2>1, Sizes
  <2> QED
    BY ONLY <1>12, <2>2
<1>14. Typed(x)
  BY ONLY <1>12 DEF Good
<1>15. \A i \in 1 .. Len(w.meant) + 1 : Start(x, i) = Start(w, i)
  BY ONLY <1>12, <1>14, Good(w), ContinuesStarts
<1>16. ASSUME NEW i \in 1 .. Len(x.meant)
       PROVE  x.meant[i].goal \in 0 .. Len(x.meant) + 1 /\ GoesToGoal(x, i)
  <2>1. CASE i \in 1 .. Len(w.meant)
    <3>1. w.meant[i].goal \in 0 .. Len(w.meant) + 1 /\ GoesToGoal(w, i)
      BY ONLY <2>1, GoesRight(w) DEF GoesRight
    <3>2. w.meant[i].goal <= Len(w.meant) + 1 /\ w.meant[i].goal \in 0 .. Len(x.meant) + 1
      BY ONLY <1>1, <1>12, <3>1
    <3>3. GoesToGoal(x, i)
      BY ONLY <1>12, <1>14, <2>1, <3>1, <3>2, Good(w), ContinuesGood
    <3>4. x.meant[i] = w.meant[i]
      BY ONLY <1>12, <2>1, Zenon DEF Continues
    <3> QED
      BY ONLY <3>2, <3>3, <3>4, Zenon
  <2>2. CASE i \notin 1 .. Len(w.meant)
    <3>1. i = Len(w.meant) + 1
      BY ONLY <1>1, <1>12, <2>2, i \in 1 .. Len(x.meant)
    <3>2. x.meant[i].goal = o.first
      BY ONLY <1>12, <3>1
    <3>3. Start(x, i + 1) = Len(x.code)
      <4>1. i + 1 = Len(x.meant) + 1
        BY ONLY <1>1, <1>12, <3>1
      <4> QED
        BY ONLY <4>1, Zenon DEF Start
    <3>4. Start(x, i) = Len(w.code)
      BY ONLY <1>12, <3>1, Zenon DEF Continues
    <3>5. Start(x, o.first) = Len(x.code) - back
      <4>1. o.first \in 1 .. Len(w.meant) + 1
        BY ONLY <1>1, o.first \in 1 .. Len(w.meant)
      <4>2. Start(x, o.first) = o.start
        BY ONLY <1>2, <1>15, <4>1
      <4>3. o.start \in Nat /\ back = Len(w.code) + 3 - o.start /\ Len(w.code) \in Nat
        BY ONLY <1>1, <1>2, <1>3
      <4>4. o.start = (Len(w.code) + 3) - back
        BY ONLY <4>3
      <4> QED
        BY ONLY <1>13, <4>2, <4>4
    <3>6. x.code[Start(x, i) + 1] = Opcode["LOOP"] /\ "LOOP" \in Jumps
          /\ Opcode["LOOP"] = Opcode.LOOP
      BY ONLY <1>12, <3>4, LoopGoesBack DEF Jumps, PlainJumps
    <3>7. GoesToGoal(x, i)
      <4>1. Start(x, x.meant[i].goal) = Start(x, i + 1) - WordAt(x.code, Start(x, i + 1) - 2)
        BY ONLY <1>12, <3>2, <3>3, <3>5, Zenon
      <4> QED
        BY ONLY <3>6, <4>1, Zenon DEF GoesToGoal
    <3> QED
      BY ONLY <1>1, <1>12, <3>2, <3>7, o.first \in 1 .. Len(w.meant)
  <2> QED
    BY ONLY <2>1, <2>2
<1>17. GoesRight(x)
  BY ONLY <1>16 DEF GoesRight
<1> QED
  BY ONLY <1>12, <1>13, <1>17 DEF x

-----------------------------------------------------------------------------
(* What holds even when operands do not fit or a peephole is mistaken: the *)
(* code is bytes, and no statement makes it shorter.                       *)

Longer(u, w) ==
    /\ u.code \in Seq(Cells) /\ w.code \in Seq(Cells)
    /\ Len(u.code) \in Nat /\ Len(w.code) \in Nat /\ Len(u.code) <= Len(w.code)

\* The opcode written last was written after u.
Room(u, w) == Longer(u, w) /\ w.last \in Nat /\ Len(u.code) <= w.last /\ w.last <= Len(w.code)

\* Whatever the operands, an instruction only adds bytes.
LEMMA EmitRoom ==
    ASSUME NEW u, NEW v, NEW op, NEW args, Longer(u, v), Shaped(op, args)
    PROVE  Room(u, Emit(v, op, args)) /\ Longer(u, Emit(v, op, args))
<1> DEFINE w == Emit(v, op, args)
           bytes == Bytes(op, args)
<1>1. /\ u.code \in Seq(Cells) /\ v.code \in Seq(Cells)
      /\ Len(u.code) \in Nat /\ Len(v.code) \in Nat /\ Len(u.code) <= Len(v.code)
  BY DEF Longer
<1>2. bytes \in Seq(Cells)
  BY ShapedBytes
<1>3. w.code = v.code \o bytes /\ w.last = Len(v.code)
  BY ONLY Zenon DEF Emit
<1> HIDE DEF w, bytes
<1>4. w.code \in Seq(Cells) /\ Len(w.code) = Len(v.code) + Len(bytes) /\ Len(bytes) \in Nat
  BY ONLY <1>1, <1>2, <1>3, Joined
<1>5. Longer(u, w)
  BY ONLY <1>1, <1>4 DEF Longer
<1>6. Room(u, w)
  BY ONLY <1>1, <1>3, <1>4, <1>5 DEF Room
<1> QED
  BY ONLY <1>5, <1>6 DEF w

\* The instructions used have as many operands as they take.
LEMMA ShapesOf ==
    /\ \A a \in Int : /\ Shaped("GET_LOCAL", <<a>>) /\ Shaped("SET_LOCAL", <<a>>)
                     /\ Shaped("GET_CAPTURE", <<a>>) /\ Shaped("CONSTANT", <<a>>)
    /\ \A a, b \in Int : Shaped("CALL_CONST", <<a, b>>) /\ Shaped("INVOKE_METHOD", <<a, b>>)
    /\ \A a, b, c \in Int : Shaped("GET_LOCAL_ARRAY_FIELD", <<a, b, c>>)
    /\ \A op \in BareOps : Shaped(op, <<>>)
<1>1. /\ \A a \in Int : <<a>> \in Seq(Int) /\ Len(<<a>>) = 1
      /\ \A a, b \in Int : <<a, b>> \in Seq(Int) /\ Len(<<a, b>>) = 2
      /\ \A a, b, c \in Int : <<a, b, c>> \in Seq(Int) /\ Len(<<a, b, c>>) = 3
      /\ <<>> \in Seq(Int) /\ Len(<<>>) = 0
  OBVIOUS
<1>2. ASSUME NEW op \in LocalOps \cup {"CONSTANT"}, NEW a \in Int PROVE Shaped(op, <<a>>)
  BY <1>1, Kinds DEF Shaped
<1>3. ASSUME NEW op \in {"CALL_CONST", "INVOKE_METHOD"}, NEW a \in Int, NEW b \in Int
      PROVE  Shaped(op, <<a, b>>)
  BY <1>1, Kinds DEF Shaped
<1>4. ASSUME NEW a \in Int, NEW b \in Int, NEW c \in Int
      PROVE  Shaped("GET_LOCAL_ARRAY_FIELD", <<a, b, c>>)
  BY <1>1, Kinds DEF Shaped
<1>5. ASSUME NEW op \in BareOps PROVE Shaped(op, <<>>)
  BY <1>1, Kinds DEF Shaped
<1>6. {"GET_LOCAL", "SET_LOCAL", "GET_CAPTURE", "CONSTANT"} \subseteq LocalOps \cup {"CONSTANT"}
  BY DEF LocalOps
<1>7. \A a \in Int : \A op \in {"GET_LOCAL", "SET_LOCAL", "GET_CAPTURE", "CONSTANT"} :
        Shaped(op, <<a>>)
  BY ONLY <1>2, <1>6
<1> QED
  BY ONLY <1>3, <1>4, <1>5, <1>7, Zenon

\* So does the left side of a comparison.
LEMMA LeftRoom ==
    ASSUME NEW u, NEW kind \in LeftSides, Longer(u, u), locals \in Nat, consts \in Nat
    PROVE  Room(u, LeftSide(u, kind)) /\ Longer(u, LeftSide(u, kind))
<1> DEFINE own == Emit(u, "GET_LOCAL", <<Newest>>)
           first == Emit(u, "GET_LOCAL", <<0>>)
           Done(w) == Room(u, w) /\ Longer(u, w)
<1>1. Newest \in Int /\ consts \in Int /\ 0 \in Int /\ 1 \in Int
  BY DEF Newest
<1>2. "ADD_NUM" \in BareOps
  BY DEF BareOps
<1>3. /\ Shaped("GET_LOCAL", <<Newest>>) /\ Shaped("GET_LOCAL", <<0>>)
      /\ Shaped("GET_CAPTURE", <<0>>) /\ Shaped("CONSTANT", <<consts>>)
      /\ Shaped("CALL_CONST", <<consts, 1>>) /\ Shaped("INVOKE_METHOD", <<Newest, 1>>)
      /\ Shaped("GET_LOCAL_ARRAY_FIELD", <<0, Newest, 0>>) /\ Shaped("ADD_NUM", <<>>)
  BY ONLY <1>1, <1>2, ShapesOf, Zenon
<1>4. Longer(u, own) /\ Longer(u, first)
  BY ONLY <1>3, Longer(u, u), EmitRoom
<1> HIDE DEF own, first
<1>5. CASE kind = "local"
  <2>1. Done(Emit(u, "GET_LOCAL", <<Newest>>))
    BY ONLY <1>3, Longer(u, u), EmitRoom
  <2> QED
    BY ONLY <1>5, <2>1 DEF LeftSide
<1>6. CASE kind = "literal"
  <2>1. Done(Emit(u, "CONSTANT", <<consts>>))
    BY ONLY <1>3, Longer(u, u), EmitRoom
  <2> QED
    BY ONLY <1>6, <2>1 DEF LeftSide
<1>7. CASE kind = "captured"
  <2>1. Done(Emit(u, "GET_CAPTURE", <<0>>))
    BY ONLY <1>3, Longer(u, u), EmitRoom
  <2> QED
    BY ONLY <1>7, <2>1 DEF LeftSide
<1>8. CASE kind = "sum"
  <2> DEFINE both == Emit(own, "CONSTANT", <<consts>>)
  <2>1. Longer(u, both)
    BY ONLY <1>3, <1>4, EmitRoom
  <2> HIDE DEF both
  <2>2. Done(Emit(both, "ADD_NUM", <<>>))
    BY ONLY <1>3, <2>1, EmitRoom
  <2> QED
    BY ONLY <1>8, <2>2, Zenon DEF LeftSide, both, own
<1>9. CASE kind = "call"
  <2>1. Done(Emit(own, "CALL_CONST", <<consts, 1>>))
    BY ONLY <1>3, <1>4, EmitRoom
  <2> QED
    BY ONLY <1>9, <2>1, Zenon DEF LeftSide, own
<1>10. CASE kind = "method"
  <2> DEFINE both == Emit(first, "GET_LOCAL", <<Newest>>)
  <2>1. Longer(u, both)
    BY ONLY <1>3, <1>4, EmitRoom
  <2> HIDE DEF both
  <2>2. Done(Emit(both, "INVOKE_METHOD", <<Newest, 1>>))
    BY ONLY <1>3, <2>1, EmitRoom
  <2> QED
    BY ONLY <1>10, <2>2, Zenon DEF LeftSide, both, first
<1>11. CASE kind = "field"
  <2>1. Done(Emit(u, "GET_LOCAL_ARRAY_FIELD", <<0, Newest, 0>>))
    BY ONLY <1>3, Longer(u, u), EmitRoom
  <2> QED
    BY ONLY <1>11, <2>1 DEF LeftSide
<1> QED
  BY <1>5, <1>6, <1>7, <1>8, <1>9, <1>10, <1>11 DEF LeftSides

\* So does a condition.
LEMMA ComparisonRoom ==
    ASSUME NEW u, NEW left \in LeftSides, NEW right \in {"local", "literal", "none"},
           NEW op \in {"LESS_NUM", "GREATER_NUM"}, NEW nots \in Nat, Longer(u, u),
           locals \in Nat, consts \in Nat
    PROVE  Room(u, Comparison(u, left, right, op, nots))
<1> DEFINE onLeft == LeftSide(u, left)
           c == Comparison(u, left, right, op, nots)
<1>1. Room(u, onLeft) /\ Longer(u, onLeft)
  BY LeftRoom
<1> HIDE DEF onLeft
<1>2. PICK v : c = Negated(v, nots) /\ Room(u, v)
  <2>1. CASE right = "none"
    <3>1. c = Negated(onLeft, nots)
      BY ONLY <2>1, Zenon DEF Comparison, onLeft
    <3> QED
      BY ONLY <1>1, <3>1, Zenon
  <2>2. CASE right # "none"
    <3> DEFINE constant == consts + LeftConsts(left)
               onRight == RightSide(onLeft, right, constant)
               w == Emit(onRight, op, <<>>)
    <3>1. Longer(u, onRight)
      <4>1. constant \in Int /\ 0 \in Int
        BY DEF LeftConsts
      <4> HIDE DEF constant
      <4>3. Shaped("GET_LOCAL", <<0>>) /\ Shaped("CONSTANT", <<constant>>)
        BY ONLY <4>1, ShapesOf, Zenon
      <4>4. Longer(u, Emit(onLeft, "GET_LOCAL", <<0>>))
        BY ONLY <1>1, <4>3, EmitRoom
      <4>5. Longer(u, Emit(onLeft, "CONSTANT", <<constant>>))
        BY ONLY <1>1, <4>3, EmitRoom
      <4> QED
        BY ONLY <4>4, <4>5, Zenon DEF RightSide
    <3> HIDE DEF onRight
    <3>2. Room(u, w)
      <4>1. op \in BareOps
        BY DEF BareOps
      <4>2. Shaped(op, <<>>)
        BY ONLY <4>1, ShapesOf
      <4> QED
        BY ONLY <3>1, <4>2, EmitRoom, Zenon
    <3>3. c = Negated(w, nots)
      BY ONLY <2>2, Zenon DEF Comparison, onLeft, onRight
    <3> QED
      BY ONLY <3>2, <3>3, Zenon
  <2> QED
    BY ONLY <2>1, <2>2
<1> DEFINE nothing == [i \in 1 .. nots |-> Opcode.NOT]
<1>3. nothing \in Seq(Cells) /\ Len(nothing) = nots
  <2>1. Opcode.NOT \in Cells
    BY DEF Opcode, Cells
  <2> QED
    BY ONLY <2>1, nots \in Nat
<1>4. /\ Negated(v, nots).code = v.code \o nothing
      /\ Negated(v, nots).last = IF nots = 0 THEN v.last ELSE Len(v.code) + nots - 1
  <2>1. Negated(v, nots).code = v.code \o nothing
    BY ONLY Zenon DEF Negated
  <2>2. Negated(v, nots).last = IF nots = 0 THEN v.last ELSE Len(v.code) + nots - 1
    BY ONLY Zenon DEF Negated
  <2> QED
    BY ONLY <2>1, <2>2
<1> HIDE DEF c, nothing
<1>5. /\ u.code \in Seq(Cells) /\ v.code \in Seq(Cells)
      /\ Len(u.code) \in Nat /\ Len(v.code) \in Nat /\ Len(u.code) <= Len(v.code)
      /\ v.last \in Nat /\ Len(u.code) <= v.last /\ v.last <= Len(v.code)
  BY ONLY <1>2 DEF Room, Longer
<1>6. c.code \in Seq(Cells) /\ Len(c.code) = Len(v.code) + nots
  <2>1. c.code = v.code \o nothing
    BY ONLY <1>2, <1>4
  <2>2. v.code \in Seq(Cells) /\ nothing \in Seq(Cells)
    BY ONLY <1>3, <1>5
  <2>3. c.code \in Seq(Cells) /\ Len(c.code) = Len(v.code) + Len(nothing)
    BY ONLY <2>1, <2>2, Joined
  <2> QED
    BY ONLY <1>3, <2>3
<1>7. Longer(u, c)
  BY ONLY <1>5, <1>6, nots \in Nat DEF Longer
<1>8. c.last \in Nat /\ Len(u.code) <= c.last /\ c.last <= Len(c.code)
  <2>1. c.last = IF nots = 0 THEN v.last ELSE Len(v.code) + nots - 1
    BY ONLY <1>2, <1>4
  <2> QED
    BY ONLY <1>5, <1>6, <2>1, nots \in Nat
<1> QED
  BY ONLY <1>7, <1>8 DEF Room, c

\* A jump in the place of bytes is no shorter than they were.
LEMMA InsteadLonger ==
    ASSUME NEW u, NEW f, NEW dropped, NEW op, NEW operands, NEW does, Longer(u, f),
           Shaped(op, Append(operands, 0)), dropped \in 0 .. Size(op), dropped <= Len(f.code)
    PROVE  Longer(u, JumpInstead(f, dropped, op, operands, does))
<1> DEFINE w == JumpInstead(f, dropped, op, operands, does)
           bytes == Bytes(op, Append(operands, 0))
           kept == SubSeq(f.code, 1, Len(f.code) - dropped)
<1>1. /\ u.code \in Seq(Cells) /\ f.code \in Seq(Cells)
      /\ Len(u.code) \in Nat /\ Len(f.code) \in Nat /\ Len(u.code) <= Len(f.code)
  BY DEF Longer
<1>2. bytes \in Seq(Cells) /\ Len(bytes) = Size(op)
  BY ShapedBytes
<1>3. Size(op) \in Nat
  BY ONLY <1>2
<1>4. kept \in Seq(Cells) /\ Len(kept) = Len(f.code) - dropped
  BY ONLY <1>1, <1>3, dropped \in 0 .. Size(op), dropped <= Len(f.code)
<1>5. w.code = kept \o bytes
  BY ONLY Zenon DEF JumpInstead
<1> HIDE DEF w, bytes, kept
<1>6. w.code \in Seq(Cells) /\ Len(w.code) = Len(kept) + Len(bytes)
  BY ONLY <1>2, <1>4, <1>5, Joined
<1>7. Len(w.code) \in Nat /\ Len(u.code) <= Len(w.code)
  BY ONLY <1>1, <1>2, <1>3, <1>4, <1>6, dropped \in 0 .. Size(op), dropped <= Len(f.code)
<1> QED
  BY ONLY <1>1, <1>6, <1>7 DEF Longer, w

\* Folding a negation takes nothing off that was there before the condition.
LEMMA FoldLonger ==
    ASSUME NEW u, NEW c, NEW asked, Room(u, c)
    PROVE  Longer(u, NotFold(c, asked))
<1> DEFINE f == NotFold(c, asked)
<1>1. /\ u.code \in Seq(Cells) /\ c.code \in Seq(Cells)
      /\ Len(u.code) \in Nat /\ Len(c.code) \in Nat /\ Len(u.code) <= Len(c.code)
      /\ c.last \in Nat /\ Len(u.code) <= c.last /\ c.last <= Len(c.code)
  BY DEF Room, Longer
<1>2. f.code = c.code \/ f.code = SubSeq(c.code, 1, c.last)
  BY ONLY Zenon DEF NotFold
<1>3. SubSeq(c.code, 1, c.last) \in Seq(Cells) /\ Len(SubSeq(c.code, 1, c.last)) = c.last
  BY ONLY <1>1
<1> HIDE DEF f
<1>4. f.code \in Seq(Cells) /\ (Len(f.code) = Len(c.code) \/ Len(f.code) = c.last)
  BY ONLY <1>1, <1>2, <1>3, Zenon
<1> QED
  BY ONLY <1>1, <1>4 DEF Longer, f

\* emitJump, whatever its peepholes see.
LEMMA JumpLonger ==
    ASSUME NEW u, NEW c, NEW asked \in {"JUMP", "JUMP_IF_FALSE_POP"}, Longer(u, NotFold(c, asked))
    PROVE  Longer(u, WithJump(c, asked))
<1> DEFINE f == NotFold(c, asked)
           w == WithJump(c, asked)
           does == <<<<asked, <<>>>>>>
           n == Len(f.code)
           four == <<FromEnd(f.code, 6), FromEnd(f.code, 5), FromEnd(f.code, 4),
                     FromEnd(f.code, 2)>>
           two == <<FromEnd(f.code, 4), FromEnd(f.code, 2)>>
           fieldOp == FusedFieldOp(f.code)
           localOp == FusedLocalOp(f.code, f.op)
           field == JumpInstead(f, 7, fieldOp, four, does)
           both == JumpInstead(f, 5, localOp, two, does)
           plain == JumpInstead(f, 0, f.op, <<>>, does)
<1>1. w = IF ArrayFieldCmp(f.code, f.op) THEN field
          ELSE IF LocalLocalCmp(f.code, f.op) THEN both ELSE plain
  BY ONLY Zenon DEF WithJump
<1>2. f.op \in {"JUMP", "JUMP_IF_FALSE_POP", "JUMP_IF_TRUE_POP"}
  BY DEF NotFold
<1> HIDE DEF f, w, does
<1>3. f.code \in Seq(Cells) /\ n \in Nat
  BY DEF Longer, f
<1>4. /\ FromEnd(f.code, 2) = f.code[n - 1] /\ FromEnd(f.code, 4) = f.code[n - 3]
      /\ FromEnd(f.code, 5) = f.code[n - 4] /\ FromEnd(f.code, 6) = f.code[n - 5]
  BY ONLY <1>3, AtEnd, Zenon
<1>5. \A k \in 1 .. n : f.code[k] \in Int
  <2>1. \A x \in Cells : x \in Int
    BY DEF Cells
  <2> QED
    BY ONLY <1>3, <2>1
<1>9. Longer(u, f)
  BY DEF f
<1> HIDE DEF n
<1>6. CASE ArrayFieldCmp(f.code, f.op)
  <2>1. n >= 7
    BY ONLY <1>6, Zenon DEF ArrayFieldCmp, n
  <2>2. n - 1 \in 1 .. n /\ n - 3 \in 1 .. n /\ n - 4 \in 1 .. n /\ n - 5 \in 1 .. n
    BY ONLY <1>3, <2>1
  <2>3. /\ FromEnd(f.code, 2) \in Int /\ FromEnd(f.code, 4) \in Int /\ FromEnd(f.code, 5) \in Int
        /\ FromEnd(f.code, 6) \in Int
    BY ONLY <1>4, <1>5, <2>2
  <2>4. Append(four, 0) \in Seq(Int) /\ Len(Append(four, 0)) = 5
    BY ONLY <2>3
  <2>5. fieldOp \in FusedFieldJumps
    BY ONLY DEF FusedFieldOp, FusedFieldJumps
  <2> HIDE DEF four, fieldOp
  <2>6. Shaped(fieldOp, Append(four, 0))
    BY ONLY <2>4, <2>5, Kinds DEF Shaped
  <2>7. 7 \in 0 .. Size(fieldOp) /\ 7 <= Len(f.code)
    BY ONLY <1>3, <2>1, <2>5, Sizes DEF n
  <2>8. Longer(u, JumpInstead(f, 7, fieldOp, four, does))
    BY ONLY <2>6, <2>7, <1>9, InsteadLonger
  <2> QED
    BY ONLY <1>1, <1>6, <2>8, Zenon DEF w
<1>7. CASE ~ArrayFieldCmp(f.code, f.op) /\ LocalLocalCmp(f.code, f.op)
  <2>1. n >= 5
    BY ONLY <1>7, Zenon DEF LocalLocalCmp, n
  <2>2. n - 1 \in 1 .. n /\ n - 3 \in 1 .. n
    BY ONLY <1>3, <2>1
  <2>3. FromEnd(f.code, 2) \in Int /\ FromEnd(f.code, 4) \in Int
    BY ONLY <1>4, <1>5, <2>2
  <2>4. Append(two, 0) \in Seq(Int) /\ Len(Append(two, 0)) = 3
    BY ONLY <2>3
  <2>5. localOp \in FusedLocalJumps
    BY ONLY DEF FusedLocalOp, FusedLocalJumps
  <2> HIDE DEF two, localOp
  <2>6. Shaped(localOp, Append(two, 0))
    BY ONLY <2>4, <2>5, Kinds DEF Shaped
  <2>7. 5 \in 0 .. Size(localOp) /\ 5 <= Len(f.code)
    BY ONLY <1>3, <2>1, <2>5, Sizes DEF n
  <2>8. Longer(u, JumpInstead(f, 5, localOp, two, does))
    BY ONLY <2>6, <2>7, <1>9, InsteadLonger
  <2> QED
    BY ONLY <1>1, <1>7, <2>8, Zenon DEF w
<1>8. CASE ~ArrayFieldCmp(f.code, f.op) /\ ~LocalLocalCmp(f.code, f.op)
  <2>1. f.op \in PlainJumps
    BY ONLY <1>2 DEF PlainJumps
  <2>2. Append(<<>>, 0) \in Seq(Int) /\ Len(Append(<<>>, 0)) = 1
    OBVIOUS
  <2>3. Shaped(f.op, Append(<<>>, 0))
    BY ONLY <2>1, <2>2, Kinds DEF Shaped
  <2>4. 0 \in 0 .. Size(f.op) /\ 0 <= Len(f.code)
    BY ONLY <1>3, <2>1, Sizes DEF n
  <2>5. Longer(u, JumpInstead(f, 0, f.op, <<>>, does))
    BY ONLY <2>3, <2>4, <1>9, InsteadLonger, Zenon
  <2> QED
    BY ONLY <1>1, <1>8, <2>5, Zenon DEF w
<1> QED
  BY ONLY <1>6, <1>7, <1>8

\* patchJump.
LEMMA LeadLonger ==
    ASSUME NEW u, NEW w, NEW o, Longer(u, w), o.hole \in Int
    PROVE  Longer(u, LeadHere(w, o))
<1> DEFINE p == LeadHere(w, o)
           d == Distance(w.code, o.hole)
           h == High(d)
           l == Low(d)
           a == o.hole + 1
           b == o.hole + 2
<1>1. /\ u.code \in Seq(Cells) /\ w.code \in Seq(Cells)
      /\ Len(u.code) \in Nat /\ Len(w.code) \in Nat /\ Len(u.code) <= Len(w.code)
  BY DEF Longer
<1>2. d \in Int
  BY ONLY <1>1, o.hole \in Int DEF Distance
<1>3. h \in Cells /\ l \in Cells
  BY ONLY <1>2, HalvesAreBytes
<1>4. p.code = [w.code EXCEPT ![a] = h, ![b] = l]
  BY ONLY Zenon DEF LeadHere, Patched
<1>5. a \in Int /\ b \in Int
  BY ONLY o.hole \in Int
<1> HIDE DEF p, d, h, l, a, b
<1>6. p.code \in Seq(Cells) /\ Len(p.code) = Len(w.code)
  <2>1. \A s \in Seq(Cells), x \in Cells, i \in Int :
          [s EXCEPT ![i] = x] \in Seq(Cells) /\ Len([s EXCEPT ![i] = x]) = Len(s)
    <3> SUFFICES ASSUME NEW s \in Seq(Cells), NEW x \in Cells, NEW i \in Int
                 PROVE  [s EXCEPT ![i] = x] \in Seq(Cells) /\ Len([s EXCEPT ![i] = x]) = Len(s)
      OBVIOUS
    <3>1. s \in [1 .. Len(s) -> Cells] /\ Len(s) \in Nat
      BY ONLY s \in Seq(Cells)
    <3> DEFINE r == [s EXCEPT ![i] = x]
    <3>2. r \in [1 .. Len(s) -> Cells]
      BY ONLY <3>1, x \in Cells, Zenon
    <3> HIDE DEF r
    <3>3. r \in Seq(Cells) /\ Len(r) = Len(s)
      BY ONLY <3>1, <3>2, IsSequence
    <3> QED
      BY ONLY <3>3 DEF r
  <2> DEFINE q == [w.code EXCEPT ![a] = h]
  <2>2. p.code = [q EXCEPT ![b] = l]
    BY ONLY <1>4
  <2>3. q \in Seq(Cells) /\ Len(q) = Len(w.code)
    BY ONLY <1>1, <1>3, <1>5, <2>1
  <2> HIDE DEF q
  <2>4. [q EXCEPT ![b] = l] \in Seq(Cells) /\ Len([q EXCEPT ![b] = l]) = Len(q)
    BY ONLY <1>3, <1>5, <2>1, <2>3
  <2> QED
    BY ONLY <2>2, <2>3, <2>4
<1> QED
  BY ONLY <1>1, <1>6 DEF Longer, p

\* emitLoop.
LEMMA LoopLonger ==
    ASSUME NEW u, NEW w, NEW o, Longer(u, w), o.start \in Int
    PROVE  Longer(u, EmitLoop(w, o)) /\ Len(EmitLoop(w, o).code) = Len(w.code) + 3
<1> DEFINE x == EmitLoop(w, o)
           bytes == Bytes("LOOP", <<Back(w.code, o.start)>>)
<1>1. /\ u.code \in Seq(Cells) /\ w.code \in Seq(Cells)
      /\ Len(u.code) \in Nat /\ Len(w.code) \in Nat /\ Len(u.code) <= Len(w.code)
  BY DEF Longer
<1>2. Back(w.code, o.start) \in Int
  BY ONLY <1>1, o.start \in Int DEF Back
<1>3. bytes \in Seq(Cells) /\ Len(bytes) = 3
  <2>1. "LOOP" \in PlainJumps /\ "LOOP" \in Ops
    BY DEF PlainJumps, Ops, Opcode
  <2>2. <<Back(w.code, o.start)>> \in Seq(Int) /\ Len(<<Back(w.code, o.start)>>) = 1
    BY ONLY <1>2
  <2>3. Shaped("LOOP", <<Back(w.code, o.start)>>)
    BY ONLY <2>1, <2>2, Zenon DEF Shaped
  <2>4. Size("LOOP") = 3
    BY ONLY <2>1, Sizes
  <2>5. bytes \in Seq(Cells) /\ Len(bytes) = Size("LOOP")
    BY ONLY <2>3, ShapedBytes, Zenon
  <2> QED
    BY ONLY <2>4, <2>5, Zenon
<1>4. x.code = w.code \o bytes
  BY ONLY Zenon DEF EmitLoop
<1> HIDE DEF x, bytes
<1>5. x.code \in Seq(Cells) /\ Len(x.code) = Len(w.code) + Len(bytes)
  <2>1. w.code \in Seq(Cells) /\ bytes \in Seq(Cells)
    BY ONLY <1>1, <1>3
  <2> QED
    BY ONLY <1>4, <2>1, Joined
<1>6. Len(x.code) = Len(w.code) + 3 /\ Len(x.code) \in Nat /\ Len(u.code) <= Len(x.code)
  BY ONLY <1>1, <1>3, <1>5
<1> QED
  BY ONLY <1>1, <1>5, <1>6 DEF Longer, x

-----------------------------------------------------------------------------
(* The inductive invariant *)

Statements(S) == [kind : {"if", "else", "loop"}, hole : Int, from : S, start : Nat, first : S]

\* Whatever the operands are.
Shape ==
    /\ code \in Seq(Cells) /\ consts \in Nat /\ locals \in Nat /\ tests \in Nat
    /\ misread \in BOOLEAN
    /\ tests # 0 => locals # 0
    /\ \E S : open \in Seq(Statements(S))

\* The listing is what the code says, and the statements begun wait for their ends.
Sound ==
    /\ Good(Chunk) /\ GoesRight(Chunk)
    /\ \A k \in 1 .. Len(open) : Pending(Chunk, open[k])

IInv == Shape /\ (Fits /\ ~misread => Sound)

\* Read from the first byte, a sound chunk is its listing.
LEMMA SoundSays ==
    ASSUME Sound
    PROVE  SaysWhatIsMeant
<1>1. Good(Chunk) /\ GoesRight(Chunk)
  BY DEF Sound
<1>2. Len(Chunk.meant) = Len(meant)
  BY DEF Chunk
<1>3. Start(Chunk, 1) = 0 /\ \A i \in 1 .. Len(meant) : IsWritten(Chunk, i)
  BY ONLY <1>1, <1>2 DEF Good
<1>4. \A i \in 1 .. Len(meant) : GoesToGoal(Chunk, i)
  BY ONLY <1>1, <1>2 DEF GoesRight
<1> QED
  BY ONLY <1>3, <1>4 DEF SaysWhatIsMeant

\* The inductive invariant is about what the run checks.
LEMMA IInvSays == IInv => DecodesAsMeant
BY SoundSays DEF IInv, DecodesAsMeant

\* Nothing written yet is what was meant.
LEMMA InitInv == Init => IInv
<1> SUFFICES ASSUME Init PROVE IInv
  OBVIOUS
<1>1. /\ code = <<>> /\ meant = <<>> /\ consts = 0 /\ locals = 0 /\ open = <<>> /\ tests = 0
      /\ misread = FALSE
  BY DEF Init
<1>2. Shape
  <2> DEFINE none == {}
  <2> HIDE DEF none
  <2>1. open \in Seq(Statements(none))
    <3>1. \A R : <<>> \in Seq(R)
      OBVIOUS
    <3>2. open = <<>>
      BY ONLY <1>1
    <3> QED
      BY ONLY <3>1, <3>2, Zenon
  <2> QED
    <3>1. <<>> \in Seq(Cells) /\ 0 \in Nat /\ FALSE \in BOOLEAN
      OBVIOUS
    <3>2. /\ code \in Seq(Cells) /\ consts \in Nat /\ locals \in Nat /\ tests \in Nat
          /\ misread \in BOOLEAN /\ tests = 0
      BY ONLY <1>1, <3>1, Zenon
    <3>3. tests # 0 => locals # 0
      BY ONLY <3>2
    <3>4. \E S : open \in Seq(Statements(S))
      BY ONLY <2>1, Zenon
    <3> QED
      BY ONLY <3>2, <3>3, <3>4 DEF Shape
<1>3. Sound
  <2>1. /\ Chunk.code = <<>> /\ Chunk.meant = <<>> /\ Len(Chunk.meant) = 0 /\ Len(Chunk.code) = 0
        /\ Len(open) = 0
    BY <1>1 DEF Chunk
  <2>2. 1 .. Len(Chunk.meant) = {} /\ 1 .. Len(open) = {}
    BY ONLY <2>1
  <2>3. Typed(Chunk) /\ Start(Chunk, 1) = 0
    BY ONLY <2>1 DEF Typed, Start
  <2>4. Good(Chunk) /\ GoesRight(Chunk)
    BY ONLY <2>2, <2>3 DEF Good, GoesRight
  <2> QED
    BY ONLY <2>2, <2>4 DEF Sound
<1> QED
  BY ONLY <1>2, <1>3 DEF IInv

-----------------------------------------------------------------------------
(* What a chunk becomes *)

Whole(w) == w = [code |-> w.code, last |-> w.last, meant |-> w.meant]

\* The chunk of a step is the one that the handler returns.
LEMMA BecomesIs ==
    ASSUME NEW w, Whole(w), Becomes(w)
    PROVE  Chunk' = w
BY DEF Whole, Becomes, Chunk

\* What the operations return has a chunk's fields and no other.
LEMMA ChunksAreWhole ==
    /\ \A v, op, args : Whole(Emit(v, op, args))
    /\ \A v, o : Whole(LeadHere(v, o))
    /\ \A v, asked : Whole(WithJump(v, asked))
<1>1. \A v, op, args : Whole(Emit(v, op, args))
  BY DEF Emit, Whole
<1>2. \A v, o : Whole(LeadHere(v, o))
  BY DEF LeadHere, Whole
<1>3. \A f, dropped, op, operands, does : Whole(JumpInstead(f, dropped, op, operands, does))
  BY DEF JumpInstead, Whole
<1>4. \A v, asked : Whole(WithJump(v, asked))
  BY ONLY <1>3, Zenon DEF WithJump
<1> QED
  BY ONLY <1>1, <1>2, <1>4

\* Operands that fit, have fitted all along.
LEMMA FitsBefore ==
    ASSUME Shape, Shape', Len(code) <= Len(code'), locals <= locals', consts <= consts', Fits'
    PROVE  Fits
BY DEF Shape, Fits, Byte

\* What each action has to show.
LEMMA Stepping ==
    ASSUME IInv, Shape', Len(code) <= Len(code'), locals <= locals', consts <= consts',
           ~misread' => ~misread, Fits /\ Sound /\ Fits' /\ ~misread' => Sound'
    PROVE  IInv'
BY FitsBefore DEF IInv

\* A sequence over a set is one over a larger set.
LEMMA Wider ==
    ASSUME NEW A, NEW B, A \subseteq B, NEW s, s \in Seq(A)
    PROVE  /\ s \in Seq(B)
           /\ \A x \in B : Append(s, x) \in Seq(B)
           /\ Len(s) > 0 => SubSeq(s, 1, Len(s) - 1) \in Seq(B)
<1>1. s \in Seq(B)
  BY ONLY A \subseteq B, s \in Seq(A)
<1> QED
  BY ONLY <1>1

\* The statements that wait in a chunk.
Waiting(w) == \A k \in 1 .. Len(open) : Pending(w, open[k])

\* The chunk that a step starts from.
LEMMA ShapeOfChunk ==
    ASSUME Shape
    PROVE  Chunk.code = code /\ Longer(Chunk, Chunk) /\ Chunk.meant = meant
BY DEF Shape, Chunk, Longer

\* A declaration.
LEMMA LetInv ==
    ASSUME IInv, Let
    PROVE  IInv'
<1> DEFINE v == Emit(Chunk, "CONSTANT", <<consts>>)
           w == Emit(v, "SET_LOCAL", <<locals>>)
<1>1. /\ Becomes(w) /\ consts' = consts + 1 /\ locals' = locals + 1
      /\ open' = open /\ tests' = tests /\ misread' = misread
  BY DEF Let
<1>2. Shape /\ Chunk.code = code /\ Longer(Chunk, Chunk)
  BY ShapeOfChunk DEF IInv
<1>3. consts \in Nat /\ locals \in Nat
  BY ONLY <1>2 DEF Shape
<1>4. Chunk' = w /\ code' = w.code
  <2>1. Whole(w)
    BY ONLY ChunksAreWhole, Zenon
  <2> HIDE DEF w
  <2> QED
    BY ONLY <1>1, <2>1, BecomesIs DEF Becomes
<1>5. Longer(Chunk, w)
  <2>1. Shaped("CONSTANT", <<consts>>) /\ Shaped("SET_LOCAL", <<locals>>)
    <3>1. consts \in Int /\ locals \in Int
      BY ONLY <1>3
    <3> QED
      BY ONLY <3>1, ShapesOf, Zenon
  <2>2. Longer(Chunk, v)
    BY ONLY <1>2, <2>1, EmitRoom, Zenon
  <2> HIDE DEF v
  <2> QED
    BY ONLY <2>1, <2>2, EmitRoom, Zenon
<1> HIDE DEF w
<1>6. code' \in Seq(Cells) /\ Len(code) <= Len(code')
  BY ONLY <1>2, <1>4, <1>5 DEF Longer
<1>7. Shape'
  <2>1. /\ consts' \in Nat /\ locals' \in Nat /\ locals' # 0
    BY ONLY <1>1, <1>3
  <2> QED
    BY ONLY <1>1, <1>2, <1>6, <2>1, Zenon DEF Shape
<1>8. ASSUME Fits', Sound
      PROVE  Sound'
  <2>1. consts \in Words /\ locals \in Cells
    BY ONLY <1>1, <1>3, <1>8 DEF Fits, Byte, Words, Cells
  <2>2. Typed(Chunk) /\ Good(Chunk) /\ GoesRight(Chunk) /\ Waiting(Chunk)
    BY ONLY <1>8 DEF Sound, Good, Waiting
  <2>3. ArgsFit("CONSTANT", <<consts>>) /\ ArgsFit("SET_LOCAL", <<locals>>)
    <3>1. "SET_LOCAL" \in LocalOps
      BY DEF LocalOps
    <3> QED
      BY ONLY <2>1, <3>1, ArgsOf, Zenon
  <2>4. Extends(Chunk, Chunk)
    BY ONLY <2>2, ExtendsItself
  <2>5. Extends(Chunk, v)
    BY ONLY <2>2, <2>3, <2>4, EmitMore
  <2> HIDE DEF v
  <2>6. Extends(Chunk, w)
    BY ONLY <2>2, <2>3, <2>5, EmitMore DEF w
  <2>7. Good(w) /\ Typed(w) /\ Continues(Chunk, w)
    BY ONLY <2>6 DEF Extends, Good
  <2>8. GoesRight(w)
    BY ONLY <2>2, <2>6, ExtendsRight
  <2>9. SamePlaces(Chunk, w)
    BY ONLY <2>2, <2>7, ContinuesPlaces
  <2>10. Waiting(w)
    BY ONLY <2>2, <2>9, StaysPending DEF Waiting
  <2> QED
    BY ONLY <1>1, <1>4, <2>7, <2>8, <2>10 DEF Sound, Waiting
<1>9. Len(code) <= Len(code') /\ locals <= locals' /\ consts <= consts' /\ (~misread' => ~misread)
  BY ONLY <1>1, <1>3, <1>6
<1> QED
  BY ONLY IInv, <1>7, <1>8, <1>9, Stepping

\* Statements are begun and ended, one more or one less.
LEMMA OpenShape ==
    ASSUME Shape, NEW x, NEW A, x \in Statements(A),
           open' = Append(open, x) \/ (open # <<>> /\ open' = Rest)
             \/ (open # <<>> /\ open' = Append(Rest, x))
    PROVE  \E S : open' \in Seq(Statements(S))
<1>1. PICK S : open \in Seq(Statements(S))
  BY DEF Shape
<1> DEFINE T == S \cup A
<1>2. Statements(S) \subseteq Statements(T) /\ Statements(A) \subseteq Statements(T)
  BY DEF Statements
<1> HIDE DEF T
<1> DEFINE more == Statements(T)
<1>3. x \in more
  BY ONLY <1>2, x \in Statements(A)
<1>4. /\ open \in Seq(more) /\ Append(open, x) \in Seq(more)
      /\ Len(open) > 0 => SubSeq(open, 1, Len(open) - 1) \in Seq(more)
  <2>1. Statements(S) \subseteq more
    BY ONLY <1>2
  <2> HIDE DEF more
  <2> QED
    BY ONLY <1>1, <1>3, <2>1, Wider
<1> HIDE DEF more
<1>5. open # <<>> => Len(open) > 0
  BY ONLY <1>4
<1>6. open # <<>> => Rest \in Seq(more)
  BY ONLY <1>4, <1>5 DEF Rest
<1>7. open # <<>> => Append(Rest, x) \in Seq(more)
  BY ONLY <1>3, <1>6
<1>8. open' \in Seq(more)
  BY ONLY <1>4, <1>6, <1>7, open' = Append(open, x) \/ (open # <<>> /\ open' = Rest)
                              \/ (open # <<>> /\ open' = Append(Rest, x)), Zenon
<1> QED
  BY ONLY <1>8 DEF more

\* The statement begun last.
LEMMA InnermostIs ==
    ASSUME Shape, open # <<>>
    PROVE  /\ Len(open) \in Nat \ {0} /\ Innermost = open[Len(open)]
           /\ Innermost.hole \in Int /\ Innermost.start \in Nat
           /\ \E A : Innermost \in Statements(A)
           /\ Len(Rest) = Len(open) - 1 /\ \A k \in 1 .. Len(open) - 1 : Rest[k] = open[k]
<1>1. PICK S : open \in Seq(Statements(S))
  BY DEF Shape
<1>2. Len(open) \in Nat \ {0}
  BY ONLY <1>1, open # <<>>
<1>3. Innermost \in Statements(S)
  BY ONLY <1>1, <1>2 DEF Innermost
<1>4. Innermost.hole \in Int /\ Innermost.start \in Nat
  BY ONLY <1>3 DEF Statements
<1>5. Len(Rest) = Len(open) - 1 /\ \A k \in 1 .. Len(open) - 1 : Rest[k] = open[k]
  <2> DEFINE n == Len(open) - 1
  <2>1. n \in Nat /\ n <= Len(open)
    BY ONLY <1>2
  <2> HIDE DEF n
  <2>2. Len(SubSeq(open, 1, n)) = n /\ \A k \in 1 .. n : SubSeq(open, 1, n)[k] = open[k]
    BY ONLY <1>1, <2>1
  <2> QED
    BY ONLY <2>2 DEF n, Rest
<1> QED
  BY ONLY <1>2, <1>3, <1>4, <1>5 DEF Innermost

\* What waits goes on waiting in a chunk that has everything in the same places.
LEMMA StaysWaiting ==
    ASSUME NEW v, NEW w, SamePlaces(v, w), Waiting(v)
    PROVE  Waiting(w)
BY StaysPending DEF Waiting

\* The end of an if or of its else: its jump leads here.
LEMMA EndIfInv ==
    ASSUME IInv, EndIf
    PROVE  IInv'
<1> DEFINE p == LeadHere(Chunk, Innermost)
<1>1. /\ open # <<>> /\ Becomes(p) /\ open' = Rest /\ consts' = consts /\ locals' = locals
      /\ tests' = tests /\ misread' = misread
  BY DEF EndIf
<1>2. Shape /\ Chunk.code = code /\ Longer(Chunk, Chunk)
  BY ShapeOfChunk DEF IInv
<1>3. /\ Len(open) \in Nat \ {0} /\ Innermost = open[Len(open)] /\ Innermost.hole \in Int
      /\ Len(Rest) = Len(open) - 1 /\ \A k \in 1 .. Len(open) - 1 : Rest[k] = open[k]
  BY ONLY <1>1, <1>2, InnermostIs
<1>4. Chunk' = p /\ code' = p.code
  <2>1. Whole(p)
    BY ONLY ChunksAreWhole, Zenon
  <2> HIDE DEF p
  <2> QED
    BY ONLY <1>1, <2>1, BecomesIs DEF Becomes
<1>5. Longer(Chunk, p)
  BY ONLY <1>2, <1>3, LeadLonger
<1>6. code' \in Seq(Cells) /\ Len(code) <= Len(code')
  <2> HIDE DEF p
  <2> QED
    BY ONLY <1>2, <1>4, <1>5 DEF Longer
<1>7. Shape'
  <2>1. PICK A : Innermost \in Statements(A)
    BY ONLY <1>1, <1>2, InnermostIs
  <2>2. \E S : open' \in Seq(Statements(S))
    BY ONLY <1>1, <1>2, <2>1, OpenShape
  <2> QED
    BY ONLY <1>1, <1>2, <1>6, <2>2, Zenon DEF Shape
<1>8. ASSUME Fits, Sound
      PROVE  Sound'
  <2>1. Good(Chunk) /\ GoesRight(Chunk) /\ Waiting(Chunk) /\ Len(Chunk.code) < 65536
    BY ONLY <1>2, <1>8 DEF Sound, Fits, Byte, Waiting
  <2>2. Pending(Chunk, Innermost)
    BY ONLY <1>3, <2>1 DEF Waiting
  <2>3. Good(p) /\ GoesRight(p) /\ SamePlaces(Chunk, p)
    BY ONLY <2>1, <2>2, LeadHereGood
  <2> HIDE DEF p
  <2>4. Waiting(p)
    BY ONLY <2>1, <2>3, StaysWaiting
  <2>5. \A k \in 1 .. Len(open') : Pending(p, open'[k])
    BY ONLY <1>1, <1>3, <2>4 DEF Waiting
  <2> QED
    BY ONLY <1>4, <2>3, <2>5 DEF Sound
<1>9. Len(code) <= Len(code') /\ locals <= locals' /\ consts <= consts' /\ (~misread' => ~misread)
  BY ONLY <1>1, <1>2, <1>6 DEF Shape
<1> QED
  BY ONLY IInv, <1>7, <1>8, <1>9, Stepping

\* The end of a loop: back to its condition, which leads here.
LEMMA EndLoopInv ==
    ASSUME IInv, EndLoop
    PROVE  IInv'
<1> DEFINE x == EmitLoop(Chunk, Innermost)
           p == LeadHere(x, Innermost)
<1>1. /\ open # <<>> /\ Innermost.kind = "loop" /\ Becomes(p) /\ open' = Rest
      /\ consts' = consts /\ locals' = locals /\ tests' = tests /\ misread' = misread
  BY DEF EndLoop
<1>2. Shape /\ Chunk.code = code /\ Longer(Chunk, Chunk)
  BY ShapeOfChunk DEF IInv
<1>3. /\ Len(open) \in Nat \ {0} /\ Innermost = open[Len(open)] /\ Innermost.hole \in Int
      /\ Innermost.start \in Nat
      /\ Len(Rest) = Len(open) - 1 /\ \A k \in 1 .. Len(open) - 1 : Rest[k] = open[k]
  BY ONLY <1>1, <1>2, InnermostIs
<1>4. Chunk' = p /\ code' = p.code
  <2>1. Whole(p)
    BY ONLY ChunksAreWhole, Zenon
  <2> HIDE DEF p
  <2> QED
    BY ONLY <1>1, <2>1, BecomesIs DEF Becomes
<1>5. Longer(Chunk, p) /\ Len(x.code) = Len(code) + 3
  <2>1. Innermost.start \in Int
    BY ONLY <1>3
  <2>2. Longer(Chunk, x) /\ Len(x.code) = Len(code) + 3
    BY ONLY <1>2, <2>1, LoopLonger
  <2> HIDE DEF x
  <2>3. Longer(Chunk, p)
    BY ONLY <1>3, <2>2, LeadLonger
  <2> QED
    BY ONLY <2>2, <2>3
<1>6. code' \in Seq(Cells) /\ Len(code) <= Len(code')
  <2> HIDE DEF p, x
  <2> QED
    BY ONLY <1>2, <1>4, <1>5 DEF Longer
<1>7. Shape'
  <2>1. PICK A : Innermost \in Statements(A)
    BY ONLY <1>1, <1>2, InnermostIs
  <2>2. \E S : open' \in Seq(Statements(S))
    BY ONLY <1>1, <1>2, <2>1, OpenShape
  <2> QED
    BY ONLY <1>1, <1>2, <1>6, <2>2, Zenon DEF Shape
<1>8. ASSUME Fits', Sound
      PROVE  Sound'
  <2>1. Good(Chunk) /\ GoesRight(Chunk) /\ Waiting(Chunk)
    BY ONLY <1>8 DEF Sound, Waiting
  <2>2. Pending(Chunk, Innermost)
    BY ONLY <1>3, <2>1 DEF Waiting
  <2>3. /\ Innermost.first \in 1 .. Len(Chunk.meant)
        /\ Innermost.start = Chunk.meant[Innermost.first].at
    BY ONLY <1>1, <2>2 DEF Pending
  <2>4. Len(code') < 65536
    BY ONLY <1>8 DEF Fits, Byte
  <2>5. Len(code) + 3 < 65536
    <3>1. Len(p.code) = Len(x.code)
      <4>1. p.code = Patched(x.code, Innermost.hole)
        BY ONLY Zenon DEF LeadHere
      <4> HIDE DEF p, x
      <4>2. Len(Patched(x.code, Innermost.hole)) = Len(x.code)
        BY DEF Patched
      <4> QED
        BY ONLY <4>1, <4>2
    <3> HIDE DEF p, x
    <3> QED
      BY ONLY <1>4, <1>5, <2>4, <3>1
  <2>6. Good(x) /\ GoesRight(x) /\ Continues(Chunk, x)
    BY ONLY <1>2, <2>1, <2>3, <2>5, EmitLoopGood
  <2>7. Len(x.code) < 65536
    BY ONLY <1>5, <2>5
  <2> HIDE DEF x
  <2>8. SamePlaces(Chunk, x)
    BY ONLY <2>1, <2>6, ContinuesPlaces DEF Good
  <2>9. Waiting(x) /\ Pending(x, Innermost)
    BY ONLY <2>1, <2>2, <2>8, StaysWaiting, StaysPending
  <2>10. Good(p) /\ GoesRight(p) /\ SamePlaces(x, p)
    BY ONLY <2>6, <2>7, <2>9, LeadHereGood
  <2> HIDE DEF p
  <2>11. Waiting(p)
    BY ONLY <2>9, <2>10, StaysWaiting
  <2>12. \A k \in 1 .. Len(open') : Pending(p, open'[k])
    BY ONLY <1>1, <1>3, <2>11 DEF Waiting
  <2> QED
    BY ONLY <1>4, <2>10, <2>12 DEF Sound
<1>9. Len(code) <= Len(code') /\ locals <= locals' /\ consts <= consts' /\ (~misread' => ~misread)
  BY ONLY <1>1, <1>2, <1>6 DEF Shape
<1> QED
  BY ONLY IInv, <1>7, <1>8, <1>9, Stepping

\* A jump written last, and what waits for it to be filled in.
LEMMA LastPends ==
    ASSUME NEW w, NEW o, Good(w), EndsInJump(w), o.from = Len(w.meant), o.hole = Len(w.code) - 2,
           o.kind = "loop" => o.first \in 1 .. Len(w.meant) /\ o.start = w.meant[o.first].at
    PROVE  Pending(w, o)
<1>1. Len(w.meant) \in Nat \ {0}
  BY DEF EndsInJump
<1>2. o.from \in 1 .. Len(w.meant)
  BY ONLY <1>1, o.from = Len(w.meant)
<1>3. Start(w, o.from) = w.meant[Len(w.meant)].at /\ Start(w, o.from + 1) = Len(w.code)
  BY ONLY <1>1, <1>2, Good(w), Starts, o.from = Len(w.meant)
<1>4. \E op \in Jumps \ {"LOOP"} : w.code[Start(w, o.from) + 1] = Opcode[op]
  BY ONLY <1>3, EndsInJump(w) DEF EndsInJump
<1>5. o.hole = Start(w, o.from + 1) - 2
  BY ONLY <1>3, o.hole = Len(w.code) - 2
<1> QED
  BY ONLY <1>2, <1>4, <1>5, o.kind = "loop" => o.first \in 1 .. Len(w.meant)
                                               /\ o.start = w.meant[o.first].at DEF Pending

\* A statement begun, once its else is.
Reused(old, hole, from) == [old EXCEPT !.kind = "else", !.hole = hole, !.from = from]

\* It is a statement begun.
LEMMA ReusedShape ==
    ASSUME NEW A, NEW old, old \in Statements(A), NEW hole, hole \in Int, NEW from
    PROVE  /\ Reused(old, hole, from) \in Statements(A \cup {from})
           /\ Reused(old, hole, from).kind = "else"
           /\ Reused(old, hole, from).hole = hole /\ Reused(old, hole, from).from = from
<1> DEFINE S == A \cup {from}
<1>1. old \in Statements(S) /\ from \in S
  BY ONLY old \in Statements(A) DEF Statements
<1> HIDE DEF S
<1>2. Reused(old, hole, from) \in Statements(S)
  BY ONLY <1>1, hole \in Int, Zenon DEF Statements, Reused
<1>3. /\ Reused(old, hole, from).kind = "else"
      /\ Reused(old, hole, from).hole = hole /\ Reused(old, hole, from).from = from
  BY ONLY <1>1 DEF Statements, Reused
<1> QED
  BY ONLY <1>2, <1>3 DEF S

\* An else: a jump over it, and the condition of the if leads here.
LEMMA ElseInv ==
    ASSUME IInv, Else
    PROVE  IInv'
<1> DEFINE jump == WithJump(Chunk, "JUMP")
           p == LeadHere(jump, Innermost)
           next == Reused(Innermost, Len(jump.code) - 2, Len(jump.meant))
<1>1. /\ open # <<>> /\ Becomes(p) /\ open' = Append(Rest, next)
      /\ consts' = consts /\ locals' = locals /\ tests' = tests /\ misread' = misread
  BY DEF Else, Reused
<1>2. Shape /\ Chunk.code = code /\ Longer(Chunk, Chunk)
  BY ShapeOfChunk DEF IInv
<1>3. /\ Len(open) \in Nat \ {0} /\ Innermost = open[Len(open)] /\ Innermost.hole \in Int
      /\ Len(Rest) = Len(open) - 1 /\ \A k \in 1 .. Len(open) - 1 : Rest[k] = open[k]
  BY ONLY <1>1, <1>2, InnermostIs
<1>4. Chunk' = p /\ code' = p.code
  <2>1. Whole(p)
    BY ONLY ChunksAreWhole, Zenon
  <2> HIDE DEF p
  <2> QED
    BY ONLY <1>1, <2>1, BecomesIs DEF Becomes
<1>5. Longer(Chunk, jump) /\ Longer(Chunk, p) /\ Len(p.code) = Len(jump.code)
  <2>1. NotFold(Chunk, "JUMP").code = Chunk.code
    BY DEF NotFold
  <2>2. Longer(Chunk, NotFold(Chunk, "JUMP"))
    BY ONLY <1>2, <2>1 DEF Longer
  <2>3. Longer(Chunk, jump)
    BY ONLY <2>2, JumpLonger
  <2>4. p.code = Patched(jump.code, Innermost.hole)
    BY ONLY Zenon DEF LeadHere
  <2> HIDE DEF jump
  <2>5. Longer(Chunk, p)
    BY ONLY <1>3, <2>3, LeadLonger
  <2> HIDE DEF p
  <2>6. Len(Patched(jump.code, Innermost.hole)) = Len(jump.code)
    BY DEF Patched
  <2> QED
    BY ONLY <2>3, <2>4, <2>5, <2>6
<1>6. /\ code' \in Seq(Cells) /\ Len(code) <= Len(code')
      /\ Len(jump.code) \in Nat /\ Len(code') = Len(jump.code)
  <2> HIDE DEF p, jump
  <2> QED
    BY ONLY <1>2, <1>4, <1>5 DEF Longer
<1>7. PICK A : Innermost \in Statements(A)
  BY ONLY <1>1, <1>2, InnermostIs
<1>8. /\ next \in Statements(A \cup {Len(jump.meant)})
      /\ next.kind = "else" /\ next.hole = Len(jump.code) - 2 /\ next.from = Len(jump.meant)
  <2> DEFINE old == Innermost
             hole == Len(jump.code) - 2
             from == Len(jump.meant)
  <2>1. old \in Statements(A) /\ hole \in Int
    BY ONLY <1>6, <1>7
  <2> HIDE DEF old, hole, from
  <2>2. /\ Reused(old, hole, from) \in Statements(A \cup {from})
        /\ Reused(old, hole, from).kind = "else"
        /\ Reused(old, hole, from).hole = hole /\ Reused(old, hole, from).from = from
    BY ONLY <2>1, ReusedShape
  <2> QED
    BY ONLY <2>2, Zenon DEF old, hole, from
<1> HIDE DEF next
<1>9. Shape'
  <2>1. \E S : open' \in Seq(Statements(S))
    BY ONLY <1>1, <1>2, <1>8, OpenShape
  <2> QED
    BY ONLY <1>1, <1>2, <1>6, <2>1, Zenon DEF Shape
<1>10. /\ Len(open') = Len(open) /\ open'[Len(open)] = next
       /\ \A k \in 1 .. Len(open) - 1 : open'[k] = open[k]
  <2>1. PICK S : open \in Seq(Statements(S))
    BY ONLY <1>2 DEF Shape
  <2> DEFINE more == Statements(S \cup (A \cup {Len(jump.meant)}))
  <2>2. Statements(S) \subseteq more /\ next \in more
    BY ONLY <1>8 DEF Statements
  <2> HIDE DEF more
  <2>3. Rest \in Seq(more)
    <3>1. Len(open) > 0
      BY ONLY <1>3
    <3> QED
      BY ONLY <2>1, <2>2, <3>1, Wider DEF Rest
  <2>4. /\ Len(Append(Rest, next)) = Len(Rest) + 1 /\ Append(Rest, next)[Len(Rest) + 1] = next
        /\ \A k \in 1 .. Len(Rest) : Append(Rest, next)[k] = Rest[k]
    BY ONLY <2>2, <2>3
  <2>5. Len(Rest) + 1 = Len(open)
    BY ONLY <1>3
  <2> QED
    BY ONLY <1>1, <1>3, <2>4, <2>5
<1>11. ASSUME Fits', Sound
       PROVE  Sound'
  <2>1. Good(Chunk) /\ GoesRight(Chunk) /\ Waiting(Chunk)
    BY ONLY <1>11 DEF Sound, Waiting
  <2>2. Extends(Chunk, jump) /\ EndsInJump(jump)
    BY ONLY <2>1, JumpOver
  <2>3. Len(jump.code) < 65536
    BY ONLY <1>6, <1>11 DEF Fits, Byte
  <2> HIDE DEF jump
  <2>4. Good(jump) /\ Typed(jump) /\ Continues(Chunk, jump)
    BY ONLY <2>2 DEF Extends, Good
  <2>5. GoesRight(jump)
    BY ONLY <2>1, <2>2, ExtendsRight
  <2>6. SamePlaces(Chunk, jump)
    BY ONLY <2>1, <2>4, ContinuesPlaces
  <2>7. Waiting(jump)
    BY ONLY <2>1, <2>6, StaysWaiting
  <2>8. Pending(jump, Innermost)
    BY ONLY <1>3, <2>7 DEF Waiting
  <2>9. Pending(jump, next)
    <3>1. next.kind # "loop"
      BY ONLY <1>8
    <3> QED
      BY ONLY <1>8, <2>2, <2>4, <3>1, LastPends
  <2>10. Good(p) /\ GoesRight(p) /\ SamePlaces(jump, p)
    BY ONLY <2>3, <2>4, <2>5, <2>8, LeadHereGood
  <2> HIDE DEF p
  <2>11. Waiting(p) /\ Pending(p, next)
    BY ONLY <2>7, <2>9, <2>10, StaysWaiting, StaysPending
  <2>12. ASSUME NEW k \in 1 .. Len(open')
         PROVE  Pending(p, open'[k])
    <3>1. k \in 1 .. Len(open) /\ (k = Len(open) \/ k \in 1 .. Len(open) - 1)
      BY ONLY <1>3, <1>10, k \in 1 .. Len(open')
    <3>2. open'[k] = next \/ open'[k] = open[k]
      BY ONLY <1>10, <3>1
    <3> QED
      BY ONLY <2>11, <3>1, <3>2 DEF Waiting
  <2> QED
    BY ONLY <1>4, <2>10, <2>12 DEF Sound
<1>12. Len(code) <= Len(code') /\ locals <= locals' /\ consts <= consts' /\ (~misread' => ~misread)
  BY ONLY <1>1, <1>2, <1>6 DEF Shape
<1> QED
  BY ONLY IInv, <1>9, <1>11, <1>12, Stepping

\* A condition and what is begun with it.
LEMMA TestInv ==
    ASSUME IInv, NEW left \in LeftSides, NEW right \in {"local", "literal", "none"},
           NEW op \in {"LESS_NUM", "GREATER_NUM"}, NEW nots \in Nat,
           NEW kind \in {"if", "loop"}, Test(left, right, op, nots, kind)
    PROVE  IInv'
<1> DEFINE condition == Comparison(Chunk, left, right, op, nots)
           jump == WithJump(condition, "JUMP_IF_FALSE_POP")
           next == [kind |-> kind, hole |-> Len(jump.code) - 2, from |-> Len(jump.meant),
                    start |-> Len(code), first |-> Len(meant) + 1]
<1>1. /\ tests = 0 => locals \in Earlier
      /\ tests' = tests + 1 /\ Becomes(jump) /\ open' = Append(open, next) /\ locals' = locals
      /\ consts' = consts + LeftConsts(left) + RightConsts(right)
      /\ misread' = (misread \/ Mistaken(NotFold(condition, "JUMP_IF_FALSE_POP")))
  BY Zenon DEF Test
<1>2. Shape /\ Chunk.code = code /\ Chunk.meant = meant /\ Longer(Chunk, Chunk)
  BY ShapeOfChunk DEF IInv
<1>3. /\ locals \in Nat \ {0} /\ consts \in Nat /\ tests \in Nat
      /\ LeftConsts(left) \in Nat /\ RightConsts(right) \in Nat
  <2>1. locals \in Nat /\ consts \in Nat /\ tests \in Nat /\ (tests # 0 => locals # 0)
    BY ONLY <1>2 DEF Shape
  <2>2. LeftConsts(left) \in Nat /\ RightConsts(right) \in Nat
    BY DEF LeftConsts, RightConsts
  <2> QED
    BY ONLY <1>1, <2>1, <2>2, EmitterAssumption
<1>4. Chunk' = jump /\ code' = jump.code
  <2>1. Whole(jump)
    BY ONLY ChunksAreWhole, Zenon
  <2> HIDE DEF jump
  <2> QED
    BY ONLY <1>1, <2>1, BecomesIs DEF Becomes
<1>5. Longer(Chunk, jump)
  <2>1. Room(Chunk, condition)
    BY <1>2, <1>3, ComparisonRoom
  <2> HIDE DEF condition
  <2>2. Longer(Chunk, NotFold(condition, "JUMP_IF_FALSE_POP"))
    BY ONLY <2>1, FoldLonger
  <2> QED
    BY ONLY <2>2, JumpLonger
<1>6. /\ code' \in Seq(Cells) /\ Len(code) <= Len(code') /\ Len(code) \in Nat
      /\ Len(jump.code) \in Nat /\ Len(code') = Len(jump.code)
  <2> HIDE DEF jump
  <2> QED
    BY ONLY <1>2, <1>4, <1>5 DEF Longer
<1> DEFINE A == {Len(jump.meant), Len(meant) + 1}
<1>7. next \in Statements(A)
  <2> DEFINE hole == Len(jump.code) - 2
             from == Len(jump.meant)
             start == Len(code)
             first == Len(meant) + 1
             B == {from, first}
  <2>1. hole \in Int /\ start \in Nat /\ kind \in {"if", "else", "loop"}
    BY ONLY <1>6, kind \in {"if", "loop"}
  <2> HIDE DEF hole, from, start, first
  <2>2. [kind |-> kind, hole |-> hole, from |-> from, start |-> start, first |-> first]
          \in Statements(B)
    BY ONLY <2>1 DEF Statements
  <2> QED
    BY ONLY <2>2, Zenon DEF hole, from, start, first
<1>8. /\ next.kind = kind /\ next.hole = Len(jump.code) - 2 /\ next.from = Len(jump.meant)
      /\ next.start = Len(code) /\ next.first = Len(meant) + 1
  BY ONLY Zenon
<1> HIDE DEF next
<1>9. Shape'
  <2> HIDE DEF A
  <2>1. \E S : open' \in Seq(Statements(S))
    BY ONLY <1>1, <1>2, <1>7, OpenShape
  <2> DEFINE T == misread \/ Mistaken(NotFold(condition, "JUMP_IF_FALSE_POP"))
  <2>2. T \in BOOLEAN
    BY ONLY <1>2 DEF Shape
  <2> HIDE DEF T
  <2>3. consts' \in Nat /\ locals' \in Nat /\ tests' \in Nat /\ locals' # 0
    BY ONLY <1>1, <1>3
  <2>4. misread' \in BOOLEAN
    BY ONLY <1>1, <2>2, Zenon DEF T
  <2> QED
    BY ONLY <1>6, <2>1, <2>3, <2>4, Zenon DEF Shape
<1>10. /\ Len(open) \in Nat /\ Len(open') = Len(open) + 1 /\ open'[Len(open) + 1] = next
       /\ \A k \in 1 .. Len(open) : open'[k] = open[k]
  <2>1. PICK S : open \in Seq(Statements(S))
    BY ONLY <1>2 DEF Shape
  <2> HIDE DEF A
  <2> DEFINE more == Statements(S \cup A)
  <2>2. Statements(S) \subseteq more /\ next \in more
    BY ONLY <1>7 DEF Statements
  <2> HIDE DEF more
  <2>3. open \in Seq(more)
    BY ONLY <2>1, <2>2, Wider
  <2> QED
    BY ONLY <1>1, <2>2, <2>3
<1>11. ASSUME Fits', ~misread', Sound
       PROVE  Sound'
  <2>1. Good(Chunk) /\ GoesRight(Chunk) /\ Waiting(Chunk)
    BY ONLY <1>11 DEF Sound, Waiting
  <2>2. /\ locals \in 1 .. 256 /\ consts + LeftConsts(left) + RightConsts(right) <= 65536
    <3>1. locals' <= 256 /\ consts' <= 65536
      BY ONLY <1>11 DEF Fits, Byte
    <3> QED
      BY ONLY <1>1, <1>3, <3>1
  <2>3. ~Mistaken(NotFold(condition, "JUMP_IF_FALSE_POP"))
    BY ONLY <1>1, <1>11, Zenon
  <2>4. Extends(Chunk, jump) /\ EndsInJump(jump) /\ Len(Chunk.meant) < Len(jump.meant)
    BY <1>3, <2>1, <2>2, <2>3, TestGood
  <2> HIDE DEF jump, condition
  <2>5. Good(jump) /\ Typed(jump) /\ Continues(Chunk, jump)
    BY ONLY <2>4 DEF Extends, Good
  <2>6. GoesRight(jump)
    BY ONLY <2>1, <2>4, ExtendsRight
  <2>7. SamePlaces(Chunk, jump)
    BY ONLY <2>1, <2>5, ContinuesPlaces
  <2>8. Waiting(jump)
    BY ONLY <2>1, <2>7, StaysWaiting
  <2>9. next.first \in 1 .. Len(jump.meant) /\ next.start = jump.meant[next.first].at
    <3>1. /\ Len(meant) \in Nat /\ Len(jump.meant) \in Nat
          /\ Start(jump, Len(meant) + 1) = Start(Chunk, Len(meant) + 1)
      <4>1. Len(meant) \in Nat /\ Len(jump.meant) \in Nat
        BY ONLY <1>2, <2>7, Zenon DEF SamePlaces
      <4>2. Len(meant) + 1 \in 1 .. Len(meant) + 1
        BY ONLY <4>1
      <4>3. \A i \in 1 .. Len(meant) + 1 : Start(jump, i) = Start(Chunk, i)
        BY ONLY <1>2, <2>7, Zenon DEF SamePlaces
      <4> QED
        BY ONLY <4>1, <4>2, <4>3, Zenon
    <3>2. Len(meant) + 1 \in 1 .. Len(jump.meant) /\ Len(meant) + 1 # Len(jump.meant) + 1
      BY ONLY <1>2, <2>4, <3>1
    <3>3. Start(Chunk, Len(meant) + 1) = Len(code)
      BY ONLY <1>2, Zenon DEF Start
    <3>4. Start(jump, Len(meant) + 1) = jump.meant[Len(meant) + 1].at
      BY ONLY <3>2, Zenon DEF Start
    <3> QED
      BY ONLY <1>8, <3>1, <3>2, <3>3, <3>4
  <2>10. Pending(jump, next)
    BY ONLY <1>8, <2>4, <2>5, <2>9, LastPends
  <2>11. ASSUME NEW k \in 1 .. Len(open')
         PROVE  Pending(jump, open'[k])
    <3>1. k = Len(open) + 1 \/ k \in 1 .. Len(open)
      BY ONLY <1>10, k \in 1 .. Len(open')
    <3>2. open'[k] = next \/ (k \in 1 .. Len(open) /\ open'[k] = open[k])
      BY ONLY <1>10, <3>1
    <3> QED
      BY ONLY <2>8, <2>10, <3>2 DEF Waiting
  <2> QED
    BY ONLY <1>4, <2>5, <2>6, <2>11 DEF Sound
<1>12. /\ Len(code) <= Len(code') /\ locals <= locals' /\ consts <= consts'
       /\ ~misread' => ~misread
  <2>1. Len(code) <= Len(code') /\ locals <= locals' /\ consts <= consts'
    BY ONLY <1>1, <1>3, <1>6
  <2>2. ~misread' => ~misread
    BY ONLY <1>1, Zenon
  <2> QED
    BY ONLY <2>1, <2>2
<1> QED
  BY ONLY IInv, <1>9, <1>11, <1>12, Stepping

\* An if or a loop with any of the conditions there are.
LEMMA ConditionalInv ==
    ASSUME IInv, NEW kind \in {"if", "loop"}, Conditional(kind)
    PROVE  IInv'
<1>1. Lefts \subseteq LeftSides /\ 0 .. MaxNots \subseteq Nat
  BY EmitterAssumption
<1>2. PICK left \in Lefts, right \in {"local", "literal", "none"},
           op \in {"LESS_NUM", "GREATER_NUM"}, nots \in 0 .. MaxNots :
             Test(left, right, op, nots, kind)
  BY DEF Conditional
<1>3. left \in LeftSides /\ nots \in Nat
  BY ONLY <1>1, <1>2
<1> QED
  BY <1>2, <1>3, TestInv

\* Nothing changes.
LEMMA RestInv ==
    ASSUME IInv, UNCHANGED vars
    PROVE  IInv'
<1>1. /\ code' = code /\ last' = last /\ consts' = consts /\ locals' = locals /\ open' = open
      /\ tests' = tests /\ meant' = meant /\ misread' = misread
  BY DEF vars
<1>2. Chunk' = Chunk
  BY <1>1 DEF Chunk
<1>3. Shape' <=> Shape
  BY <1>1 DEF Shape
<1>4. Fits' <=> Fits
  BY <1>1 DEF Fits
<1>5. Sound' <=> Sound
  BY <1>1, <1>2 DEF Sound
<1> QED
  BY ONLY IInv, <1>1, <1>3, <1>4, <1>5, Zenon DEF IInv

\* Every action keeps the invariant.
LEMMA NextInv == IInv /\ [Next]_vars => IInv'
<1> SUFFICES ASSUME IInv, [Next]_vars
             PROVE  IInv'
  OBVIOUS
<1>1. CASE If
  BY <1>1, ConditionalInv DEF If
<1>2. CASE Loop
  BY <1>2, ConditionalInv DEF Loop
<1>3. CASE Let
  BY <1>3, LetInv
<1>4. CASE Else
  BY <1>4, ElseInv
<1>5. CASE EndIf
  BY <1>5, EndIfInv
<1>6. CASE EndLoop
  BY <1>6, EndLoopInv
<1>7. CASE Finished
  BY <1>7, RestInv DEF Finished
<1>8. CASE UNCHANGED vars
  BY <1>8, RestInv
<1> QED
  BY <1>1, <1>2, <1>3, <1>4, <1>5, <1>6, <1>7, <1>8 DEF Next

\* However ifs, elses, loops and declarations follow one another, with any number of locals,
\* conditions and negations: the chunk only grows, and while operands fit and no peephole has
\* taken an operand for an opcode, every instruction is the one meant, every jump filled in goes
\* where it was to go and every one not filled in waits in a statement begun (compiler.go 552-580,
\* 1385-1475, 3703-3728, 4617-4766).
THEOREM Emits == Spec => []IInv
<1>1. Init => IInv
  BY InitInv
<1>2. IInv /\ [Next]_vars => IInv'
  BY NextInv
<1> QED
  BY <1>1, <1>2, PTL DEF Spec

\* So the bytecode decodes to the instructions meant, every fused jump doing the work of those it
\* replaces and every jump going where it was to go (compiler.go 4636-4766).
THEOREM DecodingIsMeant == Spec => []DecodesAsMeant
<1>1. IInv => DecodesAsMeant
  BY IInvSays
<1> QED
  BY <1>1, Emits, PTL
=============================================================================
