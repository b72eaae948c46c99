----------------------------- MODULE ClassPool ------------------------------
(***************************************************************************)
(* What a class file is built on (internal/classfile/module_codec.go): the *)
(* functions and classes reachable from a module's function, descriptors,  *)
(* and the constant pool.                                                  *)
(*                                                                         *)
(* The graph is a record of functions and classes by identity (a pointer   *)
(* in the code); Nil is the nil pointer.  In a graph that has been read    *)
(* the identities are the indexes of the file.  A type name is a pair of a *)
(* base name and the number of "[]" after it.  Strings of the constant     *)
(* pool are sequences: <<n>> for a name, and the tokens of a descriptor.   *)
(***************************************************************************)
EXTENDS Wire, FiniteSets

CONSTANT Nil

\* specialMethodSlots.
SpecialSlots == <<"IterableLength", "IterableGet", "Pieces", "GetPiece", "IndexGet",
                  "IndexSet", "Contains", "Slice", "Equals", "Hash">>

(***************************************************************************)
(* What is reachable (collectReachableFunctions, collectReachableClass).   *)
(* Go iterates a map in any order; order is one permutation of the names   *)
(* that every map of a graph follows.                                      *)
(***************************************************************************)
AlongOf(order, m) == LET keys == SelectSeq(order, LAMBDA n : n \in DOMAIN m)
                     IN  [i \in DOMAIN keys |-> m[keys[i]]]

FunctionRef(f) == [fn |-> TRUE, id |-> f]
ClassRef(c) == [fn |-> FALSE, id |-> c]
FunctionRefs(fs) == [i \in DOMAIN fs |-> FunctionRef(fs[i])]

\* The constants of a function that are functions or classes, in their order.
RefsOfFunction(g, f) ==
  LET refs == SelectSeq(g.funcs[f].consts, LAMBDA k : k.k \in {"fn", "class"})
  IN  [i \in DOMAIN refs |-> [fn |-> refs[i].k = "fn", id |-> refs[i].v]]

\* Mutant: a method that is only an overload is not collected.
RefsOfClassWithoutOverloads(g, c, order) ==
  LET class == g.classes[c]
  IN  <<ClassRef(class.super)>>
      \o FunctionRefs(AlongOf(order, class.methods))
      \o FunctionRefs(AlongOf(order, class.statics))
      \o <<FunctionRef(class.ctor)>>
      \o FunctionRefs(AlongOf(SpecialSlots, class.special))

RefsOfClass(g, c, order) ==
  LET class == g.classes[c]
  IN  <<ClassRef(class.super)>>
      \o FunctionRefs(AlongOf(order, class.methods))
      \o FunctionRefs(FlattenSeq(AlongOf(order, class.overloads)))
      \o FunctionRefs(AlongOf(order, class.statics))
      \o FunctionRefs(FlattenSeq(AlongOf(order, class.staticOverloads)))
      \o <<FunctionRef(class.ctor)>>
      \o FunctionRefs(class.ctorOverloads)
      \o FunctionRefs(AlongOf(SpecialSlots, class.special))

RECURSIVE Collect(_, _, _, _)
\* col is what has been collected: a sequence of functions and one of classes.
Collect(g, order, col, ref) ==
  IF ref.id = Nil THEN col
  ELSE IF ref.fn
  THEN IF Contains(col.fs, ref.id) THEN col
       ELSE FoldLeft(LAMBDA acc, r : Collect(g, order, acc, r),
                     [col EXCEPT !.fs = Append(@, ref.id)], RefsOfFunction(g, ref.id))
  ELSE IF Contains(col.cs, ref.id) THEN col
       ELSE FoldLeft(LAMBDA acc, r : Collect(g, order, acc, r),
                     [col EXCEPT !.cs = Append(@, ref.id)], RefsOfClass(g, ref.id, order))

Reachable(g, order) ==
  Collect(g, order, [fs |-> <<>>, cs |-> <<>>], FunctionRef(g.entry))

\* functionIndex and classIndex: a miss, and nil, give 0.
IndexIn(seq, id) == IF Contains(seq, id) THEN CHOOSE i \in DOMAIN seq : seq[i] = id ELSE 0

(***************************************************************************)
(* Descriptors.                                                            *)
(***************************************************************************)
\* The spellings typeDescriptor treats alike.
Canonical(base) ==
  CASE base \in {"", "void"} -> "Void"
    [] base = "int" -> "Int"
    [] base \in {"float", "Number", "number"} -> "Float"
    [] base \in {"bool", "Boolean", "boolean"} -> "Bool"
    [] base = "char" -> "Char"
    [] base = "string" -> "String"
    [] base = "any" -> "Any"
    [] base = "nil" -> "Nil"
    [] OTHER -> base

Primitive == [Void |-> "V", Int |-> "I", Float |-> "D", Bool |-> "Z", Char |-> "C"]
Known == [String |-> "java/lang/String", Any |-> "polyloft/Any",
          Function |-> "polyloft/Function", Array |-> "polyloft/Array",
          Map |-> "polyloft/Map", Tuple |-> "polyloft/Tuple", Range |-> "polyloft/Range",
          Module |-> "polyloft/Module", Nil |-> "polyloft/Nil"]

\* typeDescriptor, with the slashes of toInternalName left out: the reader undoes them.
TypeDescriptor(type) ==
  LET base == Canonical(type[1])
  IN  [i \in 1..type[2] |-> "["] \o
      (IF base \in DOMAIN Primitive THEN <<Primitive[base]>>
       ELSE <<"L", IF base \in DOMAIN Known THEN Known[base] ELSE base, ";">>)

MethodDescriptor(params, ret) ==
  <<"(">> \o FlattenSeq([i \in DOMAIN params |-> TypeDescriptor(params[i])])
          \o <<")">> \o TypeDescriptor(ret)

NameOf(table, code) == CHOOSE n \in DOMAIN table : table[n] = code
CodesOf(table) == {table[n] : n \in DOMAIN table}

RECURSIVE ParseType(_, _), ParseTypes(_, _, _)
\* parseTypeDescriptor: the type at index i, and the index after it.
ParseType(d, i) ==
  IF i > Len(d) THEN [type |-> <<"", 0>>, next |-> i]
  ELSE CASE d[i] \in CodesOf(Primitive) ->
              [type |-> <<NameOf(Primitive, d[i]), 0>>, next |-> i + 1]
         [] d[i] = "[" ->
              LET inner == ParseType(d, i + 1)
              IN  [inner EXCEPT !.type = <<@[1], @[2] + 1>>]
         [] d[i] = "L" ->
              [type |-> <<IF d[i + 1] \in CodesOf(Known) THEN NameOf(Known, d[i + 1])
                          ELSE d[i + 1], 0>>, next |-> i + 3]
         [] OTHER -> [type |-> <<"Any", 0>>, next |-> i + 1]

\* The parameters from index i on, up to the ")".
ParseTypes(d, i, got) ==
  IF i > Len(d) \/ d[i] = ")" THEN [params |-> got, at |-> i]
  ELSE LET p == ParseType(d, i) IN ParseTypes(d, p.next, Append(got, p.type))

ParseMethodDescriptor(d) ==
  IF d = <<>> \/ d[1] # "(" THEN [params |-> <<>>, ret |-> <<"", 0>>]
  ELSE LET p == ParseTypes(d, 2, <<>>)
       IN  [params |-> p.params, ret |-> ParseType(d, p.at + 1).type]

(***************************************************************************)
(* The constant pool.  A Long and a Double take two places, the second one *)
(* reserved.  The maps of cpBuilder make one entry of equal requests, and  *)
(* a String or a Class refers to the entry of its text.                    *)
(***************************************************************************)
Tag == [utf8 |-> 1, integer |-> 3, long |-> 5, double |-> 6, class |-> 7, string |-> 8]
Reserved == [tag |-> 0, v |-> 0, ref |-> 0]

\* The place of an entry, 0 when the pool has none.
PlaceOf(pool, tag, v) ==
  IF \E i \in DOMAIN pool : pool[i].tag = tag /\ pool[i].v = v
  THEN CHOOSE i \in DOMAIN pool : pool[i].tag = tag /\ pool[i].v = v
  ELSE 0

AddEntry(pool, tag, v, ref) ==
  IF PlaceOf(pool, tag, v) # 0 THEN pool
  ELSE Append(pool, [tag |-> tag, v |-> v, ref |-> ref])
       \o (IF tag \in {Tag.long, Tag.double} THEN <<Reserved>> ELSE <<>>)

\* One request: UTF8, Int32, Int64 and Float64 add themselves, String and Class their text first.
AddRequest(pool, request) ==
  IF request.tag \in {Tag.string, Tag.class}
  THEN LET with == AddEntry(pool, Tag.utf8, request.v, 0)
       IN  AddEntry(with, request.tag, request.v, PlaceOf(with, Tag.utf8, request.v))
  ELSE AddEntry(pool, request.tag, request.v, 0)

Utf8(v) == [tag |-> Tag.utf8, v |-> v]

AttributeNames == <<"Code", "LineNumberTable", "PolyloftMethod", "PolyloftModule",
                    "PolyloftClasses", "PolyloftMetadata">>

MethodName(name) == IF name = "" THEN "<script>" ELSE name

\* The globals of the entry function, each name once, in the order of their slots.
GlobalNames(fn) == FoldLeft(LAMBDA acc, n : IF Contains(acc, n) THEN acc ELSE Append(acc, n),
                            <<>>, fn.gnames)

\* What encodeConstant asks of the pool: nothing for nil, a function and a class.
ConstantTag == [int |-> Tag.long, float |-> Tag.double, string |-> Tag.string,
                rune |-> Tag.integer, bool |-> Tag.integer]
ConstantRequest(k) ==
  [tag |-> ConstantTag[k.k],
   v |-> IF k.k = "string" THEN <<k.v>>
         ELSE IF k.k = "bool" THEN (IF k.v THEN 1 ELSE 0) ELSE k.v]
PooledConstants(fn) == SelectSeq(fn.consts, LAMBDA k : k.k \in DOMAIN ConstantTag)

MethodRequests(fn) ==
  LET pooled == PooledConstants(fn)
  IN  <<Utf8(<<MethodName(fn.name)>>), Utf8(MethodDescriptor(fn.params, fn.ret))>>
      \o [i \in DOMAIN pooled |-> ConstantRequest(pooled[i])]

ModuleName(fn) == IF fn.owner = "" THEN "polyloft/Module" ELSE fn.owner

\* buildModuleState, and the class of the module that writeModuleClassFile adds: every entry is in
\* the pool before writeCP puts the pool down, ahead of the members that refer to it.
PoolOf(g, col) ==
  LET names == GlobalNames(g.funcs[g.entry])
  IN  FoldLeft(AddRequest, <<>>,
        [i \in DOMAIN AttributeNames |-> Utf8(<<AttributeNames[i]>>)]
        \o FlattenSeq([i \in DOMAIN names |->
                         <<Utf8(<<names[i]>>), Utf8(TypeDescriptor(<<"Any", 0>>))>>])
        \o FlattenSeq([i \in DOMAIN col.fs |-> MethodRequests(g.funcs[col.fs[i]])])
        \o <<[tag |-> Tag.class, v |-> <<ModuleName(g.funcs[g.entry])>>]>>)

PoolWidth(tag) == CASE tag = Tag.utf8 -> "text"
                    [] tag = Tag.integer -> "i4"
                    [] tag = Tag.long -> "i8"
                    [] tag = Tag.double -> "f8"
                    [] OTHER -> "u2"

WriteCP(pool) ==
  <<Cell("u2", Uint16(Len(pool) + 1))>> \o
  FlattenSeq([i \in DOMAIN pool |->
    IF pool[i].tag = 0 THEN <<>>
    ELSE <<Cell("u1", pool[i].tag),
           Cell(PoolWidth(pool[i].tag), IF pool[i].ref # 0 THEN pool[i].ref ELSE pool[i].v)>>])

RECURSIVE ReadEntries(_, _, _, _)
\* readCP's loop: i is the next index, count one more than the number of places.
ReadEntries(r, i, count, entries) ==
  IF ~r.ok \/ i >= count THEN [r EXCEPT !.v = entries]
  ELSE LET tagged == Take(r, "u1")
           q == Take(tagged, PoolWidth(tagged.v))
           wide == tagged.v \in {Tag.long, Tag.double} /\ i < count - 1
       IN  IF ~q.ok \/ tagged.v \notin CodesOf(Tag) THEN [q EXCEPT !.ok = FALSE]
           ELSE ReadEntries(q, i + (IF wide THEN 2 ELSE 1), count,
                  Append(entries, [tag |-> tagged.v, v |-> q.v])
                  \o (IF wide THEN <<[tag |-> 0, v |-> 0]>> ELSE <<>>))

ReadCP(r) == LET q == Take(r, "u2") IN IF q.ok THEN ReadEntries(q, 1, q.v, <<>>) ELSE q

\* cpReader.UTF8, Int32, Int64, Float64: an index of another tag, of a reserved place or outside
\* the pool is an error.
Holds(entries, index, tag) == index \in DOMAIN entries /\ entries[index].tag = tag
\* cpReader.String and Class: the text of the entry the entry refers to.
TextOf(entries, index) == entries[entries[index].v].v
=============================================================================
