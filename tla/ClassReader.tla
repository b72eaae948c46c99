---------------------------- MODULE ClassReader -----------------------------
(***************************************************************************)
(* ReadModule (internal/classfile/module_codec.go, readModuleClassFile):   *)
(* the functions and classes a class file describes.  Functions and        *)
(* classes are made empty first, so that they can refer to one another by  *)
(* their indexes, and filled afterwards.                                   *)
(***************************************************************************)
EXTENDS ClassWriter

Failed == [ok |-> FALSE]

(***************************************************************************)
(* Methods.                                                                *)
(***************************************************************************)
LineRead == Row(<< <<"offset", U2>>, <<"line", U2>> >>)

\* decodeLineNumberTable: the entries are consumed in order, each when the offset reaches it.
DecodeLines(entries, length) ==
  LET Consumed(o) == {k \in DOMAIN entries :
                        \A j \in 1..k : /\ entries[j].offset <= o
                                        /\ j > 1 => entries[j - 1].offset <= entries[j].offset}
  IN  [i \in 1..length |->
         IF Consumed(i - 1) = {} THEN 0
         ELSE entries[CHOOSE k \in Consumed(i - 1) : \A j \in Consumed(i - 1) : j <= k].line]

\* decodeCodeAttribute: the table of exceptions is always empty.
CodeRead == Row(<< <<"maxStack", U2>>, <<"maxLocals", U2>>, <<"code", CodeBytes>>,
                   <<"handlers", U2>>, <<"attributes", ListOf(Info)>> >>)

NamesHold(attributes, entries) ==
  \A i \in DOMAIN attributes : Holds(entries, attributes[i].name, Tag.utf8)
Infos(attributes, entries, name) ==
  SelectSeq(attributes, LAMBDA a : entries[a.name].v = <<name>>)
InfoOf(attributes, entries, name) == Reader(Infos(attributes, entries, name)[1].info)

\* The lines of a code attribute: none without a table.
LinesOf(code, entries) ==
  IF Infos(code.attributes, entries, "LineNumberTable") = <<>>
  THEN [ok |-> TRUE, v |-> <<>>]
  ELSE Read(InfoOf(code.attributes, entries, "LineNumberTable"), ListOf(LineRead))

UpvalueRead == Row(<< <<"index", U1>>, <<"isLocal", Flag>> >>)
InterfaceMethodRead == Row(<< <<"name", Text>>, <<"params", ListOf(Text)>>, <<"ret", Text>> >>)
InterfaceRead ==
  Row(<< <<"name", Text>>, <<"functional", Text>>, <<"methods", MapOf(InterfaceMethodRead)>> >>)
ConstantRead == Row(<< <<"kind", U1>>, <<"cp", U2>>, <<"ref", U2>> >>)

MethodMetaRead ==
  Row(<< <<"owner", Text>>, <<"ret", Text>>, <<"upvalues", ListOf(UpvalueRead)>>,
         <<"gcount", U2>>, <<"gnames", ListOf(Text)>>,
         <<"interfaces", MapOf(InterfaceRead)>>, <<"consts", ListOf(ConstantRead)>> >>)

\* skipMember and readMethod: the flags, the indexes of the name and of the descriptor, and the
\* attributes.
MemberRead == Row(<< <<"flags", U2>>, <<"name", U2>>, <<"descriptor", U2>>,
                     <<"attributes", ListOf(Info)>> >>)

Decoded(member, code, meta, entries) ==
  IF /\ code.ok /\ meta.ok
     /\ NamesHold(code.v.attributes, entries) /\ LinesOf(code.v, entries).ok
  THEN [ok |-> TRUE, name |-> entries[member.name].v[1],
        descriptor |-> entries[member.descriptor].v, code |-> code.v.code,
        maxLocals |-> code.v.maxLocals,
        lines |-> DecodeLines(LinesOf(code.v, entries).v, Len(code.v.code)), meta |-> meta.v]
  ELSE Failed

ReadMethod(member, entries) ==
  IF /\ Holds(entries, member.name, Tag.utf8) /\ Holds(entries, member.descriptor, Tag.utf8)
     /\ NamesHold(member.attributes, entries)
  THEN Decoded(member, Read(InfoOf(member.attributes, entries, "Code"), CodeRead),
               Read(InfoOf(member.attributes, entries, "PolyloftMethod"), MethodMetaRead), entries)
  ELSE Failed

\* decodeConstant: an index that does not hold what the kind asks for gives nil.
DecodeConstant(entries, k, fnAt, classAt) ==
  LET kind == NameOf(ConstantKind, k.kind)
      nil == [k |-> "nil", v |-> Nil]
  IN  CASE kind \in DOMAIN ConstantTag ->
             IF ~Holds(entries, k.cp, ConstantTag[kind]) THEN nil
             ELSE [k |-> kind,
                   v |-> IF kind = "string" THEN TextOf(entries, k.cp)[1]
                         ELSE IF kind = "bool" THEN entries[k.cp].v # 0
                         ELSE entries[k.cp].v]
        [] kind = "fn" -> [k |-> "fn", v |-> fnAt[k.ref]]
        [] kind = "class" -> [k |-> "class", v |-> classAt[k.ref]]
        [] OTHER -> nil

\* populateFunction: the arity is the number of types in the descriptor.
Populated(method, types, entries, fnAt, classAt) ==
  [name |-> method.name, params |-> types.params, arity |-> Len(types.params),
   owner |-> method.meta.owner, upvalues |-> method.meta.upvalues,
   ret |-> IF method.meta.ret # <<"", 0>> THEN method.meta.ret ELSE types.ret,
   maxLocals |-> method.maxLocals, gcount |-> method.meta.gcount,
   gnames |-> method.meta.gnames, interfaces |-> method.meta.interfaces,
   code |-> method.code, lines |-> method.lines,
   consts |-> [i \in DOMAIN method.meta.consts |->
                 DecodeConstant(entries, method.meta.consts[i], fnAt, classAt)]]

PopulateFunction(method, entries, fnAt, classAt) ==
  Populated(method, ParseMethodDescriptor(method.descriptor), entries, fnAt, classAt)

(***************************************************************************)
(* Classes.                                                                *)
(***************************************************************************)
FieldDefRead ==
  Row(<< <<"name", Text>>, <<"type", Text>>, <<"visibility", Text>>, <<"mutable", Flag>> >>)
BindingRead == Row(<< <<"name", Text>>, <<"index", U2>> >>)
SpecialRead == Row(<< <<"slot", U1>>, <<"index", U2>> >>)

ClassRead ==
  Row(<< <<"id", U2>>, <<"name", Text>>, <<"superclassID", U2>>, <<"superclassName", Text>>,
         <<"flags", U2>>, <<"implements", ListOf(Text)>>, <<"permits", ListOf(Text)>>,
         <<"enumOrder", ListOf(Text)>>, <<"fields", ListOf(FieldDefRead)>>,
         <<"fieldOrder", ListOf(Text)>>, <<"fieldSlots", ListOf(BindingRead)>>,
         <<"staticFields", ListOf(FieldDefRead)>>, <<"methodOrder", ListOf(Text)>>,
         <<"methodSlots", ListOf(BindingRead)>>, <<"overloads", MapOf(ListOf(U2))>>,
         <<"ctor", U2>>, <<"ctorOverloads", ListOf(U2)>>,
         <<"statics", ListOf(BindingRead)>>, <<"staticOverloads", MapOf(ListOf(U2))>>,
         <<"special", ListOf(SpecialRead)>>, <<"visibility", MapOf(Text)>>,
         <<"staticVisibility", MapOf(Text)>>, <<"annotations", MapOf(ListOf(Text))>>,
         <<"ctorVisibility", Text>> >>)

\* The rows of a list as a map from their names.
ByName(rows, Value(_)) ==
  [n \in {rows[i].name : i \in DOMAIN rows} |->
     Value(rows[CHOOSE i \in DOMAIN rows : rows[i].name = n])]

DecodeFieldDefs(rows) ==
  ByName(rows, LAMBDA f : [type |-> f.type, visibility |-> f.visibility, mutable |-> f.mutable,
                           isFinal |-> FALSE, default |-> Nil])

DecodeBindings(rows, fnAt) == ByName(rows, LAMBDA b : fnAt[b.index])

\* decodeOverloadSliceToFunctions: an index without a function is passed over.
DecodeOverloadSlice(indexes, fnAt) ==
  LET fs == [i \in DOMAIN indexes |-> fnAt[indexes[i]]]
  IN  SelectSeq(fs, LAMBDA f : f # Nil)

DecodeOverloads(overloads, fnAt) ==
  [n \in DOMAIN overloads |-> DecodeOverloadSlice(overloads[n], fnAt)]

IsFinalFlag(flags) == (flags \div AccFinal) % 2 = 1

\* populateClass: what the file has no room for is false, empty or nil.  Slots of the method table
\* are places in methodOrder, whose methods are looked up among those of the class.
PopulateClass(class, fnAt, classAt) ==
  LET methods == DecodeBindings(class.methodSlots, fnAt)
      order == class.methodOrder
      LastSlot(n) == CHOOSE i \in DOMAIN order :
                       order[i] = n /\ \A j \in DOMAIN order : order[j] = n => j <= i
  IN  [name |-> class.name, super |-> classAt[class.superclassID],
       implements |-> ToSet(class.implements), permits |-> ToSet(class.permits),
       isAbstract |-> FALSE, isRecord |-> FALSE,
       isEnum |-> IsFinalFlag(class.flags) /\ class.enumOrder # <<>>,
       isSealed |-> IsFinalFlag(class.flags), enumOrder |-> class.enumOrder,
       fields |-> DecodeFieldDefs(class.fields), fieldOrder |-> class.fieldOrder,
       fieldIndex |-> ByName(class.fieldSlots, LAMBDA s : s.index),
       staticFields |-> DecodeFieldDefs(class.staticFields),
       visibility |-> class.visibility, staticVisibility |-> class.staticVisibility,
       ctorVisibility |-> class.ctorVisibility, annotations |-> class.annotations,
       methodOrder |-> order,
       methodIndex |-> [n \in ToSet(order) |-> LastSlot(n) - 1],
       methodTable |-> [i \in DOMAIN order |->
                          IF order[i] \in DOMAIN methods /\ LastSlot(order[i]) = i
                          THEN methods[order[i]] ELSE Nil],
       methods |-> methods, overloads |-> DecodeOverloads(class.overloads, fnAt),
       ctor |-> fnAt[class.ctor],
       ctorOverloads |-> DecodeOverloadSlice(class.ctorOverloads, fnAt),
       statics |-> DecodeBindings(class.statics, fnAt),
       staticOverloads |-> DecodeOverloads(class.staticOverloads, fnAt),
       staticValues |-> <<>>,
       special |-> [s \in {SpecialSlots[class.special[i].slot] : i \in DOMAIN class.special} |->
                      fnAt[class.special[CHOOSE i \in DOMAIN class.special :
                                            SpecialSlots[class.special[i].slot] = s].index]]]

(***************************************************************************)
(* The file.                                                               *)
(***************************************************************************)
HeaderRead == Row(<< <<"magic", U4>>, <<"minor", U2>>, <<"major", U2>> >>)

\* A table from the indexes of the file to what they stand for; a miss is nil.
TableOf(n) == [i \in 0..(Modulus - 1) |-> IF i \in 1..n THEN i ELSE Nil]

\* The rest of the file, behind the pool: fields are read and thrown away.
BodyRead ==
  Row(<< <<"flags", U2>>, <<"this", U2>>, <<"super", U2>>, <<"interfaces", ListOf(U2)>>,
         <<"fields", ListOf(MemberRead)>>, <<"methods", ListOf(MemberRead)>>,
         <<"attributes", ListOf(Info)>> >>)

\* entry, methods and classes are the results of reading the attributes of the class.
Linked(entry, methods, classes, entries, metadata) ==
  LET fnAt == TableOf(Len(methods))
      ClassIn(i) == CHOOSE k \in DOMAIN classes : classes[k].id = i
      ids == {classes[k].id : k \in DOMAIN classes}
      classAt == [i \in 0..(Modulus - 1) |-> IF i \in ids THEN i ELSE Nil]
  IN  IF fnAt[entry] = Nil THEN Failed
      ELSE [ok |-> TRUE, metadata |-> metadata,
            graph |-> [entry |-> entry,
                       funcs |-> [i \in DOMAIN methods |->
                                    PopulateFunction(methods[i], entries, fnAt, classAt)],
                       classes |-> [i \in ids |->
                                      PopulateClass(classes[ClassIn(i)], fnAt, classAt)]]]

Attributes(entry, methods, classes, entries, metadata) ==
  IF entry.ok /\ classes.ok /\ \A i \in DOMAIN methods : methods[i].ok
  THEN Linked(entry.v, methods, classes.v, entries, metadata) ELSE Failed

\* What the three attributes of the class say.
ReadBody(body, entries) ==
  IF NamesHold(body.attributes, entries)
  THEN Attributes(Take(InfoOf(body.attributes, entries, "PolyloftModule"), "u2"),
                  [i \in DOMAIN body.methods |-> ReadMethod(body.methods[i], entries)],
                  Read(InfoOf(body.attributes, entries, "PolyloftClasses"), ListOf(ClassRead)),
                  entries, InfoOf(body.attributes, entries, "PolyloftMetadata").s)
  ELSE Failed

AfterPool(body, entries) == IF body.ok THEN ReadBody(body.v, entries) ELSE Failed
AfterHeader(header, pool) ==
  IF header.ok /\ pool.ok
     /\ header.v = [magic |-> Magic, minor |-> MinorVersion, major |-> MajorVersion]
  THEN AfterPool(Read(pool, BodyRead), pool.v) ELSE Failed

ReadModule(stream) ==
  AfterHeader(Read(Reader(stream), HeaderRead), ReadCP(Read(Reader(stream), HeaderRead)))
=============================================================================
