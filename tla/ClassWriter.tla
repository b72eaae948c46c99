---------------------------- MODULE ClassWriter -----------------------------
(***************************************************************************)
(* WriteModule (internal/classfile/module_codec.go, writeModuleClassFile): *)
(* the class file of a module's function.  The fields of a record are      *)
(* listed here in the order they are put down, and once more, in the order *)
(* they are taken, in ClassReader.                                         *)
(***************************************************************************)
EXTENDS ClassPool

Magic == 7                       \* stands for 0x50464243
MinorVersion == 0
MajorVersion == 1
AccPublic == 1
AccStatic == 8
AccFinal == 16

(***************************************************************************)
(* Writing a method.                                                       *)
(***************************************************************************)
\* compactLines: an entry where the line changes.
CompactLines(lines) ==
  LET starts == SelectSeq([i \in DOMAIN lines |-> i],
                          LAMBDA i : i = 1 \/ lines[i] # lines[i - 1])
  IN  [i \in DOMAIN starts |-> [offset |-> starts[i] - 1, line |-> lines[starts[i]]]]

LineWritten == Row(<< <<"offset", U2>>, <<"line", U2>> >>)

EncodeCode(pool, fn) ==
  <<Cell("u2", 0), Cell("u2", Uint16(fn.maxLocals)), Cell("u4", Len(fn.code))>>
  \o [i \in DOMAIN fn.code |-> Cell("u1", fn.code[i])]
  \o <<Cell("u2", 0), Cell("u2", 1)>>
  \o Attribute(PlaceOf(pool, Tag.utf8, <<"LineNumberTable">>),
               Write(ListOf(LineWritten), CompactLines(fn.lines)))

UpvalueWritten == Row(<< <<"index", U1>>, <<"isLocal", Flag>> >>)
InterfaceMethodWritten == Row(<< <<"name", Text>>, <<"params", ListOf(Text)>>, <<"ret", Text>> >>)
InterfaceWritten ==
  Row(<< <<"name", Text>>, <<"functional", Text>>, <<"methods", MapOf(InterfaceMethodWritten)>> >>)
ConstantWritten == Row(<< <<"kind", U1>>, <<"cp", U2>>, <<"ref", U2>> >>)

MethodMetaWritten ==
  Row(<< <<"owner", Text>>, <<"ret", Text>>, <<"upvalues", ListOf(UpvalueWritten)>>,
         <<"gcount", U2>>, <<"gnames", ListOf(Text)>>,
         <<"interfaces", MapOf(InterfaceWritten)>>, <<"consts", ListOf(ConstantWritten)>> >>)

ConstantKind == [nil |-> 10, int |-> 11, float |-> 12, string |-> 13, rune |-> 14, bool |-> 15,
                 fn |-> 16, class |-> 17]

\* encodeConstant.
EncodeConstant(pool, col, k) ==
  [kind |-> ConstantKind[k.k],
   cp |-> IF k.k \in DOMAIN ConstantTag
          THEN PlaceOf(pool, ConstantRequest(k).tag, ConstantRequest(k).v) ELSE 0,
   ref |-> IF k.k = "fn" THEN IndexIn(col.fs, k.v)
           ELSE IF k.k = "class" THEN IndexIn(col.cs, k.v) ELSE 0]

\* encodeMethod and encodeMethodMeta.
EncodeMethodMeta(pool, col, fn) ==
  Write(MethodMetaWritten,
        [fn EXCEPT !.consts = [i \in DOMAIN @ |-> EncodeConstant(pool, col, @[i])]])

WriteMethod(pool, col, fn) ==
  <<Cell("u2", AccPublic + AccStatic),
    Cell("u2", PlaceOf(pool, Tag.utf8, <<MethodName(fn.name)>>)),
    Cell("u2", PlaceOf(pool, Tag.utf8, MethodDescriptor(fn.params, fn.ret))),
    Cell("u2", 2)>>
  \o Attribute(PlaceOf(pool, Tag.utf8, <<"Code">>), EncodeCode(pool, fn))
  \o Attribute(PlaceOf(pool, Tag.utf8, <<"PolyloftMethod">>), EncodeMethodMeta(pool, col, fn))

WriteMethods(pool, col, g) ==
  <<Cell("u2", Uint16(Len(col.fs)))>>
  \o FlattenSeq([i \in DOMAIN col.fs |-> WriteMethod(pool, col, g.funcs[col.fs[i]])])

\* encodeGlobalFields and writeFields.
WriteFields(pool, g) ==
  LET names == GlobalNames(g.funcs[g.entry])
  IN  <<Cell("u2", Uint16(Len(names)))>>
      \o FlattenSeq([i \in DOMAIN names |->
           <<Cell("u2", AccPublic + AccStatic),
             Cell("u2", PlaceOf(pool, Tag.utf8, <<names[i]>>)),
             Cell("u2", PlaceOf(pool, Tag.utf8, TypeDescriptor(<<"Any", 0>>))),
             Cell("u2", 0)>>])

(***************************************************************************)
(* Writing a class.                                                        *)
(***************************************************************************)
FieldDefWritten ==
  Row(<< <<"name", Text>>, <<"type", Text>>, <<"visibility", Text>>, <<"mutable", Flag>> >>)
BindingWritten == Row(<< <<"name", Text>>, <<"index", U2>> >>)
SpecialWritten == Row(<< <<"slot", U1>>, <<"index", U2>> >>)

ClassWritten ==
  Row(<< <<"id", U2>>, <<"name", Text>>, <<"superclassID", U2>>, <<"superclassName", Text>>,
         <<"flags", U2>>, <<"implements", ListOf(Text)>>, <<"permits", ListOf(Text)>>,
         <<"enumOrder", ListOf(Text)>>, <<"fields", ListOf(FieldDefWritten)>>,
         <<"fieldOrder", ListOf(Text)>>, <<"fieldSlots", ListOf(BindingWritten)>>,
         <<"staticFields", ListOf(FieldDefWritten)>>, <<"methodOrder", ListOf(Text)>>,
         <<"methodSlots", ListOf(BindingWritten)>>, <<"overloads", MapOf(ListOf(U2))>>,
         <<"ctor", U2>>, <<"ctorOverloads", ListOf(U2)>>,
         <<"statics", ListOf(BindingWritten)>>, <<"staticOverloads", MapOf(ListOf(U2))>>,
         <<"special", ListOf(SpecialWritten)>>, <<"visibility", MapOf(Text)>>,
         <<"staticVisibility", MapOf(Text)>>, <<"annotations", MapOf(ListOf(Text))>>,
         <<"ctorVisibility", Text>> >>)

\* encodeFieldDefs and writeEncodedFieldDefs: there is no cell for the initial value of a field, nor
\* for isFinal.
EncodeFieldDefs(defs) ==
  LET names == Sorted(DOMAIN defs)
  IN  [i \in DOMAIN names |->
         [name |-> names[i], type |-> defs[names[i]].type,
          visibility |-> defs[names[i]].visibility, mutable |-> defs[names[i]].mutable]]

EncodeFieldSlots(slots) ==
  LET names == Sorted(DOMAIN slots)
  IN  [i \in DOMAIN names |-> [name |-> names[i], index |-> slots[names[i]]]]

EncodeBindings(methods, col) ==
  LET names == Sorted(DOMAIN methods)
  IN  [i \in DOMAIN names |-> [name |-> names[i], index |-> IndexIn(col.fs, methods[names[i]])]]

EncodeOverloadSlice(fs, col) ==
  LET there == SelectSeq(fs, LAMBDA f : f # Nil)
  IN  [i \in DOMAIN there |-> IndexIn(col.fs, there[i])]

EncodeOverloads(overloads, col) ==
  [n \in DOMAIN overloads |-> EncodeOverloadSlice(overloads[n], col)]

SlotNumber(slot) == CHOOSE i \in DOMAIN SpecialSlots : SpecialSlots[i] = slot

EncodeSpecial(special, col) ==
  LET slots == SelectSeq(SpecialSlots, LAMBDA s : s \in DOMAIN special /\ special[s] # Nil)
  IN  [i \in DOMAIN slots |->
         [slot |-> SlotNumber(slots[i]), index |-> IndexIn(col.fs, special[slots[i]])]]

\* Only an enumeration and a sealed class leave a mark: abstract classes and records do not.
ClassFlags(class) == AccPublic + (IF class.isSealed \/ class.isEnum THEN AccFinal ELSE 0)

EncodeClass(g, col, c) ==
  LET class == g.classes[c]
  IN  [id |-> IndexIn(col.cs, c), name |-> class.name,
       superclassID |-> IF class.super = Nil THEN 0 ELSE IndexIn(col.cs, class.super),
       superclassName |-> IF class.super = Nil THEN "" ELSE g.classes[class.super].name,
       flags |-> ClassFlags(class), implements |-> Sorted(class.implements),
       permits |-> Sorted(class.permits), enumOrder |-> class.enumOrder,
       fields |-> EncodeFieldDefs(class.fields), fieldOrder |-> class.fieldOrder,
       fieldSlots |-> EncodeFieldSlots(class.fieldIndex),
       staticFields |-> EncodeFieldDefs(class.staticFields),
       methodOrder |-> class.methodOrder, methodSlots |-> EncodeBindings(class.methods, col),
       overloads |-> EncodeOverloads(class.overloads, col),
       ctor |-> IndexIn(col.fs, class.ctor),
       ctorOverloads |-> EncodeOverloadSlice(class.ctorOverloads, col),
       statics |-> EncodeBindings(class.statics, col),
       staticOverloads |-> EncodeOverloads(class.staticOverloads, col),
       special |-> EncodeSpecial(class.special, col), visibility |-> class.visibility,
       staticVisibility |-> class.staticVisibility, annotations |-> class.annotations,
       ctorVisibility |-> class.ctorVisibility]

EncodeClasses(g, col) ==
  Write(ListOf(ClassWritten), [i \in DOMAIN col.cs |-> EncodeClass(g, col, col.cs[i])])

(***************************************************************************)
(* The file.                                                               *)
(***************************************************************************)
Header == Row(<< <<"magic", U4>>, <<"minor", U2>>, <<"major", U2>> >>)

\* buildClassAttributes: the entry method, the classes, the metadata of the module.
WriteAttributes(pool, col, g, metadata) ==
  LET Named(name, info) == Attribute(PlaceOf(pool, Tag.utf8, <<name>>), info)
  IN  <<Cell("u2", 3)>>
      \o Named("PolyloftModule", <<Cell("u2", IndexIn(col.fs, g.entry))>>)
      \o Named("PolyloftClasses", EncodeClasses(g, col))
      \o Named("PolyloftMetadata", metadata)

WriteModule(g, order, metadata) ==
  LET col == Reachable(g, order)
      pool == PoolOf(g, col)
      this == PlaceOf(pool, Tag.class, <<ModuleName(g.funcs[g.entry])>>)
  IN  Write(Header, [magic |-> Magic, minor |-> MinorVersion, major |-> MajorVersion])
      \o WriteCP(pool)
      \o <<Cell("u2", AccPublic + AccFinal), Cell("u2", this), Cell("u2", 0), Cell("u2", 0)>>
      \o WriteFields(pool, g)
      \o WriteMethods(pool, col, g)
      \o WriteAttributes(pool, col, g, metadata)
=============================================================================
