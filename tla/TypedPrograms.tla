----------------------------- MODULE TypedPrograms -----------------------------
(***************************************************************************)
(* Checker, compiler and VM over the same small programs.  A program's     *)
(* classes are declared and compiled one by one.  Then either a value goes *)
(* on a journey - it is bound with a declared type, cast, put into an      *)
(* array, iterated, indexed, passed to a function - each step taken when   *)
(* the checker accepts it and carried out by what the compiler emits for   *)
(* it; or one method or constructor is called.                             *)
(*                                                                         *)
(* An expression is [type, name, value]: the type the checker gives it,    *)
(* the type name the compiler infers for it, and what the VM holds.        *)
(***************************************************************************)
EXTENDS Types, Classes

CONSTANTS
    Programs,   \* for each name, [classes: one set of alternatives for each class, interfaces,
                \*  literals, types, loaded, functional, arguments,
                \*  journeys: may a value go on a journey?]
    MaxSteps    \* how many steps a journey has

VARIABLES
    program,    \* its name
    declared,   \* the class declarations met so far
    classes,    \* what the compiler has made of them
    current,    \* the value on its journey: << >> or one expression
    steps,
    trusted,    \* no step so far rested on any, or on members alike
    outcome,    \* "runs", "refused" by the VM, "not native" (likewise, for an index or a
                \* membership test), or "never" (the checker does not end)
    call        \* the call that was made: << >> or one record

vars == <<program, declared, classes, current, steps, trusted, outcome, call>>

Source == Programs[program]

-----------------------------------------------------------------------------
(* Declarations                                                            *)

DeclOf(class) == declared[CHOOSE i \in DOMAIN declared : declared[i].name = class]
DeclaredClasses == {declared[i].name : i \in DOMAIN declared}
OwnMethods(d, role) == SelectSeq(d.methods, LAMBDA m : m.role = role)

RECURSIVE ShapesOf(_, _)
\* classType: what the superclass has, then the class's own fields and methods.
ShapesOf(decls, interfaces) ==
    IF decls = << >> THEN interfaces
    ELSE LET shapes == ShapesOf(Front(decls), interfaces)
             d == Last(decls)
             parent == IF d.super = "" THEN << >> ELSE shapes[d.super].members
             fields == SelectSeq(d.fields, LAMBDA f : ~f.static)
             withFields == FoldLeft(LAMBDA m, f : Put(m, f.name, f.type), parent, fields)
             members == FoldLeft(LAMBDA m, f : Put(m, f.name, Callable(f.params, f.result)),
                                 withFields, OwnMethods(d, "method"))
         IN Put(shapes, d.name, [interface |-> FALSE, params |-> d.typeParams,
                                 members |-> members, implements |-> d.implements,
                                 super |-> d.super])
Shapes == ShapesOf(declared, Source.interfaces)

RECURSIVE AbstractMethods(_, _)
\* The names of the abstract methods a class has and nothing below implements.
AbstractMethods(decls, class) ==
    IF class = "" THEN {}
    ELSE LET d == decls[CHOOSE i \in DOMAIN decls : decls[i].name = class]
             own == ToSet(OwnMethods(d, "method"))
         IN (AbstractMethods(decls, d.super) \ {m.name : m \in {m \in own : ~m.abstract}})
            \cup {m.name : m \in {m \in own : m.abstract}}

\* The declaration as the compiler reads it: types are names.
AsNames(d) ==
    [d EXCEPT !.implements = {i.name : i \in ToSet(@)},
              !.methods = [i \in DOMAIN @ |-> [@[i] EXCEPT !.params =
                              [k \in DOMAIN @ |-> NameOf(@[k])]]]]

Declare ==
    /\ Len(declared) < Len(Source.classes)
    /\ \E d \in Source.classes[Len(declared) + 1] :
          /\ d.abstract \/ AbstractMethods(Append(declared, d), d.name) = {}
          /\ declared' = Append(declared, d)
          /\ classes' = Put(classes, d.name, CompileClass(classes, AsNames(d)))
    /\ UNCHANGED <<program, current, steps, trusted, outcome, call>>

Ready == Len(declared) = Len(Source.classes) /\ outcome = "runs" /\ call = << >>

-----------------------------------------------------------------------------
(* What the compiler adds to an argument                                   *)

\* A function becomes an instance of the one-method interface asked for.
WrapFunction(e, name) ==
    LET base == EmittedRoot(name)[1].base IN
    IF Len(name) = 1 /\ e.name = Named("Function") /\ base \in Source.functional
    THEN [Plain("wrapper") EXCEPT !.line = <<base>>] ELSE e.value

Checked(v, given, expected) ==
    CASE Untested(expected) \/ expected = Named("number") \/ given = expected -> v
      [] expected = Named("int") -> CastNumber(v, "int")
      [] expected = Named("float") -> CastNumber(v, "float")
      [] OTHER -> CastReference(v, expected, Source.loaded, Source.functional)

\* compileCallArgument: a check, unless the argument's own type is the one asked for.
CheckArgument(e, name) == Checked(WrapFunction(e, name), EmittedRoot(e.name), EmittedRoot(name))

-----------------------------------------------------------------------------
(* What the VM does with a value                                           *)

HasSpecial(v, names) == v.kind = "instance" /\ names \subseteq v.special

\* What is in a value is what its __get or __get_piece gives, if it has one.
CanIterate(v) ==
    HasSpecial(v, {"__length", "__get"}) \/ v.kind \in {"range", "array", "tuple", "map"}
\* A range counts in floats; a map gives its keys.
ItemsOf(v) ==
    CASE v.kind = "range" -> {Plain("float")}
      [] v.kind = "map" -> {Plain("text")}
      [] OTHER -> ToSet(v.holds)

CanIndex(v, key) ==
    \/ v.kind \in {"letter", "text", "array", "tuple"} /\ key.kind \in {"int", "float"}
    \/ v.kind = "map" /\ key.kind \in {"letter", "text"}
    \/ HasSpecial(v, {"__get"})
CanStore(v, key) ==
    \/ v.kind = "array" /\ key.kind \in {"int", "float"}
    \/ v.kind = "map" /\ key.kind \in {"letter", "text"}
    \/ HasSpecial(v, {"__set"})
\* What is at the first index, or under some key: a map has nil under the others.
AtIndex(v) ==
    CASE v.kind \in {"letter", "text"} -> {Plain("char")}
      [] v.kind = "map" -> ToSet(v.holds) \cup {Plain("nil")}
      [] OTHER -> IF v.holds = << >> THEN {} ELSE {v.holds[1]}

CanSlice(v) ==
    v.kind \in {"letter", "text", "array", "tuple"} \/ HasSpecial(v, {"__slice"})
\* From the first element to the first.
FirstSlice(v) ==
    CASE v.kind \in {"letter", "text"} -> Plain("text")
      [] v.kind \in {"array", "tuple"} ->
            [v EXCEPT !.holds = IF @ = << >> THEN @ ELSE <<@[1]>>]
      [] OTHER -> v

CanUnpack(v, n) ==
    (HasSpecial(v, {"__pieces", "__get_piece"}) \/ v.kind \in {"tuple", "array"})
    /\ Len(v.holds) = n

CanContain(v, needle) ==
    \/ /\ v.kind \in {"letter", "text"}
       /\ needle.kind \in {"letter", "text", "char"} \/ WrapperOf(needle, {"String"})
    \/ v.kind = "array"
    \/ v.kind = "map" /\ needle.kind \in {"letter", "text"}
    \/ HasSpecial(v, {"__contains"})

\* The name the compiler infers for an item: only of an array<T> it knows one.
ItemName(name) ==
    IF Len(name) = 1 /\ Alias(name[1].base) = "array" /\ Len(name[1].args) = 1
    THEN name[1].args[1] ELSE NoType

-----------------------------------------------------------------------------
(* How far a step can be trusted                                           *)

RECURSIVE Mentioned(_)
\* The names in a type; an array, a map or a tuple of anything mentions any.
Mentioned(t) ==
    {t.name} \cup (IF t.name \in {"array", "map", "tuple"} /\ t.args = << >> THEN {"any"} ELSE {})
    \cup UNION {Mentioned(t.args[i]) : i \in DOMAIN t.args}

Builtin == {"Iterable", "Indexable", "Sliceable", "Unstructured"}
WithMembers == DeclaredClasses \cup DOMAIN Source.interfaces
               \cup {"array", "map", "tuple", "Range", "String"}
\* d is c, or comes after it, or says that it implements it.
Declares(d, c) ==
    \/ d = c \/ IsSubclassOf(Shapes, d, c)
    \/ d \in DeclaredClasses /\ \E i \in ToSet(DeclOf(d).implements) : i.name = c
ByName(t, u) ==
    \A c \in (Mentioned(t) \cap WithMembers) \ Builtin :
        \/ Mentioned(u) \cap WithMembers = {}
        \/ \E d \in Mentioned(u) : Declares(d, c)
Empty(c) == c \in DOMAIN Source.interfaces /\ DOMAIN Source.interfaces[c].members = {}

RECURSIVE Straight(_, _)
\* A u is given for a t by names: not out of any, not a number for an int, not a
\* class for one of like members, not anything for an interface that has none, not
\* a tuple for a longer one.
Straight(t, u) ==
    IF IsUnion(u) THEN \A j \in DOMAIN u.args : Straight(t, u.args[j])
    ELSE IF IsUnion(t)
         THEN \E i \in DOMAIN t.args : Assignable(Shapes, t.args[i], u) = "yes"
                                       /\ Straight(t.args[i], u)
    ELSE \/ t \in {u, AnyType}
         \/ /\ Mentioned(u) \cap {"any", "Unknown"} = {}
            /\ "number" \in Mentioned(u) => "number" \in Mentioned(t)
            /\ {t.name, u.name} = {"tuple"} => Len(t.args) \in {0, Len(u.args)}
            /\ ByName(t, u)
            /\ Empty(t.name) => Declares(u.name, t.name)

RECURSIVE FullyTested(_)
\* The VM's test of a value against a type tells whether it is one; a char passes
\* as it is for a String in a union or a tuple.
FullyTested(t) ==
    IF IsUnion(t)
    THEN \A i \in DOMAIN t.args : /\ FullyTested(t.args[i]) /\ t.args[i].args = << >>
                                  /\ t.args[i].name # "String"
    ELSE /\ t.name \in {"int", "float", "bool", "char", "String", "Range", "array", "map",
                        "tuple"} \cup DeclaredClasses
         /\ t.args # << >> => t.name \in {"map", "tuple"}
         /\ \A i \in DOMAIN t.args :
               FullyTested(t.args[i]) /\ t.args[i].name \notin {"array", "String"}

-----------------------------------------------------------------------------
(* The journey of a value                                                  *)

Expr(type, name, value) == [type |-> type, name |-> name, value |-> value]

\* The steps: what the value becomes, whether the step is refused, and whether
\* it can be trusted.
Moves(e, trust) ==
    /\ current' = <<e>>
    /\ trusted' = (trusted /\ trust)
    /\ steps' = steps + 1
    /\ UNCHANGED <<program, declared, classes, call>>
Goes(e, trust) == Moves(e, trust) /\ UNCHANGED outcome
Stops(result, trust) ==
    /\ outcome' = result
    /\ trusted' = (trusted /\ trust)
    /\ steps' = steps + 1
    /\ UNCHANGED <<program, declared, classes, current, call>>
\* A step the checker has accepted, which yields some of the values, if it can.
Yields(can, values, type, name, trust) ==
    IF can THEN \E v \in values : Goes(Expr(type, name, v), trust) ELSE Stops("refused", trust)

OnJourney == Ready /\ Source.journeys /\ steps < MaxSteps
Travels == OnJourney /\ current # << >>
x == current[1]

\* A literal, or a new instance of a class.
Begin ==
    /\ OnJourney /\ current = << >>
    /\ \/ \E e \in Source.literals : Goes(e, TRUE)
       \/ \E c \in DeclaredClasses :
             /\ ~classes[c].abstract /\ DeclOf(c).typeParams = << >>
             /\ \E items \in DeclOf(c).items :
                   Goes(Expr(Simple(c), Named(c),
                             [Instance(classes, c) EXCEPT !.holds = items]), TRUE)

\* let y: T = x.  Nothing is emitted but the wrapping of a function.
Bind ==
    /\ Travels
    /\ \E t \in Source.types :
          LET verdict == Assignable(Shapes, t, x.type) IN
          \/ verdict = "yes"
             /\ Goes(Expr(t, NameOf(t), WrapFunction(x, NameOf(t))), Straight(t, x.type))
          \/ verdict = "never" /\ Stops("never", TRUE)

\* Only a superclass of the value's class declares that it implements t: the
\* checker follows the declared type of an expression, the VM asks the value.
PromisedAbove(v, t) ==
    /\ v.kind = "instance" /\ t.name \notin v.implements
    /\ \E c \in ToSet(v.line) : t.name \in {i.name : i \in ToSet(DeclOf(c).implements)}

\* f(x), where f takes a T: x becomes f's parameter.
Pass ==
    /\ Travels
    /\ \E t \in Source.types :
          /\ Assignable(Shapes, t, x.type) = "yes"
          /\ \E given \in {CheckArgument(x, NameOf(t))} :
                IF given # Refused
                THEN Goes(Expr(t, NameOf(t), given), Straight(t, x.type))
                ELSE Stops("refused", Straight(t, x.type) /\ ~PromisedAbove(x.value, t))

\* pick(x, y), where pick<T>(a: T, b: T) -> T gives one of the two back.
Pick ==
    /\ Travels
    /\ \E y \in Source.literals, swapped \in BOOLEAN :
          LET t == TypeVariable("T", << >>)
              a == IF swapped THEN y ELSE x
              b == IF swapped THEN x ELSE y
              type == CallType(Shapes, Callable(<<t, t>>, t), <<a.type, b.type>>)
          IN /\ type # Refusal
             /\ \E v \in {a.value, b.value} :
                   Goes(Expr(type, Named("T"), v), Straight(type, a.type) /\ Straight(type, b.type))

\* [x, y], (x, y) or {k: x, l: y}.  Bound: only while a step is left to use it.
Combine ==
    /\ Travels /\ steps + 1 < MaxSteps
    /\ \E y \in {x} \cup Source.literals :
          \/ Goes(Expr(ArrayLiteralType(<<x.type, y.type>>), Named("array"),
                       Holding("array", <<x.value, y.value>>)), TRUE)
          \/ Goes(Expr(Of("tuple", <<x.type, y.type>>), Named("tuple"),
                       Holding("tuple", <<x.value, y.value>>)), TRUE)
          \/ Goes(Expr(MapLiteralType(<<x.type, y.type>>), Named("map"),
                       Holding("map", <<x.value, y.value>>)), x.type # AnyType)

\* for y in x, and for k, v in x over a map.
Iterate ==
    /\ Travels /\ SupportsForIn(Shapes, x.type)
    /\ \/ Yields(CanIterate(x.value), ItemsOf(x.value), IterableItemType(Shapes, x.type),
                 ItemName(x.name), x.value.kind # "range")
       \/ /\ x.type.name = "map"
          /\ Yields(CanIterate(x.value), ToSet(x.value.holds), AnyType, NoType, TRUE)

\* x[0] and x["key"].
Index ==
    /\ Travels /\ SupportsIndexing(Shapes, x.type)
    /\ \E key \in {"int", "text"} :
          LET keyType == Simple(IF key = "int" THEN "int" ELSE "String")
              type == IF x.type.name = "tuple" /\ x.type.args # << >> /\ key = "int"
                      THEN x.type.args[1] ELSE IndexValueType(Shapes, x.type)
              name == IF ItemName(x.name) = NoType THEN Named("any") ELSE ItemName(x.name)
          IN /\ IsAssignableFrom(IndexKeyType(Shapes, x.type), keyType)
             /\ IF CanIndex(x.value, Plain(key))
                THEN \E v \in AtIndex(x.value) : Goes(Expr(type, name, v), ~IsUnion(x.type))
                ELSE Stops("not native", ~IsUnion(x.type))

\* x[0...0].
Slice ==
    /\ Travels /\ SupportsSliceable(Shapes, x.type)
    /\ LET type == IF x.type.name = "tuple" /\ x.type.args # << >>
                   THEN Of("tuple", <<x.type.args[1]>>) ELSE SliceResultType(Shapes, x.type)
       IN Yields(CanSlice(x.value), {FirstSlice(x.value)}, type, x.name, TRUE)

\* let a, b = x; the journey goes on with one of the two.
TakeApart ==
    /\ Travels
    /\ LET types == DestructureTypes(Shapes, x.type, 2) IN
       /\ types # << >>
       /\ \E i \in {1, 2} :
             Yields(CanUnpack(x.value, 2), {x.value.holds[i]}, types[i], NoType, TRUE)

\* y in x, for a y that is something.
IsIn ==
    /\ Travels /\ SupportsContains(Shapes, x.type)
    /\ \E y \in Source.literals :
          /\ y.value.kind # "nil"
          /\ Assignable(Shapes, ContainsKeyType(Shapes, x.type), y.type) = "yes"
          /\ IF CanContain(x.value, y.value)
             THEN Goes(Expr(Simple("bool"), Named("bool"), Plain("bool")), TRUE)
             ELSE Stops("not native", TRUE)

\* x[0] = y and x["key"] = y, over the first element.
Store ==
    /\ Travels /\ SupportsIndexAssignment(Shapes, x.type)
    /\ \E key \in {"int", "text"}, y \in Source.literals :
          LET keyType == Simple(IF key = "int" THEN "int" ELSE "String")
              assigned == IndexAssignedValueType(Shapes, x.type)
              stored == IF x.value.holds = << >> THEN x.value
                        ELSE [x.value EXCEPT !.holds[1] = y.value]
          IN /\ IsAssignableFrom(IndexKeyType(Shapes, x.type), keyType)
             /\ Assignable(Shapes, assigned, y.type) = "yes"
             /\ Yields(CanStore(x.value, Plain(key)), {stored}, x.type, x.name,
                       Straight(assigned, y.type))

\* emitCastForType.
Emitted(v, name) ==
    CASE name \in {Named("int"), Named("float")} -> CastNumber(v, name[1].base)
      [] name = Named("number") -> v
      [] OTHER -> CastReference(v, name, Source.loaded, Source.functional)

\* x as T: what passes is a T, wherever it came from - but of the elements of an
\* array, and of what a class was made for, nothing is looked at.
Cast ==
    /\ Travels
    /\ \E t \in Source.types :
          /\ CanCast(Shapes, x.type, t)
          /\ \E given \in {Emitted(x.value, NameOf(t))} \ {Refused} :
                Goes(Expr(t, NameOf(t), given),
                     FullyTested(t)
                     \/ (Assignable(Shapes, t, x.type) = "yes" /\ Straight(t, x.type)))

-----------------------------------------------------------------------------
(* Calls                                                                   *)

Calls == Ready /\ ~Source.journeys
Concrete == {c \in DeclaredClasses : ~classes[c].abstract}
TypesOf(args) == [i \in DOMAIN args |-> args[i].type]
ValuesOf(args) == [i \in DOMAIN args |-> args[i].value]

DeclaresMethod(class, name) ==
    \E m \in ToSet(OwnMethods(DeclOf(class), "method")) : m.name = name
\* The class whose declaration of a method counts for class.
OwnerOf(class, name) ==
    LET line == SelectSeq(Line(classes, class), LAMBDA c : DeclaresMethod(c, name))
    IN IF line = << >> THEN "" ELSE line[1]

\* A method of which the checker has met another declaration, above, below or
\* beside it: it lets any arguments through.
Overloaded(class, name) ==
    LET owner == OwnerOf(class, name)
        own == SelectSeq(OwnMethods(DeclOf(owner), "method"), LAMBDA m : m.name = name)
    IN \/ Len(own) > 1
       \/ OwnerOf(DeclOf(owner).super, name) # ""
       \/ \E d \in DeclaredClasses : DeclaresMethod(d, name)
                                    /\ OwnerOf(DeclOf(d).super, name) = owner

Visible(class, name) ==
    \E m \in ToSet(OwnMethods(DeclOf(OwnerOf(class, name)), "method")) :
        m.name = name /\ m.visibility = "public"

Calling(kind, class, receiver, name, args, result) ==
    /\ call' = <<[kind |-> kind, class |-> class, receiver |-> receiver, name |-> name,
                  args |-> args, result |-> result]>>
    /\ UNCHANGED <<program, declared, classes, current, steps, trusted, outcome>>

\* r.m(args) on an r declared as class and holding a receiver.
CallMethod ==
    /\ Calls
    /\ \E receiver \in Concrete, args \in Source.arguments :
       \E class \in ToSet(Line(classes, receiver)) :
       \E name \in DOMAIN Shapes[class].members :
          LET member == Shapes[class].members[name]
              methods == classes[class].methods
              slot == SlotOf(classes[class].methodOrder, name)
              expected == IF slot = 0 THEN << >> ELSE methods[name].params
              given == [i \in DOMAIN args |->
                           IF i \in DOMAIN expected THEN CheckArgument(args[i], expected[i])
                           ELSE args[i].value]
          IN /\ member.form = "callable" /\ Visible(class, name)
             /\ Overloaded(class, name) \/ CallType(Shapes, member, TypesOf(args)) # Refusal
             /\ \A i \in DOMAIN given : given[i] # Refused
             /\ IF slot = 0
                THEN Calling("named", class, receiver, name, given,
                             Invoke(classes, receiver, name, given, ""))
                ELSE Calling("slot", class, receiver, name, given,
                             InvokeSlot(classes, receiver, slot, given))

\* r.m(args) and (r.m)(args) on an r of type any, from the code of some class.
CallAny ==
    /\ Calls
    /\ \E receiver \in Concrete, args \in Source.arguments, from \in {""} \cup DeclaredClasses :
       \E name \in DOMAIN classes[receiver].methods :
          LET given == ValuesOf(args) IN
          \/ Calling("named", from, receiver, name, given,
                     Invoke(classes, receiver, name, given, from))
          \/ Calling("bound", from, receiver, name, given,
                     CallBound(classes, receiver, name, given, from))

\* super.m(args) in a method of class, run on a receiver.
CallSuper ==
    /\ Calls
    /\ \E receiver \in Concrete, args \in Source.arguments :
       \E class \in ToSet(Line(classes, receiver)) :
       \E name \in DOMAIN classes[class].methods :
          /\ OwnerOf(DeclOf(class).super, name) # ""
          /\ Calling("super", class, receiver, name, ValuesOf(args),
                     InvokeSuper(classes, receiver, class, name, ValuesOf(args)))

CallStatic ==
    /\ Calls
    /\ \E class \in DeclaredClasses, args \in Source.arguments :
       \E name \in UNION {DOMAIN classes[c].staticMethods : c \in DeclaredClasses} :
          Calling("static", class, class, name, ValuesOf(args),
                  InvokeStatic(classes, class, name, ValuesOf(args), ""))

\* new C(args) and C(args), accepted for one of C's own constructors; a class
\* without any takes no arguments.
Construct ==
    /\ Calls
    /\ \E class \in Concrete, args \in Source.arguments :
          LET own == OwnMethods(DeclOf(class), "constructor")
              given == ValuesOf(args)
          IN /\ \/ own = << >> /\ args = << >>
                \/ \E i \in DOMAIN own :
                      CallType(Shapes, Callable(own[i].params, AnyType), TypesOf(args)) # Refusal
             /\ \/ Calling("new", class, class, "", given, New(classes, class, given, ""))
                \/ Calling("construct", class, class, "", given,
                           CallClass(classes, class, given, ""))

-----------------------------------------------------------------------------
Init ==
    /\ program \in DOMAIN Programs
    /\ declared = << >> /\ classes = << >> /\ current = << >> /\ steps = 0
    /\ trusted = TRUE /\ outcome = "runs" /\ call = << >>

Next ==
    \/ Declare
    \/ Begin \/ Bind \/ Pass \/ Pick \/ Combine \/ Iterate \/ Index \/ Slice \/ TakeApart
    \/ IsIn \/ Store \/ Cast
    \/ CallMethod \/ CallAny \/ CallSuper \/ CallStatic \/ Construct

Spec == Init /\ [][Next]_vars

-----------------------------------------------------------------------------
(* What should hold of a journey                                           *)

RECURSIVE Inhabits(_, _)
\* A value is one of a type; nil is one of every type.
Inhabits(v, t) ==
    \/ v.kind = "nil" \/ t.name \in {"any", "Unknown"}
    \/ t.form \in {"variable", "anything", "super"}
    \/ t.form = "extends" /\ Inhabits(v, t.args[1])
    \/ IsUnion(t) /\ \E i \in DOMAIN t.args : Inhabits(v, t.args[i])
    \/ t.name = "Function" /\ v.kind \in {"function", "wrapper"}
    \/ t.name \in {"float", "number"} /\ v.kind \in {"int", "float"}
    \/ t.name = "String" /\ v.kind \in {"letter", "text"}
    \/ t.name = "Range" /\ v.kind = "range"
    \/ t.name \in {"int", "bool", "char"} /\ v.kind = t.name
    \/ /\ t.name \in {"array", "map"} /\ v.kind = t.name
       /\ t.args # << >> => \A i \in DOMAIN v.holds : Inhabits(v.holds[i], Last(t.args))
    \/ /\ t.name = "tuple" /\ v.kind = "tuple"
       /\ t.args # << >> => /\ Len(t.args) = Len(v.holds)
                           /\ \A i \in DOMAIN t.args : Inhabits(v.holds[i], t.args[i])
    \/ t.name \in Builtin /\ MatchesStructuralInterface(v, t.name)
    \/ v.kind \in {"instance", "wrapper"} /\ t.name \in ToSet(v.line)
    \/ v.kind = "instance" /\ \E c \in ToSet(v.line), i \in UNION {ToSet(DeclOf(d).implements) :
                                  d \in DeclaredClasses} :
          i.name = t.name /\ i \in ToSet(DeclOf(c).implements)

\* A value that has come its way without any, without a number taken for an int (as
\* those a loop takes from a range are), and without one class passing for another or
\* anything for an interface without members, is one of the type the checker has for
\* it: through bindings, calls, casts, arrays, loops and indices.
FitsItsType == \A i \in DOMAIN current : trusted => Inhabits(current[i].value, current[i].type)

\* Of such a value, when it is neither nil nor of type any, the VM refuses nothing
\* that the checker has accepted: no loop, slice, store or argument; no index but
\* of a range, and no membership test but in a tuple or a range, which the VM does
\* not know.
NothingRefused ==
    (trusted /\ current # << >>) =>
        \/ x.value.kind = "nil" \/ x.type = AnyType
        \/ /\ outcome # "refused"
           /\ outcome = "not native" => x.value.kind \in {"tuple", "range"}

\* The checker ends: comparing two types never comes back to comparing them.
CheckerAnswers == outcome # "never"

-----------------------------------------------------------------------------
(* What should hold of classes and calls                                   *)

Distinct(s) == Cardinality(ToSet(s)) = Len(s)

\* A number the compiler has put into an instruction means the same in every
\* class below: fields and methods keep the slots their ancestors gave them, no
\* name has two, and the function in a method's slot is the nearest declared one.
SlotsShared ==
    \A class \in DeclaredClasses :
        LET c == classes[class] IN
        /\ Distinct(c.fieldOrder) /\ Distinct(c.methodOrder)
        /\ \A a \in ToSet(Line(classes, class)) :
              /\ IsPrefix(classes[a].fieldOrder, c.fieldOrder)
              /\ IsPrefix(classes[a].methodOrder, c.methodOrder)
        /\ \A i \in DOMAIN c.methodOrder :
              LET declaring == SelectSeq(Line(classes, class), LAMBDA b :
                      \E m \in ToSet(OwnMethods(DeclOf(b), "method")) :
                          m.name = c.methodOrder[i] /\ ~m.abstract)
              IN c.table[i].name = c.methodOrder[i] /\ c.table[i].owner = declaring[1]

Made == call # << >> /\ call[1].result # << >>
Result1 == call[1].result[1]
Names(params) == [k \in DOMAIN params |-> NameOf(params[k])]

\* A method that a class below its owner declares again with the same parameter
\* types never runs for an instance of that class, whatever the arguments are and
\* however the call is made, but by super.
OverridesReplace ==
    Made /\ call[1].kind \in {"slot", "named", "bound"} =>
        \A b \in ToSet(Line(classes, call[1].receiver)) :
            b # Result1.owner /\ Inherits(classes, b, Result1.owner) =>
                \A m \in ToSet(OwnMethods(DeclOf(b), "method")) :
                    ~(m.name = Result1.name /\ ~m.abstract /\ Names(m.params) = Result1.params)

\* super.m runs a method of a proper ancestor of the class it is written in, the
\* nearest that has one for the arguments: it never comes back to that class
\* through a receiver of a class further down.
SuperGoesUp ==
    call # << >> /\ call[1].kind = "super" =>
        LET above == Tail(Line(classes, call[1].class))
            Fitting(c) == {m \in ToSet(OwnMethods(DeclOf(c), "method")) :
                              /\ m.name = call[1].name /\ ~m.abstract
                              /\ OverloadMatches(Names(m.params), call[1].args)}
            fit == {i \in DOMAIN above : Fitting(above[i]) # {}}
        IN Made => /\ fit # {}
                   /\ Result1.owner = above[CHOOSE i \in fit : \A j \in fit : i <= j]

\* A slot means its name: it is one method's in every class below, and a call by slot,
\* which chooses nothing, runs the function a call by name would choose, where a name
\* has one list of parameter types in the whole line.
SlotMeansName ==
  /\ SlotsShared
  /\ call # << >> /\ call[1].kind = "slot" =>
        LET line == Line(classes, call[1].receiver)
            lists == {Names(m.params) : m \in UNION {{m \in ToSet(OwnMethods(DeclOf(b), "method")) :
                                                        m.name = call[1].name} : b \in ToSet(line)}}
        IN Cardinality(lists) = 1 =>
               call[1].result = Invoke(classes, call[1].receiver, call[1].name, call[1].args, "")

\* new C(args) and C(args) leave the same instance, and the plan that stands for
\* a constructor does what its body does, for a class that declares at most one.
PlanMeansBody ==
    call # << >> /\ call[1].kind = "new" =>
        LET class == call[1].class
            own == OwnMethods(DeclOf(class), "constructor")
        IN Len(own) <= 1 =>
            /\ call[1].result = CallClass(classes, class, call[1].args, "")
            /\ classes[class].fast # << >> =>
                  call[1].result = Run(classes, class, classes[class].constructor, call[1].args)

Compound(m) == \E i \in DOMAIN m.sets : m.sets[i].op # "="

\* The same of a class whose constructor assigns with = alone (detectFastConstructor
\* does not read the operator): whatever the order and the fields of the assignments,
\* the initial values and the constructors of its superclasses.
PlanOfStoresMeansBody ==
    (/\ call # << >> /\ call[1].kind = "new"
     /\ \A m \in ToSet(OwnMethods(DeclOf(call[1].class), "constructor")) : ~Compound(m))
        => PlanMeansBody

\* Constructing an instance of C runs a constructor that C declares, or none.
RunsItsOwnConstructor ==
    Made /\ call[1].kind \in {"new", "construct"} =>
        \A i \in DOMAIN Result1.ran : Result1.ran[i].owner = call[1].class
=============================================================================
