--------------------------------- MODULE Types ---------------------------------
(***************************************************************************)
(* The types of the checker (internal/sema/types.go) and its rules: which  *)
(* type may be given where which is asked for, and what iterating,         *)
(* indexing, slicing or taking apart a value of a type yields.             *)
(*                                                                         *)
(* The checker hangs the members of a class on each of its types; here a   *)
(* type names its class and "shapes" gives the members: for each class or  *)
(* interface, whether it is one, its type parameters, its members, what    *)
(* it declares to implement, and its superclass.                           *)
(*                                                                         *)
(* A type is a record [form, name, args]: the arguments of a plain type,   *)
(* the options of a union, the bounds of a type parameter or a wildcard,   *)
(* the parameters and then the result of a function.                       *)
(***************************************************************************)
EXTENDS RuntimeTypes

Simple(name) == [form |-> "plain", name |-> name, args |-> << >>]
Of(name, args) == [Simple(name) EXCEPT !.args = args]
\* A built-in type written without its members.
Stub(name) == [Simple(name) EXCEPT !.form = "stub"]
TypeVariable(name, bounds) == [form |-> "variable", name |-> name, args |-> bounds]
Wildcard(form, bounds) == [form |-> form, name |-> "?", args |-> bounds]
Callable(params, result) ==
    [form |-> "callable", name |-> "Function", args |-> Append(params, result)]

AnyType == Simple("any")
Unknown == Simple("Unknown")
Whole == Simple("int")

IsUnion(t) == t.form = "union"
IsWildcard(t) == t.form \in {"anything", "extends", "super"}
TypeArgs(t) == IF t.form \in {"plain", "stub"} THEN t.args ELSE << >>
Params(f) == Front(f.args)
Result(f) == Last(f.args)

-----------------------------------------------------------------------------
(* Building types                                                          *)

RECURSIVE ExactlyMatches(_, _)
\* Of two functions, only that they are functions.
ExactlyMatches(t, u) ==
    IF IsUnion(t) \/ IsUnion(u)
    THEN /\ IsUnion(t) /\ IsUnion(u) /\ Len(t.args) = Len(u.args)
         /\ \A i \in DOMAIN t.args :
               Cardinality({j \in DOMAIN t.args : ExactlyMatches(t.args[i], t.args[j])})
               = Cardinality({j \in DOMAIN u.args : ExactlyMatches(t.args[i], u.args[j])})
    ELSE IF t.form = "variable" \/ u.form = "variable" THEN t.form = u.form /\ t.name = u.name
    ELSE IF IsWildcard(t) \/ IsWildcard(u) THEN t.form = u.form /\ Len(t.args) = Len(u.args)
              /\ \A i \in DOMAIN t.args : ExactlyMatches(t.args[i], u.args[i])
    ELSE /\ t.name = u.name /\ Len(TypeArgs(t)) = Len(TypeArgs(u))
         /\ \A i \in DOMAIN TypeArgs(t) : ExactlyMatches(t.args[i], u.args[i])

\* The options of a union are flattened as they are; any swallows the rest.
AddOption(flat, option) ==
    IF IsUnion(option) THEN flat \o option.args
    ELSE IF \E i \in DOMAIN flat : ExactlyMatches(flat[i], option) THEN flat
    ELSE Append(flat, option)
Flattened(options) ==
    LET flat[n \in 0 .. Len(options)] ==
            IF n = 0 THEN << >> ELSE AddOption(flat[n - 1], options[n])
    IN flat[Len(options)]
Joined(flat) ==
    IF Len(flat) = 1 THEN flat[1] ELSE [form |-> "union", name |-> "", args |-> flat]
UnionOf(options) ==
    IF options = << >> \/ \E i \in DOMAIN options : options[i].name = "any" THEN AnyType
    ELSE Joined(Flattened(options))

RECURSIVE Substitute(_, _)
Substitute(t, mapping) ==
    IF t.form = "variable" /\ t.name \in DOMAIN mapping THEN mapping[t.name]
    ELSE IF IsUnion(t) THEN UnionOf([i \in DOMAIN t.args |-> Substitute(t.args[i], mapping)])
    ELSE [t EXCEPT !.args = [i \in DOMAIN t.args |-> Substitute(t.args[i], mapping)]]

ArrayOf(element) == Of("array", <<element>>)
MapOf(key, value) == Of("map", <<key, value>>)

\* The type of [a, b, ...]: the union of the elements' types.
ArrayLiteralType(types) ==
    ArrayOf(IF types = << >> THEN AnyType
            ELSE FoldLeft(LAMBDA t, u : UnionOf(<<t, u>>), types[1], Tail(types)))

\* The type of {k: a, ...}: likewise, but an element whose type is any so far
\* gives way to the next one.
MapLiteralType(types) ==
    MapOf(Simple("String"),
          FoldLeft(LAMBDA t, u : IF t = AnyType THEN u ELSE UnionOf(<<t, u>>), AnyType, types))

-----------------------------------------------------------------------------
(* Members                                                                 *)

TypeArg(t, i) ==
    IF i \in DOMAIN t.args THEN t.args[i]
    ELSE IF t.name = "map" /\ i = 1 THEN Simple("String") ELSE AnyType
Readable(key, item) == "__get" :> Callable(<<key>>, item)
Holder(key, item) ==
    Readable(key, item) @@ ("__set" :> Callable(<<key, item>>, Simple("void")))
    @@ ("__contains" :> Callable(<<key>>, Simple("bool")))
Sliced(t) == "__slice" :> Callable(<<Whole, Whole>>, Stub(t.name))
Pieces ==
    ("__pieces" :> Callable(<< >>, Whole)) @@ ("__get_piece" :> Callable(<<Whole>>, AnyType))
BuiltinMembers(t) ==
    CASE t.name = "Range" -> ("__length" :> Callable(<< >>, Whole)) @@ Readable(Whole, Whole)
      [] t.name = "array" ->
            ("__contains" :> Callable(<<TypeArg(t, 1)>>, Simple("bool")))
            @@ Holder(Whole, TypeArg(t, 1)) @@ Sliced(t)
      [] t.name = "map" -> Holder(TypeArg(t, 1), TypeArg(t, 2))
      [] t.name = "String" -> Sliced(t)
      [] t.name = "tuple" -> Pieces @@ Sliced(t)
      [] OTHER -> << >>

IsInterface(shapes, t) ==
    t.form = "plain" /\ t.name \in DOMAIN shapes /\ shapes[t.name].interface

Position(params, v) == CHOOSE i \in DOMAIN params : params[i] = v
\* What the type parameters stand for: a parameter not given is any, and itself
\* when none is given.
Bound(params, args) ==
    [v \in ToSet(params) |->
        IF Position(params, v) \in DOMAIN args THEN args[Position(params, v)]
        ELSE IF args = << >> THEN TypeVariable(v, << >>) ELSE AnyType]
Substituted(members, mapping) == [m \in DOMAIN members |-> Substitute(members[m], mapping)]

MembersOf(shapes, t) ==
    IF t.form # "plain" THEN << >>
    ELSE IF t.name \notin DOMAIN shapes THEN BuiltinMembers(t)
    ELSE Substituted(shapes[t.name].members, Bound(shapes[t.name].params, t.args))

RECURSIVE IsSubclassOf(_, _, _)
IsSubclassOf(shapes, class, ancestor) ==
    /\ class \in DOMAIN shapes /\ shapes[class].super # ""
    /\ shapes[class].super = ancestor \/ IsSubclassOf(shapes, shapes[class].super, ancestor)

-----------------------------------------------------------------------------
(* Assignability                                                           *)

ElementsMatch(ts, us, Accepts(_, _)) ==
    Len(ts) = Len(us) /\ \A i \in DOMAIN ts : Accepts(ts[i], us[i])

RECURSIVE IsAssignableFrom(_, _)
\* What the names of two types decide.
IsAssignableFrom(t, u) ==
    \/ u.name = "nil"
    \/ IF IsUnion(u) THEN \A j \in DOMAIN u.args : IsAssignableFrom(t, u.args[j])
       ELSE IF IsUnion(t) THEN \E i \in DOMAIN t.args : IsAssignableFrom(t.args[i], u)
       ELSE CASE t.form = "variable" /\ u.form = "variable" /\ t.name = u.name -> TRUE
              [] t.form = "anything" -> TRUE
              [] t.form = "extends" -> IsAssignableFrom(t.args[1], u)
              [] t.form = "super" -> IsAssignableFrom(u, t.args[1])
              [] t.form = "variable" -> \A i \in DOMAIN t.args : IsAssignableFrom(t.args[i], u)
              [] t.form = "callable" /\ u.form = "callable" ->
                    ElementsMatch(t.args, u.args, IsAssignableFrom)
              [] t.name = "tuple" /\ u.name = "tuple" ->
                    ElementsMatch(t.args, u.args, IsAssignableFrom)
              [] t.name = u.name /\ t.form # "callable" ->
                    \/ t.args = << >>
                    \/ ElementsMatch(t.args, TypeArgs(u),
                                     LAMBDA a, b : /\ IsWildcard(b) => IsWildcard(a)
                                                   /\ IsAssignableFrom(a, b))
              [] OTHER ->
                    \/ t.name \in {"any", u.name} \/ u.name \in {"any", "Unknown"}
                    \/ t.name = "number" /\ u.name \in {"int", "float"}
                    \/ t.name = "float" /\ u.name = "int"
                    \/ t.name \in {"int", "float"} /\ u.name = "number"

\* A verdict is "yes", "no", or "never": the comparison calls itself with the
\* types it began with, and the checker ends in a stack overflow.
InOrder(verdicts) ==
    LET stops == {i \in DOMAIN verdicts : verdicts[i] # "yes"}
    IN IF stops = {} THEN "yes" ELSE verdicts[CHOOSE i \in stops : \A j \in stops : i <= j]
\* Members are visited in no order: the one that does not end may come first.
Members(verdicts) ==
    IF "never" \in verdicts THEN "never" ELSE IF "no" \in verdicts THEN "no" ELSE "yes"
OrElse(verdict, other) == IF verdict = "no" THEN other ELSE verdict
Verdict(holds) == IF holds THEN "yes" ELSE "no"

Cross(ts, us, Compare(_, _)) ==
    IF Len(ts) # Len(us) THEN "no" ELSE InOrder([i \in DOMAIN ts |-> Compare(ts[i], us[i])])

Padded(args, n) == [i \in 1 .. n |-> IF i \in DOMAIN args THEN args[i] ELSE AnyType]

RECURSIVE Compare(_, _, _, _), Structural(_, _, _, _, _), Agree(_, _, _, _, _)

Agree(shapes, t, u, seen, open) ==
    OrElse(Compare(shapes, t, u, open), Structural(shapes, t, u, seen, open))

MemberFits(shapes, a, b, seen, open) ==
    IF a.form # "callable" /\ b.form # "callable" THEN Agree(shapes, a, b, seen, open)
    ELSE IF a.form # "callable" \/ b.form # "callable" \/ Len(a.args) # Len(b.args) THEN "no"
    ELSE InOrder(<<Cross(Params(a), Params(b), LAMBDA p, q : Compare(shapes, p, q, open)),
                   Agree(shapes, Result(a), Result(b), seen, open)>>)

MembersFit(shapes, expected, actual, seen, open) ==
    Members({IF name \in DOMAIN actual
             THEN MemberFits(shapes, expected[name], actual[name], seen, open) ELSE "no" :
             name \in DOMAIN expected})

\* recursiveStructuralAssignable: seen are the pairs this comparison of members
\* has met; open are the pairs being compared by anyone, which the checker does
\* not know: every call from Compare starts with nothing seen.
Structural(shapes, t, u, seen, open) ==
    IF {} \in {DOMAIN MembersOf(shapes, t), DOMAIN MembersOf(shapes, u)} THEN "no"
    ELSE IF <<t, u>> \in seen THEN "yes"
    ELSE MembersFit(shapes, MembersOf(shapes, t), MembersOf(shapes, u), seen \cup {<<t, u>>}, open)

\* The interfaces of t's name that the class of u says it implements.
Declared(shapes, t, u) ==
    IF IsInterface(shapes, t) /\ u.form = "plain" /\ u.name \in DOMAIN shapes
    THEN {Substitute(i, [v \in ToSet(shapes[u.name].params) |->
                            TypeArg(u, Position(shapes[u.name].params, v))]) :
          i \in {j \in ToSet(shapes[u.name].implements) : j.name = t.name}}
    ELSE {}

OnlyMember(members) ==
    IF Cardinality(DOMAIN members) = 1 THEN members[CHOOSE m \in DOMAIN members : TRUE] ELSE Unknown

\* isAssignable: by name, by declaration, and then by members.
Compare(shapes, t, u, open) ==
    LET Again(a, b) == Compare(shapes, a, b, open \cup {<<t, u>>})
        n == Max({Len(TypeArgs(t)), Len(TypeArgs(u))})
    IN IF <<t, u>> \in open THEN "never"
       ELSE CASE t.form = "variable" /\ u.form = "variable" /\ t.name = u.name -> "yes"
              [] t.form = "anything" -> "yes"
              [] t.form = "extends" -> Again(t.args[1], u)
              [] t.form = "super" -> Again(u, t.args[1])
              [] t.form = "variable" ->
                    InOrder([i \in DOMAIN t.args |-> Again(t.args[i], u)])
              [] {t.form, u.form} \subseteq {"plain", "stub"} /\ t.name = u.name /\ n > 0 ->
                    Cross(Padded(t.args, n), Padded(u.args, n), Again)
              [] \E i \in Declared(shapes, t, u) : Again(t, i) = "yes" -> "yes"
              [] t.form = "callable" /\ u.form = "callable" ->
                    InOrder(<<Cross(Params(t), Params(u), Again),
                              Agree(shapes, Result(t), Result(u), {}, open \cup {<<t, u>>})>>)
              [] IsAssignableFrom(t, u) -> "yes"
              [] t.form = "plain" /\ t.args = << >> /\ IsSubclassOf(shapes, u.name, t.name) -> "yes"
              [] IsInterface(shapes, t) /\ u.form = "callable" ->
                    IF OnlyMember(MembersOf(shapes, t)).form = "callable"
                    THEN Again(OnlyMember(MembersOf(shapes, t)), u) ELSE "no"
              [] IsInterface(shapes, t) /\ DOMAIN MembersOf(shapes, t) = {} -> "yes"
              [] OTHER -> Structural(shapes, t, u, {}, open \cup {<<t, u>>})

Assignable(shapes, t, u) == Compare(shapes, t, u, {})

-----------------------------------------------------------------------------
(* Using a value                                                           *)

IsMethod(members, name) == name \in DOMAIN members /\ members[name].form = "callable"
HasArity(members, name, arity) == IsMethod(members, name) /\ Len(Params(members[name])) = arity
ResultIn(members, name) == IF IsMethod(members, name) THEN Result(members[name]) ELSE AnyType

HasMember(shapes, t, name, arity) == HasArity(MembersOf(shapes, t), name, arity)
MemberResult(shapes, t, name) == ResultIn(MembersOf(shapes, t), name)

SupportsForIn(shapes, t) ==
    \/ t.name \in {"any", "Range", "tuple", "array", "map"}
    \/ {"__length", "__get"} \subseteq DOMAIN MembersOf(shapes, t)

RECURSIVE SupportsIndexing(_, _)
SupportsIndexing(shapes, t) ==
    \/ t.name \in {"any", "String", "array", "tuple", "map"}
    \/ IsUnion(t) /\ \E i \in DOMAIN t.args : SupportsIndexing(shapes, t.args[i])
    \/ HasMember(shapes, t, "__get", 1)

SupportsIndexAssignment(shapes, t) ==
    t.name \in {"any", "array", "map"} \/ HasMember(shapes, t, "__set", 2)

SupportsSliceable(shapes, t) ==
    t.name \in {"any", "String", "array", "tuple"} \/ HasMember(shapes, t, "__slice", 2)

SupportsContains(shapes, t) ==
    \/ t.name \in {"any", "String", "array", "map", "tuple", "Range"}
    \/ HasMember(shapes, t, "__contains", 1)

IndexKeyType(shapes, t) ==
    CASE t.name \in {"String", "array", "tuple"} -> Whole
      [] t.name = "map" -> IF t.args # << >> THEN t.args[1] ELSE Simple("String")
      [] HasMember(shapes, t, "__get", 1) -> Params(MembersOf(shapes, t)["__get"])[1]
      [] HasMember(shapes, t, "__set", 2) -> Params(MembersOf(shapes, t)["__set"])[1]
      [] OTHER -> AnyType

\* Mutant: the item type of a tuple is that of its first element.
ItemOfFirst(elements) == elements[1]
ItemOfTuple(elements) ==
    IF \A i \in DOMAIN elements : elements[i].name = elements[1].name THEN elements[1] ELSE AnyType

RECURSIVE IterableItemType(_, _)
\* Over what __get gives, once more: a class whose items are arrays is said to
\* yield their elements.
IterableItemType(shapes, t) ==
    CASE t.form = "extends" -> t.args[1]
      [] t.name = "Range" -> Whole
      [] t.name = "array" -> IF t.args # << >> THEN t.args[1] ELSE AnyType
      [] t.name = "map" -> Simple("String")
      [] t.name = "tuple" -> IF t.args # << >> THEN ItemOfTuple(t.args) ELSE AnyType
      [] "__get" \in DOMAIN MembersOf(shapes, t) ->
            IterableItemType(shapes, MemberResult(shapes, t, "__get"))
      [] OTHER -> AnyType

IndexValueType(shapes, t) ==
    CASE t.form = "extends" -> t.args[1]
      [] t.name = "String" -> Simple("char")
      [] t.name = "array" -> IF t.args # << >> THEN t.args[1] ELSE AnyType
      [] t.name = "map" -> IF Len(t.args) >= 2 THEN t.args[2] ELSE AnyType
      [] t.name # "tuple" /\ "__get" \in DOMAIN MembersOf(shapes, t) ->
            IterableItemType(shapes, MemberResult(shapes, t, "__get"))
      [] OTHER -> AnyType

IndexAssignedValueType(shapes, t) ==
    CASE t.name = "array" /\ t.args # << >> -> t.args[1]
      [] t.name = "map" /\ Len(t.args) >= 2 -> t.args[2]
      [] t.name \notin {"array", "map"} /\ HasMember(shapes, t, "__set", 2) ->
            Params(MembersOf(shapes, t)["__set"])[2]
      [] OTHER -> AnyType

SliceResultType(shapes, t) ==
    CASE t.form = "extends" -> t.args[1]
      [] t.name = "array" -> IF t.args # << >> THEN ArrayOf(t.args[1]) ELSE Simple("array")
      [] t.name \in {"String", "tuple"} -> Simple(t.name)
      [] OTHER -> MemberResult(shapes, t, "__slice")

ContainsKeyType(shapes, t) ==
    CASE t.name = "String" -> Simple("String")
      [] t.name \in {"array", "tuple"} -> IndexValueType(shapes, t)
      [] t.name = "map" -> IndexKeyType(shapes, t)
      [] t.name = "Range" -> Whole
      [] HasMember(shapes, t, "__contains", 1) -> Params(MembersOf(shapes, t)["__contains"])[1]
      [] OTHER -> AnyType

SupportsUnstructured(shapes, t) ==
    t.name \in {"any", "tuple"} \/ {"__pieces", "__get_piece"} \subseteq DOMAIN MembersOf(shapes, t)

\* The types of n pieces; << >> when the value cannot be taken apart into n.
DestructureTypes(shapes, t, n) ==
    CASE t.name = "any" -> [i \in 1 .. n |-> AnyType]
      [] t.name = "tuple" -> IF Len(t.args) = n THEN t.args ELSE << >>
      [] SupportsUnstructured(shapes, t) ->
            [i \in 1 .. n |-> MemberResult(shapes, t, "__get_piece")]
      [] OTHER -> << >>

-----------------------------------------------------------------------------
(* Calls of generic functions                                              *)

RECURSIVE InferBindings(_, _, _, _)
\* A parameter met again takes the later type when the earlier one accepts it.
InferBindings(shapes, pattern, actual, bindings) ==
    IF pattern.form = "variable"
    THEN IF pattern.name \in DOMAIN bindings
            /\ Assignable(shapes, bindings[pattern.name], actual) # "yes" THEN bindings
         ELSE (pattern.name :> actual) @@ bindings
    ELSE IF pattern.form = "plain" /\ pattern.name = actual.name
            /\ Len(pattern.args) = Len(TypeArgs(actual))
         THEN LET inner[n \in 0 .. Len(pattern.args)] ==
                      IF n = 0 THEN bindings
                      ELSE InferBindings(shapes, pattern.args[n], actual.args[n], inner[n - 1])
              IN inner[Len(pattern.args)]
    ELSE bindings

\* The type a call has; Refusal when the checker does not accept it.
Refusal == Simple("refused")
CalledWith(shapes, callee, given, bindings) ==
    IF \A i \in DOMAIN given :
          Assignable(shapes, Substitute(Params(callee)[i], bindings), given[i]) = "yes"
    THEN Substitute(Result(callee), bindings)
    ELSE Refusal
CallType(shapes, callee, given) ==
    LET bindings[n \in 0 .. Len(given)] ==
            IF n = 0 THEN << >>
            ELSE InferBindings(shapes, Params(callee)[n], given[n], bindings[n - 1])
    IN IF Len(Params(callee)) # Len(given) THEN Refusal
       ELSE CalledWith(shapes, callee, given, bindings[Len(given)])

-----------------------------------------------------------------------------
(* Casts                                                                   *)

NumericNames == {"int", "float", "number"}
Scalar == NumericNames \cup {"bool", "char", "nil", "void"}
Text == {"char", "String", "Char"}
\* The primitives a wrapper class is made of and gives back.
WrapsTo(wrapper) ==
    CASE wrapper \in {"Integer", "Float", "Double"} -> NumericNames
      [] wrapper = "Boolean" -> {"bool"}
      [] wrapper = "Char" -> {"char", "String"}
      [] OTHER -> {}

RECURSIVE CanReferenceCast(_, _, _)
CanReferenceCast(shapes, u, t) ==
    CASE IsUnion(t) -> \E i \in DOMAIN t.args : CanReferenceCast(shapes, u, t.args[i])
      [] IsUnion(u) -> \A j \in DOMAIN u.args : CanReferenceCast(shapes, u.args[j], t)
      [] u.name = "nil" -> t.name \notin Scalar
      [] OTHER ->
            \/ t.name \in WrapsTo(u.name) \/ u.name \in WrapsTo(t.name)
            \/ t.name = "any" \/ u.name \in {"any", "Unknown"}
            \/ {u.name, t.name} \subseteq Text
            \/ /\ {u.name, t.name} \cap Scalar = {}
               /\ \/ \E p \in {<<t, u>>, <<u, t>>} : Assignable(shapes, p[1], p[2]) = "yes"
                  \/ IsInterface(shapes, t) \/ IsInterface(shapes, u)
                  \/ {} \notin {DOMAIN MembersOf(shapes, t), DOMAIN MembersOf(shapes, u)}

RECURSIVE IsNumericSource(_)
IsNumericSource(u) ==
    IF IsUnion(u) THEN \A i \in DOMAIN u.args : IsNumericSource(u.args[i])
    ELSE u.name \in NumericNames \cup {"Integer", "Float", "Double"}

RECURSIVE IsNumericTarget(_)
IsNumericTarget(t) ==
    IF IsUnion(t) THEN \A i \in DOMAIN t.args : IsNumericTarget(t.args[i])
    ELSE t.name \in NumericNames

CanCast(shapes, u, t) ==
    IF IsNumericTarget(t) THEN IsNumericSource(u) \/ u.name \in {"any", "Unknown"}
    ELSE CanReferenceCast(shapes, u, t)

-----------------------------------------------------------------------------
\* typeNameFromRef: what the compiler writes for a declared type.
RECURSIVE NameOf(_)
NameOf(t) ==
    CASE IsUnion(t) -> FoldLeft(LAMBDA name, u : name \o NameOf(u), << >>, t.args)
      [] IsWildcard(t) -> Named("any")
      [] t.form = "callable" -> Named("Function")
      [] t.form = "variable" -> Named(t.name)
      [] OTHER -> Generic(Alias(t.name), [i \in DOMAIN t.args |-> NameOf(t.args[i])])
=============================================================================
