----------------------------- MODULE RuntimeTypes -----------------------------
(***************************************************************************)
(* The types the running program knows: names only.  A type annotation     *)
(* reaches the bytecode as text (typeNameFromRef); the VM takes the text   *)
(* apart again when it tests a value against it.  Here a name is the       *)
(* sequence of its '|' options, each a base with type arguments; taking a  *)
(* text apart is modelled by what it yields, its slips included.           *)
(*                                                                         *)
(* A value carries what the tests look at: its kind, for an instance the   *)
(* names of its class and superclasses, nearest first, what the class      *)
(* itself declares to implement, the special methods it has, and the       *)
(* values it holds.                                                        *)
(***************************************************************************)
EXTENDS Integers, Sequences, FiniteSets, SequencesExt

Named(base) == <<[base |-> base, args |-> << >>]>>
Generic(base, args) == <<[base |-> base, args |-> args]>>
Either(a, b) == a \o b
NoType == Named("")

Kinds == {"nil", "bool", "char", "letter", "text", "int", "float", "array", "map", "tuple",
          "range", "function", "instance", "class", "wrapper"}
Plain(kind) ==
    [kind |-> kind, line |-> << >>, implements |-> {}, special |-> {}, holds |-> << >>]
Holding(kind, values) == [Plain(kind) EXCEPT !.holds = values]

ClassName(v) == IF v.line = << >> THEN "" ELSE v.line[1]

-----------------------------------------------------------------------------
(* Names                                                                   *)

Alias(base) ==
    CASE base \in {"Int", "int"} -> "int"
      [] base \in {"Float", "float"} -> "float"
      [] base \in {"Number", "number"} -> "number"
      [] base \in {"Bool", "bool"} -> "bool"
      [] base \in {"Char", "char"} -> "char"
      [] base \in {"String", "string"} -> "String"
      [] base \in {"Array", "array"} -> "array"
      [] base \in {"Map", "map"} -> "map"
      [] base \in {"Tuple", "tuple"} -> "tuple"
      [] base \in {"Range", "range"} -> "Range"
      [] base \in {"Any", "any", ""} -> "any"
      [] OTHER -> base

AliasOf(name) == IF Len(name) = 1 /\ name[1].args = << >> THEN Named(Alias(name[1].base)) ELSE name

\* The text of a name ends in '>': only then are type arguments looked for.
EndsInArguments(name) == Last(name).args # << >>

\* The VM cuts the text at its first '<': the options after that one are lost.
Root(name) ==
    IF ~EndsInArguments(name) THEN AliasOf(name)
    ELSE LET cut == CHOOSE k \in 1 .. Len(name) :
                        name[k].args # << >> /\ \A j \in 1 .. (k - 1) : name[j].args = << >>
         IN AliasOf([i \in 1 .. cut |-> [name[i] EXCEPT !.args = << >>]])

\* The compiler cuts it at the last '<' outside any other: only the last option
\* loses its arguments.
EmittedRoot(name) ==
    IF ~EndsInArguments(name) THEN AliasOf(name)
    ELSE AliasOf([name EXCEPT ![Len(name)].args = << >>])

\* One capital, or a capital and a digit; of the names used here, these.
ShortNames == {"T", "K1"}
IsTypeParameter(name) == Len(name) = 1 /\ name[1].base \in ShortNames

Untested(name) == name = Named("any") \/ IsTypeParameter(name)

\* The list inside <...>: nothing at all when it holds no comma.
Arguments(option) == IF Len(option.args) > 1 THEN option.args ELSE << >>

-----------------------------------------------------------------------------
(* Does a value match a type name?                                         *)

WrapperOf(v, names) == v.kind = "instance" /\ Alias(ClassName(v)) \in names

MatchesScalar(v, base) ==
    CASE base = "any" -> TRUE
      [] base = "int" -> v.kind = "int" \/ WrapperOf(v, {"Integer"})
      [] base = "float" -> v.kind = "float" \/ WrapperOf(v, {"Integer", "Float", "Double"})
      [] base = "number" ->
            v.kind \in {"int", "float"} \/ WrapperOf(v, {"Integer", "Float", "Double"})
      [] base = "char" -> v.kind = "char" \/ WrapperOf(v, {"Char"})
      [] base = "String" -> v.kind \in {"letter", "text", "char"} \/ WrapperOf(v, {"String"})
      [] base = "bool" -> v.kind = "bool" \/ WrapperOf(v, {"Boolean"})
      [] base \in {"nil", "void"} -> v.kind = "nil"
      [] base = "Function" -> v.kind = "function" \/ (v.kind = "wrapper" /\ ClassName(v) = base)
      [] base = "Range" -> v.kind = "range"
      [] OTHER -> v.kind = base
Scalars == {"any", "int", "float", "number", "char", "String", "bool", "nil", "void", "Function",
            "Range", "array", "tuple", "map"}

MatchesWrapper(v, base) ==
    CASE base = "Integer" -> v.kind = "int" \/ WrapperOf(v, {"Integer"})
      [] base = "Double" -> v.kind = "float" \/ WrapperOf(v, {"Float", "Double"})
      [] base = "Boolean" -> v.kind = "bool" \/ WrapperOf(v, {"Boolean"})
Wrappers == {"Integer", "Double", "Boolean"}

MatchesStructuralInterface(v, base) ==
    CASE base = "Iterable" -> v.kind = "range" \/ {"__length", "__get"} \subseteq v.special
      [] base = "Unstructured" ->
            v.kind = "tuple" \/ {"__pieces", "__get_piece"} \subseteq v.special
      [] base = "Indexable" ->
            v.kind \in {"letter", "text", "array", "tuple", "map"} \/ "__get" \in v.special
      [] base = "Sliceable" ->
            v.kind \in {"letter", "text", "array", "tuple"} \/ "__slice" \in v.special
      [] OTHER -> FALSE

\* Mutant: what the superclasses declare is not looked at.
MatchesClassItself(v, base) ==
    \/ MatchesStructuralInterface(v, base)
    \/ v.kind \in {"wrapper", "class"} /\ ClassName(v) = base
    \/ v.kind = "instance" /\ (base \in v.implements \/ ClassName(v) = base)

\* What a class implements is looked up in the instance's own class only, the
\* name of the type in all its superclasses.
MatchesClass(v, base) ==
    \/ MatchesStructuralInterface(v, base)
    \/ v.kind \in {"wrapper", "class"} /\ ClassName(v) = base
    \/ v.kind = "instance" /\ base \in v.implements
    \/ v.kind = "instance" /\ \E i \in DOMAIN v.line : Alias(v.line[i]) = Alias(base)

MatchesName(v, base) ==
    IF base \in Scalars THEN MatchesScalar(v, base)
    ELSE IF base \in Wrappers THEN MatchesWrapper(v, base)
    ELSE MatchesClass(v, base)

RECURSIVE MatchesType(_, _)
\* The arguments of array<T> are one, so without a comma, and never tested; a
\* tuple<T> has none.  When no option of a union ending in '>' matched, the text
\* is read once more as one generic type: of its first option only "array", and
\* an empty map or tuple, can still match.
MatchesType(v, name) ==
    LET option == name[1]
        base == Alias(option.base)
        args == Arguments(option)
    IN \/ Len(name) > 1 /\ \E i \in DOMAIN name : MatchesType(v, <<name[i]>>)
       \/ /\ EndsInArguments(name) /\ option.args # << >>
          /\ CASE base = "array" -> v.kind = "array"
               [] base = "map" ->
                    /\ v.kind = "map"
                    /\ args = << >> \/ args[1] \in {Named("String"), Named("any")}
                    /\ args = << >> \/ \A i \in DOMAIN v.holds :
                                          Len(name) = 1 /\ MatchesType(v.holds[i], args[2])
               [] base = "tuple" ->
                    /\ v.kind = "tuple" /\ Len(args) = Len(v.holds)
                    /\ \A i \in DOMAIN args : Len(name) = 1 /\ MatchesType(v.holds[i], args[i])
               [] OTHER -> Len(name) = 1 /\ MatchesName(v, base)
       \/ Len(name) = 1 /\ ~EndsInArguments(name) /\ MatchesName(v, base)

-----------------------------------------------------------------------------
(* Casts                                                                   *)

Unwrapped(v) == IF v.kind = "instance" /\ Len(v.holds) = 1 THEN v.holds[1] ELSE v

\* A number, or a wrapper class that holds one; "Float" is read as float, and no
\* instance of it is recognised.
IsNumeric(v) ==
    \/ v.kind \in {"int", "float"}
    \/ WrapperOf(v, {"Integer", "Float", "Double"}) /\ Unwrapped(v).kind \in {"int", "float"}

Refused == [kind |-> "refused"]
Box(class, v) == [Plain("instance") EXCEPT !.line = <<class>>, !.holds = <<v>>]

\* OpCastInt and OpCastFloat: what is no number is refused, nil included.
CastNumber(v, kind) == IF IsNumeric(v) THEN Plain(kind) ELSE Refused

Tested(v, name) == IF v.kind = "nil" \/ MatchesType(v, name) THEN v ELSE Refused

Boxed(v, base) ==
    LET isBoolean == v.kind = "bool" \/ WrapperOf(v, {"Boolean"}) IN
    CASE base = "Boolean" -> IF isBoolean THEN Box(base, Plain("bool")) ELSE Refused
      [] OTHER -> IF IsNumeric(v) THEN Box(base, Plain(IF base = "Integer" THEN "int" ELSE "float"))
                  ELSE Refused

\* convertReferenceCast to one of several, or to what base names.
Converted(v, name, base, loaded, functional) ==
    CASE base \in functional /\ v.kind = "function" -> [Plain("wrapper") EXCEPT !.line = <<base>>]
      [] base = "String" /\ (v.kind = "char" \/ WrapperOf(v, {"String"})) ->
            IF v.kind = "char" THEN Plain("letter") ELSE Unwrapped(v)
      [] base = "char" /\ v.kind \in {"letter", "text"} ->
            IF v.kind = "letter" THEN Plain("char") ELSE Refused
      [] base \in Wrappers \cap loaded -> Boxed(v, base)
      [] OTHER -> Tested(v, name)

\* OpCastRef: conversions first, then the test; nil passes every test.
\* loaded: the wrapper classes the program has imported (only those can box);
\* functional: the interfaces of one method, which a function is wrapped as.
CastReference(v, name, loaded, functional) ==
    IF Len(Root(name)) > 1 THEN Tested(v, name)
    ELSE Converted(v, name, Root(name)[1].base, loaded, functional)

-----------------------------------------------------------------------------
(* Overloads                                                               *)

\* The name of a value's own type.
TypeName(v) ==
    CASE v.kind \in {"instance", "wrapper"} -> ClassName(v)
      [] v.kind \in {"letter", "text"} -> "String"
      [] v.kind = "range" -> "Range"
      [] v.kind = "function" -> "Function"
      [] v.kind = "class" -> "Class"
      [] OTHER -> v.kind

OverloadMatches(params, args) ==
    /\ Len(params) = Len(args)
    /\ \A i \in DOMAIN args : Untested(Root(params[i])) \/ MatchesType(args[i], Root(params[i]))

\* Three for a parameter of the value's own type, one for another that accepts it.
OverloadScore(params, args) ==
    LET Points(i) == LET expected == Root(params[i]) IN
                     IF Untested(expected) THEN 0
                        ELSE IF Named(Alias(TypeName(args[i]))) = expected THEN 3
                        ELSE IF MatchesType(args[i], expected) THEN 1 ELSE 0
    IN FoldLeft(LAMBDA score, i : score + Points(i), 0, [i \in DOMAIN args |-> i])
=============================================================================
