--------------------------- MODULE MCTypedPrograms ---------------------------
(* Two kinds of programs.  In the first, lines of three classes with every   *)
(* combination of a few declarations, and calls of all kinds; in the second, *)
(* values on their journeys through a few types, classes and interfaces.     *)
EXTENDS TypedPrograms

Class(name, super, fields, methods) ==
    [name |-> name, super |-> super, abstract |-> FALSE, implements |-> << >>,
     typeParams |-> << >>, fields |-> fields, methods |-> methods, items |-> {<< >>}]
Field(name, init) ==
    [name |-> name, static |-> FALSE, mutable |-> TRUE, visibility |-> "public", init |-> init,
     type |-> AnyType]
Method(name, params) ==
    [name |-> name, params |-> params, result |-> AnyType, role |-> "method", abstract |-> FALSE,
     visibility |-> "public", sets |-> << >>]
Static(name, params) == [Method(name, params) EXCEPT !.role = "static"]
Constructor(class, params, sets) ==
    [Method(class, params) EXCEPT !.role = "constructor", !.sets = sets]
Set(field, from) == [field |-> field, from |-> from, op |-> "="]
AddTo(field, from) == [Set(field, from) EXCEPT !.op = "+="]

Float == Simple("float")
Str == Simple("String")

OneInt == Expr(Whole, Named("int"), Plain("int"))
OneFloat == Expr(Float, Named("float"), Plain("float"))
OneText == Expr(Str, Named("String"), Plain("text"))
OneLetter == Expr(Str, Named("String"), Plain("letter"))
OneChar == Expr(Simple("char"), Named("char"), Plain("char"))
Nil == Expr(Simple("nil"), NoType, Plain("nil"))

-----------------------------------------------------------------------------
(* Lines of classes                                                         *)

BaseAlternatives ==
    {Class("Base", "", <<Field("first", "constant")>>, methods) : methods \in {
        <<Method("run", <<Whole>>), Method("stop", << >>)>>,
        <<Method("run", <<Whole>>), Method("run", <<Float>>), Static("make", <<Whole>>)>>,
        <<Method("run", <<AnyType>>), Constructor("Base", <<Whole>>, <<Set("first", 1)>>)>>,
        <<[Method("run", <<Whole>>) EXCEPT !.visibility = "private"], Method("stop", << >>),
          Constructor("Base", <<Whole>>, <<Set("first", 1)>>),
          Constructor("Base", <<Str>>, <<Set("first", 0)>>)>>,
        <<Method("stop", << >>), Constructor("Base", <<Whole>>, <<AddTo("first", 1)>>)>>}}
    \cup {[Class("Base", "", << >>, <<[Method("run", <<Whole>>) EXCEPT !.abstract = TRUE],
                                      Method("stop", << >>)>>) EXCEPT !.abstract = TRUE]}

MiddleAlternatives(name, super) ==
    {Class(name, super, fields, methods) :
        fields \in {<< >>, <<Field("second", "none")>>,
                    <<Field("first", "none"), Field("second", "computed")>>},
        methods \in {
            <<Method("go", << >>)>>,
            <<Method("stop", << >>), Method("run", <<Whole>>)>>,
            <<Method("run", <<Str>>), Static("make", <<Str>>)>>,
            <<Method("run", <<Whole>>), Method("run", <<Float>>),
              Constructor(name, <<Str>>, <<Set("second", 1)>>)>>,
            <<Method("run", <<Whole>>), Constructor(name, <<Whole, Str>>, <<Set("second", 2)>>),
              Constructor(name, <<Whole>>, << >>)>>}}

FieldNames(d) == {"first"} \cup {d.fields[j].name : j \in DOMAIN d.fields}
Sound(d) == \A i \in DOMAIN d.methods : \A k \in DOMAIN d.methods[i].sets :
                d.methods[i].sets[k].field \in FieldNames(d)

Dispatching ==
    [classes |-> <<BaseAlternatives, {d \in MiddleAlternatives("Child", "Base") : Sound(d)},
                   {d \in MiddleAlternatives("Leaf", "Child") : Sound(d)}>>,
     interfaces |-> << >>, literals |-> {}, types |-> {}, loaded |-> {}, functional |-> {},
     arguments |-> {<< >>, <<OneInt>>, <<OneFloat>>, <<OneText>>, <<OneInt, OneText>>},
     journeys |-> FALSE]

-----------------------------------------------------------------------------
(* Journeys                                                                 *)

Interface(params, members) ==
    [interface |-> TRUE, params |-> params, members |-> members, implements |-> << >>, super |-> ""]
Item == TypeVariable("T", << >>)
Interfaces ==
    ("Iterable" :> Interface(<<"T">>, ("__length" :> Callable(<< >>, Whole))
                                      @@ ("__get" :> Callable(<<Whole>>, Item))))
    @@ ("Sliceable" :> Interface(<<"T">>, "__slice" :> Callable(<<Whole, Whole>>, Item)))
    @@ ("Labelled" :> Interface(<< >>, "label" :> Callable(<< >>, Str)))
    @@ ("Marker" :> Interface(<< >>, << >>))

Label == [Method("label", << >>) EXCEPT !.result = Str]
Person == Class("Person", "", << >>, <<Label>>)
Student == [Class("Student", "Person", << >>, <<Method("study", << >>)>>)
               EXCEPT !.implements = <<Simple("Labelled")>>]
Pupil == Class("Pupil", "Student", << >>, <<Method("play", << >>)>>)
Stranger == Class("Stranger", "", << >>, <<Label, Method("study", << >>)>>)
Bag == [Class("Bag", "", << >>,
              <<[Method("__length", << >>) EXCEPT !.result = Whole],
                [Method("__get", <<Whole>>) EXCEPT !.result = Str],
                [Method("__set", <<Whole, Str>>) EXCEPT !.result = Simple("void")],
                [Method("__pieces", << >>) EXCEPT !.result = Whole],
                [Method("__get_piece", <<Whole>>) EXCEPT !.result = Str]>>)
           EXCEPT !.items = {<<Plain("text"), Plain("letter")>>},
                  !.implements = <<Simple("Marker")>>]

Travelling ==
    [classes |-> <<{Person}, {Student}, {Pupil}, {Stranger}, {Bag}>>,
     interfaces |-> Interfaces,
     literals |-> {OneInt, OneFloat, OneText, OneChar, Nil,
                   Expr(Simple("Range"), Named("Range"), Plain("range")),
                   Expr(Callable(<< >>, Str), Named("Function"), Plain("function"))},
     types |-> {AnyType, Whole, Float, Simple("number"), Str, Simple("char"), Simple("Person"),
                Simple("Student"), Simple("Labelled"), Simple("Stranger"), Simple("Marker"),
                Of("Iterable", <<Whole>>), Of("Sliceable", <<Str>>), Simple("array"),
                ArrayOf(Whole), ArrayOf(Simple("Person")), MapOf(Str, Float),
                Of("tuple", <<Whole, Str>>), Of("tuple", <<Float, Float>>), UnionOf(<<Whole, Str>>),
                UnionOf(<<ArrayOf(Whole), MapOf(Str, Whole)>>),
                UnionOf(<<Simple("Person"), Simple("Stranger")>>)},
     loaded |-> {}, functional |-> {"Labelled"}, arguments |-> {}, journeys |-> TRUE]

\* Two classes that each have a method returning its own type.
Node(name) ==
    Class(name, "", << >>, <<[Method("next", << >>) EXCEPT !.result = Simple(name)]>>)
Returning ==
    [Travelling EXCEPT !.classes = <<{Node("Base")}, {Node("Other")}>>, !.interfaces = << >>,
                       !.literals = {}, !.types = {Simple("Base")}]

MCPrograms ==
    LET calls == Dispatching
        journeys == Travelling
        returning == Returning
    IN [calls |-> calls, journeys |-> journeys, returning |-> returning]
MCReturning == [returning |-> Returning]
MCPlans == [plans |-> [Dispatching EXCEPT !.classes = SubSeq(@, 1, 1)]]
=============================================================================
