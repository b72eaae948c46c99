-------------------------------- MODULE Classes --------------------------------
(***************************************************************************)
(* What the compiler makes of a class declaration, and which function the  *)
(* VM runs for a call.  A class is compiled from its declaration and its   *)
(* superclass, which is compiled already: fields and methods are numbered  *)
(* so that a number means the same in every subclass, overloads are        *)
(* copied down and replaced where the subclass declares the same           *)
(* parameters, and a constructor that only assigns its parameters becomes  *)
(* a plan the VM carries out without running it.                           *)
(*                                                                         *)
(* A declared method has a name, parameter types, a role, a visibility     *)
(* and, for a constructor, the assignments of its body in their order: to  *)
(* a field, with = or with +=, one of its parameters, or (0) a computed    *)
(* value.  Enumerations, annotations, operators that classes define and    *)
(* the bodies of ordinary methods are left out.                            *)
(***************************************************************************)
EXTENDS RuntimeTypes

Put(f, key, value) == (key :> value) @@ f
At(f, key) == IF key \in DOMAIN f THEN f[key] ELSE << >>

-----------------------------------------------------------------------------
(* Compiling a class                                                       *)

SpecialNames == {"__length", "__get", "__set", "__contains", "__pieces", "__get_piece", "__slice",
                 "__eq", "__hash"}

RECURSIVE Line(_, _)
\* The class and its superclasses, nearest first.
Line(classes, class) ==
    IF class = "" THEN << >> ELSE <<class>> \o Line(classes, classes[class].super)

Inherits(classes, class, ancestor) == ancestor \in ToSet(Line(classes, class))

Bare == [name |-> "", super |-> "", abstract |-> FALSE, implements |-> {},
         fieldOrder |-> << >>, fields |-> << >>, statics |-> << >>, staticVisibility |-> << >>,
         methodOrder |-> << >>, table |-> << >>, methods |-> << >>, visibility |-> << >>,
         overloads |-> << >>, staticMethods |-> << >>, staticOverloads |-> << >>,
         constructor |-> << >>, constructors |-> << >>, constructorVisibility |-> "",
         fast |-> << >>, special |-> << >>]

\* What a class starts from: all its superclass has but what belongs to that
\* class alone, its constructor among it.  The overloads of the constructor are
\* handed down all the same.
Inherited(classes, d) ==
    LET parent == IF d.super = "" THEN Bare ELSE classes[d.super] IN
    [parent EXCEPT !.name = d.name, !.super = d.super, !.abstract = d.abstract,
        !.implements = d.implements, !.statics = << >>, !.staticMethods = << >>,
        !.constructor = << >>, !.constructorVisibility = "", !.fast = << >>, !.special = << >>,
        !.constructors = IF parent.constructor = << >> THEN << >> ELSE @]

\* A redeclared field keeps the slot it has in the superclass.
AddField(class, f) ==
    IF f.static
    THEN [class EXCEPT !.statics = Put(@, f.name, f),
                       !.staticVisibility = Put(@, f.name, f.visibility)]
    ELSE [class EXCEPT !.fieldOrder = IF f.name \in ToSet(@) THEN @ ELSE Append(@, f.name),
                       !.fields = Put(@, f.name, f)]

\* A field whose initial value is not a constant is set by every constructor,
\* and by one made for the purpose when the class declares none.
MethodsOf(d) ==
    LET computed == SelectSeq(d.fields, LAMBDA f : ~f.static /\ f.init = "computed")
        first == [i \in DOMAIN computed |-> [field |-> computed[i].name, from |-> 0,
                                           op |-> "="]]
        Own(m) == IF m.role = "constructor" THEN [m EXCEPT !.sets = first \o @] ELSE m
        declares == \E i \in DOMAIN d.methods : d.methods[i].role = "constructor"
    IN [i \in DOMAIN d.methods |-> Own(d.methods[i])]
       \o IF declares \/ first = << >> THEN << >>
          ELSE <<[name |-> d.name, params |-> << >>, role |-> "constructor", abstract |-> FALSE,
                  visibility |-> "public", sets |-> first]>>

\* Mutant: an override is added behind the method it overrides.
AppendOverload(functions, fn) == Append(functions, fn)

\* The first function with the same parameter types is replaced.
ReplaceOrAppend(functions, fn) ==
    LET same == {i \in DOMAIN functions : functions[i].params = fn.params} IN
    IF same = {} THEN Append(functions, fn)
    ELSE [functions EXCEPT ![CHOOSE i \in same : \A j \in same : i <= j] = fn]

SlotOf(order, name) ==
    IF name \in ToSet(order) THEN CHOOSE i \in DOMAIN order : order[i] = name ELSE 0

\* Mutant: a constructor is carried out as a plan whatever its superclasses do.
FastPlanOfAnyClass(classes, class, m) ==
    IF \E i \in DOMAIN m.sets : m.sets[i].from = 0 THEN << >>
    ELSE <<[arity |-> Len(m.params),
            sets |-> [i \in DOMAIN m.sets |-> [slot |-> SlotOf(class.fieldOrder, m.sets[i].field),
                                               from |-> m.sets[i].from]]]>>

\* The plan of a constructor that only assigns to fields, to each once, from
\* parameters, when no superclass has one.  The operator is not looked at.
FastPlan(classes, class, m) ==
    LET above == Tail(Line(classes @@ (class.name :> class), class.name))
        slots == [i \in DOMAIN m.sets |-> SlotOf(class.fieldOrder, m.sets[i].field)]
    IN IF \/ \E i \in DOMAIN above : classes[above[i]].constructors # << >>
          \/ \E i \in DOMAIN m.sets : m.sets[i].from = 0 \/ slots[i] = 0
          \/ \E i, j \in DOMAIN slots : i < j /\ slots[i] = slots[j]
       THEN << >>
       ELSE <<[arity |-> Len(m.params),
               sets |-> [i \in DOMAIN slots |-> [slot |-> slots[i], from |-> m.sets[i].from]]]>>

AddConstructor(classes, class, m, fn) ==
    [class EXCEPT !.fast = FastPlan(classes, class, m), !.constructors = Append(@, fn),
                  !.constructor = <<fn>>, !.constructorVisibility = m.visibility]

AddStatic(class, m, fn) ==
    [class EXCEPT !.staticMethods = Put(@, m.name, fn),
                  !.staticVisibility = Put(@, m.name, m.visibility),
                  !.staticOverloads = Put(@, m.name, Append(At(@, m.name), fn))]

\* Mutant: an override gets a slot of its own.
AddMethodAtEnd(class, m, fn) ==
    [class EXCEPT !.visibility = Put(@, m.name, m.visibility),
                  !.overloads = Put(@, m.name, ReplaceOrAppend(At(@, m.name), fn)),
                  !.methodOrder = Append(@, m.name), !.table = Append(@, fn),
                  !.methods = Put(@, m.name, fn)]

\* A method takes the slot its name has, or the next one.
AddMethod(class, m, fn) ==
    LET slot == SlotOf(class.methodOrder, m.name) IN
    [class EXCEPT !.visibility = Put(@, m.name, m.visibility),
                  !.overloads = Put(@, m.name, ReplaceOrAppend(At(@, m.name), fn)),
                  !.methodOrder = IF slot = 0 THEN Append(@, m.name) ELSE @,
                  !.table = IF slot = 0 THEN Append(@, fn) ELSE [@ EXCEPT ![slot] = fn],
                  !.methods = Put(@, m.name, fn),
                  !.special = IF m.name \in SpecialNames THEN Put(@, m.name, fn) ELSE @]

CompileClass(classes, d) ==
    LET withFields == FoldLeft(AddField, Inherited(classes, d), d.fields)
        Add(class, m) ==
            LET fn == [owner |-> d.name, name |-> m.name, params |-> m.params, sets |-> m.sets] IN
            CASE m.abstract -> class
              [] m.role = "constructor" -> AddConstructor(classes, class, m, fn)
              [] m.role = "static" -> AddStatic(class, m, fn)
              [] OTHER -> AddMethod(class, m, fn)
    IN FoldLeft(Add, withFields, MethodsOf(d))

-----------------------------------------------------------------------------
(* Which function runs.  A result is << >> when the VM reports an error.    *)

Instance(classes, class) ==
    LET line == Line(classes, class) IN
    [Plain("instance") EXCEPT !.line = line, !.implements = classes[class].implements,
        !.special = UNION {DOMAIN classes[line[i]].special : i \in DOMAIN line}]

\* The most points win, and of two the same the earlier one; none without points.
Best(functions, points) ==
    LET fits == {i \in DOMAIN points : points[i] > 0}
    IN IF fits = {} THEN << >>
       ELSE <<functions[CHOOSE i \in fits : \A j \in fits :
                  points[i] > points[j] \/ (points[i] = points[j] /\ i <= j)]>>

SelectBest(functions, args) ==
    Best(functions, [i \in DOMAIN functions |->
                        IF OverloadMatches(functions[i].params, args)
                        THEN 1 + OverloadScore(functions[i].params, args) ELSE 0])

Otherwise(found, other) == IF found = << >> THEN other ELSE found

\* The first class of a line at which something is found, and what.
FirstFound(line, Find(_)) ==
    LET found == {i \in DOMAIN line : Find(line[i]) # << >>}
        i == CHOOSE i \in found : \A j \in found : i <= j
    IN IF found = {} THEN << >> ELSE <<[at |-> line[i], fn |-> Find(line[i])[1]]>>

\* The class's own choice among overloads, then the one method of that name.
ResolveMethod(classes, class, name, args) ==
    LET Find(c) == Otherwise(SelectBest(At(classes[c].overloads, name), args),
                             IF name \in DOMAIN classes[c].methods
                             THEN SelectBest(<<classes[c].methods[name]>>, args) ELSE << >>)
    IN FirstFound(Line(classes, class), Find)

\* owner: the class at which the member was found; from: the class whose code is
\* running, "" outside any.
EnsureAccess(classes, owner, visibility, from) ==
    \/ visibility \in {"", "public"}
    \/ from = owner
    \/ visibility = "protected" /\ from # "" /\ Inherits(classes, from, owner)

Accessible(classes, found, name, from) ==
    IF found # << >> /\ EnsureAccess(classes, found[1].at,
                                     classes[found[1].at].visibility[name], from)
    THEN <<found[1].fn>> ELSE << >>

\* OpInvoke: the method by name.
Invoke(classes, class, name, args, from) ==
    Accessible(classes, ResolveMethod(classes, class, name, args), name, from)

\* OpInvokeMethod: the method by its slot, whoever calls.
InvokeSlot(classes, class, slot, args) ==
    LET table == classes[class].table IN
    IF slot \in DOMAIN table /\ Len(table[slot].params) = Len(args) THEN <<table[slot]>> ELSE << >>

OfArity(fn, n) == IF Len(fn.params) = n THEN <<fn>> ELSE << >>
Found(found, other) == IF found = << >> THEN other ELSE found[1].fn

\* OpGetProperty of a method, then the call of what it gave: the overload for
\* these arguments, or the method that was bound.
CallBound(classes, class, name, args, from) ==
    LET methods == classes[class].methods IN
    IF /\ name \in DOMAIN methods
       /\ EnsureAccess(classes, class, classes[class].visibility[name], from)
    THEN OfArity(Found(ResolveMethod(classes, class, name, args), methods[name]), Len(args))
    ELSE << >>

\* What a superclass itself declares for these arguments.
DeclaredAbove(classes, line, name, args) ==
    FirstFound(Tail(line), LAMBDA c : SelectBest(SelectSeq(At(classes[c].overloads, name),
                                                           LAMBDA f : f.owner = c), args))

\* Mutant: super is taken from the receiver's class, not from the method's.
InvokeSuperOfReceiver(classes, receiver, owner, name, args) ==
    Accessible(classes, DeclaredAbove(classes, Line(classes, receiver), name, args), name, owner)

\* OpInvokeSuper in a method of owner: the nearest superclass that declares a
\* method for these arguments.
InvokeSuper(classes, receiver, owner, name, args) ==
    Accessible(classes, DeclaredAbove(classes, Line(classes, owner), name, args), name, owner)

AccessibleStatic(classes, found, name, args, from) ==
    IF found # << >> /\ EnsureAccess(classes, found[1].at,
                                     classes[found[1].at].staticVisibility[name], from)
    THEN OfArity(found[1].fn, Len(args)) ELSE << >>

\* OpInvoke on a class: an overload for the arguments, or whatever has the name.
InvokeStatic(classes, class, name, args, from) ==
    LET line == Line(classes, class)
        Only(c) == IF name \in DOMAIN classes[c].staticMethods
                   THEN <<classes[c].staticMethods[name]>> ELSE << >>
        Overloads(c) == At(classes[c].staticOverloads, name)
        Fits(c) == Otherwise(SelectBest(Overloads(c), args), SelectBest(Only(c), args))
        Has(c) == Otherwise(Only(c), Overloads(c))
    IN AccessibleStatic(classes, Otherwise(FirstFound(line, Fits), FirstFound(line, Has)),
                        name, args, from)

-----------------------------------------------------------------------------
(* New instances                                                           *)

NewInstance(classes, class) ==
    LET c == classes[class] IN
    [i \in DOMAIN c.fieldOrder |->
        IF c.fields[c.fieldOrder[i]].init = "constant" THEN Plain("text") ELSE Plain("nil")]

\* OpAdd: numbers are added, arrays joined, anything is written next to a text.
Added(left, right) ==
    CASE IsNumeric(left) /\ IsNumeric(right) ->
            Plain(IF {left.kind, right.kind} = {"int"} THEN "int" ELSE "float")
      [] {left.kind, right.kind} \cap {"text", "letter", "char"} # {} -> Plain("text")
      [] left.kind = "array" /\ right.kind = "array" ->
            Holding("array", left.holds \o right.holds)
      [] OTHER -> Refused

\* What an assignment leaves in a field that was `before`.
Assigned(before, set, args) ==
    LET right == IF set.from = 0 THEN Plain("array") ELSE args[set.from] IN
    IF set.op = "=" THEN right ELSE Added(before, right)

\* The fields after a constructor's body, << >> when one of its additions fails.
RunConstructor(classes, class, fn, args) ==
    LET order == classes[class].fieldOrder
        Assign(made, set) ==
            LET slot == SlotOf(order, set.field)
                assigned == Assigned(made[1][slot], set, args)
            IN IF made = << >> \/ assigned = Refused THEN << >>
               ELSE <<[made[1] EXCEPT ![slot] = assigned]>>
    IN FoldLeft(Assign, <<NewInstance(classes, class)>>, fn.sets)

RunPlan(classes, class, plan, args) ==
    FoldLeft(LAMBDA fields, set : [fields EXCEPT ![set.slot] = args[set.from]],
             NewInstance(classes, class), plan.sets)

\* One constructor is not chosen, it is the class's own; of several the best.
ChooseConstructor(classes, class, args) ==
    LET c == classes[class] IN
    IF Len(c.constructors) <= 1 THEN c.constructor
    ELSE Otherwise(SelectBest(c.constructors, args), SelectBest(c.constructor, args))

Constructed(fn, fields) == <<[ran |-> fn, fields |-> fields]>>

Run(classes, class, ctor, args) ==
    IF ctor = << >>
    THEN IF args = << >> THEN Constructed(<< >>, NewInstance(classes, class)) ELSE << >>
    ELSE IF Len(ctor[1].params) # Len(args) THEN << >>
    ELSE LET made == RunConstructor(classes, class, ctor[1], args)
         IN IF made = << >> THEN << >> ELSE Constructed(ctor, made[1])

Allowed(classes, class, from) ==
    ~classes[class].abstract
    /\ EnsureAccess(classes, class, classes[class].constructorVisibility, from)

\* new C(args): the plan, when there is one, before any overload.
New(classes, class, args, from) ==
    LET plan == classes[class].fast IN
    IF ~Allowed(classes, class, from) THEN << >>
    ELSE IF plan = << >> THEN Run(classes, class, ChooseConstructor(classes, class, args), args)
    ELSE IF plan[1].arity # Len(args) THEN << >>
    ELSE Constructed(classes[class].constructor, RunPlan(classes, class, plan[1], args))

CallWith(classes, class, ctor, args) ==
    LET plan == classes[class].fast
        ran == Run(classes, class, ctor, args)
    IN IF ran = << >> \/ plan = << >> \/ ctor # classes[class].constructor THEN ran
       ELSE IF plan[1].arity # Len(args) THEN << >>
       ELSE Constructed(ctor, RunPlan(classes, class, plan[1], args))

\* C(args) through a global slot: the overload first, the plan when it is the
\* constructor the plan was made from.
CallClass(classes, class, args, from) ==
    IF Allowed(classes, class, from)
    THEN CallWith(classes, class, ChooseConstructor(classes, class, args), args) ELSE << >>
=============================================================================
