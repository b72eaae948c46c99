------------------------------- MODULE Parser -------------------------------
(***************************************************************************)
(* How internal/parser/parser.go reads a text: the cursor (match, check,   *)
(* consume), the look-aheads that are not one or two tokens deep, and what *)
(* is refused for another reason than its next token.                      *)
(*                                                                         *)
(* env.ranges is Parser.allowRangeShortcut; env.owner is the class or enum *)
(* that a constructor has to be named after.                               *)
(***************************************************************************)
EXTENDS SourceGrammar

CONSTANT Capitals      \* the identifiers that start with an upper-case letter

Kind(text, at) == IF at \in DOMAIN text THEN text[at][1] ELSE "eof"

Took(at, trees) == [ok |-> TRUE, at |-> at, trees |-> trees]
Refused == [ok |-> FALSE, at |-> 0, trees |-> <<>>]
Then(first, rest) == IF rest.ok THEN Took(rest.at, first.trees \o rest.trees) ELSE Refused
--------------------------------------------------------------------------------
(* Look-aheads *)

PrimitiveCasts == {"int", "float", "number", "char"}
CastTypeTokens == {"id", "?", "extends", "super", "<", ">", ",", "|"}
StartsUnary == {"!", "-", "false", "true", "nil", "int", "float", "char", "string", "[", "{", "id",
                "new", "this", "super", "(", "thread"}

Depth(text, from, to) ==
  LET brackets(kind) == Cardinality({k \in from .. to : Kind(text, k) = kind})
  IN brackets("<") - brackets(">")

\* Mutant: what follows the parentheses is not looked at.
IsCastStartAnyway(text, at) ==
  /\ Kind(text, at) = "("
  /\ Kind(text, at + 1) = "id" /\ text[at + 1][2] \in Capitals
  /\ Kind(text, at + 2) = ")"

\* isCastStart: a type in parentheses, as far as its tokens tell, and then an operand.
IsCastStart(text, at) ==
  /\ Kind(text, at) = "("
  /\ \/ Kind(text, at + 1) = "?"
     \/ Kind(text, at + 1) = "id" /\ text[at + 1][2] \in Capitals \cup PrimitiveCasts
  /\ \E close \in at + 2 .. Len(text) :
       /\ Kind(text, close) = ")"
       /\ \A k \in at + 1 .. close - 1 : /\ Kind(text, k) \in CastTypeTokens
                                         /\ Depth(text, at + 1, k) >= 0
       /\ Depth(text, at + 1, close) = 0
       /\ Kind(text, close + 1) \in StartsUnary

\* checkDoLoopTail: a loop with no colon on the rest of its line ends a do.
CheckDoLoopTail(text, at) ==
  /\ Kind(text, at) = "loop"
  /\ LET stops == {k \in at + 1 .. Len(text) : Kind(text, k) \in {"nl", ":"}}
     IN stops = {} \/ Kind(text, Min(stops)) = "nl"
--------------------------------------------------------------------------------
(* What else is refused *)

\* topLevelModifiers, memberModifiers: no modifier twice, one visibility.
ModifiersAgree(modifiers) ==
  /\ \A j, k \in DOMAIN modifiers : j # k =>
       /\ modifiers[j] # modifiers[k]
       /\ ~ {Label(modifiers[j]), Label(modifiers[k])} \subseteq Visibilities
  /\ Has("abstract", modifiers) => ~ Has("static", modifiers) /\ ~ Has("native", modifiers)

\* What may stand behind modifiers and annotations at the top level.
Modifiable == {"enum", "interface", "class", "record", "native", "def", "alias", "let", "final"}
TopLevelAllowed(trees) ==
  LET marks == Of("modifiers", trees)[1]
      has(modifier) == Has(modifier, Kids(marks))
      target == Label(Last(trees))
  IN /\ target \in Modifiable \/ (Kids(marks) = <<>> /\ ~ Has("annotation", trees))
     /\ has("abstract") => target = "class"
     /\ has("sealed") => target \in {"class", "interface", "enum", "final"}

ClassMemberAllowed(trees) ==
  LET has(modifier) == Has(modifier, Kids(Of("modifiers", trees)[1]))
      member == Last(trees)
      kind == Label(member)
  IN /\ has("static") => kind \in {"method", "field"}
     /\ Has("annotation", trees) /\ ~ has("static") => kind # "field"
     /\ kind = "constructor" => ~ has("abstract") /\ ~ has("native")
     /\ kind = "method" => has("abstract") = ~ Has("body", Kids(member))

EnumMemberAllowed(trees) ==
  LET has(modifier) == Has(modifier, Kids(Of("modifiers", trees)[1]))
      member == Last(trees)
      kind == Label(member)
  IN /\ has("static") => kind # "constructor"
     /\ kind = "constructor" => ~ has("abstract") /\ ~ has("native")
     /\ kind = "method" => has("abstract") = ~ Has("body", Kids(member))

RecordMemberAllowed(trees) ==
  Has("abstract", Kids(Of("modifiers", trees)[1])) = ~ Has("body", Kids(Last(trees)))

\* expressionStatement: a variable, a property or an index can be assigned to, a slice cannot.
AssignmentAllowed(tree) ==
  Label(tree) = "assign" =>
    LET target == Kids(tree)[1]
    IN \/ Label(target) \in {"var", "get"}
       \/ Label(target) = "index" /\ Len(Kids(target)) = 2

\* new: elements, or a size that is not left out.
NewArrayAllowed(trees) ==
  Has("elements", trees) \/ \E size \in ToSet(Of("size", trees)) : Kids(size) # <<>>

Allowed(rule, trees) ==
  CASE rule = "modifiers" -> ModifiersAgree(Kids(trees[1]))
    [] rule = "member modifiers" -> ModifiersAgree(Kids(trees[1]))
    [] rule = "top level" -> TopLevelAllowed(Kids(trees[1]))
    [] rule = "class member" -> ClassMemberAllowed(Kids(trees[1]))
    [] rule = "enum member" -> EnumMemberAllowed(Kids(trees[1]))
    [] rule = "record member" -> RecordMemberAllowed(Kids(trees[1]))
    [] rule = "enum" -> Has("value", trees)
    [] rule = "switch" -> Len(Of("default", trees)) <= 1
    [] rule = "assignment" -> AssignmentAllowed(trees[1])
    [] rule = "array" -> NewArrayAllowed(Kids(trees[1]))

\* An if and a try have one end when any of their suites is a block.
RequiresEnd(trees) ==
  \/ Has("suite", trees)
  \/ \E k \in DOMAIN trees : Label(trees[k]) = "catch" /\ Has("suite", Kids(trees[k]))
--------------------------------------------------------------------------------
RECURSIVE Holds(_, _, _, _), Parse(_, _, _, _), ParseAll(_, _, _, _), Repeat(_, _, _, _),
          Grow(_, _, _, _, _)

Holds(text, condition, at, env) ==
  CASE condition[1] = "at" -> Kind(text, at) \in condition[2]
    [] condition[1] = "atThen" -> /\ Kind(text, at) \in condition[2]
                                  /\ Kind(text, at + 1) \in condition[3]
    [] condition[1] = "not" -> ~ Holds(text, condition[2], at, env)
    [] condition[1] = "both" -> /\ Holds(text, condition[2], at, env)
                                /\ Holds(text, condition[3], at, env)
    [] condition[1] = "ahead" -> Parse(text, condition[2], at, env).ok
    [] condition[1] = "looks" ->
         CASE condition[2] = "range" -> env.ranges
           [] condition[2] = "owner" -> at \in DOMAIN text /\ text[at] = Ident(env.owner)
           [] condition[2] = "cast" -> IsCastStart(text, at)
           [] condition[2] = "doTail" -> CheckDoLoopTail(text, at)

\* The first of the cases that holds; 0 when none does.
Taken(text, cases, at, env) ==
  LET hold == {k \in DOMAIN cases : Holds(text, cases[k][1], at, env)}
  IN IF hold = {} THEN 0 ELSE Min(hold)

ParseAll(text, forms, at, env) ==
  IF forms = <<>> THEN Took(at, <<>>)
  ELSE LET first == Parse(text, Head(forms), at, env)
       IN IF first.ok THEN Then(first, ParseAll(text, Tail(forms), first.at, env)) ELSE Refused

Repeat(text, loop, at, env) ==
  IF ~ Holds(text, loop[2], at, env) THEN Took(at, <<>>)
  ELSE LET first == Parse(text, loop[3], at, env)
       IN IF first.ok THEN Then(first, Repeat(text, loop, first.at, env)) ELSE Refused

\* left is a single tree; each case makes it the first subtree of a larger one.
Grow(text, fold, left, at, env) ==
  LET k == Taken(text, fold[3], at, env)
  IN IF k = 0 THEN Took(at, <<left>>)
     ELSE LET rest == Parse(text, fold[3][k][3], at, env)
              tree == <<fold[3][k][2], <<left>> \o rest.trees>>
          IN IF ~ rest.ok THEN Refused
             ELSE IF fold[4] THEN Grow(text, fold, tree, rest.at, env)
             ELSE Took(rest.at, <<tree>>)

\* Mutant: an end is taken whether one is due or not.
EndBlockAlways(text, read) ==
  IF read.ok /\ Kind(text, read.at) = "end" THEN Took(read.at + 1, read.trees)
  ELSE IF read.ok /\ RequiresEnd(read.trees) THEN Refused ELSE read

\* The end of an if or a try.
EndBlock(text, read) ==
  IF ~ read.ok \/ ~ RequiresEnd(read.trees) THEN read
  ELSE IF Kind(text, read.at) = "end" THEN Took(read.at + 1, read.trees) ELSE Refused

ParseWithin(text, scope, form, at, env) ==
  CASE scope = "index" -> Parse(text, form, at, [env EXCEPT !.ranges = FALSE])
    [] scope = "owner" -> IF at \in DOMAIN text
                          THEN Parse(text, form, at, [env EXCEPT !.owner = text[at][2]])
                          ELSE Refused
    [] scope = "endIfBlock" -> EndBlock(text, Parse(text, form, at, env))

Parse(text, form, at, env) ==
  CASE form[1] = "token" -> IF Kind(text, at) \in form[2] THEN Took(at + 1, <<>>) ELSE Refused
    [] form[1] = "keep" -> IF Kind(text, at) \in form[2]
                           THEN Took(at + 1, <<Leaf(text[at][2])>>) ELSE Refused
    [] form[1] = "rule" -> Parse(text, Rules[form[2]], at, env)
    [] form[1] = "seq" -> ParseAll(text, form[2], at, env)
    [] form[1] = "while" -> Repeat(text, form, at, env)
    [] form[1] = "choice" ->
         LET k == Taken(text, form[2], at, env)
         IN Parse(text, IF k = 0 THEN form[3] ELSE form[2][k][2], at, env)
    [] form[1] = "node" ->
         LET read == Parse(text, form[3], at, env)
         IN IF read.ok THEN Took(read.at, <<<<form[2], read.trees>>>>) ELSE Refused
    [] form[1] = "single" ->
         LET read == Parse(text, form[3], at, env)
         IN IF read.ok /\ Len(read.trees) > 1
            THEN Took(read.at, <<<<form[2], read.trees>>>>) ELSE read
    [] form[1] = "fold" ->
         LET first == Parse(text, form[2], at, env)
         IN IF first.ok THEN Grow(text, form, first.trees[1], first.at, env) ELSE Refused
    [] form[1] = "within" -> ParseWithin(text, form[2], form[3], at, env)
    [] form[1] = "valid" ->
         LET read == Parse(text, form[3], at, env)
         IN IF read.ok /\ Allowed(form[2], read.trees) THEN read ELSE Refused

\* Parse(tokens): the tree of the program, or that there is none.
ParseProgram(text) ==
  LET read == Parse(text, Program, 1, [ranges |-> TRUE, owner |-> ""])
  IN IF read.ok THEN read.trees[1] ELSE Leaf("refused")
=============================================================================
