------------------------------ MODULE Printer ------------------------------
(***************************************************************************)
(* The text that a tree of SourceGrammar is written as, and which trees    *)
(* can be told from their text: the language as one writes it, with levels *)
(* of operators, and no regard to how the parser goes about it.            *)
(***************************************************************************)
EXTENDS Parser

CONSTANTS Names, Numbers      \* the lexemes that are identifiers, and integers

Spelled(lexeme) ==
  IF lexeme \in Names THEN Ident(lexeme)
  ELSE IF lexeme \in Numbers THEN <<"int", lexeme>> ELSE Word(lexeme)

Joined(separator, texts) ==
  LET k == Len(texts)
      upTo[j \in 0 .. k] == IF j = 0 THEN <<>>
                            ELSE IF j = 1 THEN texts[1] ELSE upTo[j - 1] \o separator \o texts[j]
  IN upTo[k]
Words(kinds) == [k \in DOMAIN kinds |-> Word(kinds[k])]
Comma == Words(<<",">>)
NewLine == Words(<<"nl">>)
Around(before, inner, after) == Words(<<before>>) \o inner \o Words(<<after>>)
Front1(trees) == SubSeq(trees, 2, Len(trees))

ExpressionLabels ==
  {"bin", "unary", "lit", "var", "cast", "range", "instanceof", "get", "index", "call", "paren",
   "list", "over", "map", "entry", "lambda", "block", "spawn", "new",
   "newArray", "size", "elements"}
TypeLabels == {"type", "wildcard", "array", "union", "params", "generic", "returns"}
StatementLabels ==
  {"let", "assign", "if", "loop", "do", "for", "where", "switch", "arm", "typeCase", "default",
   "try", "catch", "return", "throw"}
DeclarationLabels ==
  {"top", "member", "modifiers", "constructor", "signature", "final", "program", "annotation",
   "import", "names", "alias", "def", "method", "native", "body", "field", "typed", "extends",
   "implements", "permits", "class", "interface", "record", "enum", "value"}
Childless == {"list", "map", "params", "modifiers", "block", "spawn", "size", "elements",
              "permits", "program", "body"}
Headers == {"generic", "extends", "implements", "permits", "params"}

RECURSIVE Spelt(_)
Texts(trees) == [k \in DOMAIN trees |-> Spelt(trees[k])]
All(trees) == Joined(<<>>, Texts(trees))
List(trees) == Joined(Comma, Texts(trees))
Lines(trees) == Joined(<<>>, [k \in DOMAIN trees |-> Spelt(trees[k]) \o NewLine])
Marked(word, trees) == IF trees = <<>> THEN <<>> ELSE Words(<<word>>) \o List(trees)

SuiteText(suite) ==
  Words(<<":">>) \o (IF Label(suite) = "suite" THEN NewLine \o Lines(Kids(suite))
                     ELSE All(Kids(suite)) \o NewLine)
RECURSIVE OneLine(_)
OneLine(text) == IF Last(text) = Word("nl") THEN OneLine(Front(text)) ELSE text
\* The suites that one end closes, if any of them is a block.
EndText(trees) == IF RequiresEnd(trees) THEN Words(<<"end">>) ELSE <<>>
Closed(suite) == SuiteText(suite) \o EndText(<<suite>>)

\* if c s (else if c s)* (else s)?
RECURSIVE ArmsText(_)
ArmsText(trees) ==
  IF Len(trees) = 1 THEN SuiteText(trees[1])
  ELSE Spelt(trees[1]) \o SuiteText(trees[2]) \o
       (IF Len(trees) = 2 THEN <<>>
        ELSE Words(<<"else">>) \o (IF Len(trees) = 3 THEN <<>> ELSE Words(<<"if">>)) \o
             ArmsText(SubSeq(trees, 3, Len(trees))))

ExpressionText(label, kids) ==
  CASE label = "bin" -> All(kids)
    [] label = "unary" -> All(kids)
    [] label = "lit" -> All(kids)
    [] label = "var" -> All(kids)
    [] label = "cast" -> Around("(", Spelt(kids[1]), ")") \o Spelt(kids[2])
    [] label = "range" -> Joined(Words(<<"...">>), Texts(kids))
    [] label = "instanceof" -> Spelt(kids[1]) \o Words(<<"instanceof">>) \o All(Front1(kids))
    [] label = "get" -> Joined(Words(<<".">>), Texts(kids))
    [] label = "index" -> Spelt(kids[1]) \o
         Around("[", Joined(Words(<<"...">>), Texts(Front1(kids))), "]")
    [] label = "call" ->
         LET generic == Len(kids) > 1 /\ Label(kids[2]) = "typeArgs"
             args == SubSeq(kids, IF generic THEN 3 ELSE 2, Len(kids))
         IN Spelt(kids[1]) \o (IF generic THEN Around("<", List(Kids(kids[2])), ">") ELSE <<>>)
            \o Around("(", List(args), ")")
    [] label = "paren" -> Around("(", List(kids), ")")
    [] label = "list" -> IF Len(kids) = 2 /\ Label(kids[2]) = "over"
                         THEN Around("[", All(kids), "]") ELSE Around("[", List(kids), "]")
    [] label = "over" -> Words(<<"for">>) \o Joined(Words(<<"in">>), Texts(kids))
    [] label = "map" -> Around("{", List(kids), "}")
    [] label = "entry" -> Joined(Words(<<":">>), Texts(kids))
    [] label = "lambda" -> Spelt(kids[1]) \o Words(<<"=>">>) \o Spelt(kids[2])
    [] label = "block" -> Around(":", NewLine \o Lines(kids), "end")
    [] label = "spawn" ->
         Words(<<"thread", "spawn">>) \o Around(":", NewLine \o Lines(kids), "end")
    [] label = "new" -> Words(<<"new">>) \o Spelt(kids[1]) \o Around("(", List(Front1(kids)), ")")
    [] label = "newArray" -> Words(<<"new">>) \o All(kids)
    [] label = "size" -> Around("[", All(kids), "]")
    [] label = "elements" -> Around("{", List(kids), "}")

TypeText(label, kids) ==
  CASE label = "type" ->
         Spelt(kids[1]) \o (IF Len(kids) = 1 THEN <<>> ELSE Around("<", List(Front1(kids)), ">"))
    [] label = "wildcard" -> Words(<<"?">>) \o All(kids)
    [] label = "array" -> Spelt(kids[1]) \o Words(<<"[", "]">>)
    [] label = "union" -> Joined(Words(<<"|">>), Texts(kids))
    [] label = "params" ->
         LET text(param) == Joined(Words(<<":">>), Texts(Kids(param)))
         IN Around("(", Joined(Comma, [k \in DOMAIN kids |-> text(kids[k])]), ")")
    [] label = "generic" ->
         LET bounds(param) == Front1(Kids(param))
             text(param) == Spelt(Kids(param)[1]) \o
               (IF bounds(param) = <<>> THEN <<>>
                ELSE Words(<<"extends">>) \o Joined(Words(<<"&">>), Texts(bounds(param))))
         IN Around("<", Joined(Comma, [k \in DOMAIN kids |-> text(kids[k])]), ">")
    [] label = "returns" -> Words(<<"->">>) \o All(kids)

StatementText(label, kids) ==
  CASE label = "let" ->
         LET front == Front(Front1(kids))
             targets == IF Label(front[1]) = "targets" THEN List(Kids(front[1]))
                        ELSE Joined(Words(<<":">>), Texts(front))
         IN Spelt(kids[1]) \o targets \o Words(<<"=">>) \o Spelt(Last(kids))
    [] label = "assign" -> All(kids)
    [] label = "if" -> Words(<<"if">>) \o ArmsText(kids) \o EndText(kids)
    [] label = "loop" -> Words(<<"loop">>) \o All(Front(kids)) \o Closed(Last(kids))
    [] label = "do" ->
         Words(<<"do">>) \o (IF Label(kids[1]) = "suite" THEN SuiteText(kids[1])
                             ELSE Words(<<":">>) \o OneLine(All(Kids(kids[1]))))
         \o Words(<<"loop">>) \o Spelt(kids[2])
    [] label = "for" ->
         Words(<<"for">>) \o List(Kids(kids[1])) \o Words(<<"in">>) \o All(Front(Front1(kids)))
         \o Closed(Last(kids))
    [] label = "where" -> Words(<<"where">>) \o All(kids)
    [] label = "switch" ->
         Words(<<"switch">>) \o Spelt(kids[1]) \o Words(<<":", "nl">>) \o All(Front1(kids))
         \o Words(<<"end">>)
    [] label = "arm" ->
         LET text(k) == Words(<<"case">>) \o Spelt(kids[k]) \o
               (IF k < Len(kids) - 1 THEN Words(<<":", "nl">>) ELSE SuiteText(Last(kids)))
         IN Joined(<<>>, [k \in 1 .. Len(kids) - 1 |-> text(k)])
    [] label = "typeCase" -> Around("(", Joined(Words(<<":">>), Texts(kids)), ")")
    [] label = "default" -> Words(<<"default">>) \o SuiteText(kids[1])
    [] label = "try" -> Words(<<"try">>) \o SuiteText(kids[1]) \o All(Front1(kids)) \o EndText(kids)
    [] label = "catch" ->
         Words(<<"catch">>) \o
         (IF Len(kids) = 1 THEN <<>>
          ELSE Around("(", Joined(Words(<<":">>), Texts(Kids(kids[1]))), ")"))
         \o SuiteText(Last(kids))
    [] label = "return" -> Words(<<"return">>) \o All(kids)
    [] label = "throw" -> Words(<<"throw">>) \o All(kids)

DeclarationText(label, kids) ==
  LET word(kind) == Words(<<kind>>) \o All(kids)
      header == 1 + Len(SelectSeq(Front1(kids), LAMBDA tree : Label(tree) \in Headers))
      lines == Lines(SubSeq(kids, header + 1, Len(kids))) \o Words(<<"end">>)
      block(colon) ==
        Words(<<label>>) \o All(SubSeq(kids, 1, header)) \o colon \o NewLine \o lines
      typed(from) == LET type == Len(kids) >= from /\ Label(kids[from]) \in TypeLabels
                         value == SubSeq(kids, IF type THEN from + 1 ELSE from, Len(kids))
                     IN (IF type THEN Words(<<":">>) \o Spelt(kids[from]) ELSE <<>>)
                        \o Marked("=", value)
  IN CASE label \in {"top", "member", "modifiers", "constructor", "signature", "final"} -> All(kids)
       [] label = "program" -> Lines(kids)
       [] label = "annotation" -> word("@")
       [] label = "import" -> Words(<<"import">>) \o Joined(Words(<<".">>), Texts(Kids(kids[1])))
                              \o All(Front1(kids))
       [] label = "names" -> Around("{", List(kids), "}")
       [] label = "alias" -> Words(<<"type">>) \o Joined(Words(<<"=">>), Texts(kids))
       [] label \in {"def", "method"} -> word("def")
       [] label = "native" -> Words(<<"native", "def">>) \o All(kids)
       [] label = "body" -> Around(":", NewLine \o Lines(kids), "end")
       [] label = "field" -> All(SubSeq(kids, 1, 2)) \o typed(3)
       [] label = "typed" -> Spelt(kids[1]) \o typed(2)
       [] label \in {"extends", "implements"} -> Words(<<label>>) \o List(kids)
       [] label = "permits" -> Around("(", List(kids), ")")
       [] label \in {"class", "interface"} -> block(Words(<<":">>))
       [] label \in {"record", "enum"} -> block(<<>>)
       [] label = "value" -> Spelt(kids[1]) \o
            (IF Len(kids) = 1 THEN <<>> ELSE Around("(", List(Front1(kids)), ")"))

Spelt(tree) ==
  LET label == Label(tree)
  IN CASE Kids(tree) = <<>> /\ label \notin Childless -> <<Spelled(label)>>
       [] label \in ExpressionLabels -> ExpressionText(label, Kids(tree))
       [] label \in TypeLabels -> TypeText(label, Kids(tree))
       [] label \in StatementLabels -> StatementText(label, Kids(tree))
       [] label \in DeclarationLabels -> DeclarationText(label, Kids(tree))
--------------------------------------------------------------------------------
(* Which trees can be told from their text *)

Levels ==
  ("||" :> 1) @@ ("&&" :> 2) @@ ("==" :> 3) @@ ("!=" :> 3) @@ (">" :> 4) @@ ("<" :> 4) @@
  ("in" :> 4) @@ ("+" :> 6) @@ ("-" :> 6) @@ ("*" :> 7) @@ ("%" :> 7) @@ ("**" :> 8) @@ ("^" :> 8)
Level(tree) ==
  CASE Label(tree) = "bin" -> Levels[Label(Kids(tree)[2])]
    [] Label(tree) = "instanceof" -> 4
    [] Label(tree) = "range" -> 5
    [] Label(tree) \in {"unary", "cast"} -> 9
    [] OTHER -> 10

\* Operators of one level go to the left, but powers to the right; ranges are not chained.
OperandsFit(tree) ==
  LET at(k) == Level(Kids(tree)[k])
      level == Level(tree)
  IN CASE Label(tree) = "bin" ->
            IF level = 8 THEN at(1) > 8 /\ at(3) >= 8 ELSE at(1) >= level /\ at(3) > level
       [] Label(tree) = "instanceof" -> at(1) > 4 \/ Label(Kids(tree)[1]) = "instanceof"
       [] Label(tree) = "range" -> at(1) > 5 /\ at(2) > 5
       [] Label(tree) = "unary" -> at(2) >= 9
       [] Label(tree) = "cast" -> at(2) >= 9
       [] Label(tree) \in {"call", "get", "index"} -> at(1) = 10
       [] OTHER -> TRUE

RECURSIVE Throughout(_, _), Somewhere(_, _)
Throughout(P(_), tree) ==
  P(tree) /\ \A k \in DOMAIN Kids(tree) : Throughout(P, Kids(tree)[k])
Somewhere(P(_), tree) ==
  P(tree) \/ \E k \in DOMAIN Kids(tree) : Somewhere(P, Kids(tree)[k])

\* Whether an else or a catch on the next line would belong to the tree, or to the statement that
\* its last line ends with: there is no end between them.
Closing(tree) == IF Label(tree) = "try" THEN Last(Kids(Last(Kids(tree)))) ELSE Last(Kids(tree))
RECURSIVE Open(_, _)
Open(word, tree) ==
  /\ Label(tree) \in {"if", "try", "loop", "for"}
  /\ ~ RequiresEnd(Kids(tree))
  /\ \/ word = "else" /\ Label(tree) = "if" /\ Len(Kids(tree)) % 2 = 0
     \/ word = "catch" /\ Label(tree) = "try"
     \/ Open(word, Last(Kids(Closing(tree))))

\* Each else and catch has the if and try that it is meant for.
BranchesFit(tree) ==
  LET followed(suite, word) == suite # <<>> /\ Open(word, Last(suite))
      suites == {k \in 1 .. Len(Kids(tree)) - 1 :
                   Label(Kids(tree)[k]) \in {"suite", "inline", "catch"}}
      statements(k) == IF Label(Kids(tree)[k]) = "catch" THEN Kids(Last(Kids(Kids(tree)[k])))
                       ELSE Kids(Kids(tree)[k])
  IN CASE Label(tree) = "if" -> \A k \in suites : ~ followed(statements(k), "else")
       [] Label(tree) = "try" -> \A k \in suites : ~ followed(statements(k), "catch")
       [] OTHER -> TRUE

\* What the parser has its own mind about: no range in the start of an index, not even in
\* parentheses; no colon in the condition after do; no return without a value before its loop.
IsRange(tree) == Label(tree) = "range"
ShortcutsFit(tree) ==
  CASE Label(tree) = "index" -> ~ Somewhere(IsRange, Kids(tree)[2])
    [] Label(tree) = "do" ->
         IF Label(Kids(tree)[1]) = "suite" THEN Word(":") \notin ToSet(Spelt(Kids(tree)[2]))
         ELSE Last(OneLine(All(Kids(Kids(tree)[1])))) # Word("return")
    [] OTHER -> TRUE

\* A comparison that looks like a generic call or a type, or parentheses that look like a cast.
Mistakable(text) ==
  LET names(from, to) == \A k \in from .. to : Kind(text, k) \in {"id", ","}
      operandEnds == {"id", "int", ")", "]", "}", "end"}
  IN \/ \E j, k \in DOMAIN text : /\ j + 1 < k
                                   /\ Kind(text, j) = "<"
                                   /\ names(j + 1, k - 1)
                                   /\ Kind(text, k) = ">" /\ Kind(text, k + 1) = "("
     \/ \E k \in DOMAIN text : Kind(text, k) = "instanceof" /\ Kind(text, k + 2) = "<"
     \/ \E j, k \in DOMAIN text : /\ j + 1 < k
                                   /\ Kind(text, j) = "(" /\ Kind(text, j - 1) \notin operandEnds
                                   /\ text[j + 1] \in {Ident(name) : name \in Capitals}
                                   /\ names(j + 1, k - 1)
                                   /\ Kind(text, k) = ")" /\ Kind(text, k + 1) \in StartsUnary

Meant(tree) == Label(tree) \in {"cast", "typeArgs"}
AllFit(tree) == OperandsFit(tree) /\ BranchesFit(tree) /\ ShortcutsFit(tree)
Readable(tree) ==
  /\ Throughout(AllFit, tree)
  /\ Mistakable(Spelt(tree)) => Somewhere(Meant, tree)
=============================================================================
