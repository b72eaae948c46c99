------------------------------ MODULE MCParser ------------------------------
(***************************************************************************)
(* Expressions in every place of one another, three deep; statements in    *)
(* every suite of every statement; declarations with every kind of member; *)
(* and the short texts over the tokens of casts and generic calls, of      *)
(* conditions, loops, tries, ranges and lambdas.                           *)
(***************************************************************************)
EXTENDS ReadText

Var(v) == <<"var", <<Leaf(v)>>>>
a == Var("a")
T == Var("T")
One == <<"lit", <<Leaf("1")>>>>
Named(t) == <<"type", <<Leaf(t)>>>>
ParamList(trees) == <<"params", trees>>
Param(v) == <<"param", <<Leaf(v)>>>>
Inline(s) == <<"inline", <<s>>>>
Modifiers(words) == <<"modifiers", [k \in DOMAIN words |-> Leaf(words[k])]>>
Top(words, tree) == <<"top", <<Modifiers(words), tree>>>>
--------------------------------------------------------------------------------
(* Expressions *)

Bin(op, l, r) == <<"bin", <<l, Leaf(op), r>>>>
Operators == {"||", "==", "<", ">", "+", "-", "*", "**"}
IsExpression(tree) == Label(tree) \in ExpressionLabels

\* e as an operand; e as a part of anything else.
Operand(e) ==
  {Bin(op, e, a) : op \in Operators} \cup {Bin(op, a, e) : op \in Operators} \cup
  {<<"unary", <<Leaf("-"), e>>>>, <<"range", <<e, T>>>>, <<"range", <<One, e>>>>,
   <<"instanceof", <<e, Named("T")>>>>, <<"call", <<e, a>>>>, <<"call", <<T, e, One>>>>,
   <<"get", <<e, Leaf("b")>>>>, <<"index", <<e, a>>>>, <<"index", <<a, e>>>>,
   <<"index", <<a, One, e>>>>, <<"paren", <<e>>>>, <<"paren", <<T, e>>>>}
Part(e) ==
  {<<"paren", <<e, T>>>>, <<"list", <<a, e>>>>,
   <<"list", <<e, <<"over", <<Leaf("a"), a>>>>>>>>, <<"map", <<<<"entry", <<Leaf("a"), e>>>>>>>>,
   <<"cast", <<Named("T"), e>>>>, <<"cast", <<<<"type", <<Leaf("T"), Named("a")>>>>, e>>>>,
   <<"call", <<T, <<"typeArgs", <<Named("T"), Named("b")>>>>, e>>>>,
   <<"lambda", <<ParamList(<<Param("a")>>), <<"block", <<e>>>>>>>>,
   <<"paren", <<<<"lambda", <<ParamList(<<>>), e>>>>>>>>, <<"spawn", <<e>>>>,
   <<"new", <<Leaf("T"), e>>>>, <<"newArray", <<Named("T"), <<"elements", <<e>>>>>>>>,
   <<"newArray", <<Named("T"), <<"size", <<e>>>>>>>>,
   <<"instanceof", <<e, Named("T"), Leaf("b")>>>>}
--------------------------------------------------------------------------------
(* Statements *)

LetA(e) == <<"let", <<Leaf("let"), Leaf("a"), e>>>>
Simple == {LetA(One), <<"return", <<>>>>, <<"if", <<a, Inline(T)>>>>, <<"loop", <<Inline(a)>>>>,
           <<"try", <<Inline(a), <<"catch", <<Inline(T)>>>>>>>>}
IsStatement(tree) == Label(tree) \in StatementLabels \cup {"def"}

\* Every suite that s can be in.
Holding(s) ==
  UNION {{<<"if", <<a, k>>>>, <<"if", <<a, k, T, k, k>>>>, <<"if", <<a, Inline(T), k>>>>,
          <<"loop", <<a, k>>>>, <<"loop", <<k>>>>, <<"do", <<k, a>>>>,
          <<"for", <<<<"targets", <<Leaf("a"), Leaf("b")>>>>, a, <<"where", <<T>>>>, k>>>>,
          <<"try", <<k, <<"catch", <<<<"binding", <<Leaf("a"), Named("T")>>>>, k>>>>,
                     <<"catch", <<k>>>>>>>>,
          <<"switch", <<a, <<"arm", <<One, <<"typeCase", <<Leaf("a"), Leaf("T")>>>>, k>>>>,
                        <<"default", <<k>>>>>>>>} :
         k \in {Inline(s), <<"suite", <<s>>>>, <<"suite", <<s, a>>>>}}
  \cup {<<"def", <<Leaf("a"), ParamList(<<>>), <<"body", <<s>>>>>>>>,
        LetA(<<"lambda", <<ParamList(<<>>), <<"block", <<s>>>>>>>>),
        <<"do", <<<<"suite", <<s>>>>, <<"map", <<<<"entry", <<Leaf("b"), One>>>>>>>>>>>>}
--------------------------------------------------------------------------------
(* Declarations *)

Member(words, member) == <<"member", <<Modifiers(words), member>>>>
Annotated(member) == <<"member", <<<<"annotation", <<Leaf("a")>>>>>> \o Kids(member)>>
Signed == <<<<"params", <<<<"param", <<Leaf("a"), <<"union", <<Named("T"), Named("b")>>>>>>>>>>>>,
            <<"returns", <<<<"wildcard", <<Leaf("extends"), Named("T")>>>>>>>>>>
Bodied == <<<<"body", <<a>>>>>>
Method(name, body) == <<"method", <<Leaf(name)>> \o Signed \o body>>
Methods ==
  {Member(m, Method(n, Bodied)) :
     m \in {<<>>, <<"static">>, <<"private", "native">>}, n \in {"b", "try"}}
  \cup {Member(<<"abstract", "public">>, Method("b", <<>>)),
        Annotated(Member(<<>>, Method("b", Bodied)))}
Variables ==
  {Member(m, <<"field", <<Leaf(k), Leaf("a")>> \o t \o v>>) :
     m \in {<<>>, <<"static", "protected">>}, k \in {"var", "final"},
     t \in {<<>>, <<<<"array", <<Named("T")>>>>>>}, v \in {<<>>, <<One>>}}
  \cup {Member(<<>>, <<"constructor", <<Leaf("T")>> \o Signed \o Bodied>>)}
TypedVariable == Member(<<"private">>, <<"typed", <<Leaf("b"), Named("T"), One>>>>)

Generic ==
  <<"generic", <<<<"param", <<Leaf("T")>>>>, <<"param", <<Leaf("b"), Named("a"), Named("T")>>>>>>>>
ClassHead == <<Leaf("T"), Generic, <<"extends", <<Named("b")>>>>,
               <<"implements", <<Named("a"), Named("b")>>>>, <<"permits", <<Named("a")>>>>>>
Interface == <<"interface", <<Leaf("T"), Generic, <<"extends", <<Named("a"), Named("b")>>>>,
                              <<"signature", <<Leaf("b")>> \o Signed>>>>>>
Enum == <<"enum", <<Leaf("T"), <<"value", <<Leaf("a")>>>>, <<"value", <<Leaf("b"), One, a>>>>>>>>
Import == <<"import", <<<<"path", <<Leaf("a"), Leaf("b")>>>>>>>>

Declared ==
  {<<"class", ClassHead>>, <<"record", <<Leaf("T"), Signed[1]>>>>, Enum, Interface, Import,
   <<"import", Kids(Import) \o <<<<"names", <<Leaf("T"), Leaf("a")>>>>>>>>,
   Top(<<"public">>, LetA(a)), Top(<<"sealed", "protected">>, Interface),
   Top(<<>>, <<"let", <<Leaf("const"), <<"targets", <<Leaf("a"), Leaf("b")>>>>, T>>>>),
   Top(<<"private">>, <<"alias", <<Leaf("T"), <<"union", <<Named("T"), Named("b")>>>>>>>>),
   Top(<<>>, <<"native", <<Leaf("a")>> \o Signed>>),
   Top(<<"sealed">>, <<"final", <<Leaf("final"), Enum>>>>),
   Top(<<"abstract", "public">>, <<"class", <<Leaf("T")>>>>)}
  \cup {Top(<<>>, <<"assign", <<target, Leaf("+="), One>>>>) :
          target \in {a, <<"get", <<a, Leaf("b")>>>>, <<"index", <<a, T>>>>}}

With(tree, members) == {<<Label(tree), Append(Kids(tree), m)>> : m \in members}
Fuller(tree) ==
  CASE Label(tree) = "class" -> With(tree, Methods \cup Variables \cup {TypedVariable})
    [] Label(tree) = "enum" -> With(tree, Methods \cup Variables)
    [] Label(tree) = "record" -> With(tree, Methods)
    [] OTHER -> {}
--------------------------------------------------------------------------------
Small == {a, T} \cup Simple \cup Declared

Grown(layers_, tree) ==
  IF IsExpression(tree)
  THEN CASE layers_ = 0 -> Operand(tree)
         [] layers_ = 1 -> Operand(tree) \cup Part(tree)
         [] layers_ = 2 /\ ~ Somewhere(Meant, tree) -> {Bin("-", tree, a), <<"index", <<a, tree>>>>}
         [] OTHER -> {}
  ELSE IF layers_ = 2 THEN {}
  ELSE IF IsStatement(tree) THEN Holding(tree)
  ELSE Fuller(tree)

N(name) == Ident(name)
Tokens(words) == {Word(word) : word \in words}
Short == {
  Tokens({"<", ">", "(", ")", "-", ","}) \cup {N("a"), N("T")},
  Tokens({"if", "elif", "else", ":", "nl", "end"}) \cup {N("a")},
  Tokens({"do", "loop", ":", "nl", "end", "break"}) \cup {N("a")},
  Tokens({"try", "catch", ":", "nl", "end"}) \cup {N("a")},
  Tokens({"[", "]", "...", "(", ")"}) \cup {N("a")},
  Tokens({"(", ")", "=>", ":", "nl", ","}) \cup {N("a")}}
=============================================================================
