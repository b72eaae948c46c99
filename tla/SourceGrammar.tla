---------------------------- MODULE SourceGrammar ----------------------------
(***************************************************************************)
(* The grammar that the functions of internal/parser/parser.go follow, one *)
(* definition for each.  Trees keep what the syntax tree keeps: a range is *)
(* labelled as one, where the code makes a call of range; an array with a  *)
(* comprehension, and a tuple in parentheses, are told by their subtrees;  *)
(* a suite says whether it is a block or stands on its line.               *)
(***************************************************************************)
EXTENDS Grammar

Visibilities == {"public", "private", "protected"}
VariableKinds == {"let", "var", "const", "final"}
Assignments == {"=", "+=", "-=", "*=", "/="}
NameKinds == {"id", "catch", "try", "throw", "type", "instanceof"}

Type == Rule("type")
Expression == Rule("or")
Declaration == Rule("declaration")
Name == Keep({"id"})
--------------------------------------------------------------------------------
(* Types, parameters *)

TypePrimary ==
  Choice(<<<<At({"?"}), Node("wildcard", Seq2(Token("?"),
             Optional(At({"extends", "super"}), Seq2(Keep({"extends", "super"}), Type))))>>>>,
         Node("type", Seq2(Name, Optional(At({"<"}), Enclosed("<", Series(",", Type), ">")))))

TypeRef ==
  LET arrays == Fold(TypePrimary, <<<<AtThen({"["}, {"]"}), "array",
                                      Seq2(Token("["), Token("]"))>>>>)
  IN Single("union", Seq2(arrays, While(At({"|"}), Seq2(Token("|"), TypePrimary))))

Bound == Optional(At({"extends"}), Seq2(Token("extends"), Series("&", Type)))
TypeParams ==
  Try(Node("generic", Enclosed("<", Series(",", Node("param", Seq2(Name, Bound))), ">")))

Typed == Optional(At({":"}), Seq2(Token(":"), Type))
Listed(close, form) == Optional(Not(At({close})), form)
Params == Node("params", Listed(")", Series(",", Node("param", Seq2(Name, Typed)))))
ParameterList == Enclosed("(", Params, ")")
ReturnType == Optional(At({"->"}), Node("returns", Seq2(Token("->"), Type)))
--------------------------------------------------------------------------------
(* Expressions *)

Or == Chain({"||"}, Rule("and"))
And == Chain({"&&"}, Rule("equality"))
Equality == Chain({"==", "!="}, Rule("comparison"))

ComparisonExpr ==
  LET binding == Optional(Both(At({"id"}), Not(AtThen({"id"}, {".", "(", "["}))), Name)
      tested == Fold(Rule("range"), <<<<At({"instanceof"}), "instanceof",
                                        Run(<<Token("instanceof"), Type, binding>>)>>>>)
      operators == {">", ">=", "<", "<=", "in"}
  IN Fold(tested, <<<<At(operators), "bin", Seq2(Keep(operators), Rule("range"))>>>>)

\* allowRangeShortcut: not anywhere inside the start of an index.
RangeExpr ==
  Once(Rule("term"), <<<<Both(Looks("range"), At({"..."})), "range",
                         Seq2(Token("..."), Rule("term"))>>>>)

Term == Chain({"+", "-"}, Rule("factor"))
Factor == Chain({"*", "/", "%"}, Rule("power"))
Power ==
  Once(Rule("unary"), <<<<At({"**", "^"}), "bin", Seq2(Keep({"**", "^"}), Rule("power"))>>>>)

Unary ==
  Choice(<<<<Looks("cast"), Node("cast", Seq2(Enclosed("(", Type, ")"), Rule("unary")))>>,
           <<At({"!", "-"}), Node("unary", Seq2(Keep({"!", "-"}), Rule("unary")))>>>>,
         Rule("call"))

ArgumentList == Seq2(Listed(")", Series(",", Expression)), Token(")"))
TypeArgs == Enclosed("<", Series(",", Type), ">")
Index ==
  Run(<<Token("["), Within("index", Expression),
        Optional(At({"..."}), Seq2(Token("..."), Expression)), Token("]")>>)
Call ==
  Fold(Rule("primary"),
       <<<<Ahead(Seq2(TypeArgs, Token("("))), "call",
           Run(<<Node("typeArgs", TypeArgs), Token("("), ArgumentList>>)>>,
         <<At({"("}), "call", Seq2(Token("("), ArgumentList)>>,
         <<At({"."}), "get", Seq2(Token("."), Keep(NameKinds))>>,
         <<At({"["}), "index", Index>>>>)

Array ==
  LET comprehension == Node("over", Run(<<Token("for"), Name, Token("in"), Expression>>))
      others == Seq2(Newlines, While(At({","}),
                                     Run(<<Token(","), Newlines, Expression, Newlines>>)))
  IN Enclosed("[", Run(<<Newlines,
                         Listed("]", Seq2(Expression,
                                          Choice(<<<<At({"for"}), comprehension>>>>, others))),
                         Newlines>>), "]")
Map ==
  LET entry == Run(<<Newlines, Node("entry", Run(<<Keep({"id", "string"}), Token(":"),
                                                   Expression>>)), Newlines>>)
  IN Enclosed("{", Run(<<Newlines, Listed("}", Series(",", entry)), Newlines>>), "}")

New ==
  LET size == Node("size", Enclosed("[", Listed("]", Expression), "]"))
      elements == Node("elements", Enclosed("{", Listed("}", Series(",", Expression)), "}"))
      array == Run(<<Type, Optional(At({"["}), size), Optional(At({"{"}), elements)>>)
  IN Seq2(Token("new"),
          Choice(<<<<AtThen({"id"}, {"("}),
                     Node("new", Run(<<Name, Token("("), ArgumentList>>))>>>>,
                 Valid("array", Node("newArray", array))))

Block(stops) == Seq2(Newlines, While(Not(At(stops \cup {"eof"})), Seq2(Declaration, Newlines)))
ThreadSpawn ==
  Node("spawn", Run(<<Token("thread"), Token("spawn"), Token(":"), Block({"end"}), Token("end")>>))

IsLambdaStart ==
  LET name == Seq2(Name, Optional(At({":"}), Seq2(Token(":"), Name)))
  IN Ahead(Run(<<Token("("), Listed(")", Series(",", name)), Token(")"), Token("=>")>>))
Lambda ==
  LET body == Choice(<<<<At({":"}), Node("block", Run(<<Token(":"), Block({"end"}),
                                                        Token("end")>>))>>>>, Expression)
  IN Node("lambda", Run(<<ParameterList, Token("=>"), body>>))
Parentheses == Node("paren", Enclosed("(", Series(",", Expression), ")"))

Literals == {"false", "true", "nil", "int", "float", "char", "string"}
Primary ==
  Choice(<<<<At(Literals), Node("lit", Keep(Literals))>>,
           <<At({"["}), Node("list", Array)>>,
           <<At({"{"}), Node("map", Map)>>,
           <<At({"id"}), Node("var", Name)>>,
           <<At({"this"}), Node("this", Token("this"))>>,
           <<At({"new"}), New>>,
           <<At({"thread"}), ThreadSpawn>>,
           <<At({"super"}), Node("super", Token("super"))>>,
           <<IsLambdaStart, Lambda>>>>,
         Parentheses)
--------------------------------------------------------------------------------
(* Statements *)

\* A block goes on to a token of stops, which it leaves; anything else is one declaration.
StatementSuite(stops) ==
  Choice(<<<<At({"nl"}), Node("suite", Block(stops))>>>>, Node("inline", Declaration))
Ended == Choice(<<<<At({"nl"}), Seq2(Node("suite", Block({"end"})), Token("end"))>>>>,
                Node("inline", Declaration))

VariableDeclaration ==
  LET value == Seq2(Token("="), Expression)
  IN Seq2(Keep(VariableKinds),
          Choice(<<<<AtThen({"id"}, {","}), Seq2(Node("targets", Series(",", Name)), value)>>>>,
                 Run(<<Name, Typed, value>>)))

\* The conditions and suites of an if in turn; the end is there once, if any suite is a block.
IfTail ==
  LET elif == Seq2(Token("elif"), Rule("ifTail"))
      else == Seq2(Token("else"),
                   Choice(<<<<At({"if"}), Seq2(Token("if"), Rule("ifTail"))>>>>,
                          Seq2(Token(":"), StatementSuite({"end"}))))
  IN Run(<<Expression, Token(":"), StatementSuite({"elif", "else", "end"}), Newlines,
           Choice(<<<<At({"elif"}), elif>>, <<At({"else"}), else>>>>, Nothing), Newlines>>)
IfStatement == Node("if", Seq2(Token("if"), Within("endIfBlock", Rule("ifTail"))))

SwitchPattern ==
  Choice(<<<<At({"("}), Node("typeCase", Enclosed("(", Run(<<Name, Token(":"), Name>>), ")"))>>>>,
         Expression)
CaseBody == StatementSuite({"case", "default", "end"})
\* Patterns before an empty body share the body of the next.
SwitchArm ==
  LET pattern == Run(<<Token("case"), SwitchPattern, Token(":")>>)
      shared == Ahead(Run(<<pattern, Token("nl"), Newlines, Token("case")>>))
  IN Node("arm", Run(<<While(shared, Seq2(pattern, Newlines)), pattern, CaseBody>>))
SwitchStatement ==
  LET default == Node("default", Run(<<Token("default"), Token(":"), CaseBody>>))
      arms == While(Not(At({"end", "eof"})),
                    Seq2(Choice(<<<<At({"case"}), SwitchArm>>>>, default), Newlines))
  IN Node("switch", Run(<<Token("switch"), Expression, Token(":"), Newlines,
                          Valid("switch", arms), Token("end")>>))

CatchClause ==
  LET typed == Enclosed("(", Node("binding", Seq2(Name, Typed)), ")")
      named == Node("binding", Name)
  IN Node("catch", Run(<<Token("catch"),
                         Choice(<<<<At({"("}), typed>>, <<AtThen({"id"}, {":"}), named>>>>,
                                Nothing),
                         Token(":"), StatementSuite({"catch", "end"})>>))
TryStatement ==
  LET catches == Seq2(CatchClause, Seq2(Newlines, While(At({"catch"}),
                                                        Seq2(CatchClause, Newlines))))
      try == Run(<<Token(":"), StatementSuite({"catch", "end"}), Newlines, catches>>)
  IN Node("try", Seq2(Token("try"), Within("endIfBlock", try)))

ReturnStatement ==
  Node("return", Seq2(Token("return"),
                      Optional(Not(At({"nl", "end", "else", "eof"})), Expression)))
ThrowStatement == Node("throw", Seq2(Token("throw"), Expression))

ForStatement ==
  LET where == Node("where", Seq2(Token("where"), Expression))
  IN Node("for", Run(<<Token("for"), Node("targets", Series(",", Name)), Token("in"), Expression,
                       Optional(At({"where"}), where), Token(":"), Ended>>))
LoopStatement ==
  Node("loop", Seq2(Token("loop"),
    Choice(<<<<At({":"}), Seq2(Token(":"), Ended)>>, <<At({"nl"}), Ended>>>>,
           Run(<<Expression, Token(":"), Ended>>))))
DoLoopStatement ==
  LET until == While(Both(Not(At({"eof"})), Not(Looks("doTail"))), Seq2(Declaration, Newlines))
      body == Choice(<<<<At({"nl"}), Node("suite", Seq2(Newlines, until))>>>>,
                     Node("inline", Declaration))
  IN Node("do", Run(<<Token("do"), Token(":"), body, Token("loop"), Expression>>))

ExpressionStatement ==
  LET assignment == Seq2(Keep(Assignments), Expression)
  IN Valid("assignment", Single("assign", Seq2(Expression, Optional(At(Assignments), assignment))))

Statement ==
  Choice(<<<<At(VariableKinds), Node("let", VariableDeclaration)>>,
           <<At({"if"}), IfStatement>>,
           <<At({"switch"}), SwitchStatement>>,
           <<At({"try"}), TryStatement>>,
           <<At({"loop"}), LoopStatement>>,
           <<At({"do"}), DoLoopStatement>>,
           <<At({"break"}), Node("break", Token("break"))>>,
           <<At({"continue"}), Node("continue", Token("continue"))>>,
           <<At({"return"}), ReturnStatement>>,
           <<At({"throw"}), ThrowStatement>>,
           <<At({"for"}), ForStatement>>>>,
         ExpressionStatement)
--------------------------------------------------------------------------------
(* Declarations *)

Annotations == While(At({"@"}), Run(<<Token("@"), Node("annotation", Name), Newlines>>))
MemberModifiers ==
  LET modifiers == Visibilities \cup {"static", "native", "abstract"}
  IN Valid("member modifiers", Node("modifiers", While(At(modifiers), Keep(modifiers))))
TopLevelModifiers ==
  LET modifiers == Visibilities \cup {"abstract", "sealed"}
  IN Valid("modifiers", Node("modifiers", While(At(modifiers), Keep(modifiers))))

Body == Node("body", Run(<<Token(":"), Block({"end"}), Token("end")>>))
Signature == Run(<<TypeParams, ParameterList, ReturnType>>)
FunctionDeclaration == Node("def", Run(<<Token("def"), Name, Signature, Body>>))
NativeFunction ==
  Node("native", Run(<<Token("native"), Token("def"), Name, Signature,
                       Optional(At({":"}), Token(":")), Newlines>>))

Initial == Optional(At({"="}), Seq2(Token("="), Expression))
FieldDeclaration == Node("typed", Run(<<Name, Token(":"), Type, Initial>>))
ClassFieldDeclaration == Node("field", Run(<<Keep(VariableKinds), Name, Typed, Initial>>))
MethodDeclaration ==
  Node("method", Run(<<Token("def"), Keep(NameKinds), Signature, Optional(At({":"}), Body)>>))
Constructor == Node("constructor", Run(<<Name, Signature, Body>>))

Extends == Optional(At({"extends"}), Node("extends", Seq2(Token("extends"), Type)))
Implements ==
  Optional(At({"implements"}), Node("implements", Seq2(Token("implements"), Series(",", Type))))
Permits ==
  Optional(At({"("}), Node("permits", Enclosed("(", Listed(")", Series(",", Type)), ")")))

Members(rule, cases) ==
  LET invalid == Token("invalid")
      member == Node("member", Run(<<Annotations, MemberModifiers, Choice(cases, invalid)>>))
  IN While(Not(At({"end", "eof"})), Seq2(Valid(rule, member), Newlines))

OwnConstructor == <<Both(Looks("owner"), AtThen({"id"}, {"("})), Constructor>>
ClassDeclaration ==
  LET members == Members("class member",
        <<<<At({"def"}), MethodDeclaration>>, <<AtThen({"id"}, {":"}), FieldDeclaration>>,
          <<At(VariableKinds), ClassFieldDeclaration>>, OwnConstructor>>)
  IN Node("class", Seq2(Token("class"), Within("owner",
       Run(<<Name, TypeParams, Extends, Implements, Permits, Token(":"), Newlines, members,
             Token("end")>>))))
RecordDeclaration ==
  LET members == Members("record member", <<<<At({"def"}), MethodDeclaration>>>>)
  IN Node("record", Run(<<Token("record"), Name, ParameterList, Newlines, members, Token("end")>>))
\* The values are the names up to the first member: the enum's own name starts a constructor.
EnumDeclaration ==
  LET arguments == Optional(At({"("}), Seq2(Token("("), ArgumentList))
      value == Seq2(Node("value", Seq2(Name, arguments)), Newlines)
      values == While(Both(At({"id"}), Not(Looks("owner"))), value)
      members == Members("enum member",
        <<<<At({"def"}), MethodDeclaration>>, <<At(VariableKinds), ClassFieldDeclaration>>,
          OwnConstructor>>)
  IN Node("enum", Seq2(Token("enum"), Within("owner",
       Valid("enum", Run(<<Name, Newlines, values, members, Token("end")>>)))))
InterfaceDeclaration ==
  LET extended == Node("extends", Seq2(Token("extends"), Series(",", Type)))
      method == Node("signature", Run(<<Keep(NameKinds), ParameterList, ReturnType>>))
  IN Node("interface", Run(<<Token("interface"), Name, TypeParams,
       Optional(At({"extends"}), extended), Permits, Token(":"), Newlines,
       While(Not(At({"end", "eof"})), Seq2(method, Newlines)), Token("end")>>))

TypeAlias == Node("alias", Run(<<Token("type"), Name, Token("="), Type>>))
ImportDeclaration ==
  LET names == Node("names", Enclosed("{", Series(",", Name), "}"))
  IN Node("import", Run(<<Token("import"), Node("path", Series(".", Name)),
                          Optional(At({"{"}), names)>>))

NestedDeclaration ==
  Choice(<<<<At({"interface"}), InterfaceDeclaration>>, <<At({"enum"}), EnumDeclaration>>,
           <<At({"record"}), RecordDeclaration>>, <<At({"class"}), ClassDeclaration>>,
           <<At({"def"}), FunctionDeclaration>>, <<At({"type"}), TypeAlias>>>>, Statement)

\* The annotations of a variable or of a type at the top level go nowhere.
SkippedAnnotations == While(At({"@"}), Run(<<Token("@"), Token("id"), Newlines>>))
TopLevelDeclaration ==
  LET finalEnum == Seq2(Keep({"final"}), EnumDeclaration)
      declared == Choice(<<<<At({"native"}), NativeFunction>>,
                           <<AtThen({"final"}, {"enum"}), Node("final", finalEnum)>>>>,
                         NestedDeclaration)
      modified == Run(<<Annotations, TopLevelModifiers, declared>>)
      From(form) == Ahead(Run(<<SkippedAnnotations, TopLevelModifiers, form>>))
      enumToCome == Seq2(Token("final"), Token("enum"))
      variable == Both(From(Keep(VariableKinds \cup {"type"})), Not(From(enumToCome)))
      bare == Run(<<SkippedAnnotations, TopLevelModifiers, NestedDeclaration>>)
      top == Choice(<<<<Both(At({"@"}), variable), bare>>>>, modified)
  IN Choice(<<<<At({"import"}), ImportDeclaration>>>>, Valid("top level", Node("top", top)))

Program ==
  Node("program", Seq2(Newlines, While(Not(At({"eof"})), Seq2(TopLevelDeclaration, Newlines))))

Rules ==
  [type |-> TypeRef, or |-> Or, and |-> And, equality |-> Equality, comparison |-> ComparisonExpr,
   range |-> RangeExpr, term |-> Term, factor |-> Factor, power |-> Power, unary |-> Unary,
   call |-> Call, primary |-> Primary, ifTail |-> IfTail, declaration |-> NestedDeclaration,
   program |-> Program]
=============================================================================
