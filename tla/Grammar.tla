------------------------------- MODULE Grammar -------------------------------
(***************************************************************************)
(* The forms that a recursive-descent parser is made of, as data.  A form  *)
(* reads tokens and yields trees; where none of its alternatives can go    *)
(* on, the whole text is refused.                                          *)
(*                                                                         *)
(* A token is <<kind, lexeme>>; punctuation and keywords have one lexeme.  *)
(* A tree is <<label, subtrees>>.                                          *)
(***************************************************************************)
EXTENDS Integers, Sequences, SequencesExt, FiniteSetsExt, Functions

Word(kind) == <<kind, kind>>
Ident(name) == <<"id", name>>

Leaf(label) == <<label, <<>>>>
Label(tree) == tree[1]
Kids(tree) == tree[2]
Of(label, trees) == SelectSeq(trees, LAMBDA tree : Label(tree) = label)
Has(label, trees) == \E k \in DOMAIN trees : Label(trees[k]) = label
--------------------------------------------------------------------------------
(* Conditions on the tokens to come *)

At(kinds) == <<"at", kinds>>
AtThen(kinds, next) == <<"atThen", kinds, next>>
Not(condition) == <<"not", condition>>
Both(first, second) == <<"both", first, second>>
Ahead(form) == <<"ahead", form>>        \* the form can be read from here
Looks(like) == <<"looks", like>>        \* a look-ahead of its own
--------------------------------------------------------------------------------
(* Forms *)

Nothing == <<"seq", <<>>>>
Token(kind) == <<"token", {kind}>>      \* read and dropped
Keep(kinds) == <<"keep", kinds>>        \* read, and yields its lexeme
Rule(name) == <<"rule", name>>
Seq2(first, second) == <<"seq", <<first, second>>>>
Run(forms) == <<"seq", forms>>
While(condition, form) == <<"while", condition, form>>
Choice(cases, otherwise) == <<"choice", cases, otherwise>>
Node(label, form) == <<"node", label, form>>
Fold(first, cases) == <<"fold", first, cases, TRUE>>    \* what comes first grows to the left
Once(first, cases) == <<"fold", first, cases, FALSE>>
Single(label, form) == <<"single", label, form>>        \* a node unless it is one tree
Within(scope, form) == <<"within", scope, form>>        \* the form is read in this scope
Valid(rule, form) == <<"valid", rule, form>>            \* and what it yields obeys the rule

Optional(condition, form) == Choice(<<<<condition, form>>>>, Nothing)
Try(form) == Optional(Ahead(form), form)
Enclosed(from, form, to) == Run(<<Token(from), form, Token(to)>>)
Series(separator, form) ==
  Seq2(form, While(At({separator}), Seq2(Token(separator), form)))
Newlines == While(At({"nl"}), Token("nl"))
Chain(operators, form) ==
  Fold(form, <<<<At(operators), "bin", Seq2(Keep(operators), form)>>>>)
=============================================================================
