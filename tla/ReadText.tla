------------------------------ MODULE ReadText ------------------------------
(***************************************************************************)
(* Texts of up to MaxLength tokens over each of the Alphabets, token by    *)
(* token, and scripts that grow from one of the Seeds by up to MaxLayers   *)
(* constructs around it, printed: what the parser makes of them.           *)
(***************************************************************************)
EXTENDS Printer

CONSTANTS Seeds, Larger(_, _), Alphabets, MaxLength, MaxLayers

VARIABLES text,      \* the tokens of the text
          written,   \* the tree that the text was printed from, if any
          layers     \* how often it has grown

textVars == <<text, written, layers>>

None == Leaf("none")

Script(tree) == <<"program", <<IF Label(tree) \in {"top", "import"} THEN tree
                               ELSE <<"top", <<<<"modifiers", <<>>>>, tree>>>>>>>>

NoText == text = <<>> /\ written = None /\ layers = 0

AddToken == /\ written = None
            /\ Len(text) < MaxLength
            /\ \E alphabet \in Alphabets : \E token \in alphabet :
                 /\ ToSet(text) \subseteq alphabet
                 /\ text' = Append(text, token)
            /\ UNCHANGED <<written, layers>>

WriteOne(trees) ==
  \E tree \in trees : written' = tree /\ text' = Spelt(Script(tree))

Begin == text = <<>> /\ WriteOne(Seeds) /\ UNCHANGED layers

Enlarge == /\ written # None /\ layers < MaxLayers
           /\ WriteOne(Larger(layers, written))
           /\ layers' = layers + 1

NextText == AddToken \/ Begin \/ Enlarge
--------------------------------------------------------------------------------
(* Lines are where the reader likes them; an elif is an else and an if. *)
Content(tokens) ==
  LET split(token) == IF token = Word("elif") THEN Words(<<"else", "if">>) ELSE <<token>>
      kept == SelectSeq(tokens, LAMBDA token : Kind(<<token>>, 1) \notin {"nl", ":"})
  IN Joined(<<>>, [k \in DOMAIN kept |-> split(kept[k])])

\* Nothing of a text that the parser takes is lost, repeated or moved: whatever the layout, the
\* look-aheads that were tried and given up, and the ends that inline suites do without, its
\* tree is written as the same tokens (parser.go: every match, consume and skipNewlines).
NothingDropped ==
  written = None =>
    LET tree == ParseProgram(text)
    IN tree # Leaf("refused") => Content(Spelt(tree)) = Content(text)

\* A tree is read back from its text exactly when its operands fit their operators' levels, every
\* else has the if it is meant for, and nothing in it looks like a cast, a generic call or a
\* range that it is not: precedence, associativity and look-ahead of parser.go decide as the
\* grammar of the language does.
ReadsBack ==
  written # None => ((ParseProgram(text) = Script(written)) <=> Readable(written))
=============================================================================
