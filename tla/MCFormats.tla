------------------------------ MODULE MCFormats ------------------------------
(***************************************************************************)
(* What is read and written, in three forms: the source text, as MCParser  *)
(* has it; the bytes of a function, for functions of two conditions after  *)
(* enough statements that the next constant and the next local have the    *)
(* numbers around 7, that of the opcode GET_LOCAL; and the cells of a      *)
(* class file, for two modules: one with closures and constants of every   *)
(* kind, whose function refers to itself, and one with three classes that  *)
(* refer to each other, to their methods and, from a method, back to a     *)
(* class.  A behaviour is one of the reader of texts, of the emitter or of *)
(* the class file: the other parts stay where they began.                  *)
(***************************************************************************)
EXTENDS MCParser, Emitter, Wire

CONSTANTS Nil, Sources, GraphOf(_), Orders       \* as in ClassPool and CompiledModule

VARIABLES part,                      \* "text", "code" or "file"
          source, pending, file      \* as in CompiledModule

MCNameOrder == <<"A", "B", "E", "I", "M", "N", "a", "b", "f", "m", "n", "x">>
MCOrders == {MCNameOrder, Reverse(MCNameOrder)}

Function(name, params, owner, constants) ==
  [name |-> name, params |-> params, arity |-> Len(params), owner |-> owner,
   upvalues |-> <<>>, ret |-> <<"", 0>>, maxLocals |-> Len(params), gcount |-> 0,
   gnames |-> <<>>, interfaces |-> <<>>, code |-> <<1, 2>>, lines |-> <<3, 3>>,
   consts |-> constants]

Const(k, v) == [k |-> k, v |-> v]

Closures ==
  [entry |-> "main", classes |-> <<>>,
   funcs |->
     "main" :> [Function("", <<>>, "", <<Const("fn", "f"), Const("int", 5), Const("int", 5),
                                         Const("float", "1.5"), Const("string", "x"),
                                         Const("rune", 5), Const("bool", TRUE), Const("nil", Nil)>>)
                EXCEPT !.gnames = <<"x", "f", "x">>, !.gcount = 3,
                       !.code = <<1, 2, 3, 4>>, !.lines = <<1, 1, 70, 2>>,
                       !.interfaces =
                          "I" :> [name |-> "I", functional |-> "m",
                                  methods |-> "m" :> [name |-> "m", params |-> <<"Int">>,
                                                      ret |-> "Any"]]]
     @@ "f" :> [Function("f", <<<<"Int", 1>>, <<"", 0>>, <<"Number", 0>>>>, "",
                         <<Const("fn", "f"), Const("fn", "g")>>)
                EXCEPT !.upvalues = <<[index |-> 1, isLocal |-> TRUE],
                                      [index |-> 0, isLocal |-> FALSE]>>,
                       !.ret = <<"A", 0>>]
     @@ "g" :> Function("f", <<<<"A", 2>>>>, "", <<Const("bool", FALSE)>>)]

Class(name, super) ==
  [name |-> name, super |-> super, implements |-> {}, permits |-> {}, isAbstract |-> FALSE,
   isRecord |-> FALSE, isEnum |-> FALSE, isSealed |-> FALSE, enumOrder |-> <<>>,
   fields |-> <<>>, fieldOrder |-> <<>>, fieldIndex |-> <<>>, staticFields |-> <<>>,
   visibility |-> <<>>, staticVisibility |-> <<>>, ctorVisibility |-> "public",
   annotations |-> <<>>, methodOrder |-> <<>>, methodIndex |-> <<>>, methodTable |-> <<>>,
   methods |-> <<>>, overloads |-> <<>>, ctor |-> Nil, ctorOverloads |-> <<>>,
   statics |-> <<>>, staticValues |-> <<>>, staticOverloads |-> <<>>, special |-> <<>>]

Field(mutable, final) ==
  [type |-> "Int", visibility |-> "private", mutable |-> mutable, isFinal |-> final,
   default |-> "3"]

Classes ==
  [entry |-> "main",
   funcs |->
     "main" :> Function("M", <<>>, "M", <<Const("class", "b"), Const("class", "e")>>)
     @@ "m0" :> Function("m", <<<<"string", 0>>>>, "A", <<Const("class", "b")>>)
     @@ "mb" :> Function("b", <<>>, "A", <<>>)
     @@ "m1" :> Function("m", <<<<"Any", 0>>>>, "B", <<>>)
     @@ "m2" :> Function("m", <<<<"Int", 0>>>>, "B", <<Const("string", "m")>>)
     @@ "m3" :> Function("m", <<<<"Int", 0>>, <<"void", 0>>>>, "B", <<>>)
     @@ "n" :> Function("n", <<>>, "B", <<Const("fn", "m2")>>)
     @@ "ctor" :> Function("B", <<<<"Bool", 0>>>>, "B", <<>>)
     @@ "hash" :> Function("hash", <<>>, "A", <<>>),
   classes |->
     "a" :> [Class("A", Nil)
             EXCEPT !.isSealed = TRUE, !.permits = {"B"}, !.implements = {"N"},
                    !.methodOrder = <<"m", "b">>, !.methodIndex = "m" :> 0 @@ "b" :> 1,
                    !.methodTable = <<"m0", "mb">>, !.methods = "m" :> "m0" @@ "b" :> "mb",
                    !.overloads = "m" :> <<"m0">>,
                    !.special = "Hash" :> "hash", !.isAbstract = TRUE]
     @@ "b" :> [Class("B", "a")
             EXCEPT !.fields = "x" :> Field(TRUE, FALSE) @@ "a" :> Field(FALSE, TRUE),
                    !.fieldOrder = <<"x", "a">>, !.fieldIndex = "x" :> 0 @@ "a" :> 1,
                    !.staticFields = "n" :> Field(TRUE, FALSE), !.staticValues = "n" :> "3",
                    !.methodOrder = <<"m", "b", "n">>,
                    !.methodIndex = "m" :> 0 @@ "b" :> 1 @@ "n" :> 2,
                    !.methodTable = <<"m1", "mb", "n">>,
                    !.methods = "n" :> "n" @@ "m" :> "m1" @@ "b" :> "mb",
                    !.overloads = "m" :> <<"m2", "m3", "m1">>, !.ctor = "ctor",
                    !.ctorOverloads = <<"ctor">>, !.statics = "f" :> "m2",
                    !.staticOverloads = "f" :> <<"m2", "n">>,
                    !.visibility = "m" :> "public" @@ "n" :> "private",
                    !.staticVisibility = "f" :> "public",
                    !.annotations = "m" :> <<"b", "a">>]
     @@ "e" :> [Class("E", Nil) EXCEPT !.isEnum = TRUE, !.enumOrder = <<"a", "b">>]]

MCSources == {"closures", "classes"}
MCGraphOf(s) == IF s = "closures" THEN Closures ELSE Classes

-----------------------------------------------------------------------------
CF == INSTANCE CompiledModule

fileVars == <<source, pending, file>>
MCInit ==
  /\ part \in {"text", "code", "file"} /\ NoText /\ Init /\ CF!Init
  /\ part # "file" => source = "closures"          \* one of them: it plays no part there

\* The text is put away for another.
Another == text' = <<>> /\ written' = None /\ layers' = 0

MCNext ==
  \/ part = "text" /\ (NextText \/ Another) /\ UNCHANGED <<part, vars, fileVars>>
  \/ part = "code" /\ Next /\ UNCHANGED <<part, textVars, fileVars>>
  \/ part = "file" /\ CF!Next /\ UNCHANGED <<part, textVars, vars>>
MCSpec == MCInit /\ [][MCNext]_<<part, textVars, vars, fileVars>>

\* A whole class file is read as the module it was made of (CompiledModule).
RoundTrip == part = "file" => CF!RoundTrip
\* No beginning of a class file is taken for a module (CompiledModule).
TornFileRefused == part = "file" => CF!TornFileRefused
\* A class of a compiled module has the initial values it has in the source (CompiledModule).
InitialValuesKept == part = "file" => CF!InitialValuesKept
=============================================================================
