--------------------------- MODULE CompiledModule ---------------------------
(***************************************************************************)
(* Compiling a module to a file and running the file.  compileTarget       *)
(* (cmd/polyloft-bvm/main.go) opens the target first, which empties it,    *)
(* and the writer puts its cells into the open file one by one.  Another   *)
(* process may run the target at any moment, the compiler may stop         *)
(* between two cells, and what it has written stays behind.                *)
(***************************************************************************)
EXTENDS ClassReader

CONSTANTS Sources,    \* the names of the modules that can be compiled to the target
          GraphOf(_), \* the function and the classes the compiler makes of one
          Orders      \* the orders in which Go may walk the maps of a graph

VARIABLES source,     \* the module being compiled, or last compiled
          pending,    \* the cells the compiler has still to write
          file        \* the target

vars == <<source, pending, file>>

Metadata == <<Cell("u1", 0)>>       \* stands for the exports and imports of the module

(***************************************************************************)
(* What a class file keeps of a graph.                                     *)
(***************************************************************************)
\* A descriptor has one spelling for each of these types, and no spelling for a missing type.
Respelt == [x \in {"", "void"} |-> "Void"] @@ [x \in {"Number", "number", "float"} |-> "Float"]
           @@ [x \in {"int"} |-> "Int"] @@ [x \in {"string"} |-> "String"]
KeptType(t) == IF t[1] \in DOMAIN Respelt THEN <<Respelt[t[1]], t[2]>> ELSE t

KeptFunction(fn, Fn(_), Class(_)) ==
  [fn EXCEPT !.name = IF @ = "" THEN "<script>" ELSE @,
             !.params = [i \in DOMAIN @ |-> KeptType(@[i])],
             !.ret = IF @ = <<"", 0>> THEN <<"Void", 0>> ELSE @,
             !.lines = [i \in DOMAIN @ |-> @[i] % Modulus],
             !.consts = [i \in DOMAIN @ |->
                           [@[i] EXCEPT !.v = IF fn.consts[i].k = "fn" THEN Fn(@)
                                              ELSE IF fn.consts[i].k = "class" THEN Class(@)
                                              ELSE @]]]

KeptFields(defs) == 
  [n \in DOMAIN defs |-> [defs[n] EXCEPT !.isFinal = FALSE, !.default = Nil]]

KeptClass(class, Fn(_), Class(_)) ==
  LET Each(m) == [n \in DOMAIN m |-> Fn(m[n])]
      Slice(fs) == [i \in DOMAIN fs |-> Fn(fs[i])]
      EachSlice(m) == [n \in DOMAIN m |-> Slice(m[n])]
  IN  [class EXCEPT !.super = Class(@), !.isAbstract = FALSE, !.isRecord = FALSE,
                    !.isSealed = class.isSealed \/ class.isEnum,
                    !.fields = KeptFields(@), !.staticFields = KeptFields(@),
                    !.methodTable = [i \in DOMAIN @ |-> Fn(@[i])],
                    !.methods = Each(@), !.overloads = EachSlice(@), !.ctor = Fn(@),
                    !.ctorOverloads = Slice(@), !.statics = Each(@),
                    !.staticValues = <<>>,
                    !.staticOverloads = EachSlice(@), !.special = Each(@)]

\* g as it should come out of a file whose functions and classes were collected as col says: the
\* same functions and classes, each once, referring to each other by their places in col.
Kept(g, col) ==
  LET At(seq, id) == IF id = Nil THEN Nil ELSE IndexIn(seq, id)
      Fn(f) == At(col.fs, f)
      Class(c) == At(col.cs, c)
  IN  [entry |-> 1,
       funcs |-> [i \in DOMAIN col.fs |-> KeptFunction(g.funcs[col.fs[i]], Fn, Class)],
       classes |-> [i \in DOMAIN col.cs |-> KeptClass(g.classes[col.cs[i]], Fn, Class)]]

(***************************************************************************)
(* The processes.                                                          *)
(***************************************************************************)
\* The class files of the modules, one for each order.
Compiled == [s \in Sources, order \in Orders |-> WriteModule(GraphOf(s), order, Metadata)]

Init == /\ source \in Sources
        /\ pending = <<>>
        /\ file = <<>>

\* os.Create and the compilation: the target is empty from here on.  A compilation that was cut
\* short may be started again.
Compile(s, order) ==
  /\ source' = s
  /\ pending' = Compiled[s, order]
  /\ file' = <<>>

\* The next cell goes into the file.
WriteCell ==
  /\ pending # <<>>
  /\ file' = Append(file, Head(pending))
  /\ pending' = Tail(pending)
  /\ UNCHANGED source

Next == \/ \E s \in Sources, order \in Orders : Compile(s, order)
        \/ WriteCell

Spec == Init /\ [][Next]_vars

(***************************************************************************)
(* Properties.  LoadCompiledModule may run at any moment; it changes       *)
(* nothing, and what it would return is ReadModule(file).                  *)
(***************************************************************************)
\* What was read is the module of the source, read in one of the orders.
IsSource(read) ==
  /\ read.ok /\ read.metadata = Metadata
  /\ \E order \in Orders :
       read.graph = Kept(GraphOf(source), Reachable(GraphOf(source), order))

\* Running a compiled module runs the module: a whole file is accepted, and the functions and
\* classes that come out of it are those that went in, linked to each other in the same way,
\* whatever the order in which the writer met them.
RoundTrip == pending = <<>> /\ file # <<>> => IsSource(ReadModule(file))

\* A file whose compilation was cut short, or is still under way, is refused: no beginning of a
\* class file is taken for a module.
TornFileRefused == pending # <<>> => ~ReadModule(file).ok

StartsAsIn(g, read) ==
  \A c \in DOMAIN g.classes, k \in DOMAIN read.classes :
    g.classes[c].name = read.classes[k].name =>
      /\ \A f \in DOMAIN g.classes[c].fields :
           read.classes[k].fields[f].default = g.classes[c].fields[f].default
      /\ read.classes[k].staticValues = g.classes[c].staticValues

\* "run: executes a source file, compiled module, bundle or project" (README.md:56): a class of a
\* compiled module starts with the static values, and its instances with the values of their
\* fields, that the class of the source has.
InitialValuesKept ==
  pending = <<>> /\ file # <<>> => StartsAsIn(GraphOf(source), ReadModule(file).graph)
=============================================================================
