------------------------------- MODULE Loader -------------------------------
(***************************************************************************)
(* The module loader (internal/modules/loader.go, project.go): how modules *)
(* are found loaded, in the middle of being loaded or missing, what each   *)
(* may see of the others, in which order their code is executed, and what  *)
(* comes of cycles and of modules that fail.                               *)
(*                                                                         *)
(* There are three ways to use a loader.  "run": Prepare reads the entry   *)
(* program and loads what it imports.  "build": BuildProjectBundle loads   *)
(* every file of a project, one after the other.  "bundle":                *)
(* PrepareFromBundle reads the compiled modules of an archive and executes *)
(* them on one VM.                                                         *)
(*                                                                         *)
(* Sources are abstracted to what the loader sees of them: their imports,  *)
(* already resolved to modules, the names they declare, and where they     *)
(* fail.                                                                   *)
(***************************************************************************)
EXTENDS Naturals, Sequences, SequencesExt

CONSTANTS Project,  \* the files of the project
          Std,      \* the modules of the standard library
          Entry,    \* the entry program
          Order,    \* the files of the project as the archive has them
          Names,    \* names of globals
          Programs, \* what the modules may contain
          MaxStack, \* bound: activations of loadModule, as Go's stack is bounded
          None, Missing

Modules == Project \cup Std
Visibilities == {"none", "public", "protected", "private"}
ImportRecords == [of : Modules \cup {Missing}, names : SUBSET Names]

\* What the constants are.  A module of the standard library imports only others of it, and
\* does not fail: they are part of the program's binary.
LoaderAssumption ==
    /\ Project \cap Std = {} /\ Entry \in Project
    /\ {None, Missing} \cap Modules = {}
    /\ Order \in Seq(Project) /\ Project = {Order[i] : i \in DOMAIN Order}
    /\ \A i, j \in DOMAIN Order : Order[i] = Order[j] => i = j
    /\ MaxStack \in Nat
    /\ \A p \in Programs, m \in Modules :
        /\ p[m].imports \in Seq(ImportRecords)
        /\ p[m].declares \in [Names -> Visibilities]
        /\ p[m].index \in BOOLEAN
        /\ p[m].fault \in {"none", "unreadable", "rejected", "run"}
        /\ m \in Std => /\ p[m].fault = "none"
                        /\ \A i \in DOMAIN p[m].imports : p[m].imports[i].of \in Std

VARIABLES program,  \* what each module contains
          verdict,  \* ghost: what that says of cycles and failures
          mode,     \* which of the three uses
          status,   \* how far that is
          todo,     \* modules the caller has not come to
          stack,    \* activations of loadImportsIntoRegistry, loadModule, initStdlibModule
                    \* and the loop over toInit that calls it
          calling,  \* the argument of a call of loadModule, or None
          reply,    \* what the last call returned: "none" when that was dealt with
          loading,  \* l.Loading
          cache,    \* the keys of l.Cache
          exports,  \* LoadedModule.Exports of those
          ran,      \* history: modules executed each on a VM of its own, in order
          inited,   \* modules executed on the VM of a bundle, in order
          read      \* history: the last global that an imported function has read

given == <<program, verdict, mode>>
results == <<cache, exports, ran>>
loads == <<stack, calling, reply, loading, results>>
vars == <<given, status, todo, loads, inited, read>>

Modes == {"run", "build", "bundle"}
Errors == {"circular", "unreadable", "missing", "inaccessible", "rejected", "run"}

Imports(m) == program[m].imports
Undeclared == [from |-> None, vis |-> "none"]

Top == Last(stack)
Idle == calling = None /\ reply = "none"

\* NewRegistry and InstallCoreGlobals: nothing of another module is there.
NewActivation(kind, m) == [kind |-> kind, mod |-> m, next |-> 1, reg |-> [x \in Names |-> None]]

\* What a module imports, and what it imports through others: all that is in every set
\* that has its imports, and with a module the imports of that one.
ImportGraph(p) == [m \in Modules |-> {p[m].imports[i].of : i \in DOMAIN p[m].imports} \ {Missing}]
Closed(g, S) == \A k \in S : g[k] \subseteq S
Reachable(p, m) ==
    LET g == ImportGraph(p) IN
    {k \in Modules : \A S \in SUBSET Modules : g[m] \subseteq S /\ Closed(g, S) => k \in S}

\* What a program's graph says: the modules on a cycle; those under which there is no
\* cycle and nothing is missing; and those of them under which nothing fails either.
Verdict(p) ==
    LET reach == [m \in Modules |-> Reachable(p, m) \cup {m}]
        cyclic == {m \in Modules : m \in Reachable(p, m)}
        gaps == {m \in Modules : \E i \in DOMAIN p[m].imports : p[m].imports[i].of = Missing}
        bad == cyclic \cup gaps
        faulty == {m \in Modules : p[m].fault # "none"}
    IN  [cyclic |-> cyclic,
         wellFounded |-> {m \in Modules : reach[m] \cap bad = {}},
         sound |-> {m \in Modules : reach[m] \cap (bad \cup faulty) = {}}]

Init ==
    /\ program \in Programs
    /\ verdict = Verdict(program)
    /\ mode \in Modes
    \* A bundle is there only if its modules compiled once; it may be damaged since, and
    \* the code of a module may now fail.
    /\ mode = "bundle" => Project \subseteq verdict.wellFounded
    /\ status = "loading"
    /\ todo = IF mode = "run" THEN <<>> ELSE Order
    /\ stack = IF mode = "run" THEN <<NewActivation("entry", Entry)>> ELSE <<>>
    /\ calling = None
    /\ reply = "none"
    /\ loading = {}
    /\ cache = {}
    /\ exports = [m \in Modules |-> [x \in Names |-> Undeclared]]
    /\ ran = <<>>
    /\ inited = <<>>
    /\ read = [of |-> None, name |-> None, got |-> None]

-----------------------------------------------------------------------------
(* What a module sees of another *)

\* visibleExports
Visible(m, importer) ==
    {x \in Names : \/ exports[m][x].vis = "public"
                   \/ exports[m][x].vis = "protected" /\ program[importer].dir = program[m].dir
                   \/ exports[m][x].vis = "private" /\ importer = m}

\* bindImport: the names asked for, and from the standard library all that are visible.
\* (A namespace is a global of its own, named after the path.)
Bound(reg, import, importer) ==
    LET all == IF import.of \in Std THEN Visible(import.of, importer) ELSE {}
    IN  [x \in Names |-> IF x \in import.names \cup all THEN exports[import.of][x].from ELSE reg[x]]

\* CollectExports and augmentIndexExports: an index exports also the names it imports,
\* as visible as they were, unless it declares them itself.
Collected(m) ==
    [x \in Names |->
        IF program[m].declares[x] # "none"
        THEN [from |-> m, vis |-> program[m].declares[x]]
        ELSE LET from == {i \in DOMAIN Imports(m) : x \in Imports(m)[i].names}
             IN  IF program[m].index /\ from # {}
                 THEN exports[Imports(m)[CHOOSE i \in from : \A j \in from : i <= j].of][x]
                 ELSE Undeclared]

-----------------------------------------------------------------------------
(* loadModule *)

Return(answer) ==
    /\ calling' = None
    /\ reply' = answer

\* The activation on top returns an error; the deferred delete is done.
Abandon(error) ==
    /\ stack' = Front(stack)
    /\ loading' = IF Top.kind = "load" THEN loading \ {Top.mod} ELSE loading
    /\ Return(error)

Archived(m) == mode = "bundle" /\ m \in Project

CacheHit ==
    /\ calling \in cache
    /\ Return("ok")
    /\ UNCHANGED <<given, status, todo, stack, loading, results, inited, read>>

\* Mutant: a module that is being loaded counts as loaded.
CircularAccepted ==
    /\ calling \in loading \ cache
    /\ Return("ok")
    /\ UNCHANGED <<given, status, todo, stack, loading, results, inited, read>>

Circular ==
    /\ calling \in loading \ cache
    /\ Return("circular")
    /\ UNCHANGED <<given, status, todo, stack, loading, results, inited, read>>

\* From the archive.  The entry in Loading is not removed again.  The exports go into
\* namespaces only, which are left out.
Decode ==
    /\ calling \in Project \ (cache \cup loading)
    /\ Archived(calling)
    /\ loading' = loading \cup {calling}
    /\ IF program[calling].fault = "unreadable"
       THEN /\ Return("unreadable")
            /\ UNCHANGED cache
       ELSE /\ Return("ok")
            /\ cache' = cache \cup {calling}
    /\ UNCHANGED <<given, status, todo, stack, exports, ran, inited, read>>

\* Why parseFile or collectModuleImports fails, or "none".
Refused(m) ==
    IF program[m].fault = "unreadable" THEN "unreadable"
    ELSE IF \E i \in DOMAIN Imports(m) : Imports(m)[i].of = Missing THEN "missing"
    ELSE "none"

\* Mutant: nothing is remembered of a load under way.
OpenUnmarked ==
    /\ calling \in Modules \ (cache \cup loading)
    /\ ~Archived(calling)
    /\ IF Refused(calling) # "none"
       THEN /\ Return(Refused(calling))
            /\ UNCHANGED <<stack, loading>>
       ELSE /\ Len(stack) < MaxStack
            /\ stack' = Append(stack, NewActivation("load", calling))
            /\ UNCHANGED loading
            /\ calling' = None
            /\ UNCHANGED reply
    /\ UNCHANGED <<given, status, todo, results, inited, read>>

\* A file is read, and the loading of what it imports begins.
Open ==
    /\ calling \in Modules \ (cache \cup loading)
    /\ ~Archived(calling)
    /\ IF Refused(calling) # "none"
       THEN /\ Return(Refused(calling))
            /\ UNCHANGED <<stack, loading>>
       ELSE /\ Len(stack) < MaxStack
            /\ stack' = Append(stack, NewActivation("load", calling))
            /\ loading' = loading \cup {calling}
            /\ calling' = None
            /\ UNCHANGED reply
    /\ UNCHANGED <<given, status, todo, results, inited, read>>

\* loadImportsIntoRegistry calls loadModule for the next import.  That of the entry
\* program has resolved it only now.
ImportNext ==
    /\ stack # <<>> /\ Top.kind \in {"entry", "load"}
    /\ Idle
    /\ Top.next <= Len(Imports(Top.mod))
    /\ LET m == Imports(Top.mod)[Top.next].of IN
       IF m = Missing
       THEN Abandon("missing")
       ELSE calling' = m /\ UNCHANGED <<stack, reply, loading>>
    /\ UNCHANGED <<given, status, todo, results, inited, read>>

\* Mutant: a name that is not visible is bound all the same.
BindUnchecked ==
    /\ stack # <<>> /\ Top.kind \in {"entry", "load"}
    /\ reply = "ok"
    /\ LET import == Imports(Top.mod)[Top.next] IN
       /\ stack' = Append(Front(stack), [Top EXCEPT !.next = @ + 1,
                                                    !.reg = Bound(@, import, Top.mod)])
       /\ reply' = "none"
       /\ UNCHANGED <<calling, loading>>
    /\ UNCHANGED <<given, status, todo, results, inited, read>>

\* ... and binds what it returned.
BindNext ==
    /\ stack # <<>> /\ Top.kind \in {"entry", "load"}
    /\ reply = "ok"
    /\ LET import == Imports(Top.mod)[Top.next] IN
       IF import.names \subseteq Visible(import.of, Top.mod)
       THEN /\ stack' = Append(Front(stack), [Top EXCEPT !.next = @ + 1,
                                                         !.reg = Bound(@, import, Top.mod)])
            /\ reply' = "none"
            /\ UNCHANGED <<calling, loading>>
       ELSE Abandon("inaccessible")
    /\ UNCHANGED <<given, status, todo, results, inited, read>>

\* Mutant: the result is not put in the cache.
FinishUncached ==
    /\ stack # <<>> /\ Top.kind = "load"
    /\ Idle
    /\ Top.next > Len(Imports(Top.mod))
    /\ ran' = IF program[Top.mod].fault = "rejected" THEN ran ELSE Append(ran, Top.mod)
    /\ IF program[Top.mod].fault = "none"
       THEN /\ exports' = [exports EXCEPT ![Top.mod] = Collected(Top.mod)]
            /\ Abandon("ok")
       ELSE /\ Abandon(program[Top.mod].fault)
            /\ UNCHANGED exports
    /\ UNCHANGED <<given, status, todo, cache, inited, read>>

\* Check, compile, execute on a new VM, collect the exports.
Finish ==
    /\ stack # <<>> /\ Top.kind = "load"
    /\ Idle
    /\ Top.next > Len(Imports(Top.mod))
    /\ ran' = IF program[Top.mod].fault = "rejected" THEN ran ELSE Append(ran, Top.mod)
    /\ IF program[Top.mod].fault = "none"
       THEN /\ exports' = [exports EXCEPT ![Top.mod] = Collected(Top.mod)]
            /\ cache' = cache \cup {Top.mod}
            /\ Abandon("ok")
       ELSE /\ Abandon(program[Top.mod].fault)
            /\ UNCHANGED <<cache, exports>>
    /\ UNCHANGED <<given, status, todo, inited, read>>

\* An error goes up through every activation.
Propagate ==
    /\ stack # <<>>
    /\ reply \in Errors
    /\ Abandon(reply)
    /\ UNCHANGED <<given, status, todo, results, inited, read>>

-----------------------------------------------------------------------------
(* The callers *)

\* Prepare is done: the entry program is checked, compiled and executed by its caller.
Prepared ==
    /\ stack # <<>> /\ Top.kind = "entry"
    /\ Idle
    /\ status = "loading"
    /\ Top.next > Len(Imports(Top.mod))
    /\ status' = "ready"
    /\ UNCHANGED <<given, todo, loads, inited, read>>

\* Prepare and BuildProjectBundle give up, as PrepareFromBundle does but for the modules
\* of the archive.
GiveUp ==
    /\ stack = <<>>
    /\ reply \in Errors
    /\ ~(mode = "bundle" /\ status = "loading" /\ todo # <<>>)
    /\ status # "failed"
    /\ status' = "failed"
    /\ UNCHANGED <<given, todo, loads, inited, read>>

\* The next file of the project, or of the archive; after those of the archive the entry
\* point, once more.
LoadFile ==
    /\ mode # "run" /\ status = "loading"
    /\ Idle /\ stack = <<>>
    /\ todo # <<>>
    /\ calling' = Head(todo)
    /\ UNCHANGED <<given, status, todo, stack, reply, loading, results, inited, read>>

FileLoaded ==
    /\ mode # "run" /\ status = "loading"
    /\ stack = <<>> /\ todo # <<>>
    /\ reply = "ok" \/ (mode = "bundle" /\ reply \in Errors)
    /\ todo' = Tail(todo)
    /\ reply' = "none"
    /\ UNCHANGED <<given, status, stack, calling, loading, results, inited, read>>

\* toInit has the modules of the archive that could be read, in its order: the loops over
\* it go over the archive and pass over the others.
FilesLoaded ==
    /\ mode # "run" /\ status = "loading"
    /\ Idle /\ stack = <<>>
    /\ todo = <<>>
    /\ IF mode = "build"
       THEN status' = "ready" /\ UNCHANGED todo
       ELSE status' = "initialising" /\ todo' = Order
    /\ UNCHANGED <<given, loads, inited, read>>

\* Each is executed, in the order of the archive, whatever it imports and before any module
\* of the standard library; but not the entry point, which PrepareFromBundle's caller runs.
InitModule ==
    /\ status = "initialising"
    /\ todo # <<>>
    /\ IF Head(todo) \in cache \ {Entry}
       THEN /\ inited' = Append(inited, Head(todo))
            /\ IF program[Head(todo)].fault = "run"
               THEN status' = "failed" /\ UNCHANGED todo
               ELSE todo' = Tail(todo) /\ UNCHANGED status
       ELSE todo' = Tail(todo) /\ UNCHANGED <<inited, status>>
    /\ UNCHANGED <<given, loads, read>>

\* Then the modules of the standard library that they import.
ModulesInited ==
    /\ status = "initialising"
    /\ todo = <<>>
    /\ status' = "stdlib"
    /\ todo' = Order
    /\ UNCHANGED <<given, loads, inited, read>>

InitImports ==
    /\ status = "stdlib"
    /\ Idle /\ stack = <<>>
    /\ todo # <<>>
    /\ stack' = IF Head(todo) \in cache THEN <<NewActivation("imports", Head(todo))>> ELSE <<>>
    /\ todo' = Tail(todo)
    /\ UNCHANGED <<given, status, calling, reply, loading, results, inited, read>>

Initialised == {inited[i] : i \in DOMAIN inited}

\* initStdlibModule is called for the next import of the standard library, from the loop
\* or from itself; the caller goes on when that one is initialised, by this call or an
\* earlier one.  The first thing a call does is to load the module.
InitStd ==
    /\ stack # <<>> /\ Top.kind \in {"imports", "init"}
    /\ Idle
    /\ Top.next <= Len(Imports(Top.mod))
    /\ LET m == Imports(Top.mod)[Top.next].of IN
       IF m \notin Std \/ m \in Initialised
       THEN /\ stack' = Append(Front(stack), [Top EXCEPT !.next = @ + 1])
            /\ UNCHANGED calling
       ELSE /\ Len(stack) < MaxStack
            /\ stack' = Append(stack, NewActivation("init", m))
            /\ calling' = m
    /\ UNCHANGED <<given, status, todo, reply, loading, results, inited, read>>

\* loadModule has returned to it: from source, the module was executed once already.
StdLoaded ==
    /\ stack # <<>> /\ Top.kind = "init"
    /\ reply = "ok"
    /\ reply' = "none"
    /\ UNCHANGED <<given, status, todo, stack, calling, loading, results, inited, read>>

\* Its imports done, the module is executed.  (Modules of the standard library are part
\* of the program's binary and are taken not to fail.)
StdInited ==
    /\ stack # <<>> /\ Top.kind = "init"
    /\ Idle
    /\ Top.next > Len(Imports(Top.mod))
    /\ inited' = Append(inited, Top.mod)
    /\ stack' = Front(stack)
    /\ UNCHANGED <<given, status, todo, calling, reply, loading, results, read>>

ImportsInited ==
    /\ stack # <<>> /\ Top.kind = "imports"
    /\ Idle
    /\ Top.next > Len(Imports(Top.mod))
    /\ stack' = Front(stack)
    /\ UNCHANGED <<given, status, todo, calling, reply, loading, results, inited, read>>

\* PrepareFromBundle loads its entry point, under the name with its suffix.
BundleReady ==
    /\ status = "stdlib"
    /\ Idle /\ stack = <<>>
    /\ todo = <<>>
    /\ status' = IF program[Entry].fault = "unreadable" THEN "failed" ELSE "ready"
    /\ UNCHANGED <<given, todo, loads, inited, read>>

\* The entry program, running, calls a function of a module it imports, which reads a
\* global of its own module: a variable, itself, or a function declared after it.  Code
\* of modules looks these up by name, in the VM that runs it.  (Constants, classes and
\* functions declared before it are compiled into a function.)
CallImported ==
    /\ mode = "run" /\ status = "ready"
    /\ \E i \in DOMAIN Imports(Entry), x \in Names :
          LET m == Imports(Entry)[i].of IN
          /\ Visible(m, Entry) # {}
          /\ program[m].declares[x] # "none"
          /\ read' = [of |-> m, name |-> x, got |-> Top.reg[x]]
    /\ UNCHANGED <<given, status, todo, loads, inited>>

\* The registry of a bundle is the map of globals of the VM that executes its modules, and
\* it goes to the caller of PrepareFromBundle: a name is there once, as the last module that
\* declares it left it, private or not, or as the entry program does by now.
Shared(x) ==
    LET declaring == {i \in DOMAIN inited : program[inited[i]].declares[x] # "none"}
    IN  {inited[i] : i \in {j \in declaring : \A k \in declaring : k <= j}}
            \cup {m \in {Entry} : program[m].declares[x] # "none"}

\* The entry program of a bundle calls a function that a module it imports shows it.
CallBundled ==
    /\ mode = "bundle" /\ status = "ready"
    /\ \E i \in DOMAIN Imports(Entry), x \in Names :
          LET m == Imports(Entry)[i].of IN
          /\ m \in Initialised
          /\ \E y \in Names : \/ program[m].declares[y] = "public"
                               \/ /\ program[m].declares[y] = "protected"
                                  /\ program[m].dir = program[Entry].dir
          /\ program[m].declares[x] # "none"
          /\ \E from \in Shared(x) : read' = [of |-> m, name |-> x, got |-> from]
    /\ UNCHANGED <<given, status, todo, loads, inited>>

Next ==
    \/ CacheHit \/ Circular \/ Decode \/ Open \/ ImportNext \/ BindNext \/ Finish \/ Propagate
    \/ Prepared \/ GiveUp \/ LoadFile \/ FileLoaded \/ FilesLoaded
    \/ InitModule \/ ModulesInited \/ InitImports \/ InitStd \/ StdLoaded \/ StdInited
    \/ ImportsInited \/ BundleReady
    \/ CallImported \/ CallBundled

\* The loader is sequential code: it goes on until it returns.
Spec == Init /\ [][Next]_vars /\ WF_vars(Next)

-----------------------------------------------------------------------------
(* Properties *)

Before(s, i) == {s[j] : j \in 1..(i - 1)}

\* However the imports cross, a module executes at most once on a VM of its own, and
\* when it does, all that it imports has (loadImportsIntoRegistry before machine.Run,
\* and l.Cache).
LoadOrder ==
    \A i \in DOMAIN ran :
        /\ ran[i] \notin Before(ran, i)
        /\ ImportGraph(program)[ran[i]] \subseteq Before(ran, i)

\* The files of an archive that its VM is to execute.
Runnable == {m \in Project \ {Entry} : program[m].fault # "unreadable"}

\* A bundle's VM executes no module twice, and not the entry.  When it executes a file of
\* the project, exactly the readable files before it in the archive have executed: what it
\* imports need not have, if it comes later or from the library.  When it executes a module
\* of the library, the whole project has, and what the module imports.
BundleOrder ==
    \A i \in DOMAIN inited :
        LET m == inited[i] IN
        /\ m \notin Before(inited, i) \cup {Entry}
        /\ \A n \in DOMAIN Order : m = Order[n] =>
              Before(inited, i) = Runnable \cap {Order[j] : j \in 1..(n - 1)}
        /\ m \in Std => Runnable \cup ImportGraph(program)[m] \subseteq Before(inited, i)

\* From source, modules execute once and after their imports; from a bundle once, and the
\* project's in the order of the archive, not of the imports.
RunsOnceInOrder == LoadOrder /\ BundleOrder

\* A cycle is reported if there is one, and nothing with a cycle, an import that is not
\* there or a module that fails below it gets into the cache or is called ready.
VerdictMatchesGraph ==
    /\ reply = "circular" => verdict.cyclic # {}
    /\ \A m \in cache : Archived(m) \/ m \in verdict.sound
    /\ status = "ready" /\ mode = "run" =>
          ImportGraph(program)[Entry] \subseteq verdict.sound
    /\ status = "ready" /\ mode = "build" => Project \subseteq verdict.sound

\* No module gets hold of a name that its own module does not show it, be it through an
\* index that exports it again (docs/language/imports.md, Visibility).  This is about the
\* names that imports bind; the registry of a bundle has those of every module.
VisibilityKept ==
    \A i \in DOMAIN stack, x \in Names :
        LET from == stack[i].reg[x] IN
        from # None =>
            \/ program[from].declares[x] = "public"
            \/ /\ program[from].declares[x] = "protected"
               /\ program[from].dir = program[stack[i].mod].dir

\* Whatever the imports, the loader comes to an end.
EveryLoadEnds == <>(status \in {"ready", "failed"})

\* A function finds the names of the module that declares it (docs/language/imports.md:
\* private restricts access to the defining file or module, so that file has access).
ReadsOwnModule == read.of # None => read.got = read.of
=============================================================================
