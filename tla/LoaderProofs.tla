---------------------------- MODULE LoaderProofs ----------------------------
(***************************************************************************)
(* The loader for any modules, imports and limits: what is in the cache is *)
(* sound and has all that it imports, no module is executed twice or       *)
(* before its imports, cycles are told only where there are cycles, and    *)
(* no module sees a name that is hidden from it.                           *)
(***************************************************************************)
EXTENDS Loader, Integers, SequenceTheorems, WellFoundedInduction, TLAPS

-----------------------------------------------------------------------------
(* Sequences *)

\* A sequence has its elements at the numbers up to its length.
LEMMA SeqFacts ==
    ASSUME NEW S, NEW s \in Seq(S)
    PROVE  /\ Len(s) \in Nat /\ DOMAIN s = 1..Len(s)
           /\ \A i \in 1..Len(s) : s[i] \in S
           /\ s = <<>> <=> Len(s) = 0
BY LenProperties, ElementOfSeq, EmptySeq

\* A sequence without its last element.
LEMMA FrontOf ==
    ASSUME NEW S, NEW s \in Seq(S), s # <<>>
    PROVE  /\ Len(s) \in Nat \ {0} /\ DOMAIN s = 1..Len(s) /\ Len(s) \in 1..Len(s)
           /\ Front(s) \in Seq(S) /\ Len(Front(s)) = Len(s) - 1
           /\ DOMAIN Front(s) = 1..(Len(s) - 1)
           /\ \A i \in 1..(Len(s) - 1) : Front(s)[i] = s[i]
           /\ Last(s) \in S /\ Last(s) = s[Len(s)]
<1>1. Len(s) \in Nat \ {0} /\ DOMAIN s = 1..Len(s)
  BY EmptySeq, LenProperties
<1>2. \A i \in 1..Len(s) : s[i] \in S
  BY ElementOfSeq
<1>3. \A i \in 1..(Len(s) - 1) : s[i] \in S
  BY <1>1, <1>2
<1>4. Front(s) \in Seq(S) /\ Len(Front(s)) = Len(s) - 1
      /\ \A i \in 1..(Len(s) - 1) : Front(s)[i] = s[i]
  BY <1>1, <1>3, SubSeqProperties DEF Front
<1>5. Len(s) \in 1..Len(s)
  BY <1>1
<1> QED
  BY <1>1, <1>2, <1>4, <1>5, LenProperties DEF Last

\* A sequence of one element more.
LEMMA Appended ==
    ASSUME NEW S, NEW s \in Seq(S), NEW x \in S
    PROVE  /\ Append(s, x) \in Seq(S) /\ Append(s, x) # <<>>
           /\ Len(s) \in Nat /\ DOMAIN s = 1..Len(s)
           /\ Len(Append(s, x)) = Len(s) + 1 /\ DOMAIN Append(s, x) = 1..(Len(s) + 1)
           /\ \A i \in 1..Len(s) : Append(s, x)[i] = s[i]
           /\ Append(s, x)[Len(s) + 1] = x
BY AppendProperties, LenProperties

\* A sequence whose last element is replaced.
LEMMA Replaced ==
    ASSUME NEW S, NEW s \in Seq(S), s # <<>>, NEW x \in S
    PROVE  /\ Append(Front(s), x) \in Seq(S) /\ Append(Front(s), x) # <<>>
           /\ Len(Append(Front(s), x)) = Len(s) /\ DOMAIN Append(Front(s), x) = 1..Len(s)
           /\ \A i \in 1..(Len(s) - 1) : Append(Front(s), x)[i] = s[i]
           /\ Append(Front(s), x)[Len(s)] = x
<1>1. Front(s) \in Seq(S) /\ Len(Front(s)) = Len(s) - 1 /\ Len(s) \in Nat \ {0}
      /\ DOMAIN s = 1..Len(s) /\ \A i \in 1..(Len(s) - 1) : Front(s)[i] = s[i]
  BY FrontOf
<1> QED
  BY <1>1, Appended

\* A sequence without its first element.
LEMMA TailOf ==
    ASSUME NEW S, NEW s \in Seq(S), s # <<>>
    PROVE  /\ Tail(s) \in Seq(S) /\ Len(Tail(s)) = Len(s) - 1
           /\ Len(s) \in Nat \ {0} /\ Head(s) = s[1] /\ Head(s) \in S
           /\ DOMAIN Tail(s) = 1..(Len(s) - 1)
           /\ \A i \in 1..(Len(s) - 1) : i + 1 \in 1..Len(s) /\ Tail(s)[i] = s[i + 1]
<1>1. Len(s) \in Nat \ {0}
  BY EmptySeq, LenProperties
<1>2. /\ Tail(s) \in Seq(S) /\ Len(Tail(s)) = Len(s) - 1
      /\ \A i \in 1..Len(Tail(s)) : Tail(s)[i] = s[i + 1]
      /\ Head(s) = s[1] /\ Head(s) \in S
  BY HeadTailProperties
<1>3. \A i \in 1..(Len(s) - 1) : i + 1 \in 1..Len(s)
  BY <1>1
<1> QED
  BY <1>1, <1>2, <1>3, LenProperties

\* What is not first in a sequence is in its tail.
LEMMA InTail ==
    ASSUME NEW S, NEW s \in Seq(S), s # <<>>, NEW i \in DOMAIN s, i # 1
    PROVE  \E j \in DOMAIN Tail(s) : Tail(s)[j] = s[i]
<1>1. /\ Len(s) \in Nat \ {0} /\ DOMAIN Tail(s) = 1..(Len(s) - 1)
      /\ \A j \in 1..(Len(s) - 1) : Tail(s)[j] = s[j + 1]
  BY TailOf
<1>2. i \in 1..Len(s)
  BY SeqFacts
<1>3. i - 1 \in 1..(Len(s) - 1) /\ (i - 1) + 1 = i
  BY <1>1, <1>2
<1> QED
  BY <1>1, <1>3

\* A number up to n is n or one before it.
LEMMA LastOrBefore ==
    ASSUME NEW n \in Nat, NEW i \in 1..n
    PROVE  i = n \/ i \in 1..(n - 1)
OBVIOUS

\* A number before n is one up to n and not n.
LEMMA BeforeLast ==
    ASSUME NEW n \in Nat, NEW i \in 1..(n - 1)
    PROVE  i \in 1..n /\ i # n /\ n \in 1..n
OBVIOUS

\* A set of numbers that are not negative has a least one.
LEMMA LeastOf ==
    ASSUME NEW S \in SUBSET Nat, S # {}
    PROVE  \E m \in S : \A k \in S : m <= k
<1> DEFINE Less == OpToRel(<, Nat)
<1>1. IsWellFoundedOn(Less, Nat)
  BY NatLessThanWellFounded
<1>2. \A a, b \in Nat : a < b => <<a, b>> \in Less
  BY DEF OpToRel
<1> HIDE DEF Less
<1>3. PICK m \in S : \A k \in S : ~ (<<k, m>> \in Less)
  BY <1>1, WFMin
<1>4. ASSUME NEW k \in S PROVE m <= k
  <2>1. k \in Nat /\ m \in Nat
    OBVIOUS
  <2>2. ~ (k < m)
    BY <1>2, <1>3, <2>1
  <2> QED
    BY <2>1, <2>2
<1> QED
  BY <1>4

-----------------------------------------------------------------------------
(* What imports what *)

\* What the constants say of a module of a program.
LEMMA ModuleFacts ==
    ASSUME LoaderAssumption, NEW p \in Programs, NEW m \in Modules
    PROVE  /\ p[m].imports \in Seq(ImportRecords)
           /\ Len(p[m].imports) \in Nat /\ DOMAIN p[m].imports = 1..Len(p[m].imports)
           /\ \A i \in DOMAIN p[m].imports :
                /\ p[m].imports[i].of \in Modules \cup {Missing}
                /\ p[m].imports[i].names \subseteq Names
                /\ p[m].imports[i].of # Missing => p[m].imports[i].of \in ImportGraph(p)[m]
                /\ m \in Std => p[m].imports[i].of \in Std
           /\ ImportGraph(p)[m] \subseteq Modules
           /\ \A k \in ImportGraph(p)[m] :
                \E i \in DOMAIN p[m].imports : p[m].imports[i].of = k /\ k # Missing
           /\ m \in Std => ImportGraph(p)[m] \subseteq Std /\ p[m].fault = "none"
           /\ p[m].declares \in [Names -> Visibilities]
           /\ p[m].fault \in {"none", "unreadable", "rejected", "run"}
           /\ Missing \notin Modules /\ None \notin Modules
<1>1. p[m].imports \in Seq(ImportRecords)
  BY DEF LoaderAssumption
<1>2. /\ Len(p[m].imports) \in Nat /\ DOMAIN p[m].imports = 1..Len(p[m].imports)
      /\ \A i \in DOMAIN p[m].imports : p[m].imports[i] \in ImportRecords
  BY <1>1, SeqFacts
<1>3. \A i \in DOMAIN p[m].imports : /\ p[m].imports[i].of \in Modules \cup {Missing}
                                    /\ p[m].imports[i].names \subseteq Names
  BY <1>2 DEF ImportRecords
<1>4. ImportGraph(p)[m] = {p[m].imports[i].of : i \in DOMAIN p[m].imports} \ {Missing}
  BY DEF ImportGraph
<1>5. Missing \notin Modules /\ None \notin Modules
  BY DEF LoaderAssumption
<1>6. m \in Std => \A i \in DOMAIN p[m].imports : p[m].imports[i].of \in Std
  BY DEF LoaderAssumption
<1>7. p[m].declares \in [Names -> Visibilities] /\ (m \in Std => p[m].fault = "none")
      /\ p[m].fault \in {"none", "unreadable", "rejected", "run"}
  BY DEF LoaderAssumption
<1> QED
  BY <1>1, <1>2, <1>4, <1>5, <1>6, <1>7, <1>3

\* What a module reaches: its imports, theirs, and nothing that is not in every such set.
LEMMA ReachableIs ==
    ASSUME LoaderAssumption, NEW p \in Programs, NEW m \in Modules
    PROVE  /\ Reachable(p, m) \subseteq Modules
           /\ ImportGraph(p)[m] \subseteq Reachable(p, m)
           /\ \A k \in Reachable(p, m) : ImportGraph(p)[k] \subseteq Reachable(p, m)
           /\ \A S \in SUBSET Modules :
                ImportGraph(p)[m] \subseteq S /\ Closed(ImportGraph(p), S)
                    => Reachable(p, m) \subseteq S
<1>1. \A k \in Modules : ImportGraph(p)[k] \subseteq Modules
  BY ModuleFacts
<1> DEFINE g == ImportGraph(p)
<1>2. Reachable(p, m) = {k \in Modules :
          \A S \in SUBSET Modules : g[m] \subseteq S /\ Closed(g, S) => k \in S}
  BY DEF Reachable
<1>3. \A k \in Modules : g[k] \subseteq Modules
  BY <1>1
<1> HIDE DEF g
<1>4. g[m] \subseteq Reachable(p, m)
  BY <1>2, <1>3
<1>5. ASSUME NEW k \in Reachable(p, m) PROVE g[k] \subseteq Reachable(p, m)
  <2>1. k \in Modules
    BY <1>2
  <2>2. ASSUME NEW S \in SUBSET Modules, g[m] \subseteq S, Closed(g, S) PROVE g[k] \subseteq S
    BY <1>2, <2>2 DEF Closed
  <2> QED
    BY <1>2, <1>3, <2>1, <2>2
<1>6. \A S \in SUBSET Modules : g[m] \subseteq S /\ Closed(g, S) => Reachable(p, m) \subseteq S
  BY <1>2
<1>7. Reachable(p, m) \subseteq Modules
  BY <1>2
<1> QED
  BY <1>4, <1>5, <1>6, <1>7 DEF g

\* What is reached from what is reached.
LEMMA ReachOn ==
    ASSUME LoaderAssumption, NEW p \in Programs, NEW m \in Modules,
           NEW k \in Reachable(p, m)
    PROVE  Reachable(p, k) \subseteq Reachable(p, m)
<1>1. k \in Modules /\ Reachable(p, m) \subseteq Modules
      /\ ImportGraph(p)[k] \subseteq Reachable(p, m)
      /\ Closed(ImportGraph(p), Reachable(p, m))
  BY ReachableIs DEF Closed
<1> QED
  BY <1>1, ReachableIs

\* A module is sound if nothing on the way down from it is on a cycle, missing or failing.
Faultless(p, k) ==
    /\ k \notin Reachable(p, k)
    /\ \A i \in DOMAIN p[k].imports : p[k].imports[i].of # Missing
    /\ p[k].fault = "none"

\* The verdict in these words.
LEMMA VerdictSays ==
    ASSUME NEW p
    PROVE  /\ \A m \in Modules :
                m \in Verdict(p).sound <=> \A k \in Modules :
                    k \in Reachable(p, m) \cup {m} => Faultless(p, k)
           /\ Verdict(p).sound \subseteq Modules
           /\ \A m \in Modules : m \in Verdict(p).cyclic <=> m \in Reachable(p, m)
<1>1. ASSUME NEW m \in Modules PROVE Reachable(p, m) \subseteq Modules
  BY DEF Reachable
<1> DEFINE reach == [m \in Modules |-> Reachable(p, m) \cup {m}]
           cyclic == {m \in Modules : m \in Reachable(p, m)}
           gaps == {m \in Modules : \E i \in DOMAIN p[m].imports : p[m].imports[i].of = Missing}
           faulty == {m \in Modules : p[m].fault # "none"}
<1>2. Verdict(p).sound = {m \in Modules : reach[m] \cap (cyclic \cup gaps \cup faulty) = {}}
      /\ Verdict(p).cyclic = cyclic
  BY DEF Verdict
<1>3. ASSUME NEW k \in Modules
      PROVE  k \in cyclic \cup gaps \cup faulty <=> ~Faultless(p, k)
  BY DEF Faultless
<1> HIDE DEF gaps, faulty
<1>4. ASSUME NEW m \in Modules
      PROVE  m \in Verdict(p).sound <=> \A k \in Modules :
                    k \in Reachable(p, m) \cup {m} => Faultless(p, k)
  <2>1. reach[m] = Reachable(p, m) \cup {m} /\ reach[m] \subseteq Modules
    BY <1>1
  <2> HIDE DEF reach, cyclic
  <2> QED
    BY <1>2, <1>3, <2>1
<1> QED
  BY <1>2, <1>4

\* A module over sound ones is sound when it does not fail itself and is on no cycle.
LEMMA SoundAbove ==
    ASSUME LoaderAssumption, NEW p \in Programs, NEW m \in Modules,
           Faultless(p, m), ImportGraph(p)[m] \subseteq Verdict(p).sound
    PROVE  m \in Verdict(p).sound
<1> DEFINE S == {k \in Modules : Faultless(p, k)}
           T == Verdict(p).sound
<1>1. T \subseteq Modules /\ \A k \in T : k \in S
  BY VerdictSays
<1>2. Closed(ImportGraph(p), T)
  <2> SUFFICES ASSUME NEW k \in T, NEW n \in ImportGraph(p)[k] PROVE n \in T
    BY DEF Closed
  <2>1. k \in Modules /\ n \in Reachable(p, k)
    BY <1>1, ReachableIs
  <2>2. n \in Modules /\ Reachable(p, n) \subseteq Reachable(p, k)
    BY <2>1, ReachOn, ReachableIs
  <2>3. \A j \in Modules : j \in Reachable(p, k) \cup {k} => Faultless(p, j)
    BY <2>1, VerdictSays
  <2> QED
    BY <2>1, <2>2, <2>3, VerdictSays
<1>3. Reachable(p, m) \subseteq T
  BY <1>1, <1>2, ReachableIs
<1> HIDE DEF T
<1>4. \A k \in Modules : k \in Reachable(p, m) \cup {m} => Faultless(p, k)
  BY <1>1, <1>3
<1> QED
  BY <1>4, VerdictSays

-----------------------------------------------------------------------------
(* The inductive invariant *)

Importing == {"entry", "load"}
Initialising == {"imports", "init"}
Activations == [kind : Importing \cup Initialising, mod : Modules, next : Nat \ {0},
                reg : [Names -> Modules \cup {None}]]
ExportRecords == [from : Modules \cup {None}, vis : Visibilities]

TypeOK ==
    /\ program \in Programs /\ verdict = Verdict(program) /\ mode \in Modes
    /\ status \in {"loading", "initialising", "stdlib", "ready", "failed"}
    /\ todo \in Seq(Project)
    /\ stack \in Seq(Activations)
    /\ calling \in Modules \cup {None}
    /\ reply \in {"none", "ok"} \cup Errors
    /\ loading \subseteq Modules /\ cache \subseteq Modules
    /\ exports \in [Modules -> [Names -> ExportRecords]]
    /\ ran \in Seq(Modules) /\ inited \in Seq(Modules)

\* What each use goes through: activations of initStdlibModule only above the loop that
\* calls it, and only those of loadModule above these.
Phases ==
    /\ status \in {"initialising", "stdlib"} => mode = "bundle"
    /\ status = "initialising" => stack = <<>> /\ reply = "none"
    /\ \A i \in DOMAIN stack :
        /\ stack[i].kind = "entry" => i = 1 /\ stack[i].mod = Entry /\ mode = "run"
        /\ stack[i].kind = "imports" => i = 1
        /\ stack[i].kind = "init" => i # 1
        /\ stack[i].kind \in Initialising =>
            /\ status = "stdlib"
            /\ \A j \in 1..i : stack[j].kind \in Initialising

\* Module m is the one that the activation at n of stack s has called loadModule for: the
\* caller is at 0, in phase st, with the files td to come.
AskedIn(p, md, st, td, s, n, m) ==
    \/ n = 0 /\ md # "run" /\ st = "loading" /\ td # <<>> /\ m = Head(td)
    \/ n # 0 /\ s[n].kind = "init" /\ m = s[n].mod
    \/ /\ n # 0 /\ s[n].kind \in Importing
       /\ s[n].next \in DOMAIN p[s[n].mod].imports
       /\ m = p[s[n].mod].imports[s[n].next].of
Asked(n, m) == AskedIn(program, mode, status, todo, stack, n, m)

\* Every load is one that was asked for, and so is what the last one answered.
Calls ==
    /\ \A i \in DOMAIN stack : stack[i].kind = "load" => Asked(i - 1, stack[i].mod)
    /\ calling # None => reply = "none" /\ Asked(Len(stack), calling)
    /\ reply = "ok" => \E m \in cache : Asked(Len(stack), m)

\* The modules being loaded are not in the cache, and each is being loaded once; l.Loading
\* has them, and modules of the archive, which are not loaded again.
LoadsUnderWay ==
    /\ \A i \in DOMAIN stack : stack[i].kind = "load" =>
        /\ stack[i].mod \in loading \ cache
        /\ ~Archived(stack[i].mod)
        /\ \A k \in DOMAIN Imports(stack[i].mod) : Imports(stack[i].mod)[k].of # Missing
        /\ \A j \in DOMAIN stack :
            stack[j].kind = "load" /\ stack[j].mod = stack[i].mod => i = j
    /\ \A m \in loading :
        Archived(m) \/ \E i \in DOMAIN stack : stack[i].kind = "load" /\ stack[i].mod = m

\* What is above an activation in the stack is what it imports.
Descends ==
    \A i, j \in DOMAIN stack :
        i < j /\ (stack[i].kind \in Initialising => stack[j].kind # "load") =>
            stack[j].mod \in Reachable(program, stack[i].mod)

\* What an activation has gone past is loaded and was visible, or is initialised.
ImportsDone ==
    \A i \in DOMAIN stack :
        /\ stack[i].next <= Len(Imports(stack[i].mod)) + 1
        /\ \A k \in 1..(stack[i].next - 1) :
            LET import == Imports(stack[i].mod)[k] IN
            /\ stack[i].kind \in Importing =>
                  import.of \in cache /\ import.names \subseteq Visible(import.of, stack[i].mod)
            /\ stack[i].kind \in Initialising => (import.of \in Std => import.of \in Initialised)

\* The modules being initialised are loaded first, and none of them is initialised yet.
InitsUnderWay ==
    \A i \in DOMAIN stack : stack[i].kind = "init" =>
        /\ stack[i].mod \in Std \ Initialised
        /\ i < Len(stack) /\ stack[i + 1].kind = "init" => stack[i].mod \in cache
        /\ i = Len(stack) /\ Idle => stack[i].mod \in cache
        /\ \A j \in DOMAIN stack :
            stack[j].kind = "init" /\ stack[j].mod = stack[i].mod => i = j

Executed == {ran[i] : i \in DOMAIN ran}

\* What is in the cache was executed, or comes from the archive, and with it in the cache
\* is all it imports.  What was executed is in the cache, unless it failed.
CacheSound ==
    /\ \A m \in cache : ~Archived(m) =>
        m \in verdict.sound /\ m \in Executed /\ ImportGraph(program)[m] \subseteq cache
    /\ Executed \subseteq cache \/ (mode # "bundle" /\ reply \in Errors)

\* An export is as visible as its module declares it, here and through an index.
ExportsVisible ==
    \A m \in Modules, x \in Names :
        LET e == exports[m][x] IN
        IF e.from = None THEN e.vis = "none"
        ELSE /\ e.vis = program[e.from].declares[x]
             /\ e.vis = "protected" => program[e.from].dir = program[m].dir
             /\ e.vis = "private" => e.from = m

\* The files to come: none twice, none that was loaded or initialised already.
FilesToCome ==
    /\ \A i, j \in DOMAIN todo : todo[i] = todo[j] => i = j
    /\ mode = "build" /\ status = "loading" =>
        \A m \in Project : m \in cache \/ \E i \in DOMAIN todo : todo[i] = m
    /\ mode = "bundle" /\ status = "loading" =>
        \A i \in DOMAIN todo : todo[i] \in loading => i = 1 /\ calling = None /\ reply # "none"
    /\ status = "loading" => inited = <<>>
    /\ status = "initialising" => \A i \in DOMAIN todo : todo[i] \notin Initialised

Readable(m) == program[m].fault # "unreadable"

\* What the cache has of a file of an archive, in status st, with the files td to come, when
\* rp is what the last load returned: it is there once it was read, if it can be.
ReadIn(st, td, rp, c, m) ==
    /\ m \in c => Readable(m)
    /\ st = "loading" /\ Readable(m) => m \in c \/ \E i \in DOMAIN td : td[i] = m
    /\ st = "loading" /\ td # <<>> /\ m = td[1] /\ rp # "none" /\ Readable(m) => m \in c
    /\ st = "initialising" /\ Readable(m) => m \in c
ArchiveRead == mode = "bundle" => \A m \in Project : ReadIn(status, todo, reply, cache, m)

\* The files to come are the last of the archive, and those before them were executed, if
\* they could be read; when it is the library's turn, all were.
ArchiveRun ==
    /\ status = "initialising" =>
        /\ Len(todo) <= Len(Order)
        /\ \A i \in DOMAIN todo : todo[i] = Order[Len(Order) - Len(todo) + i]
        /\ Initialised = Runnable \cap {Order[j] : j \in 1..(Len(Order) - Len(todo))}
    /\ status = "stdlib" => Runnable \subseteq Initialised

IInv ==
    /\ TypeOK /\ Phases /\ Calls /\ LoadsUnderWay /\ Descends /\ ImportsDone /\ InitsUnderWay
    /\ CacheSound /\ ExportsVisible /\ FilesToCome /\ ArchiveRead /\ ArchiveRun
    /\ RunsOnceInOrder /\ VerdictMatchesGraph /\ VisibilityKept

-----------------------------------------------------------------------------
(* What a step changes *)

\* The variables that only some of the actions change.
LEMMA Unchanged ==
    ASSUME Next
    PROVE  /\ program' = program /\ verdict' = verdict /\ mode' = mode
           /\ status' = status \/ Prepared \/ GiveUp \/ FilesLoaded \/ InitModule
                \/ ModulesInited \/ BundleReady
           /\ todo' = todo \/ FileLoaded \/ FilesLoaded \/ InitModule \/ ModulesInited
                \/ InitImports
           /\ stack' = stack \/ Open \/ ImportNext \/ BindNext \/ Finish \/ Propagate
                \/ InitImports \/ InitStd \/ StdInited \/ ImportsInited
           /\ calling' = calling \/ CacheHit \/ Circular \/ Decode \/ Open \/ ImportNext
                \/ BindNext \/ Finish \/ Propagate \/ LoadFile \/ InitStd
           /\ reply' = reply \/ CacheHit \/ Circular \/ Decode \/ Open \/ ImportNext
                \/ BindNext \/ Finish \/ Propagate \/ FileLoaded \/ StdLoaded
           /\ loading' = loading \/ Decode \/ Open \/ ImportNext \/ BindNext \/ Finish
                \/ Propagate
           /\ cache' = cache \/ Decode \/ Finish
           /\ (exports' = exports /\ ran' = ran) \/ Finish
           /\ inited' = inited \/ InitModule \/ StdInited
BY DEF Next, CacheHit, Circular, Decode, Open, ImportNext, BindNext, Finish, Propagate, Prepared,
       GiveUp, LoadFile, FileLoaded, FilesLoaded, InitModule, ModulesInited, InitImports,
       InitStd, StdLoaded, StdInited, ImportsInited, BundleReady, CallImported, CallBundled,
       Return, given, results, loads

\* t is s with an activation more.
PushedOn(s, t, kind, m) ==
    /\ t \in Seq(Activations) /\ Len(s) \in Nat /\ Len(t) = Len(s) + 1
    /\ DOMAIN s = 1..Len(s) /\ DOMAIN t = 1..(Len(s) + 1)
    /\ \A i \in 1..Len(s) : t[i] = s[i]
    /\ t[Len(s) + 1].kind = kind /\ t[Len(s) + 1].mod = m /\ t[Len(s) + 1].next = 1
    /\ t[Len(s) + 1].reg = [x \in Names |-> None]

\* t is s with an activation less.
PoppedTo(s, t) ==
    /\ t \in Seq(Activations) /\ Len(s) \in Nat \ {0} /\ Len(t) = Len(s) - 1
    /\ DOMAIN s = 1..Len(s) /\ DOMAIN t = 1..(Len(s) - 1)
    /\ \A i \in 1..(Len(s) - 1) : t[i] = s[i]

\* t is s with the last activation gone on to the next import.
Advanced(s, t) ==
    /\ t \in Seq(Activations) /\ Len(s) \in Nat \ {0} /\ Len(t) = Len(s)
    /\ DOMAIN s = 1..Len(s) /\ DOMAIN t = 1..Len(s)
    /\ \A i \in 1..(Len(s) - 1) : t[i] = s[i]
    /\ t[Len(s)].kind = s[Len(s)].kind /\ t[Len(s)].mod = s[Len(s)].mod
    /\ t[Len(s)].next = s[Len(s)].next + 1

\* The activation on top.
LEMMA TopFacts ==
    ASSUME TypeOK, stack # <<>>
    PROVE  /\ Len(stack) \in Nat \ {0} /\ DOMAIN stack = 1..Len(stack)
           /\ Len(stack) \in DOMAIN stack /\ Top = stack[Len(stack)]
           /\ Top \in Activations /\ Top.kind \in Importing \cup Initialising
           /\ Top.mod \in Modules /\ Top.next \in Nat \ {0}
           /\ Top.reg \in [Names -> Modules \cup {None}]
<1>1. stack \in Seq(Activations)
  BY DEF TypeOK
<1>2. Top = stack[Len(stack)] /\ Top \in Activations /\ Len(stack) \in Nat \ {0}
      /\ DOMAIN stack = 1..Len(stack) /\ Len(stack) \in 1..Len(stack)
  BY <1>1, FrontOf DEF Top
<1> QED
  BY <1>2 DEF Activations

\* Every activation.
LEMMA StackFacts ==
    ASSUME TypeOK
    PROVE  /\ Len(stack) \in Nat /\ DOMAIN stack = 1..Len(stack)
           /\ stack = <<>> <=> Len(stack) = 0
           /\ \A i \in DOMAIN stack :
                /\ stack[i] \in Activations /\ stack[i].kind \in Importing \cup Initialising
                /\ stack[i].mod \in Modules /\ stack[i].next \in Nat \ {0}
                /\ stack[i].reg \in [Names -> Modules \cup {None}]
<1>1. stack \in Seq(Activations)
  BY DEF TypeOK
<1>2. Len(stack) \in Nat /\ DOMAIN stack = 1..Len(stack)
      /\ (stack = <<>> <=> Len(stack) = 0) /\ \A i \in DOMAIN stack : stack[i] \in Activations
  BY <1>1, SeqFacts
<1> QED
  BY <1>2 DEF Activations

\* A new activation goes on top.
LEMMA Pushes ==
    ASSUME TypeOK, NEW kind \in Importing \cup Initialising, NEW m \in Modules
    PROVE  PushedOn(stack, Append(stack, NewActivation(kind, m)), kind, m)
<1> DEFINE a == NewActivation(kind, m)
<1>1. a \in Activations /\ a.kind = kind /\ a.mod = m /\ a.next = 1
      /\ a.reg = [x \in Names |-> None]
  BY DEF NewActivation, Activations
<1> HIDE DEF a
<1>2. stack \in Seq(Activations)
  BY DEF TypeOK
<1>3. /\ Append(stack, a) \in Seq(Activations)
      /\ Len(stack) \in Nat /\ DOMAIN stack = 1..Len(stack)
      /\ Len(Append(stack, a)) = Len(stack) + 1 /\ DOMAIN Append(stack, a) = 1..(Len(stack) + 1)
      /\ \A i \in 1..Len(stack) : Append(stack, a)[i] = stack[i]
      /\ Append(stack, a)[Len(stack) + 1] = a
  BY <1>1, <1>2, Appended
<1>4. PushedOn(stack, Append(stack, a), kind, m)
  BY <1>1, <1>3 DEF PushedOn
<1> QED
  BY <1>4 DEF a

\* The one on top goes.
LEMMA Pops ==
    ASSUME TypeOK, stack # <<>>
    PROVE  PoppedTo(stack, Front(stack))
<1>1. stack \in Seq(Activations)
  BY DEF TypeOK
<1> QED
  BY <1>1, FrontOf DEF PoppedTo

\* The one on top goes on.
LEMMA Advances ==
    ASSUME TypeOK, stack # <<>>, NEW reg \in [Names -> Modules \cup {None}]
    PROVE  LET t == Append(Front(stack), [Top EXCEPT !.next = @ + 1, !.reg = reg])
           IN  Advanced(stack, t) /\ t[Len(stack)].reg = reg
<1> DEFINE a == [Top EXCEPT !.next = @ + 1, !.reg = reg]
<1>1. /\ a \in Activations /\ a.kind = Top.kind /\ a.mod = Top.mod /\ a.next = Top.next + 1
      /\ a.reg = reg
  <2>1. Top \in Activations /\ Top.next + 1 \in Nat \ {0}
    BY TopFacts
  <2> QED
    BY <2>1 DEF Activations
<1> HIDE DEF a
<1>2. stack \in Seq(Activations) /\ Len(stack) \in Nat \ {0} /\ DOMAIN stack = 1..Len(stack)
      /\ Top = stack[Len(stack)]
  BY TopFacts DEF TypeOK
<1>3. /\ Append(Front(stack), a) \in Seq(Activations)
      /\ Len(Append(Front(stack), a)) = Len(stack)
      /\ DOMAIN Append(Front(stack), a) = 1..Len(stack)
      /\ \A i \in 1..(Len(stack) - 1) : Append(Front(stack), a)[i] = stack[i]
      /\ Append(Front(stack), a)[Len(stack)] = a
  <2>1. a \in Activations /\ stack \in Seq(Activations)
    BY <1>1, <1>2
  <2> QED
    BY <2>1, Replaced
<1>4. Advanced(stack, Append(Front(stack), a)) /\ Append(Front(stack), a)[Len(stack)].reg = reg
  BY <1>1, <1>2, <1>3 DEF Advanced
<1> QED
  BY <1>4 DEF a

\* An activation that advances without binding keeps what it sees.
LEMMA AdvancesOnly ==
    ASSUME TypeOK, stack # <<>>
    PROVE  LET t == Append(Front(stack), [Top EXCEPT !.next = @ + 1])
           IN  Advanced(stack, t) /\ t[Len(stack)].reg = stack[Len(stack)].reg
<1> DEFINE a == [Top EXCEPT !.next = @ + 1]
<1>1. /\ a \in Activations /\ a.kind = Top.kind /\ a.mod = Top.mod /\ a.next = Top.next + 1
      /\ a.reg = Top.reg
  <2>1. Top \in Activations /\ Top.next + 1 \in Nat \ {0}
    BY TopFacts
  <2> QED
    BY <2>1 DEF Activations
<1> HIDE DEF a
<1>2. stack \in Seq(Activations) /\ Len(stack) \in Nat \ {0} /\ DOMAIN stack = 1..Len(stack)
      /\ Top = stack[Len(stack)]
  BY TopFacts DEF TypeOK
<1>3. /\ Append(Front(stack), a) \in Seq(Activations)
      /\ Len(Append(Front(stack), a)) = Len(stack)
      /\ DOMAIN Append(Front(stack), a) = 1..Len(stack)
      /\ \A i \in 1..(Len(stack) - 1) : Append(Front(stack), a)[i] = stack[i]
      /\ Append(Front(stack), a)[Len(stack)] = a
  <2>1. a \in Activations /\ stack \in Seq(Activations)
    BY <1>1, <1>2
  <2> QED
    BY <2>1, Replaced
<1>4. Advanced(stack, Append(Front(stack), a))
      /\ Append(Front(stack), a)[Len(stack)].reg = stack[Len(stack)].reg
  BY <1>1, <1>2, <1>3 DEF Advanced
<1> QED
  BY <1>4 DEF a

\* Where an export comes from: the module itself, one it imports the name from, or nowhere.
LEMMA CollectedIs ==
    ASSUME LoaderAssumption, TypeOK, NEW m \in Modules, NEW x \in Names
    PROVE  \/ /\ program[m].declares[x] # "none"
              /\ Collected(m)[x] = [from |-> m, vis |-> program[m].declares[x]]
           \/ \E k \in DOMAIN Imports(m) :
                /\ x \in Imports(m)[k].names
                /\ Collected(m)[x] = exports[Imports(m)[k].of][x]
           \/ Collected(m)[x] = Undeclared
<1> DEFINE from == {i \in DOMAIN Imports(m) : x \in Imports(m)[i].names}
           first == CHOOSE i \in from : \A j \in from : i <= j
<1>1. from # {} => first \in from
  <2>1. program \in Programs
    BY DEF TypeOK
  <2>2. DOMAIN Imports(m) \subseteq Nat
    BY <2>1, ModuleFacts DEF Imports
  <2> SUFFICES ASSUME from # {} PROVE first \in from
    OBVIOUS
  <2>3. \E i \in from : \A j \in from : i <= j
    <3>1. from \in SUBSET Nat
      BY <2>2
    <3> HIDE DEF from
    <3> QED
      BY <3>1, LeastOf
  <2> HIDE DEF from
  <2> QED
    BY <2>3
<1>2. Collected(m)[x] =
        IF program[m].declares[x] # "none"
        THEN [from |-> m, vis |-> program[m].declares[x]]
        ELSE IF program[m].index /\ from # {}
             THEN exports[Imports(m)[first].of][x]
             ELSE Undeclared
  BY DEF Collected
<1> HIDE DEF first
<1> QED
  BY <1>1, <1>2

\* What a module sees, exports and gets bound has its type.
LEMMA DataTyped ==
    ASSUME LoaderAssumption, TypeOK, NEW m \in Modules
    PROVE  /\ (\A k \in DOMAIN Imports(m) : Imports(m)[k].of # Missing)
                => Collected(m) \in [Names -> ExportRecords]
           /\ \A k \in Modules : Visible(k, m) \subseteq Names
           /\ \A reg \in [Names -> Modules \cup {None}], import \in ImportRecords :
                import.of \in Modules =>
                    Bound(reg, import, m) \in [Names -> Modules \cup {None}]
<1>1. program \in Programs
      /\ \A k \in Modules, x \in Names : exports[k][x] \in ExportRecords
  BY DEF TypeOK
<1>2. \A k \in Modules, x \in Names : exports[k][x].from \in Modules \cup {None}
  BY <1>1 DEF ExportRecords
<1>3. ASSUME \A k \in DOMAIN Imports(m) : Imports(m)[k].of # Missing
      PROVE  Collected(m) \in [Names -> ExportRecords]
  <2>1. \A k \in DOMAIN Imports(m) : Imports(m)[k].of \in Modules
    BY <1>1, <1>3, ModuleFacts DEF Imports
  <2>2. Undeclared \in ExportRecords
    BY DEF Undeclared, ExportRecords, Visibilities
  <2>3. \A x \in Names : [from |-> m, vis |-> program[m].declares[x]] \in ExportRecords
    BY <1>1, ModuleFacts DEF ExportRecords
  <2>4. \A x \in Names : Collected(m)[x] \in ExportRecords
    BY <1>1, <2>1, <2>2, <2>3, CollectedIs
  <2>5. DOMAIN Collected(m) = Names /\ Collected(m) = [x \in Names |-> Collected(m)[x]]
    BY DEF Collected
  <2> QED
    BY <2>4, <2>5
<1>4. \A k \in Modules : Visible(k, m) \subseteq Names
  BY DEF Visible
<1>5. ASSUME NEW reg \in [Names -> Modules \cup {None}], NEW import \in ImportRecords,
             import.of \in Modules
      PROVE  Bound(reg, import, m) \in [Names -> Modules \cup {None}]
  BY <1>2, <1>5 DEF Bound
<1> QED
  BY <1>3, <1>4, <1>5

\* What a call of loadModule is about.
LEMMA CallFacts ==
    ASSUME LoaderAssumption, TypeOK, NEW m, Asked(Len(stack), m)
    PROVE  /\ stack = <<>> =>
                /\ mode # "run" /\ status = "loading" /\ todo # <<>>
                /\ m = Head(todo) /\ m = todo[1] /\ m \in Project /\ 1 \in DOMAIN todo
           /\ stack # <<>> =>
                \/ Top.kind = "init" /\ m = Top.mod
                \/ /\ Top.kind \in Importing
                   /\ Top.next \in DOMAIN Imports(Top.mod)
                   /\ m = Imports(Top.mod)[Top.next].of
                   /\ Imports(Top.mod)[Top.next] \in ImportRecords
<1>1. CASE stack = <<>>
  <2>1. Len(stack) = 0
    BY <1>1
  <2>2. mode # "run" /\ status = "loading" /\ todo # <<>> /\ m = Head(todo)
    BY <2>1 DEF Asked, AskedIn
  <2>3. todo \in Seq(Project)
    BY DEF TypeOK
  <2>4. Len(todo) \in Nat \ {0} /\ DOMAIN todo = 1..Len(todo) /\ Head(todo) = todo[1]
        /\ Head(todo) \in Project
    BY <2>2, <2>3, TailOf, SeqFacts
  <2> QED
    BY <1>1, <2>2, <2>4
<1>2. CASE stack # <<>>
  <2>1. Len(stack) # 0 /\ Top = stack[Len(stack)] /\ Top.mod \in Modules
    BY <1>2, TopFacts
  <2>2. program \in Programs
    BY DEF TypeOK
  <2>3. \A i \in DOMAIN Imports(Top.mod) : Imports(Top.mod)[i] \in ImportRecords
    BY <2>1, <2>2, ModuleFacts, SeqFacts DEF Imports
  <2> QED
    BY <1>2, <2>1, <2>3 DEF Asked, AskedIn, Imports
<1> QED
  BY <1>1, <1>2

\* What Open does.
LEMMA OpenDoes ==
    ASSUME LoaderAssumption, TypeOK, Open
    PROVE  /\ calling \in Modules /\ calling \notin cache \cup loading /\ ~Archived(calling)
           /\ calling' = None
           /\ \/ /\ stack' = stack /\ loading' = loading
                 /\ reply' \in {"unreadable", "missing"}
              \/ /\ PushedOn(stack, stack', "load", calling)
                 /\ loading' = loading \cup {calling} /\ reply' = reply
                 /\ \A k \in DOMAIN Imports(calling) : Imports(calling)[k].of # Missing
<1>1. /\ calling \in Modules /\ calling \notin cache \cup loading /\ ~Archived(calling)
      /\ calling' = None
      /\ \/ /\ stack' = stack /\ loading' = loading
            /\ reply' \in {"unreadable", "missing"}
         \/ /\ stack' = Append(stack, NewActivation("load", calling))
            /\ loading' = loading \cup {calling} /\ reply' = reply
            /\ Refused(calling) = "none"
  BY DEF Open, Return, Refused
<1>2. PushedOn(stack, Append(stack, NewActivation("load", calling)), "load", calling)
  BY <1>1, Pushes DEF Importing
<1>3. Refused(calling) = "none"
          => \A k \in DOMAIN Imports(calling) : Imports(calling)[k].of # Missing
  BY DEF Refused
<1> QED
  BY <1>1, <1>2, <1>3

\* What it means to return an error, or the module.
LEMMA AbandonDoes ==
    ASSUME LoaderAssumption, TypeOK, stack # <<>>, NEW e, Abandon(e)
    PROVE  /\ PoppedTo(stack, stack') /\ calling' = None /\ reply' = e
           /\ loading' = IF stack[Len(stack)].kind = "load"
                         THEN loading \ {stack[Len(stack)].mod} ELSE loading
BY Pops, TopFacts DEF Abandon, Return

\* What ImportNext does.
LEMMA ImportNextDoes ==
    ASSUME LoaderAssumption, TypeOK, ImportNext
    PROVE  /\ stack # <<>> /\ Top.kind \in Importing /\ Idle
           /\ Top.next \in DOMAIN Imports(Top.mod)
           /\ \/ Abandon("missing")
              \/ /\ calling' = Imports(Top.mod)[Top.next].of /\ calling' \in Modules
                 /\ UNCHANGED <<stack, reply, loading>>
<1>1. stack # <<>> /\ Top.kind \in Importing /\ Idle /\ Top.next <= Len(Imports(Top.mod))
  BY DEF ImportNext, Importing
<1>2. Top.mod \in Modules /\ Top.next \in Nat \ {0} /\ program \in Programs
  BY <1>1, TopFacts DEF TypeOK
<1>3. /\ Len(Imports(Top.mod)) \in Nat
      /\ DOMAIN Imports(Top.mod) = 1..Len(Imports(Top.mod))
      /\ \A i \in DOMAIN Imports(Top.mod) : Imports(Top.mod)[i].of \in Modules \cup {Missing}
  BY <1>2, ModuleFacts DEF Imports
<1>4. Top.next \in DOMAIN Imports(Top.mod)
  BY <1>1, <1>2, <1>3
<1> QED
  BY <1>1, <1>3, <1>4 DEF ImportNext

\* What BindNext does.
LEMMA BindNextDoes ==
    ASSUME LoaderAssumption, TypeOK, Calls, BindNext
    PROVE  /\ stack # <<>> /\ Top.kind \in Importing /\ reply = "ok"
           /\ Top.next \in DOMAIN Imports(Top.mod)
           /\ LET import == Imports(Top.mod)[Top.next] IN
              /\ import \in ImportRecords /\ import.of \in cache
              /\ \/ Abandon("inaccessible")
                 \/ /\ import.names \subseteq Visible(import.of, Top.mod)
                    /\ Advanced(stack, stack')
                    /\ stack'[Len(stack)].reg = Bound(Top.reg, import, Top.mod)
                    /\ reply' = "none" /\ calling' = calling /\ loading' = loading
<1>1. stack # <<>> /\ Top.kind \in Importing /\ reply = "ok"
  BY DEF BindNext, Importing
<1>2. PICK m \in cache : Asked(Len(stack), m)
  BY <1>1 DEF Calls
<1> DEFINE import == Imports(Top.mod)[Top.next]
<1>3. Top.kind # "init"
  BY <1>1 DEF Importing
<1>4. Top.next \in DOMAIN Imports(Top.mod) /\ import \in ImportRecords /\ import.of \in cache
  BY <1>1, <1>2, <1>3, CallFacts
<1>5. Top.reg \in [Names -> Modules \cup {None}] /\ Top.mod \in Modules /\ cache \subseteq Modules
  BY <1>1, TopFacts DEF TypeOK
<1> DEFINE reg == Bound(Top.reg, import, Top.mod)
           t == Append(Front(stack), [Top EXCEPT !.next = @ + 1, !.reg = reg])
<1>6. reg \in [Names -> Modules \cup {None}]
  BY <1>4, <1>5, DataTyped
<1>7. Advanced(stack, t) /\ t[Len(stack)].reg = reg
  <2> HIDE DEF reg
  <2> QED
    BY <1>1, <1>6, Advances
<1>8. \/ Abandon("inaccessible")
      \/ /\ import.names \subseteq Visible(import.of, Top.mod)
         /\ stack' = Append(Front(stack), [Top EXCEPT !.next = @ + 1,
                                                      !.reg = Bound(@, import, Top.mod)])
         /\ reply' = "none" /\ calling' = calling /\ loading' = loading
  BY DEF BindNext
<1>9. Append(Front(stack), [Top EXCEPT !.next = @ + 1, !.reg = Bound(@, import, Top.mod)]) = t
  OBVIOUS
<1> QED
  BY <1>1, <1>4, <1>7, <1>8, <1>9

\* What Finish does.
LEMMA FinishDoes ==
    ASSUME LoaderAssumption, TypeOK, Finish
    PROVE  /\ stack # <<>> /\ Top.kind = "load" /\ Idle
           /\ Top.next > Len(Imports(Top.mod))
           /\ \/ /\ program[Top.mod].fault = "none" /\ Abandon("ok")
                 /\ ran' = Append(ran, Top.mod)
                 /\ exports' = [exports EXCEPT ![Top.mod] = Collected(Top.mod)]
                 /\ cache' = cache \cup {Top.mod}
              \/ /\ program[Top.mod].fault \in Errors /\ Abandon(program[Top.mod].fault)
                 /\ ran' = Append(ran, Top.mod) \/ ran' = ran
                 /\ exports' = exports /\ cache' = cache
<1>1. stack # <<>>
  BY DEF Finish
<1>2. Top.mod \in Modules /\ program \in Programs
  BY <1>1, TopFacts DEF TypeOK
<1>3. program[Top.mod].fault \in {"none", "unreadable", "rejected", "run"}
  BY <1>2, ModuleFacts
<1> QED
  BY <1>3 DEF Finish, Errors

\* What InitStd does.
LEMMA InitStdDoes ==
    ASSUME LoaderAssumption, TypeOK, InitStd
    PROVE  /\ stack # <<>> /\ Top.kind \in Initialising /\ Idle
           /\ Top.next \in DOMAIN Imports(Top.mod)
           /\ LET m == Imports(Top.mod)[Top.next].of IN
              \/ /\ m \in Std => m \in Initialised
                 /\ Advanced(stack, stack') /\ calling' = None
                 /\ stack'[Len(stack)].reg = stack[Len(stack)].reg
              \/ /\ m \in Std \ Initialised
                 /\ PushedOn(stack, stack', "init", m) /\ calling' = m
<1> DEFINE m == Imports(Top.mod)[Top.next].of
<1>1. stack # <<>> /\ Top.kind \in Initialising /\ Idle /\ Top.next <= Len(Imports(Top.mod))
  BY DEF InitStd, Initialising
<1>2. Top.mod \in Modules /\ Top.next \in Nat \ {0} /\ program \in Programs
  BY <1>1, TopFacts DEF TypeOK
<1>3. Top.next \in DOMAIN Imports(Top.mod)
  <2>1. Len(Imports(Top.mod)) \in Nat /\ DOMAIN Imports(Top.mod) = 1..Len(Imports(Top.mod))
    BY <1>2, ModuleFacts DEF Imports
  <2> QED
    BY <1>1, <1>2, <2>1
<1>4. \/ /\ m \in Std => m \in Initialised
         /\ stack' = Append(Front(stack), [Top EXCEPT !.next = @ + 1]) /\ calling' = calling
      \/ /\ m \in Std \ Initialised
         /\ stack' = Append(stack, NewActivation("init", m)) /\ calling' = m
  BY DEF InitStd
<1>5. m \in Std => PushedOn(stack, Append(stack, NewActivation("init", m)), "init", m)
  <2> SUFFICES ASSUME m \in Std
               PROVE  PushedOn(stack, Append(stack, NewActivation("init", m)), "init", m)
    OBVIOUS
  <2>1. m \in Modules
    BY DEF Modules
  <2> QED
    BY <2>1, Pushes DEF Initialising
<1>6. LET t == Append(Front(stack), [Top EXCEPT !.next = @ + 1])
      IN  Advanced(stack, t) /\ t[Len(stack)].reg = stack[Len(stack)].reg
  BY <1>1, AdvancesOnly
<1>7. calling = None
  BY <1>1 DEF Idle
<1> HIDE DEF m
<1>8. \/ /\ m \in Std => m \in Initialised
         /\ Advanced(stack, stack') /\ calling' = None
         /\ stack'[Len(stack)].reg = stack[Len(stack)].reg
      \/ /\ m \in Std \ Initialised
         /\ PushedOn(stack, stack', "init", m) /\ calling' = m
  BY <1>4, <1>5, <1>6, <1>7
<1> QED
  BY <1>1, <1>3, <1>8 DEF m

\* What InitImports does.
LEMMA InitImportsDoes ==
    ASSUME LoaderAssumption, TypeOK, InitImports
    PROVE  /\ status = "stdlib" /\ Idle /\ stack = <<>> /\ todo # <<>> /\ todo' = Tail(todo)
           /\ \/ stack' = <<>>
              \/ PushedOn(stack, stack', "imports", Head(todo)) /\ Head(todo) \in cache
<1>1. status = "stdlib" /\ Idle /\ stack = <<>> /\ todo # <<>> /\ todo' = Tail(todo)
      /\ stack' = IF Head(todo) \in cache THEN <<NewActivation("imports", Head(todo))>> ELSE <<>>
  BY DEF InitImports
<1>2. todo \in Seq(Project) /\ cache \subseteq Modules
  BY DEF TypeOK
<1>3. Head(todo) \in Modules
  <2>1. Head(todo) \in Project
    BY <1>1, <1>2, TailOf
  <2> QED
    BY <2>1 DEF Modules
<1>4. PushedOn(stack, Append(stack, NewActivation("imports", Head(todo))), "imports", Head(todo))
  BY <1>3, Pushes DEF Initialising
<1>5. ASSUME NEW a PROVE Append(<<>>, a) = <<a>>
  OBVIOUS
<1> QED
  BY <1>1, <1>4, <1>5

\* What StdInited and ImportsInited do.
LEMMA InitedDoes ==
    ASSUME LoaderAssumption, TypeOK, StdInited \/ ImportsInited
    PROVE  /\ stack # <<>> /\ Idle /\ Top.next > Len(Imports(Top.mod))
           /\ PoppedTo(stack, stack') /\ calling' = None /\ reply' = "none"
           /\ loading' = loading
           /\ StdInited => Top.kind = "init" /\ inited' = Append(inited, Top.mod)
           /\ ImportsInited => Top.kind = "imports" /\ inited' = inited
<1>1. stack # <<>>
  BY DEF StdInited, ImportsInited
<1> QED
  BY <1>1, Pops DEF StdInited, ImportsInited, Idle, results

-----------------------------------------------------------------------------
(* Every step keeps the types *)

\* The stack after any step is a stack.
LEMMA StackTyped ==
    ASSUME LoaderAssumption, IInv, Next
    PROVE  stack' \in Seq(Activations)
<1>1. TypeOK /\ Calls /\ stack \in Seq(Activations)
  BY DEF IInv, TypeOK
<1>2. CASE Open
  BY <1>1, <1>2, OpenDoes DEF PushedOn
<1>3. ASSUME stack # <<>>, NEW e, Abandon(e) PROVE stack' \in Seq(Activations)
  BY <1>1, <1>3, AbandonDoes DEF PoppedTo
<1>4. CASE ImportNext
  BY <1>1, <1>3, <1>4, ImportNextDoes
<1>5. CASE BindNext
  BY <1>1, <1>3, <1>5, BindNextDoes DEF Advanced
<1>6. CASE Finish
  BY <1>1, <1>3, <1>6, FinishDoes
<1>7. CASE Propagate
  BY <1>3, <1>7 DEF Propagate
<1>8. CASE InitImports
  BY <1>1, <1>8, InitImportsDoes DEF PushedOn
<1>9. CASE InitStd
  BY <1>1, <1>9, InitStdDoes DEF PushedOn, Advanced
<1>10. CASE StdInited \/ ImportsInited
  BY <1>1, <1>10, InitedDoes DEF PoppedTo
<1> QED
  BY <1>1, <1>2, <1>4, <1>5, <1>6, <1>7, <1>8, <1>9, <1>10, Unchanged

\* So do the calls and what they return.
LEMMA CallsTyped ==
    ASSUME LoaderAssumption, IInv, Next
    PROVE  /\ calling' \in Modules \cup {None} /\ reply' \in {"none", "ok"} \cup Errors
           /\ loading' \subseteq Modules /\ cache' \subseteq Modules
<1>1. /\ TypeOK /\ Calls
      /\ calling \in Modules \cup {None} /\ reply \in {"none", "ok"} \cup Errors
      /\ loading \subseteq Modules /\ cache \subseteq Modules
  BY DEF IInv, TypeOK
<1>2. CASE CacheHit \/ Circular
  BY <1>1, <1>2 DEF CacheHit, Circular, Return, Errors, results
<1>3. CASE Decode
  BY <1>1, <1>3 DEF Decode, Return, Errors, Modules
<1>4. CASE Open
  <2>1. cache' = cache
    BY <1>4 DEF Open, results
  <2> QED
    BY <1>1, <1>4, <2>1, OpenDoes DEF Errors
<1>5. ASSUME stack # <<>>, NEW e \in {"ok"} \cup Errors, Abandon(e)
      PROVE  /\ calling' \in Modules \cup {None} /\ reply' \in {"none", "ok"} \cup Errors
             /\ loading' \subseteq Modules
  BY <1>1, <1>5, AbandonDoes
<1>6. CASE ImportNext
  <2>1. cache' = cache
    BY <1>6 DEF ImportNext, results
  <2> QED
    BY <1>1, <1>5, <1>6, <2>1, ImportNextDoes DEF Errors
<1>7. CASE BindNext
  <2>1. cache' = cache
    BY <1>7 DEF BindNext, results
  <2> QED
    BY <1>1, <1>5, <1>7, <2>1, BindNextDoes DEF Errors
<1>8. CASE Finish
  BY <1>1, <1>5, <1>8, FinishDoes, TopFacts DEF Errors
<1>9. CASE Propagate
  <2>1. cache' = cache /\ stack # <<>> /\ reply \in Errors /\ Abandon(reply)
    BY <1>9 DEF Propagate, results
  <2> QED
    BY <1>1, <1>5, <2>1
<1>10. CASE LoadFile
  <2>1. calling' = Head(todo) /\ todo # <<>> /\ UNCHANGED <<reply, loading, cache>>
    BY <1>10 DEF LoadFile, results
  <2>2. Head(todo) \in Project
    BY <2>1, <1>1, TailOf DEF TypeOK
  <2> QED
    BY <1>1, <2>1, <2>2 DEF Modules
<1>11. CASE InitStd
  <2>1. UNCHANGED <<reply, loading, cache>>
    BY <1>11 DEF InitStd, results
  <2> QED
    BY <1>1, <1>11, <2>1, InitStdDoes DEF Modules
<1>12. CASE FileLoaded \/ StdLoaded
  BY <1>1, <1>12 DEF FileLoaded, StdLoaded, results
<1> QED
  BY <1>1, <1>2, <1>3, <1>4, <1>6, <1>7, <1>8, <1>9, <1>10, <1>11, <1>12, Unchanged

\* All of them do.
LEMMA TypeKept ==
    ASSUME LoaderAssumption, IInv, Next
    PROVE  TypeOK'
<1>1. TypeOK
  BY DEF IInv
<1>2. program' = program /\ verdict' = verdict /\ mode' = mode
  BY Unchanged
<1>3. Verdict(program)' = Verdict(program)
  BY <1>2 DEF Verdict, Reachable, ImportGraph, Closed
<1>4. status' \in {"loading", "initialising", "stdlib", "ready", "failed"}
  BY <1>1, Unchanged DEF TypeOK, Prepared, GiveUp, FilesLoaded, InitModule, ModulesInited,
     BundleReady
<1>5. todo' \in Seq(Project)
  <2>1. todo \in Seq(Project) /\ Order \in Seq(Project)
    BY <1>1 DEF TypeOK, LoaderAssumption
  <2>2. todo # <<>> => Tail(todo) \in Seq(Project)
    BY <2>1, TailOf
  <2>3. todo' = todo \/ todo' = Order \/ (todo # <<>> /\ todo' = Tail(todo))
    BY Unchanged DEF FileLoaded, FilesLoaded, InitModule, ModulesInited, InitImports
  <2> QED
    BY <2>1, <2>2, <2>3
<1>6. exports' \in [Modules -> [Names -> ExportRecords]] /\ ran' \in Seq(Modules)
  <2>1. exports \in [Modules -> [Names -> ExportRecords]] /\ ran \in Seq(Modules)
    BY <1>1 DEF TypeOK
  <2>2. CASE Finish
    <3>1. stack # <<>> /\ Top.kind = "load"
      BY <1>1, <2>2, FinishDoes
    <3>2. Top.mod \in Modules /\ Top = stack[Len(stack)] /\ Len(stack) \in DOMAIN stack
      BY <1>1, <3>1, TopFacts
    <3>3. \A k \in DOMAIN Imports(Top.mod) : Imports(Top.mod)[k].of # Missing
      BY <3>1, <3>2 DEF IInv, LoadsUnderWay
    <3>4. Collected(Top.mod) \in [Names -> ExportRecords]
      BY <1>1, <3>2, <3>3, DataTyped
    <3>5. Append(ran, Top.mod) \in Seq(Modules)
      BY <2>1, <3>2, Appended
    <3> QED
      BY <1>1, <2>1, <2>2, <3>4, <3>5, FinishDoes
  <2> QED
    BY <2>1, <2>2, Unchanged
<1>7. inited' \in Seq(Modules)
  <2>1. inited \in Seq(Modules) /\ todo \in Seq(Project)
    BY <1>1 DEF TypeOK
  <2>2. CASE InitModule
    <3>1. todo # <<>> /\ (inited' = inited \/ inited' = Append(inited, Head(todo)))
      BY <2>2 DEF InitModule
    <3>2. Head(todo) \in Modules
      <4>1. Head(todo) \in Project
        BY <2>1, <3>1, TailOf
      <4> QED
        BY <4>1 DEF Modules
    <3> QED
      BY <2>1, <3>1, <3>2, Appended
  <2>3. CASE StdInited
    <3>1. stack # <<>> /\ inited' = Append(inited, Top.mod)
      BY <2>3 DEF StdInited
    <3>2. Top.mod \in Modules
      BY <1>1, <3>1, TopFacts
    <3> QED
      BY <2>1, <3>1, <3>2, Appended
  <2> QED
    BY <2>1, <2>2, <2>3, Unchanged
<1>8. /\ stack' \in Seq(Activations) /\ calling' \in Modules \cup {None}
      /\ reply' \in {"none", "ok"} \cup Errors /\ loading' \subseteq Modules
      /\ cache' \subseteq Modules
  BY StackTyped, CallsTyped
<1> QED
  BY <1>1, <1>2, <1>3, <1>4, <1>5, <1>6, <1>7, <1>8 DEF TypeOK

-----------------------------------------------------------------------------
(* Every step keeps the invariant *)

\* Without a call and without an answer nothing happens to the stack while the modules of
\* the archive are executed.
LEMMA QuietWhileInitialising ==
    ASSUME LoaderAssumption, IInv, Next, status = "initialising"
    PROVE  stack' = stack /\ stack = <<>> /\ reply' = reply /\ reply = "none"
           /\ calling = None /\ calling' = None
<1>1. TypeOK /\ Phases /\ Calls /\ stack = <<>> /\ reply = "none"
  BY DEF IInv, Phases
<1>2. calling = None
  <2>1. Len(stack) = 0
    BY <1>1
  <2> QED
    BY <1>1, <2>1 DEF Calls, Asked, AskedIn
<1>3. None \notin Modules /\ cache \subseteq Modules /\ loading \subseteq Modules
      /\ None \notin Project
  BY <1>1 DEF TypeOK, LoaderAssumption, Modules
<1>4. ~CacheHit /\ ~Circular /\ ~Decode /\ ~Open
  BY <1>2, <1>3 DEF CacheHit, Circular, Decode, Open
<1>5. ~ImportNext /\ ~BindNext /\ ~Finish /\ ~Propagate /\ ~StdLoaded /\ ~StdInited
      /\ ~ImportsInited /\ ~InitStd
  BY <1>1 DEF ImportNext, BindNext, Finish, Propagate, StdLoaded, StdInited, ImportsInited,
     InitStd
<1>6. ~InitImports /\ ~FileLoaded /\ ~LoadFile
  BY DEF InitImports, FileLoaded, LoadFile
<1> QED
  BY <1>1, <1>2, <1>4, <1>5, <1>6, Unchanged

\* Nor does the phase end while initStdlibModule is active.
LEMMA StdlibStays ==
    ASSUME LoaderAssumption, IInv, Next, status = "stdlib", stack # <<>>
    PROVE  status' = "stdlib"
BY Unchanged DEF Prepared, GiveUp, FilesLoaded, InitModule, ModulesInited, BundleReady

\* The part of Phases for one activation.
PhaseOf(s, i) ==
    /\ s[i].kind = "entry" => i = 1 /\ s[i].mod = Entry /\ mode = "run"
    /\ s[i].kind = "imports" => i = 1
    /\ s[i].kind = "init" => i # 1
    /\ s[i].kind \in Initialising => \A j \in 1..i : s[j].kind \in Initialising

\* It depends on the activations up to this one.
LEMMA PhaseOfSame ==
    ASSUME NEW s, NEW t, NEW i \in Nat \ {0}, PhaseOf(s, i),
           \A j \in 1..i : t[j].kind = s[j].kind /\ t[j].mod = s[j].mod
    PROVE  PhaseOf(t, i)
<1>1. t[i].kind = s[i].kind /\ t[i].mod = s[i].mod
  OBVIOUS
<1> QED
  BY <1>1 DEF PhaseOf

\* Phases holds of the stack after any step.
LEMMA StackPhases ==
    ASSUME LoaderAssumption, IInv, Next
    PROVE  \A i \in DOMAIN stack' : PhaseOf(stack', i)
<1> DEFINE n == Len(stack)
<1>1. /\ TypeOK /\ Phases /\ Calls /\ n \in Nat /\ DOMAIN stack = 1..n
      /\ \A i \in 1..n : PhaseOf(stack, i)
  BY StackFacts DEF IInv, Phases, PhaseOf
<1>2. ASSUME PoppedTo(stack, stack') PROVE \A i \in DOMAIN stack' : PhaseOf(stack', i)
  <2>1. DOMAIN stack' = 1..(n - 1) /\ \A i \in 1..(n - 1) : stack'[i] = stack[i]
    BY <1>2 DEF PoppedTo
  <2>2. ASSUME NEW i \in 1..(n - 1) PROVE PhaseOf(stack', i)
    <3>1. i \in 1..n /\ i \in Nat \ {0} /\ \A j \in 1..i : j \in 1..(n - 1)
      BY <1>1
    <3> QED
      BY <1>1, <2>1, <3>1, PhaseOfSame
  <2> QED
    BY <2>1, <2>2
<1>3. ASSUME Advanced(stack, stack') PROVE \A i \in DOMAIN stack' : PhaseOf(stack', i)
  <2>1. /\ DOMAIN stack' = 1..n
        /\ \A i \in 1..(n - 1) : stack'[i] = stack[i]
        /\ stack'[n].kind = stack[n].kind /\ stack'[n].mod = stack[n].mod
    BY <1>3 DEF Advanced
  <2>2. \A j \in 1..n : stack'[j].kind = stack[j].kind /\ stack'[j].mod = stack[j].mod
    BY <1>1, <2>1, LastOrBefore
  <2>3. ASSUME NEW i \in 1..n PROVE PhaseOf(stack', i)
    <3>1. i \in Nat \ {0} /\ \A j \in 1..i : j \in 1..n
      BY <1>1
    <3> QED
      BY <1>1, <2>2, <3>1, PhaseOfSame
  <2> QED
    BY <2>1, <2>3
<1>4. ASSUME NEW kind, NEW m, PushedOn(stack, stack', kind, m),
             \/ kind = "load"
             \/ kind = "imports" /\ stack = <<>>
             \/ kind = "init" /\ stack # <<>> /\ Top.kind \in Initialising
      PROVE  \A i \in DOMAIN stack' : PhaseOf(stack', i)
  <2>1. /\ DOMAIN stack' = 1..(n + 1)
        /\ \A i \in 1..n : stack'[i] = stack[i]
        /\ stack'[n + 1].kind = kind
    BY <1>4 DEF PushedOn
  <2>2. ASSUME NEW i \in 1..n PROVE PhaseOf(stack', i)
    <3>1. i \in Nat \ {0} /\ \A j \in 1..i : j \in 1..n
      BY <1>1
    <3> QED
      BY <1>1, <2>1, <3>1, PhaseOfSame
  <2>3. PhaseOf(stack', n + 1)
    <3>1. CASE kind = "load"
      BY <2>1, <3>1 DEF PhaseOf, Initialising
    <3>2. CASE kind = "imports" /\ stack = <<>>
      <4>1. n = 0
        BY <3>2
      <4>2. \A j \in 1..1 : stack'[j].kind \in Initialising
        BY <2>1, <3>2, <4>1 DEF Initialising
      <4> QED
        BY <2>1, <3>2, <4>1, <4>2 DEF PhaseOf
    <3>3. CASE kind = "init" /\ stack # <<>> /\ Top.kind \in Initialising
      <4>1. n # 0 /\ n \in 1..n /\ stack[n].kind \in Initialising
        BY <1>1, <3>3, TopFacts
      <4>2. \A j \in 1..n : stack[j].kind \in Initialising
        BY <1>1, <4>1 DEF PhaseOf
      <4>3. \A j \in 1..(n + 1) : j \in 1..n \/ j = n + 1
        BY <1>1
      <4>4. \A j \in 1..(n + 1) : stack'[j].kind \in Initialising
        BY <2>1, <3>3, <4>2, <4>3 DEF Initialising
      <4>5. n + 1 # 1
        BY <1>1, <4>1
      <4> QED
        BY <2>1, <3>3, <4>4, <4>5 DEF PhaseOf
    <3> QED
      BY <1>4, <3>1, <3>2, <3>3
  <2>4. \A i \in 1..(n + 1) : i \in 1..n \/ i = n + 1
    BY <1>1
  <2> QED
    BY <2>1, <2>2, <2>3, <2>4
<1>5. stack' = stack => \A i \in DOMAIN stack' : PhaseOf(stack', i)
  BY <1>1
<1>6. stack' = <<>> => \A i \in DOMAIN stack' : PhaseOf(stack', i)
  OBVIOUS
<1>7. ASSUME stack # <<>>, NEW e, Abandon(e)
      PROVE  \A i \in DOMAIN stack' : PhaseOf(stack', i)
  BY <1>1, <1>2, <1>7, AbandonDoes
<1> HIDE DEF n
<1>8. CASE Open
  BY <1>1, <1>4, <1>5, <1>8, OpenDoes
<1>9. CASE ImportNext
  BY <1>1, <1>5, <1>7, <1>9, ImportNextDoes
<1>10. CASE BindNext
  BY <1>1, <1>3, <1>7, <1>10, BindNextDoes
<1>11. CASE Finish
  BY <1>1, <1>7, <1>11, FinishDoes
<1>12. CASE Propagate
  BY <1>7, <1>12 DEF Propagate
<1>13. CASE InitImports
  BY <1>1, <1>4, <1>6, <1>13, InitImportsDoes
<1>14. CASE InitStd
  BY <1>1, <1>3, <1>4, <1>14, InitStdDoes
<1>15. CASE StdInited \/ ImportsInited
  BY <1>1, <1>2, <1>15, InitedDoes
<1> QED
  BY <1>5, <1>8, <1>9, <1>10, <1>11, <1>12, <1>13, <1>14, <1>15, Unchanged

\* Phases is kept.
LEMMA PhasesKept ==
    ASSUME LoaderAssumption, IInv, Next
    PROVE  Phases'
<1>1. TypeOK /\ Phases /\ Calls
  BY DEF IInv
<1>2. mode' = mode
  BY Unchanged
<1>3. status' \in {"initialising", "stdlib"} => mode' = "bundle"
  <2>1. mode \in {"run", "build", "bundle"}
    BY <1>1 DEF TypeOK, Modes
  <2>2. CASE FilesLoaded
    BY <1>2, <2>1, <2>2 DEF FilesLoaded
  <2>3. CASE ~FilesLoaded
    <3>1. status' = status \/ status' \in {"ready", "failed"} \/ status = "initialising"
      BY <2>3, Unchanged DEF Prepared, GiveUp, InitModule, ModulesInited, BundleReady
    <3> QED
      BY <1>1, <1>2, <3>1 DEF Phases
  <2> QED
    BY <2>2, <2>3
<1>4. status' = "initialising" => stack' = <<>> /\ reply' = "none"
  <2>1. CASE status = "initialising"
    BY <2>1, QuietWhileInitialising
  <2>2. CASE status # "initialising"
    <3>1. status' = "initialising" => FilesLoaded
      BY <2>2, Unchanged DEF Prepared, GiveUp, InitModule, ModulesInited, BundleReady
    <3>2. FilesLoaded => stack' = <<>> /\ reply' = "none"
      BY DEF FilesLoaded, loads, Idle
    <3> QED
      BY <3>1, <3>2
  <2> QED
    BY <2>1, <2>2
<1>5. ASSUME NEW i \in DOMAIN stack', stack'[i].kind \in Initialising
      PROVE  status' = "stdlib"
  <2>1. \A j \in 1..i : stack'[j].kind \in Initialising
    BY <1>5, StackPhases DEF PhaseOf
  <2>2. CASE stack = <<>>
    <3>1. InitImports
      <4>1. stack' # stack
        BY <2>2, <1>5
      <4>2. CASE Open
        <5>1. PushedOn(stack, stack', "load", calling) /\ Len(stack) = 0
          BY <1>1, <2>2, <4>1, <4>2, OpenDoes
        <5>2. i = 1 /\ stack'[1].kind = "load"
          BY <1>5, <5>1 DEF PushedOn
        <5> QED
          BY <1>5, <5>2 DEF Initialising
      <4> QED
        BY <2>2, <4>1, <4>2, Unchanged DEF ImportNext, BindNext, Finish, Propagate, InitStd,
           StdInited, ImportsInited
    <3> QED
      BY <3>1 DEF InitImports
  <2>3. CASE stack # <<>>
    <3>1. stack[1].kind \in Initialising /\ 1 \in DOMAIN stack
      <4>1. Len(stack) \in Nat \ {0} /\ DOMAIN stack = 1..Len(stack) /\ 1 \in DOMAIN stack
        BY <1>1, <2>3, TopFacts
      <4>2. Len(stack') \in Nat /\ DOMAIN stack' = 1..Len(stack') /\ i \in 1..Len(stack')
        BY <1>5, StackTyped, SeqFacts
      <4>3. 1 \in 1..i /\ 1 \in 1..Len(stack')
        BY <4>2
      <4>4. stack'[1].kind \in Initialising
        BY <2>1, <4>3
      <4>5. ASSUME PoppedTo(stack, stack') PROVE stack'[1] = stack[1]
        <5>1. \A j \in 1..(Len(stack) - 1) : stack'[j] = stack[j]
          BY <4>5 DEF PoppedTo
        <5>2. DOMAIN stack' = 1..(Len(stack) - 1)
          BY <4>5 DEF PoppedTo
        <5> QED
          BY <4>2, <4>3, <5>1, <5>2
      <4>6. ASSUME Advanced(stack, stack') PROVE stack'[1].kind = stack[1].kind
        <5>1. \A j \in 1..(Len(stack) - 1) : stack'[j] = stack[j]
          BY <4>6 DEF Advanced
        <5>2. stack'[Len(stack)].kind = stack[Len(stack)].kind
          BY <4>6 DEF Advanced
        <5>3. 1 \in 1..(Len(stack) - 1) \/ 1 = Len(stack)
          BY <4>1
        <5> QED
          BY <5>1, <5>2, <5>3
      <4>7. ASSUME NEW kind, NEW m, PushedOn(stack, stack', kind, m)
            PROVE  stack'[1] = stack[1]
        <5>1. \A j \in 1..Len(stack) : stack'[j] = stack[j]
          BY <4>7 DEF PushedOn
        <5> QED
          BY <4>1, <5>1
      <4>8. ASSUME NEW e, Abandon(e) PROVE stack'[1] = stack[1]
        BY <1>1, <2>3, <4>5, <4>8, AbandonDoes
      <4>9. ~InitImports
        BY <2>3 DEF InitImports
      <4>10. stack'[1].kind = stack[1].kind
        <5>1. CASE Open
          BY <1>1, <4>7, <5>1, OpenDoes
        <5>2. CASE ImportNext
          BY <1>1, <4>8, <5>2, ImportNextDoes
        <5>3. CASE BindNext
          BY <1>1, <4>6, <4>8, <5>3, BindNextDoes
        <5>4. CASE Finish
          BY <1>1, <4>8, <5>4, FinishDoes
        <5>5. CASE Propagate
          BY <4>8, <5>5 DEF Propagate
        <5>6. CASE InitStd
          BY <1>1, <4>6, <4>7, <5>6, InitStdDoes
        <5>7. CASE StdInited \/ ImportsInited
          BY <1>1, <4>5, <5>7, InitedDoes
        <5> QED
          BY <4>9, <5>1, <5>2, <5>3, <5>4, <5>5, <5>6, <5>7, Unchanged
      <4> QED
        BY <4>1, <4>4, <4>10
    <3>2. status = "stdlib"
      BY <1>1, <3>1 DEF Phases
    <3> QED
      BY <2>3, <3>2, StdlibStays
  <2> QED
    BY <2>2, <2>3
<1> QED
  BY <1>2, <1>3, <1>4, <1>5, StackPhases DEF Phases, PhaseOf

\* How the stack moves: it stays, or the one on top goes, goes on, or calls for a new one.
LEMMA StackMoves ==
    ASSUME LoaderAssumption, IInv, Next
    PROVE  \/ stack' = stack
           \/ stack # <<>> /\ PoppedTo(stack, stack')
           \/ stack # <<>> /\ Advanced(stack, stack') /\ (BindNext \/ InitStd)
           \/ /\ PushedOn(stack, stack', "load", calling) /\ Open
              /\ Asked(Len(stack), calling) /\ calling \in Modules
           \/ PushedOn(stack, stack', "imports", Head(todo)) /\ InitImports /\ stack = <<>>
           \/ /\ PushedOn(stack, stack', "init", calling') /\ InitStd /\ stack # <<>>
              /\ Top.kind \in Initialising /\ calling' = Imports(Top.mod)[Top.next].of
              /\ Top.next \in DOMAIN Imports(Top.mod) /\ calling' \in Std \ Initialised
<1>1. TypeOK /\ Calls /\ None \notin Modules
  BY DEF IInv, LoaderAssumption
<1>2. ASSUME stack # <<>>, NEW e, Abandon(e) PROVE PoppedTo(stack, stack')
  BY <1>1, <1>2, AbandonDoes
<1>3. CASE Open
  BY <1>1, <1>3, OpenDoes DEF Calls
<1>4. CASE ImportNext
  BY <1>1, <1>2, <1>4, ImportNextDoes
<1>5. CASE BindNext
  BY <1>1, <1>2, <1>5, BindNextDoes
<1>6. CASE Finish
  BY <1>1, <1>2, <1>6, FinishDoes
<1>7. CASE Propagate
  BY <1>2, <1>7 DEF Propagate
<1>8. CASE InitImports
  BY <1>1, <1>8, InitImportsDoes
<1>9. CASE InitStd
  BY <1>1, <1>9, InitStdDoes
<1>10. CASE StdInited \/ ImportsInited
  BY <1>1, <1>10, InitedDoes
<1> QED
  BY <1>3, <1>4, <1>5, <1>6, <1>7, <1>8, <1>9, <1>10, Unchanged

\* What can happen during a call, and when it has returned.
LEMMA WhileBusy ==
    ASSUME LoaderAssumption, IInv, Next
    PROVE  /\ calling # None =>
                CacheHit \/ Circular \/ Decode \/ Open \/ UNCHANGED <<status, todo, loads>>
           /\ reply = "ok" =>
                BindNext \/ StdLoaded \/ FileLoaded \/ UNCHANGED <<status, todo, loads>>
<1>1. /\ TypeOK /\ Calls /\ None \notin Modules /\ cache \subseteq Modules
      /\ loading \subseteq Modules
      /\ calling # None => reply = "none"
  BY DEF IInv, LoaderAssumption, TypeOK, Calls
<1>2. ~Idle /\ ~CallImported /\ ~CallBundled =>
        CacheHit \/ Circular \/ Decode \/ Open \/ BindNext \/ StdLoaded \/ FileLoaded
          \/ Propagate \/ GiveUp
  <2>1. InitModule \/ ModulesInited => Idle
    BY QuietWhileInitialising DEF InitModule, ModulesInited, Idle
  <2> QED
    BY <2>1 DEF Next, ImportNext, Finish, Prepared, LoadFile, FilesLoaded, InitImports,
       InitStd, StdInited, ImportsInited, BundleReady
<1>3. CallImported \/ CallBundled => UNCHANGED <<status, todo, loads>>
  BY DEF CallImported, CallBundled
<1>4. calling # None => ~Idle /\ ~BindNext /\ ~StdLoaded /\ ~FileLoaded /\ ~Propagate /\ ~GiveUp
  <2> SUFFICES ASSUME calling # None
               PROVE  ~Idle /\ ~BindNext /\ ~StdLoaded /\ ~FileLoaded /\ ~Propagate /\ ~GiveUp
    OBVIOUS
  <2>1. calling # None /\ reply = "none"
    BY <1>1
  <2> QED
    BY <2>1 DEF Idle, BindNext, StdLoaded, FileLoaded, Propagate, GiveUp, Errors
<1>5. reply = "ok" => ~Idle /\ ~CacheHit /\ ~Circular /\ ~Decode /\ ~Open /\ ~Propagate
                      /\ ~GiveUp
  <2> SUFFICES ASSUME reply = "ok"
               PROVE  ~Idle /\ ~CacheHit /\ ~Circular /\ ~Decode /\ ~Open /\ ~Propagate
                      /\ ~GiveUp
    OBVIOUS
  <2>1. calling = None /\ None \notin Project
    BY <1>1 DEF Modules
  <2> QED
    BY <1>1, <2>1 DEF Idle, CacheHit, Circular, Decode, Open, Propagate, GiveUp, Errors
<1> QED
  BY <1>2, <1>3, <1>4, <1>5

\* Every load in the stack is still one that was asked for.
LEMMA LoadsAsked ==
    ASSUME LoaderAssumption, IInv, Next, NEW i \in DOMAIN stack', stack'[i].kind = "load"
    PROVE  AskedIn(program, mode, status', todo', stack', i - 1, stack'[i].mod)
<1> DEFINE n == Len(stack)
<1>1. /\ TypeOK /\ Phases /\ Calls /\ n \in Nat /\ DOMAIN stack = 1..n
      /\ stack = <<>> <=> n = 0
  BY StackFacts DEF IInv
<1>2. Len(stack') \in Nat /\ DOMAIN stack' = 1..Len(stack') /\ i \in Nat \ {0} /\ i - 1 \in Nat
      /\ i \in 1..Len(stack')
  BY StackTyped, SeqFacts
\* The caller does not move while a file is being loaded for it.
<1>3. stack # <<>> /\ stack[1].kind = "load" => status' = status /\ todo' = todo
  <2> SUFFICES ASSUME stack # <<>>, stack[1].kind = "load"
               PROVE  status' = status /\ todo' = todo
    OBVIOUS
  <2>1. 1 \in DOMAIN stack /\ Len(stack) \in DOMAIN stack /\ Top = stack[Len(stack)]
    BY <1>1, TopFacts
  <2>2. Asked(0, stack[1].mod)
    BY <1>1, <2>1 DEF Calls
  <2>3. status = "loading"
    BY <2>2 DEF Asked, AskedIn
  <2>4. ~Prepared
    <3>1. Top.kind = "entry" => FALSE
      BY <1>1, <2>1 DEF Phases
    <3> QED
      BY <3>1 DEF Prepared
  <2> QED
    BY <2>3, <2>4, Unchanged DEF GiveUp, FilesLoaded, InitModule, ModulesInited, BundleReady,
       FileLoaded, InitImports
<1>4. ASSUME i \in 1..n, stack'[i].kind = stack[i].kind, stack'[i].mod = stack[i].mod,
             \A j \in 1..(n - 1) : stack'[j] = stack[j]
      PROVE  AskedIn(program, mode, status', todo', stack', i - 1, stack'[i].mod)
  <2>1. Asked(i - 1, stack[i].mod)
    BY <1>1, <1>4 DEF Calls
  <2>2. CASE i = 1
    <3>1. status' = status /\ todo' = todo
      BY <1>1, <1>3, <1>4, <2>2
    <3> QED
      BY <1>4, <2>1, <2>2, <3>1 DEF Asked, AskedIn
  <2>3. CASE i # 1
    <3>1. i - 1 \in 1..(n - 1)
      BY <1>1, <1>2, <1>4, <2>3
    <3>2. stack'[i - 1] = stack[i - 1] /\ i - 1 # 0
      BY <1>4, <3>1
    <3> QED
      BY <1>4, <2>1, <3>2 DEF Asked, AskedIn
  <2> QED
    BY <2>2, <2>3
<1>5. CASE stack' = stack
  BY <1>1, <1>4, <1>5
<1>6. CASE PoppedTo(stack, stack')
  <2>1. DOMAIN stack' = 1..(n - 1) /\ \A j \in 1..(n - 1) : stack'[j] = stack[j]
    BY <1>6 DEF PoppedTo
  <2>2. i \in 1..n /\ i \in 1..(n - 1)
    BY <1>1, <1>2, <2>1
  <2> QED
    BY <1>4, <2>1, <2>2
<1>7. CASE Advanced(stack, stack')
  <2>1. /\ DOMAIN stack' = 1..n
        /\ \A j \in 1..(n - 1) : stack'[j] = stack[j]
        /\ stack'[n].kind = stack[n].kind /\ stack'[n].mod = stack[n].mod
    BY <1>7 DEF Advanced
  <2>2. i = n \/ i \in 1..(n - 1)
    BY <1>1, <1>2, <2>1
  <2> QED
    BY <1>4, <2>1, <2>2
<1>8. CASE PushedOn(stack, stack', "load", calling) /\ Open /\ Asked(Len(stack), calling)
  <2>1. /\ DOMAIN stack' = 1..(n + 1)
        /\ \A j \in 1..n : stack'[j] = stack[j]
        /\ stack'[n + 1].mod = calling
    BY <1>8 DEF PushedOn
  <2>2. i \in 1..n \/ i = n + 1
    BY <1>1, <1>2, <2>1
  <2>3. \A j \in 1..(n - 1) : j \in 1..n
    BY <1>1
  <2>4. CASE i \in 1..n
    BY <1>4, <2>1, <2>3, <2>4
  <2>5. CASE i = n + 1
    <3>1. status' = status /\ todo' = todo
      BY <1>8 DEF Open
    <3>2. i - 1 = n
      BY <1>1, <2>5
    <3>3. n # 0 => stack'[n] = stack[n]
      <4>1. n # 0 => n \in 1..n
        BY <1>1
      <4> QED
        BY <2>1, <4>1
    <3>4. Asked(n, calling) /\ stack'[i].mod = calling
      BY <1>8, <2>1, <2>5
    <3> QED
      BY <3>1, <3>2, <3>3, <3>4 DEF Asked, AskedIn
  <2> QED
    BY <2>2, <2>4, <2>5
<1>9. ASSUME NEW kind, NEW m, kind # "load", PushedOn(stack, stack', kind, m)
      PROVE  AskedIn(program, mode, status', todo', stack', i - 1, stack'[i].mod)
  <2>1. /\ DOMAIN stack' = 1..(n + 1)
        /\ \A j \in 1..n : stack'[j] = stack[j]
        /\ stack'[n + 1].kind = kind
    BY <1>9 DEF PushedOn
  <2>2. i \in 1..n
    BY <1>1, <1>2, <1>9, <2>1
  <2>3. \A j \in 1..(n - 1) : j \in 1..n
    BY <1>1
  <2> QED
    BY <1>4, <2>1, <2>2, <2>3
<1> QED
  BY <1>5, <1>6, <1>7, <1>8, <1>9, StackMoves


\* What each activation was before the step, or that it is new.
LEMMA ActivationWas ==
    ASSUME LoaderAssumption, IInv, Next, NEW i \in DOMAIN stack'
    PROVE  /\ Len(stack') \in Nat /\ DOMAIN stack' = 1..Len(stack') /\ i \in Nat \ {0}
           /\ Len(stack) \in Nat /\ DOMAIN stack = 1..Len(stack)
           /\ \/ i \in DOMAIN stack /\ stack'[i] = stack[i]
              \/ /\ i \in DOMAIN stack /\ i = Len(stack) /\ i = Len(stack') /\ stack # <<>>
                 /\ Advanced(stack, stack')
                 /\ stack'[i].kind = stack[i].kind /\ stack'[i].mod = stack[i].mod
                 /\ stack'[i].next = stack[i].next + 1
                 /\ BindNext \/ InitStd
              \/ /\ i = Len(stack) + 1 /\ i = Len(stack')
                 /\ \A j \in 1..Len(stack) : stack'[j] = stack[j]
                 /\ stack'[i].next = 1 /\ stack'[i].reg = [x \in Names |-> None]
                 /\ \/ /\ Open /\ stack'[i].kind = "load" /\ stack'[i].mod = calling
                       /\ Asked(Len(stack), calling)
                    \/ /\ InitImports /\ stack = <<>> /\ stack'[i].kind = "imports"
                       /\ stack'[i].mod = Head(todo)
                    \/ /\ InitStd /\ stack # <<>> /\ Top.kind \in Initialising
                       /\ stack'[i].kind = "init" /\ stack'[i].mod = calling'
                       /\ Top.next \in DOMAIN Imports(Top.mod)
                       /\ calling' = Imports(Top.mod)[Top.next].of
                       /\ calling' \in Std \ Initialised
<1> DEFINE n == Len(stack)
           n1 == Len(stack')
<1>1. /\ n1 \in Nat /\ DOMAIN stack' = 1..n1 /\ i \in Nat \ {0} /\ i \in 1..n1
  BY StackTyped, SeqFacts
<1>2. n \in Nat /\ DOMAIN stack = 1..n
  BY StackFacts DEF IInv
<1>3. CASE stack' = stack
  BY <1>1, <1>2, <1>3
<1>4. CASE PoppedTo(stack, stack')
  <2>1. n1 = n - 1 /\ \A j \in 1..(n - 1) : stack'[j] = stack[j]
    BY <1>4 DEF PoppedTo
  <2>2. i \in 1..n
    BY <1>1, <1>2, <2>1
  <2> QED
    BY <1>1, <1>2, <2>1, <2>2
<1>5. CASE stack # <<>> /\ Advanced(stack, stack') /\ (BindNext \/ InitStd)
  <2>1. /\ n1 = n /\ \A j \in 1..(n - 1) : stack'[j] = stack[j]
        /\ stack'[n].kind = stack[n].kind /\ stack'[n].mod = stack[n].mod
        /\ stack'[n].next = stack[n].next + 1
    BY <1>5 DEF Advanced
  <2>2. i \in 1..n /\ (i = n \/ i \in 1..(n - 1))
    BY <1>1, <1>2, <2>1
  <2> QED
    BY <1>1, <1>2, <1>5, <2>1, <2>2
<1>6. ASSUME NEW kind, NEW m, PushedOn(stack, stack', kind, m)
      PROVE  \/ i \in 1..n /\ stack'[i] = stack[i]
             \/ /\ i = n + 1 /\ i = n1 /\ stack'[i].kind = kind /\ stack'[i].mod = m
                /\ stack'[i].next = 1 /\ stack'[i].reg = [x \in Names |-> None]
                /\ \A j \in 1..n : stack'[j] = stack[j]
  <2>1. /\ n1 = n + 1 /\ \A j \in 1..n : stack'[j] = stack[j]
        /\ stack'[n + 1].kind = kind /\ stack'[n + 1].mod = m /\ stack'[n + 1].next = 1
        /\ stack'[n + 1].reg = [x \in Names |-> None]
    BY <1>6 DEF PushedOn
  <2>2. i \in 1..n \/ i = n + 1
    BY <1>1, <1>2, <2>1
  <2> QED
    BY <2>1, <2>2
<1>7. CASE PushedOn(stack, stack', "load", calling) /\ Open /\ Asked(n, calling)
  <2> HIDE DEF n, n1
  <2>1. \/ i \in 1..n /\ stack'[i] = stack[i]
        \/ /\ i = n + 1 /\ i = n1 /\ stack'[i].kind = "load" /\ stack'[i].mod = calling
           /\ stack'[i].next = 1 /\ stack'[i].reg = [x \in Names |-> None]
           /\ \A j \in 1..n : stack'[j] = stack[j]
    BY <1>6, <1>7
  <2> QED
    BY <1>1, <1>2, <1>7, <2>1 DEF n, n1
<1>8. CASE PushedOn(stack, stack', "imports", Head(todo)) /\ InitImports /\ stack = <<>>
  <2> HIDE DEF n, n1
  <2>1. \/ i \in 1..n /\ stack'[i] = stack[i]
        \/ /\ i = n + 1 /\ i = n1 /\ stack'[i].kind = "imports" /\ stack'[i].mod = Head(todo)
           /\ stack'[i].next = 1 /\ stack'[i].reg = [x \in Names |-> None]
           /\ \A j \in 1..n : stack'[j] = stack[j]
    BY <1>6, <1>8
  <2> QED
    BY <1>1, <1>2, <1>8, <2>1 DEF n, n1
<1>9. CASE /\ PushedOn(stack, stack', "init", calling') /\ InitStd /\ stack # <<>>
           /\ Top.kind \in Initialising /\ calling' = Imports(Top.mod)[Top.next].of
           /\ Top.next \in DOMAIN Imports(Top.mod) /\ calling' \in Std \ Initialised
  <2> HIDE DEF n, n1
  <2>1. \/ i \in 1..n /\ stack'[i] = stack[i]
        \/ /\ i = n + 1 /\ i = n1 /\ stack'[i].kind = "init" /\ stack'[i].mod = calling'
           /\ stack'[i].next = 1 /\ stack'[i].reg = [x \in Names |-> None]
           /\ \A j \in 1..n : stack'[j] = stack[j]
    BY <1>6, <1>9
  <2> QED
    BY <1>1, <1>2, <1>9, <2>1 DEF n, n1
<1> QED
  BY <1>3, <1>4, <1>5, <1>7, <1>8, <1>9, StackMoves

\* A call that is under way after the step was asked for.
LEMMA CallAsked ==
    ASSUME LoaderAssumption, IInv, Next, calling' # None
    PROVE  reply' = "none" /\ AskedIn(program, mode, status', todo', stack', Len(stack'), calling')
<1>1. /\ TypeOK /\ Calls /\ Len(stack) \in Nat
      /\ stack = <<>> <=> Len(stack) = 0
  BY StackFacts DEF IInv
<1>2. CASE ImportNext
  <2>1. stack # <<>> /\ Top.kind \in Importing /\ Idle /\ Top.next \in DOMAIN Imports(Top.mod)
        /\ (Abandon("missing") \/ ( /\ calling' = Imports(Top.mod)[Top.next].of
                                    /\ UNCHANGED <<stack, reply, loading>>))
    BY <1>1, <1>2, ImportNextDoes
  <2>2. calling' = Imports(Top.mod)[Top.next].of /\ UNCHANGED <<stack, reply, loading>>
    BY <1>1, <2>1, AbandonDoes
  <2>3. Top = stack[Len(stack)] /\ Len(stack) # 0
    BY <1>1, <2>1
    DEF Top, Last
  <2> QED
    BY <2>1, <2>2, <2>3 DEF AskedIn, Idle, Imports
<1>3. CASE LoadFile
  <2>1. /\ mode # "run" /\ status = "loading" /\ reply = "none" /\ stack = <<>> /\ todo # <<>>
        /\ calling' = Head(todo) /\ UNCHANGED <<status, todo, stack, reply>>
    BY <1>3 DEF LoadFile, Idle
  <2> QED
    BY <1>1, <2>1 DEF AskedIn
<1>4. CASE InitStd
  <2>1. reply' = reply /\ Idle /\ PushedOn(stack, stack', "init", calling')
    BY <1>1, <1>4, InitStdDoes DEF InitStd
  <2>2. /\ Len(stack') = Len(stack) + 1 /\ Len(stack') # 0
        /\ stack'[Len(stack')].kind = "init" /\ stack'[Len(stack')].mod = calling'
    BY <1>1, <2>1 DEF PushedOn
  <2> QED
    BY <2>1, <2>2 DEF AskedIn, Idle
<1>5. CASE calling' = calling
  <2>1. reply = "none" /\ Asked(Len(stack), calling)
    BY <1>1, <1>5 DEF Calls
  <2>2. UNCHANGED <<status, todo, loads>>
    BY <1>5, WhileBusy DEF CacheHit, Circular, Decode, Open, Return
  <2> QED
    BY <1>5, <2>1, <2>2 DEF Asked, loads
<1>6. ASSUME stack # <<>>, NEW e, Abandon(e) PROVE FALSE
  BY <1>1, <1>6, AbandonDoes
<1>7. BindNext => calling' = calling
  BY <1>1, <1>6, BindNextDoes
<1>8. ~Finish /\ ~Propagate
  BY <1>1, <1>6, FinishDoes DEF Propagate
<1>9. ~CacheHit /\ ~Circular /\ ~Decode /\ ~Open
  BY DEF CacheHit, Circular, Decode, Open, Return
<1> QED
  BY <1>2, <1>3, <1>4, <1>5, <1>7, <1>8, <1>9, Unchanged

\* And so is what was answered.
LEMMA AnswerAsked ==
    ASSUME LoaderAssumption, IInv, Next, reply' = "ok"
    PROVE  \E m \in cache' : AskedIn(program, mode, status', todo', stack', Len(stack'), m)
<1>1. /\ TypeOK /\ Calls /\ Len(stack) \in Nat
      /\ stack = <<>> <=> Len(stack) = 0
  BY StackFacts DEF IInv
<1>2. ~Circular /\ ~FileLoaded /\ ~StdLoaded /\ ~Propagate
  BY DEF Circular, FileLoaded, StdLoaded, Propagate, Return, Abandon, Errors
<1>3. ASSUME stack # <<>>, NEW e \in Errors, Abandon(e) PROVE FALSE
  BY <1>1, <1>3, AbandonDoes DEF Errors
<1>4. ~BindNext
  BY <1>1, <1>3, BindNextDoes DEF Errors
<1>5. CASE CacheHit \/ Decode
  <2>1. calling # None /\ calling \in cache' /\ UNCHANGED <<status, todo, stack>>
    <3>1. None \notin Project /\ None \notin cache
      BY <1>1 DEF LoaderAssumption, Modules, TypeOK
    <3>2. Decode => cache' = cache \cup {calling} \/ reply' = "unreadable"
      BY DEF Decode, Return
    <3>3. CacheHit \/ Decode => calling # None /\ UNCHANGED <<status, todo, stack>>
      BY <3>1 DEF CacheHit, Decode
    <3>4. CacheHit => calling \in cache'
      BY DEF CacheHit, results
    <3> QED
      BY <1>5, <3>2, <3>3, <3>4
  <2>2. Asked(Len(stack), calling)
    BY <1>1, <2>1 DEF Calls
  <2> QED
    BY <2>1, <2>2 DEF Asked
<1>6. CASE Finish
  <2>1. stack # <<>> /\ Top.kind = "load" /\ Abandon("ok") /\ cache' = cache \cup {Top.mod}
    BY <1>1, <1>3, <1>6, FinishDoes
  <2>2. Top = stack[Len(stack)] /\ Len(stack) \in Nat \ {0} /\ Len(stack) \in DOMAIN stack
    BY <1>1, <2>1, TopFacts
  <2>3. Asked(Len(stack) - 1, Top.mod)
    BY <1>1, <2>1, <2>2 DEF Calls
  <2>4. Len(stack') = Len(stack) - 1 /\ \A i \in 1..(Len(stack) - 1) : stack'[i] = stack[i]
    BY <1>1, <2>1, AbandonDoes DEF PoppedTo
  <2>5. Len(stack') # 0 => Len(stack') \in 1..(Len(stack) - 1)
    BY <2>2, <2>4
  <2>6. status' = status /\ todo' = todo
    BY <1>6 DEF Finish
  <2> QED
    BY <2>1, <2>3, <2>4, <2>5, <2>6 DEF Asked, AskedIn
<1>7. CASE reply' = reply
  <2>1. UNCHANGED <<status, todo, loads>>
    BY <1>2, <1>4, <1>7, WhileBusy
  <2> QED
    BY <1>1, <1>7, <2>1 DEF Calls, Asked, loads, results
<1>8. Open => reply' = reply
  BY <1>1, OpenDoes
<1>9. ImportNext => reply' = reply
  BY <1>1, <1>3, ImportNextDoes DEF Errors
<1> QED
  BY <1>2, <1>4, <1>5, <1>6, <1>7, <1>8, <1>9, Unchanged

\* Calls is kept.
LEMMA CallsKept ==
    ASSUME LoaderAssumption, IInv, Next
    PROVE  Calls'
<1>1. program' = program /\ mode' = mode
  BY Unchanged
<1>2. \A i \in DOMAIN stack' : stack'[i].kind = "load" =>
         AskedIn(program', mode', status', todo', stack', i - 1, stack'[i].mod)
  BY <1>1, LoadsAsked
<1>3. calling' # None => /\ reply' = "none"
                         /\ AskedIn(program', mode', status', todo', stack', Len(stack'), calling')
  BY <1>1, CallAsked
<1>4. reply' = "ok" => \E m \in cache' :
         AskedIn(program', mode', status', todo', stack', Len(stack'), m)
  BY <1>1, AnswerAsked
<1> QED
  BY <1>2, <1>3, <1>4 DEF Calls, Asked

\* How l.Loading follows the stack: a decoded module is added, a file opened is added and
\* removed again with its activation, and else no load begins or ends.
LEMMA LoadingMoves ==
    ASSUME LoaderAssumption, IInv, Next
    PROVE  \/ /\ Decode /\ stack' = stack /\ loading' = loading \cup {calling}
              /\ calling \notin cache \cup loading /\ Archived(calling)
           \/ /\ Open /\ PushedOn(stack, stack', "load", calling)
              /\ loading' = loading \cup {calling}
              /\ calling \notin cache \cup loading /\ ~Archived(calling)
              /\ \A k \in DOMAIN Imports(calling) : Imports(calling)[k].of # Missing
           \/ /\ stack # <<>> /\ Top.kind = "load" /\ PoppedTo(stack, stack')
              /\ loading' = loading \ {Top.mod}
           \/ /\ loading' = loading /\ ~Finish
              /\ \A i \in DOMAIN stack : stack[i].kind = "load" =>
                    i \in DOMAIN stack' /\ stack'[i].kind = "load"
                    /\ stack'[i].mod = stack[i].mod
              /\ \A i \in DOMAIN stack' : stack'[i].kind = "load" =>
                    i \in DOMAIN stack /\ stack[i].kind = "load"
                    /\ stack'[i].mod = stack[i].mod
<1> DEFINE n == Len(stack)
           Kept == /\ \A i \in DOMAIN stack : stack[i].kind = "load" =>
                        i \in DOMAIN stack' /\ stack'[i].kind = "load"
                        /\ stack'[i].mod = stack[i].mod
                   /\ \A i \in DOMAIN stack' : stack'[i].kind = "load" =>
                        i \in DOMAIN stack /\ stack[i].kind = "load"
                        /\ stack'[i].mod = stack[i].mod
<1>1. TypeOK /\ Calls /\ n \in Nat /\ DOMAIN stack = 1..n
  BY StackFacts DEF IInv
<1>2. ASSUME stack # <<>>, NEW e, Abandon(e)
      PROVE  \/ /\ Top.kind = "load" /\ PoppedTo(stack, stack')
                /\ loading' = loading \ {Top.mod}
             \/ /\ loading' = loading /\ Top.kind # "load" /\ Kept
  <2>1. PoppedTo(stack, stack') /\ Top = stack[n] /\ n \in Nat \ {0}
        /\ (loading' = IF Top.kind = "load" THEN loading \ {Top.mod} ELSE loading)
    BY <1>1, <1>2, AbandonDoes, TopFacts
  <2>2. CASE Top.kind # "load"
    <3>1. DOMAIN stack' = 1..(n - 1) /\ \A i \in 1..(n - 1) : stack'[i] = stack[i]
      BY <2>1 DEF PoppedTo
    <3>2. \A i \in 1..n : stack[i].kind = "load" => i \in 1..(n - 1)
      BY <2>1, <2>2
    <3>3. \A i \in 1..(n - 1) : i \in 1..n
      BY <1>1
    <3> QED
      BY <1>1, <2>1, <2>2, <3>1, <3>2, <3>3
  <2> QED
    BY <2>1, <2>2
<1>3. ASSUME PoppedTo(stack, stack'), stack[n].kind # "load" PROVE Kept
  <2>1. DOMAIN stack' = 1..(n - 1) /\ \A i \in 1..(n - 1) : stack'[i] = stack[i]
    BY <1>3 DEF PoppedTo
  <2>2. \A i \in 1..n : stack[i].kind = "load" => i \in 1..(n - 1)
    BY <1>1, <1>3
  <2>3. \A i \in 1..(n - 1) : i \in 1..n
    BY <1>1
  <2> QED
    BY <1>1, <2>1, <2>2, <2>3
<1>4. Advanced(stack, stack') => Kept
  <2> SUFFICES ASSUME Advanced(stack, stack') PROVE Kept
    OBVIOUS
  <2>1. /\ DOMAIN stack' = 1..n /\ \A i \in 1..(n - 1) : stack'[i] = stack[i]
        /\ stack'[n].kind = stack[n].kind /\ stack'[n].mod = stack[n].mod
    BY DEF Advanced
  <2>2. \A i \in 1..n : i = n \/ i \in 1..(n - 1)
    BY <1>1, LastOrBefore
  <2> QED
    BY <1>1, <2>1, <2>2
<1>5. ASSUME NEW kind, kind # "load", NEW m, PushedOn(stack, stack', kind, m) PROVE Kept
  <2>1. /\ DOMAIN stack' = 1..(n + 1) /\ \A i \in 1..n : stack'[i] = stack[i]
        /\ stack'[n + 1].kind = kind
    BY <1>5 DEF PushedOn
  <2>2. \A i \in 1..(n + 1) : i = n + 1 \/ i \in 1..n
    BY <1>1
  <2>3. \A i \in 1..n : i \in 1..(n + 1)
    BY <1>1
  <2> QED
    BY <1>1, <1>5, <2>1, <2>2, <2>3
<1>6. stack' = stack => Kept
  OBVIOUS
<1>7. stack' = <<>> /\ stack = <<>> => Kept
  OBVIOUS
<1> HIDE DEF n, Kept
<1> DEFINE Goal ==
           \/ /\ Decode /\ stack' = stack /\ loading' = loading \cup {calling}
              /\ calling \notin cache \cup loading /\ Archived(calling)
           \/ /\ Open /\ PushedOn(stack, stack', "load", calling)
              /\ loading' = loading \cup {calling}
              /\ calling \notin cache \cup loading /\ ~Archived(calling)
              /\ \A k \in DOMAIN Imports(calling) : Imports(calling)[k].of # Missing
           \/ /\ stack # <<>> /\ Top.kind = "load" /\ PoppedTo(stack, stack')
              /\ loading' = loading \ {Top.mod}
           \/ /\ loading' = loading /\ ~Finish /\ Kept
<1> SUFFICES Goal
  BY DEF Kept
<1>8. CASE Finish
  BY <1>1, <1>2, <1>8, FinishDoes
<1>9. CASE Decode
  BY <1>9 DEF Decode
<1>10. CASE Open /\ ~Finish
  BY <1>1, <1>6, <1>10, OpenDoes
<1>11. CASE ImportNext /\ ~Finish
  BY <1>1, <1>2, <1>6, <1>11, ImportNextDoes
<1>12. CASE BindNext /\ ~Finish
  BY <1>1, <1>2, <1>4, <1>12, BindNextDoes
<1>13. CASE Propagate /\ ~Finish
  BY <1>2, <1>13 DEF Propagate
<1>14. CASE InitImports /\ ~Finish
  <2>1. loading' = loading
    BY <1>14 DEF InitImports
  <2> QED
    BY <1>1, <1>5, <1>7, <1>14, <2>1, InitImportsDoes
<1>15. CASE InitStd /\ ~Finish
  <2>1. loading' = loading
    BY <1>15 DEF InitStd
  <2> QED
    BY <1>1, <1>4, <1>5, <1>15, <2>1, InitStdDoes
<1>16. CASE (StdInited \/ ImportsInited) /\ ~Finish
  <2>1. stack # <<>> /\ PoppedTo(stack, stack') /\ loading' = loading /\ Top.kind # "load"
    BY <1>1, <1>16, InitedDoes
  <2>2. stack[n].kind # "load"
    BY <1>1, <2>1, TopFacts DEF n
  <2> QED
    BY <1>3, <1>16, <2>1, <2>2
<1>17. CASE stack' = stack /\ loading' = loading
  BY <1>6, <1>8, <1>17
<1> QED
  BY <1>8, <1>9, <1>10, <1>11, <1>12, <1>13, <1>14, <1>15, <1>16, <1>17, Unchanged

\* What becomes of the cache: a decoded module is added, and one whose load is done.
LEMMA CacheMoves ==
    ASSUME LoaderAssumption, IInv, Next
    PROVE  \/ cache' = cache
           \/ /\ Decode /\ cache' = cache \cup {calling} /\ Archived(calling)
              /\ calling \notin cache \cup loading
              /\ UNCHANGED <<status, todo, stack, exports, ran, inited>>
           \/ /\ Finish /\ cache' = cache \cup {Top.mod} /\ stack # <<>> /\ Top.kind = "load"
              /\ program[Top.mod].fault = "none" /\ Abandon("ok")
              /\ ran' = Append(ran, Top.mod)
              /\ exports' = [exports EXCEPT ![Top.mod] = Collected(Top.mod)]
              /\ UNCHANGED <<status, todo, inited>>
<1>1. TypeOK
  BY DEF IInv
<1>2. CASE Finish
  BY <1>1, <1>2, FinishDoes DEF Finish
<1>3. CASE Decode
  BY <1>3 DEF Decode
<1> QED
  BY <1>2, <1>3, Unchanged

\* LoadsUnderWay is kept.
LEMMA LoadsUnderWayKept ==
    ASSUME LoaderAssumption, IInv, Next
    PROVE  LoadsUnderWay'
<1> DEFINE n == Len(stack)
           Holds(i) == /\ stack'[i].mod \in loading' \ cache'
                       /\ ~Archived(stack'[i].mod)
                       /\ \A k \in DOMAIN Imports(stack'[i].mod) :
                            Imports(stack'[i].mod)[k].of # Missing
                       /\ \A j \in DOMAIN stack' :
                            stack'[j].kind = "load" /\ stack'[j].mod = stack'[i].mod => i = j
           Held == \A m \in loading' : \/ Archived(m)
                                       \/ \E i \in DOMAIN stack' : /\ stack'[i].kind = "load"
                                                                   /\ stack'[i].mod = m
           Was(i) == /\ stack[i].mod \in loading \ cache
                     /\ ~Archived(stack[i].mod)
                     /\ \A k \in DOMAIN Imports(stack[i].mod) :
                          Imports(stack[i].mod)[k].of # Missing
                     /\ \A j \in DOMAIN stack :
                          stack[j].kind = "load" /\ stack[j].mod = stack[i].mod => i = j
<1>1. /\ TypeOK /\ n \in Nat /\ DOMAIN stack = 1..n
      /\ \A i \in DOMAIN stack : stack[i].kind = "load" => Was(i)
      /\ \A m \in loading :
            Archived(m) \/ \E i \in DOMAIN stack : stack[i].kind = "load" /\ stack[i].mod = m
  BY StackFacts DEF IInv, LoadsUnderWay
<1>2. ASSUME \A i \in DOMAIN stack' : stack'[i].kind = "load" => Holds(i), Held
      PROVE  LoadsUnderWay'
  <2>1. program' = program /\ mode' = mode
    BY Unchanged
  <2> QED
    BY <1>2, <2>1 DEF LoadsUnderWay, Archived, Imports
<1>3. CASE /\ Decode /\ stack' = stack /\ loading' = loading \cup {calling}
           /\ calling \notin cache \cup loading /\ Archived(calling)
  <2>1. cache' \subseteq cache \cup {calling}
    BY <1>3 DEF Decode
  <2>2. \A i \in DOMAIN stack' : stack'[i].kind = "load" => Holds(i)
    BY <1>1, <1>3, <2>1
  <2>3. Held
    BY <1>1, <1>3
  <2> QED
    BY <1>2, <2>2, <2>3
<1>4. CASE /\ Open /\ PushedOn(stack, stack', "load", calling)
           /\ loading' = loading \cup {calling}
           /\ calling \notin cache \cup loading /\ ~Archived(calling)
           /\ \A k \in DOMAIN Imports(calling) : Imports(calling)[k].of # Missing
  <2>1. cache' = cache
    BY <1>4 DEF Open, results
  <2>2. /\ DOMAIN stack' = 1..(n + 1) /\ \A i \in 1..n : stack'[i] = stack[i]
        /\ stack'[n + 1].kind = "load" /\ stack'[n + 1].mod = calling
    BY <1>4 DEF PushedOn
  <2>3. /\ \A i \in 1..(n + 1) : i = n + 1 \/ i \in 1..n
        /\ \A i \in 1..n : i \in 1..(n + 1)
        /\ n + 1 \in 1..(n + 1)
    BY <1>1
  <2>4. Holds(n + 1)
    BY <1>1, <1>4, <2>1, <2>2, <2>3
  <2>5. ASSUME NEW i \in 1..n, stack'[i].kind = "load" PROVE Holds(i)
    BY <1>1, <1>4, <2>1, <2>2, <2>3, <2>5
  <2>6. Held
    BY <1>1, <1>4, <2>2, <2>3
  <2> HIDE DEF Holds, Held
  <2> QED
    BY <1>2, <2>2, <2>3, <2>4, <2>5, <2>6
<1>5. CASE /\ stack # <<>> /\ Top.kind = "load" /\ PoppedTo(stack, stack')
           /\ loading' = loading \ {Top.mod}
  <2>1. /\ Top = stack[n] /\ DOMAIN stack' = 1..(n - 1)
        /\ \A i \in 1..(n - 1) : stack'[i] = stack[i]
    BY <1>1, <1>5, TopFacts DEF PoppedTo
  <2>2. cache' \subseteq cache \cup {Top.mod}
    <3>1. CASE Decode
      <4>1. stack' = stack
        BY <3>1 DEF Decode
      <4>2. Len(stack') = n - 1
        BY <1>5 DEF PoppedTo
      <4> QED
        BY <1>1, <4>1, <4>2
    <3> QED
      BY <3>1, CacheMoves
  <2>3. \A i \in 1..(n - 1) : i \in 1..n /\ i # n
    BY <1>1, BeforeLast
  <2>4. \A i \in 1..n : i = n \/ i \in 1..(n - 1)
    BY <1>1, LastOrBefore
  <2>5. /\ \A i \in 1..(n - 1) : i \in 1..n /\ i # n
        /\ \A i \in 1..n : i = n \/ i \in 1..(n - 1)
    BY <2>3, <2>4
  <2>6. ASSUME NEW i \in 1..(n - 1), stack'[i].kind = "load" PROVE Holds(i)
    <3>1. stack[i].mod # Top.mod
      <4>1. n \in 1..n
        BY <1>1, <2>6
      <4> QED
        BY <1>1, <1>5, <2>1, <2>5, <2>6, <4>1
    <3>2. stack'[i] = stack[i] /\ Was(i)
      BY <1>1, <2>1, <2>5, <2>6
    <3>3. \A j \in DOMAIN stack' : j \in DOMAIN stack /\ stack'[j] = stack[j]
      BY <1>1, <2>1, <2>5
    <3>4. stack'[i].mod \in loading' \ cache'
      BY <1>5, <2>2, <3>1, <3>2
    <3> QED
      BY <3>2, <3>3, <3>4
  <2>7. Held
    BY ZenonT(40), <1>1, <1>5, <2>1, <2>5
  <2> HIDE DEF Holds, Held
  <2> QED
    BY <1>2, <2>1, <2>6, <2>7
<1>6. CASE /\ loading' = loading /\ ~Finish
           /\ \A i \in DOMAIN stack : stack[i].kind = "load" =>
                 i \in DOMAIN stack' /\ stack'[i].kind = "load"
                 /\ stack'[i].mod = stack[i].mod
           /\ \A i \in DOMAIN stack' : stack'[i].kind = "load" =>
                 i \in DOMAIN stack /\ stack[i].kind = "load"
                 /\ stack'[i].mod = stack[i].mod
  <2>1. cache' = cache \/ (cache' = cache \cup {calling} /\ calling \notin loading)
    BY <1>6, CacheMoves
  <2>2. ASSUME NEW i \in DOMAIN stack', stack'[i].kind = "load" PROVE Holds(i)
    <3>1. stack'[i].mod = stack[i].mod /\ Was(i)
      BY <1>1, <1>6, <2>2
    <3>2. stack'[i].mod \in loading' \ cache'
      BY <1>6, <2>1, <3>1
    <3>3. \A j \in DOMAIN stack' :
            stack'[j].kind = "load" /\ stack'[j].mod = stack'[i].mod => i = j
      BY <1>6, <3>1
    <3> QED
      BY <3>1, <3>2, <3>3
  <2>3. Held
    BY <1>1, <1>6
  <2> HIDE DEF Holds, Held
  <2> QED
    BY <1>2, <2>2, <2>3
<1> QED
  BY <1>3, <1>4, <1>5, <1>6, LoadingMoves

\* What the activation on top imports is below all that it is below.
LEMMA UnderAll ==
    ASSUME LoaderAssumption, IInv, stack # <<>>, NEW i \in DOMAIN stack,
           stack[i].kind \in Initialising => Top.kind # "load",
           NEW m \in ImportGraph(program)[Top.mod]
    PROVE  m \in Reachable(program, stack[i].mod)
<1>1. /\ Len(stack) \in DOMAIN stack /\ Top = stack[Len(stack)] /\ Top.mod \in Modules
      /\ DOMAIN stack = 1..Len(stack) /\ Len(stack) \in Nat
  BY TopFacts DEF IInv
<1>2. program \in Programs /\ stack[i].mod \in Modules
  BY StackFacts DEF IInv, TypeOK
<1>3. m \in Reachable(program, Top.mod)
  BY <1>1, <1>2, ReachableIs
<1>4. CASE i = Len(stack)
  BY <1>1, <1>3, <1>4
<1>5. CASE i # Len(stack)
  <2>1. i < Len(stack)
    BY <1>1, <1>5
  <2>2. Top.mod \in Reachable(program, stack[i].mod)
    BY <1>1, <2>1 DEF IInv, Descends
  <2> QED
    BY <1>2, <1>3, <2>2, ReachOn
<1> QED
  BY <1>4, <1>5

\* A module that an import resolved to.
LEMMA ImportedIs ==
    ASSUME LoaderAssumption, TypeOK, NEW m \in Modules, NEW i \in DOMAIN Imports(m),
           Imports(m)[i].of \in Modules
    PROVE  Imports(m)[i].of \in ImportGraph(program)[m]
<1>1. program \in Programs
  BY DEF TypeOK
<1> QED
  BY <1>1, ModuleFacts DEF Imports

\* Above an activation that initialises, only initialising ones ask for initialisations,
\* and below one that imports there is none.
LEMMA TopImports ==
    ASSUME LoaderAssumption, IInv, NEW i \in DOMAIN stack, stack[i].kind \in Importing,
           NEW m \in Modules, Asked(Len(stack), m)
    PROVE  stack # <<>> /\ Top.kind \in Importing /\ m \in ImportGraph(program)[Top.mod]
<1>1. /\ TypeOK /\ Phases /\ Len(stack) \in Nat /\ DOMAIN stack = 1..Len(stack)
      /\ stack = <<>> <=> Len(stack) = 0
  BY StackFacts DEF IInv
<1>2. stack # <<>> /\ i \in 1..Len(stack)
  BY <1>1
<1>3. Len(stack) \in DOMAIN stack /\ Top = stack[Len(stack)] /\ Top.mod \in Modules
  BY <1>1, <1>2, TopFacts
<1>4. Top.kind # "init"
  BY <1>1, <1>2, <1>3 DEF Phases, Importing, Initialising
<1>5. Top.kind \in Importing /\ Top.next \in DOMAIN Imports(Top.mod)
      /\ m = Imports(Top.mod)[Top.next].of
  BY <1>1, <1>2, <1>4, CallFacts
<1>6. m \in ImportGraph(program)[Top.mod]
  BY <1>1, <1>3, <1>5, ImportedIs
<1> QED
  BY <1>2, <1>5, <1>6

\* Descends is kept.
LEMMA DescendsKept ==
    ASSUME LoaderAssumption, IInv, Next
    PROVE  Descends'
<1>1. TypeOK /\ Descends /\ program' = program /\ program \in Programs
  BY Unchanged DEF IInv, TypeOK
<1>2. SUFFICES ASSUME NEW i \in DOMAIN stack', NEW j \in DOMAIN stack', i < j,
                      stack'[i].kind \in Initialising => stack'[j].kind # "load"
               PROVE  stack'[j].mod \in Reachable(program, stack'[i].mod)
  BY <1>1 DEF Descends
<1>3. /\ Len(stack) \in Nat /\ DOMAIN stack = 1..Len(stack) /\ i \in Nat /\ j \in Nat
      /\ DOMAIN stack' = 1..Len(stack') /\ Len(stack') \in Nat
  BY ActivationWas
<1>4. i \in DOMAIN stack /\ stack'[i].kind = stack[i].kind /\ stack'[i].mod = stack[i].mod
  <2>1. i # Len(stack')
    BY <1>2, <1>3
  <2> QED
    BY <2>1, ActivationWas
<1>5. CASE j \in DOMAIN stack /\ stack'[j].kind = stack[j].kind /\ stack'[j].mod = stack[j].mod
  BY <1>1, <1>2, <1>4, <1>5 DEF Descends
<1>6. CASE Open /\ stack'[j].kind = "load" /\ stack'[j].mod = calling
           /\ Asked(Len(stack), calling)
  <2>1. calling \in Modules /\ stack[i].kind \in Importing
    BY <1>1, <1>2, <1>4, <1>6, OpenDoes, StackFacts
  <2>2. stack # <<>> /\ Top.kind \in Importing /\ calling \in ImportGraph(program)[Top.mod]
    BY <1>4, <1>6, <2>1, TopImports
  <2>3. ~(stack[i].kind \in Initialising)
    BY <2>1 DEF Initialising, Importing
  <2> QED
    BY <1>4, <1>6, <2>2, <2>3, UnderAll
<1>7. CASE /\ stack # <<>> /\ Top.kind \in Initialising
           /\ stack'[j].kind = "init" /\ stack'[j].mod = calling'
           /\ Top.next \in DOMAIN Imports(Top.mod)
           /\ calling' = Imports(Top.mod)[Top.next].of
           /\ calling' \in Std \ Initialised
  <2>1. calling' \in Modules /\ Top.mod \in Modules
    BY <1>1, <1>7, TopFacts DEF Modules
  <2>2. calling' \in ImportGraph(program)[Top.mod]
    BY <1>1, <1>7, <2>1, ImportedIs
  <2>3. Top.kind # "load"
    BY <1>7 DEF Initialising
  <2> QED
    BY <1>4, <1>7, <2>2, <2>3, UnderAll
<1>8. ~(stack = <<>>)
  BY <1>4
<1> QED
  BY <1>5, <1>6, <1>7, <1>8, ActivationWas

\* The elements of a sequence of one element more.
LEMMA ElementsOf ==
    ASSUME NEW S, NEW s \in Seq(S), NEW x \in S
    PROVE  LET t == Append(s, x) IN
           {t[i] : i \in DOMAIN t} = {s[i] : i \in DOMAIN s} \cup {x}
<1> DEFINE t == Append(s, x)
<1>1. /\ Len(s) \in Nat /\ DOMAIN s = 1..Len(s) /\ DOMAIN t = 1..(Len(s) + 1)
      /\ \A i \in 1..Len(s) : t[i] = s[i]
      /\ t[Len(s) + 1] = x
  BY Appended
<1>2. \A i \in 1..(Len(s) + 1) : i = Len(s) + 1 \/ i \in 1..Len(s)
  BY <1>1
<1>3. \A i \in 1..Len(s) : i \in 1..(Len(s) + 1)
  BY <1>1
<1>4. Len(s) + 1 \in 1..(Len(s) + 1)
  BY <1>1
<1> HIDE DEF t
<1> QED
  BY <1>1, <1>2, <1>3, <1>4 DEF t

\* What is executed on the VM of a bundle: modules of the archive, then of the library.
LEMMA InitedMoves ==
    ASSUME LoaderAssumption, IInv, Next
    PROVE  \/ inited' = inited /\ Initialised' = Initialised
           \/ /\ InitModule /\ todo # <<>> /\ Head(todo) \in cache \ {Entry}
              /\ inited' = Append(inited, Head(todo))
              /\ Initialised' = Initialised \cup {Head(todo)}
           \/ /\ StdInited /\ stack # <<>> /\ Top.kind = "init"
              /\ inited' = Append(inited, Top.mod)
              /\ Initialised' = Initialised \cup {Top.mod}
<1>1. TypeOK /\ inited \in Seq(Modules) /\ cache \subseteq Modules
  BY DEF IInv, TypeOK
<1>2. CASE inited' = inited
  BY <1>2 DEF Initialised
<1>3. CASE InitModule /\ inited' # inited
  <2>1. todo # <<>> /\ Head(todo) \in cache \ {Entry} /\ inited' = Append(inited, Head(todo))
    BY <1>3 DEF InitModule
  <2>2. Head(todo) \in Modules
    BY <1>1, <2>1
  <2>3. Initialised' = Initialised \cup {Head(todo)}
    BY <1>1, <2>1, <2>2, ElementsOf DEF Initialised
  <2> QED
    BY <1>3, <2>1, <2>3
<1>4. CASE StdInited /\ inited' # inited
  <2>1. stack # <<>> /\ Top.kind = "init" /\ inited' = Append(inited, Top.mod)
    BY <1>4 DEF StdInited
  <2>2. Top.mod \in Modules
    BY <1>1, <2>1, TopFacts
  <2>3. Initialised' = Initialised \cup {Top.mod}
    BY <1>1, <2>1, <2>2, ElementsOf DEF Initialised
  <2> QED
    BY <1>4, <2>1, <2>3
<1> QED
  BY <1>2, <1>3, <1>4, Unchanged

\* What is loaded or initialised stays so, and what a module in the cache shows stays too:
\* only a module that is not there yet collects its exports.
LEMMA CachedStays ==
    ASSUME LoaderAssumption, IInv, Next
    PROVE  /\ cache \subseteq cache' /\ Initialised \subseteq Initialised'
           /\ \A m \in cache : exports'[m] = exports[m]
           /\ \A m \in cache, k \in Modules : Visible(m, k)' = Visible(m, k)
<1>1. TypeOK /\ program' = program /\ exports \in [Modules -> [Names -> ExportRecords]]
  BY Unchanged DEF IInv, TypeOK
<1>2. cache \subseteq cache' /\ Initialised \subseteq Initialised'
  BY CacheMoves, InitedMoves
<1>3. ASSUME NEW m \in cache PROVE exports'[m] = exports[m]
  <2>1. CASE Finish
    <3>1. stack # <<>> /\ Top.kind = "load"
      BY <2>1, <1>1, FinishDoes
    <3>2. Top.mod \notin cache /\ Top.mod \in Modules
      <4>1. Len(stack) \in DOMAIN stack /\ Top = stack[Len(stack)] /\ Top.mod \in Modules
        BY <1>1, <3>1, TopFacts
      <4> QED
        BY <3>1, <4>1 DEF IInv, LoadsUnderWay
    <3>3. exports' = exports \/ exports' = [exports EXCEPT ![Top.mod] = Collected(Top.mod)]
      BY <2>1, <1>1, FinishDoes
    <3>4. m # Top.mod /\ DOMAIN exports = Modules /\ m \in Modules
      BY <1>1, <3>2 DEF TypeOK
    <3> HIDE DEF Top
    <3> QED
      BY <3>3, <3>4
  <2> QED
    BY <2>1, Unchanged
<1>4. ASSUME NEW m \in cache, NEW k \in Modules PROVE Visible(m, k)' = Visible(m, k)
  BY <1>1, <1>3 DEF Visible
<1> QED
  BY <1>2, <1>3, <1>4

\* The part of ImportsDone for import k of module m, gone past in an activation.
DoneOne(kind, m, k) ==
    LET import == Imports(m)[k] IN
    /\ kind \in Importing =>
          import.of \in cache /\ import.names \subseteq Visible(import.of, m)
    /\ kind \in Initialising => (import.of \in Std => import.of \in Initialised)

\* It stays.
LEMMA DoneStays ==
    ASSUME LoaderAssumption, IInv, Next, NEW kind, NEW m \in Modules, NEW k,
           DoneOne(kind, m, k)
    PROVE  DoneOne(kind, m, k)'
<1>1. program' = program
  BY Unchanged
<1>2. CASE kind \in Importing
  <2>1. Imports(m)[k].of \in cache /\ Imports(m)[k].names \subseteq Visible(Imports(m)[k].of, m)
    BY <1>2 DEF DoneOne
  <2>2. Imports(m)' = Imports(m)
    BY <1>1 DEF Imports
  <2>3. \A n \in cache : n \in cache' /\ Visible(n, m)' = Visible(n, m)
    BY CachedStays
  <2>4. ~(kind \in Initialising)
    BY <1>2 DEF Importing, Initialising
  <2>5. Visible(Imports(m)[k].of, m)' = Visible(Imports(m)[k].of, m)
    <3> DEFINE n == Imports(m)[k].of
    <3>1. n \in cache /\ n' = n
      BY <2>1, <2>2
    <3>2. n \in Modules
      BY <2>1 DEF IInv, TypeOK
    <3>3. exports'[n] = exports[n]
      BY <3>1, CachedStays
    <3> QED
      BY <1>1, <2>2, <3>3 DEF Visible
  <2> QED
    BY <2>1, <2>2, <2>3, <2>4, <2>5 DEF DoneOne
<1>3. CASE kind \notin Importing
  BY <1>1, <1>3, CachedStays DEF DoneOne, Imports
<1> QED
  BY <1>2, <1>3


\* ImportsDone is kept.
LEMMA ImportsDoneKept ==
    ASSUME LoaderAssumption, IInv, Next
    PROVE  ImportsDone'
<1>1. /\ TypeOK /\ Calls /\ program' = program /\ program \in Programs
      /\ \A i \in DOMAIN stack :
            /\ stack[i].next <= Len(Imports(stack[i].mod)) + 1
            /\ \A k \in 1..(stack[i].next - 1) : DoneOne(stack[i].kind, stack[i].mod, k)
  BY Unchanged DEF IInv, ImportsDone, TypeOK, DoneOne
<1>2. ASSUME \A kind, m : \A i \in DOMAIN stack' :
               kind = stack'[i].kind /\ m = stack'[i].mod =>
                   /\ stack'[i].next <= Len(Imports(m)) + 1
                   /\ \A k \in 1..(stack'[i].next - 1) : DoneOne(kind, m, k)'
      PROVE  ImportsDone'
  BY <1>1, <1>2 DEF ImportsDone, DoneOne, Imports
<1>3. SUFFICES ASSUME NEW i \in DOMAIN stack', NEW kind, NEW m,
                      kind = stack'[i].kind, m = stack'[i].mod
               PROVE  /\ stack'[i].next <= Len(Imports(m)) + 1
                      /\ \A k \in 1..(stack'[i].next - 1) : DoneOne(kind, m, k)'
  BY <1>2
<1>4. /\ m \in Modules /\ stack'[i].next \in Nat \ {0} /\ Len(Imports(m)) \in Nat
      /\ DOMAIN Imports(m) = 1..Len(Imports(m))
      /\ \A k \in DOMAIN Imports(m) : Imports(m)[k] \in ImportRecords
  <2>1. stack'[i] \in Activations
    BY StackTyped, SeqFacts
  <2>2. m \in Modules /\ stack'[i].next \in Nat \ {0}
    BY <1>3, <2>1 DEF Activations
  <2> QED
    BY <1>1, <2>2, ModuleFacts, SeqFacts DEF Imports
<1>5. CASE i \in DOMAIN stack /\ stack'[i] = stack[i]
  <2>1. \A k \in 1..(stack[i].next - 1) : DoneOne(kind, m, k)
    BY <1>1, <1>3, <1>5
  <2>2. \A k \in 1..(stack[i].next - 1) : DoneOne(kind, m, k)'
    BY <1>4, <2>1, DoneStays
  <2> QED
    BY <1>1, <1>3, <1>5, <2>2
<1>6. CASE /\ i \in DOMAIN stack /\ i = Len(stack) /\ stack # <<>>
           /\ Advanced(stack, stack')
           /\ stack'[i].kind = stack[i].kind /\ stack'[i].mod = stack[i].mod
           /\ stack'[i].next = stack[i].next + 1
           /\ BindNext \/ InitStd
  <2>1. Top = stack[i] /\ Top.next \in Nat \ {0} /\ Top.mod = m /\ Top.kind = kind
    BY <1>1, <1>3, <1>6, TopFacts
  <2>2. \A k \in 1..(Top.next - 1) : DoneOne(kind, m, k)
    BY <1>1, <1>3, <1>6, <2>1
  <2>3. ~PoppedTo(stack, stack')
    BY <1>6 DEF PoppedTo, Advanced
  <2>4. Top.next \in DOMAIN Imports(m) /\ DoneOne(kind, m, Top.next)
    <3>1. CASE BindNext
      <4>1. \A e : ~Abandon(e)
        BY <1>1, <1>6, <2>3, AbandonDoes
      <4>2. /\ kind \in Importing /\ Top.next \in DOMAIN Imports(m)
            /\ Imports(m)[Top.next].of \in cache
            /\ Imports(m)[Top.next].names \subseteq Visible(Imports(m)[Top.next].of, m)
        BY <1>1, <2>1, <3>1, <4>1, BindNextDoes
      <4>3. ~(kind \in Initialising)
        BY <4>2 DEF Importing, Initialising
      <4> QED
        BY <4>2, <4>3 DEF DoneOne
    <3>2. CASE InitStd
      <4>1. Len(stack') = Len(stack) /\ Len(stack) \in Nat
        BY <1>6 DEF Advanced
      <4>2. \A k, n : ~PushedOn(stack, stack', k, n)
        BY <4>1 DEF PushedOn
      <4>3. /\ kind \in Initialising /\ Top.next \in DOMAIN Imports(m)
            /\ Imports(m)[Top.next].of \in Std => Imports(m)[Top.next].of \in Initialised
        BY <1>1, <2>1, <3>2, <4>2, InitStdDoes
      <4>4. ~(kind \in Importing)
        BY <4>3 DEF Importing, Initialising
      <4> QED
        BY <4>3, <4>4 DEF DoneOne
    <3> QED
      BY <1>6, <3>1, <3>2
  <2>5. ASSUME NEW k \in 1..(stack'[i].next - 1) PROVE DoneOne(kind, m, k)'
    <3>1. k \in 1..(Top.next - 1) \/ k = Top.next
      BY <1>6, <2>1, <2>5
    <3>2. DoneOne(kind, m, k)
      BY <2>2, <2>4, <3>1
    <3> QED
      BY <1>4, <3>2, DoneStays
  <2>6. stack'[i].next <= Len(Imports(m)) + 1
    BY <1>4, <1>6, <2>1, <2>4
  <2> QED
    BY <2>5, <2>6
<1>7. CASE stack'[i].next = 1
  BY <1>4, <1>7
<1> QED
  BY <1>5, <1>6, <1>7, ActivationWas

\* When a caller may go on again: what it called for was bound, or loaded, or a load begins.
LEMMA BecomesIdle ==
    ASSUME LoaderAssumption, IInv, Next, ~Idle, Idle'
    PROVE  \/ StdLoaded \/ FileLoaded
           \/ BindNext /\ Advanced(stack, stack')
           \/ Open /\ PushedOn(stack, stack', "load", calling)
<1>1. TypeOK /\ Calls /\ reply' = "none" /\ calling' = None
  BY DEF IInv, Idle
<1>2. ~CacheHit /\ ~Circular /\ ~Decode
  BY <1>1 DEF CacheHit, Circular, Decode, Return
<1>3. ~ImportNext /\ ~Finish /\ ~LoadFile /\ ~InitStd
  BY DEF ImportNext, Finish, LoadFile, InitStd
<1>4. ~Propagate
  BY <1>1 DEF Propagate, Abandon, Return, Errors
<1>5. CASE Open
  BY <1>1, <1>5, OpenDoes
<1>6. CASE BindNext
  BY <1>1, <1>6, BindNextDoes, AbandonDoes
<1>7. CASE ~Open /\ ~BindNext
  BY <1>1, <1>2, <1>3, <1>4, <1>7, Unchanged DEF Idle
<1> QED
  BY <1>5, <1>6, <1>7

\* A module of the library in the cache is on no cycle.
LEMMA CachedAcyclic ==
    ASSUME LoaderAssumption, IInv, NEW m \in cache, ~Archived(m)
    PROVE  m \in Modules /\ Faultless(program, m) /\ m \notin Reachable(program, m)
           /\ ImportGraph(program)[m] \subseteq cache
<1>1. /\ m \in Modules /\ m \in verdict.sound /\ verdict = Verdict(program)
      /\ ImportGraph(program)[m] \subseteq cache
  BY DEF IInv, TypeOK, CacheSound
<1>2. Faultless(program, m)
  BY <1>1, VerdictSays
<1> QED
  BY <1>1, <1>2 DEF Faultless

\* When initStdlibModule is called for the next module, it is called for none of these yet.
LEMMA InitIsNew ==
    ASSUME LoaderAssumption, IInv, InitStd, stack # <<>>, Top.kind \in Initialising,
           NEW m \in ImportGraph(program)[Top.mod],
           NEW j \in DOMAIN stack, stack[j].kind = "init"
    PROVE  stack[j].mod # m
<1>1. /\ TypeOK /\ Phases /\ InitsUnderWay /\ Len(stack) \in DOMAIN stack
      /\ Top = stack[Len(stack)] /\ DOMAIN stack = 1..Len(stack) /\ Len(stack) \in Nat \ {0}
      /\ \A i \in DOMAIN stack : stack[i].kind \in Importing \cup Initialising
  BY TopFacts, StackFacts DEF IInv
<1>2. Idle
  BY DEF InitStd
<1>3. stack[j].mod \in cache /\ stack[j].mod \in Std
  <2>1. CASE j = Len(stack)
    BY <1>1, <1>2, <2>1 DEF InitsUnderWay
  <2>2. CASE j # Len(stack)
    <3>1. j < Len(stack) /\ j + 1 \in 1..Len(stack) /\ j + 1 # 1
      BY <1>1, <2>2
    <3>2. stack[j + 1].kind \in Initialising /\ stack[j + 1].kind # "imports"
      BY <1>1, <3>1 DEF Phases
    <3>3. stack[j + 1].kind = "init"
      BY <3>2 DEF Initialising
    <3> QED
      BY <1>1, <3>1, <3>3 DEF InitsUnderWay
  <2> QED
    BY <2>1, <2>2
<1>4. ~Archived(stack[j].mod)
  BY <1>3 DEF Archived, LoaderAssumption
<1>5. stack[j].mod \notin Reachable(program, stack[j].mod)
  BY <1>3, <1>4, CachedAcyclic
<1>6. Top.kind # "load"
  BY DEF Initialising
<1> QED
  BY <1>5, <1>6, UnderAll

\* InitsUnderWay is kept.
LEMMA InitsUnderWayKept ==
    ASSUME LoaderAssumption, IInv, Next
    PROVE  InitsUnderWay'
<1> DEFINE n == Len(stack)
<1>1. /\ TypeOK /\ Phases /\ Calls /\ InitsUnderWay /\ program \in Programs
      /\ None \notin Modules
  BY DEF IInv, TypeOK, LoaderAssumption
<1>2. ASSUME NEW i \in DOMAIN stack', stack'[i].kind = "init"
      PROVE  /\ stack'[i].mod \in Std \ Initialised'
             /\ i < Len(stack') /\ stack'[i + 1].kind = "init" => stack'[i].mod \in cache'
             /\ i = Len(stack') /\ Idle' => stack'[i].mod \in cache'
             /\ \A j \in DOMAIN stack' :
                  stack'[j].kind = "init" /\ stack'[j].mod = stack'[i].mod => i = j
  <2>1. /\ n \in Nat /\ DOMAIN stack = 1..n /\ Len(stack') \in Nat
        /\ DOMAIN stack' = 1..Len(stack') /\ i \in Nat \ {0}
    BY <1>2, ActivationWas
  <2>2. CASE /\ i \in DOMAIN stack /\ stack'[i].kind = stack[i].kind
             /\ stack'[i].mod = stack[i].mod
    <3>1. /\ stack[i].mod \in Std \ Initialised /\ stack # <<>>
          /\ stack[i].kind = "init" /\ stack[i].mod \in Modules
      BY <1>1, <1>2, <2>1, <2>2, StackFacts DEF InitsUnderWay
    <3>2. stack[i].mod \notin Initialised'
      <4>1. CASE StdInited /\ Top.kind = "init" /\ Initialised' = Initialised \cup {Top.mod}
        <5>1. PoppedTo(stack, stack') /\ Top = stack[n] /\ n \in DOMAIN stack
          BY <1>1, <3>1, <4>1, InitedDoes, TopFacts
        <5>2. i # n
          BY <2>1, <5>1 DEF PoppedTo
        <5> QED
          BY <1>1, <2>2, <3>1, <4>1, <5>1, <5>2 DEF InitsUnderWay
      <4>2. ~InitModule
        BY <3>1, QuietWhileInitialising DEF InitModule
      <4> QED
        BY <3>1, <4>1, <4>2, InitedMoves
    <3>3. ASSUME i < Len(stack'), stack'[i + 1].kind = "init" PROVE stack[i].mod \in cache
      <4>1. i + 1 \in DOMAIN stack'
        BY <2>1, <3>3
      <4>2. \/ i + 1 \in DOMAIN stack /\ stack[i + 1].kind = "init"
            \/ i + 1 = n + 1 /\ InitStd
        BY <3>3, <4>1, ActivationWas DEF Open, InitImports
      <4>3. CASE i + 1 \in DOMAIN stack /\ stack[i + 1].kind = "init"
        <5>1. i < n
          BY <2>1, <4>3
        <5> QED
          BY <1>1, <2>2, <3>1, <4>3, <5>1 DEF InitsUnderWay
      <4>4. CASE i + 1 = n + 1 /\ InitStd
        <5>1. Idle
          BY <4>4 DEF InitStd
        <5>2. i = n
          BY <2>1, <4>4
        <5> QED
          BY <1>1, <2>2, <3>1, <5>1, <5>2 DEF InitsUnderWay
      <4> QED
        BY <4>2, <4>3, <4>4
    <3>4. ASSUME i = Len(stack'), Idle' PROVE stack[i].mod \in cache
      <4>1. CASE i = n
        <5>1. Top = stack[i] /\ Top.kind = "init"
          BY <1>1, <3>1, <4>1, TopFacts
        <5>2. CASE Idle
          BY <1>1, <2>2, <3>1, <4>1, <5>2 DEF InitsUnderWay
        <5>3. CASE ~Idle
          <6>1. ~FileLoaded /\ ~BindNext
            BY <3>1, <5>1 DEF FileLoaded, BindNext
          <6>2. ~PushedOn(stack, stack', "load", calling)
            <7>1. n \in Nat /\ Len(stack') = n
              BY <2>1, <3>4, <4>1
            <7>2. Len(stack') # n + 1
              BY <7>1
            <7> QED
              BY <7>2 DEF PushedOn
          <6>3. StdLoaded
            BY <3>4, <5>3, <6>1, <6>2, BecomesIdle
          <6>4. PICK m \in cache : Asked(n, m)
            BY <1>1, <6>3 DEF Calls, StdLoaded
          <6>5. m = Top.mod
            BY <1>1, <3>1, <5>1, <6>4, CallFacts DEF Importing
          <6> QED
            BY <5>1, <6>4, <6>5
        <5> QED
          BY <5>2, <5>3
      <4>2. CASE i # n
        <5>1. ~Advanced(stack, stack') /\ stack' # stack
          BY <3>4, <4>2 DEF Advanced
        <5>2. \A k, m : ~PushedOn(stack, stack', k, m)
          <6>1. n \in Nat /\ Len(stack') \in Nat /\ Len(stack') = i /\ i \in 1..n
            BY <2>1, <2>2, <3>4
          <6>2. Len(stack') # n + 1
            BY <6>1
          <6> QED
            BY <6>2 DEF PushedOn
        <5>3. PoppedTo(stack, stack')
          BY <5>1, <5>2, StackMoves
        <5>4. \A e \in {"ok"} \cup Errors : ~Abandon(e)
          BY <3>4 DEF Abandon, Return, Idle, Errors
        <5>5. StdInited \/ ImportsInited
          <6>1. ~ImportNext
            BY <1>1, <5>1, <5>4, ImportNextDoes DEF Errors
          <6>2. ~BindNext
            BY <1>1, <5>1, <5>4, BindNextDoes DEF Errors
          <6>3. ~Finish
            BY <1>1, <5>4, FinishDoes
          <6>4. ~Propagate
            BY <5>4 DEF Propagate
          <6>5. ~Open
            BY <1>1, <5>1, <5>2, OpenDoes
          <6>6. ~InitStd
            BY <1>1, <5>1, <5>2, InitStdDoes
          <6>7. ~InitImports
            BY <3>1 DEF InitImports
          <6> QED
            BY <5>1, <6>1, <6>2, <6>3, <6>4, <6>5, <6>6, <6>7, Unchanged
        <5>6. Top.kind \in {"init", "imports"} /\ Top = stack[n] /\ n = i + 1 /\ n \in DOMAIN stack
          <6>1. Len(stack') = n - 1
            BY <5>3 DEF PoppedTo
          <6>2. n = i + 1
            BY <2>1, <3>4, <6>1
          <6> QED
            BY <1>1, <3>1, <5>5, <6>2, InitedDoes, TopFacts
        <5>7. Top.kind = "init" /\ i < n
          BY <1>1, <2>1, <5>6 DEF Phases
        <5> QED
          BY <1>1, <2>2, <3>1, <5>6, <5>7 DEF InitsUnderWay
      <4> QED
        BY <4>1, <4>2
    <3>5. ASSUME NEW j \in DOMAIN stack', stack'[j].kind = "init", stack'[j].mod = stack'[i].mod
          PROVE  i = j
      <4>1. CASE /\ j \in DOMAIN stack /\ stack'[j].kind = stack[j].kind
                 /\ stack'[j].mod = stack[j].mod
        BY <1>1, <2>2, <3>1, <3>5, <4>1 DEF InitsUnderWay
      <4>2. CASE /\ InitStd /\ Top.kind \in Initialising
                 /\ Top.next \in DOMAIN Imports(Top.mod)
                 /\ calling' = Imports(Top.mod)[Top.next].of
                 /\ stack'[j].mod = calling'
        <5>1. Top.mod \in Modules /\ stack[i].mod = calling'
          BY <1>1, <2>2, <3>1, <3>5, <4>2, TopFacts
        <5>2. calling' \in ImportGraph(program)[Top.mod]
          BY <1>1, <3>1, <4>2, <5>1, ImportedIs
        <5> QED
          BY <2>2, <3>1, <4>2, <5>1, <5>2, InitIsNew
      <4> QED
        BY <3>1, <3>5, <4>1, <4>2, ActivationWas DEF Open, InitImports
    <3> QED
      BY <2>2, <3>1, <3>2, <3>3, <3>4, <3>5, CachedStays
  <2>3. CASE /\ InitStd /\ stack # <<>> /\ Top.kind \in Initialising
             /\ stack'[i].mod = calling' /\ i = Len(stack') /\ i = n + 1
             /\ Top.next \in DOMAIN Imports(Top.mod)
             /\ calling' = Imports(Top.mod)[Top.next].of
             /\ calling' \in Std \ Initialised
    <3>1. Top.mod \in Modules /\ calling' \in Modules /\ calling' # None
      BY <1>1, <2>3, TopFacts DEF Modules
    <3>2. calling' \in ImportGraph(program)[Top.mod]
      BY <1>1, <2>3, <3>1, ImportedIs
    <3>3. Initialised' = Initialised
      BY <2>3 DEF InitStd, Initialised
    <3>4. ~Idle'
      BY <3>1 DEF Idle
    <3>5. ASSUME NEW j \in DOMAIN stack', stack'[j].kind = "init", stack'[j].mod = stack'[i].mod
          PROVE  i = j
      <4>1. CASE /\ j \in DOMAIN stack /\ stack'[j].kind = stack[j].kind
                 /\ stack'[j].mod = stack[j].mod
        BY <2>3, <3>2, <3>5, <4>1, InitIsNew
      <4>2. CASE j = n + 1
        BY <2>3, <4>2
      <4> QED
        BY <4>1, <4>2, ActivationWas
    <3>6. ~(i < Len(stack'))
      BY <2>1, <2>3
    <3> QED
      BY <2>3, <3>3, <3>4, <3>5, <3>6
  <2> QED
    BY <1>2, <2>2, <2>3, ActivationWas DEF Open, InitImports
<1> QED
  BY <1>2 DEF InitsUnderWay

\* What is not in the archive imports nothing that is: it is a module of the library then.
LEMMA SourceImports ==
    ASSUME LoaderAssumption, IInv, NEW m \in Modules, ~Archived(m),
           NEW k \in ImportGraph(program)[m]
    PROVE  k \in Modules /\ ~Archived(k)
<1>1. program \in Programs
  BY DEF IInv, TypeOK
<1>2. k \in Modules /\ (m \in Std => k \in Std)
  BY <1>1, ModuleFacts
<1>3. Project \cap Std = {} /\ (m \in Project \/ m \in Std)
  BY DEF LoaderAssumption, Modules
<1> QED
  BY <1>2, <1>3 DEF Archived

\* Of the module whose load ends: all its imports are in the cache, and visible to it.
LEMMA FinishedImports ==
    ASSUME LoaderAssumption, IInv, stack # <<>>, Top.kind \in Importing,
           Top.next > Len(Imports(Top.mod))
    PROVE  /\ \A k \in DOMAIN Imports(Top.mod) :
                /\ Imports(Top.mod)[k].of \in cache
                /\ Imports(Top.mod)[k].names \subseteq Visible(Imports(Top.mod)[k].of, Top.mod)
           /\ ImportGraph(program)[Top.mod] \subseteq cache
<1>1. /\ Len(stack) \in DOMAIN stack /\ Top = stack[Len(stack)] /\ Top.mod \in Modules
      /\ Top.next \in Nat \ {0} /\ program \in Programs
  BY TopFacts DEF IInv, TypeOK
<1>2. Len(Imports(Top.mod)) \in Nat /\ DOMAIN Imports(Top.mod) = 1..Len(Imports(Top.mod))
  BY <1>1, ModuleFacts DEF Imports
<1>3. \A k \in 1..Len(Imports(Top.mod)) : k \in 1..(Top.next - 1)
  BY <1>1, <1>2
<1>4. \A k \in DOMAIN Imports(Top.mod) :
         /\ Imports(Top.mod)[k].of \in cache
         /\ Imports(Top.mod)[k].names \subseteq Visible(Imports(Top.mod)[k].of, Top.mod)
  BY <1>1, <1>2, <1>3 DEF IInv, ImportsDone
<1>5. \A j \in ImportGraph(program)[Top.mod] :
         \E k \in DOMAIN Imports(Top.mod) : Imports(Top.mod)[k].of = j
  <2> DEFINE m == Top.mod
  <2>1. m \in Modules
    BY <1>1
  <2> HIDE DEF m
  <2>2. \A j \in ImportGraph(program)[m] :
           \E k \in DOMAIN program[m].imports : program[m].imports[k].of = j /\ j # Missing
    BY <1>1, <2>1, ModuleFacts
  <2> QED
    BY <2>2 DEF Imports, m
<1> QED
  BY <1>4, <1>5

\* The load on top is of a module from source that is not in the cache.
LEMMA LoadOnTop ==
    ASSUME LoaderAssumption, IInv, stack # <<>>, Top.kind = "load"
    PROVE  /\ Top.mod \in Modules \ cache /\ ~Archived(Top.mod) /\ Top.kind \in Importing
           /\ \A k \in DOMAIN Imports(Top.mod) : Imports(Top.mod)[k].of # Missing
           /\ mode = "bundle" => program[Top.mod].fault = "none"
<1>1. /\ Len(stack) \in DOMAIN stack /\ Top = stack[Len(stack)] /\ Top.mod \in Modules
      /\ program \in Programs
  BY TopFacts DEF IInv, TypeOK
<1>2. /\ Top.mod \notin cache /\ ~Archived(Top.mod)
      /\ \A k \in DOMAIN Imports(Top.mod) : Imports(Top.mod)[k].of # Missing
  BY <1>1 DEF IInv, LoadsUnderWay
<1>3. mode = "bundle" => program[Top.mod].fault = "none"
  BY <1>1, <1>2, ModuleFacts DEF Archived, Modules
<1> QED
  BY <1>1, <1>2, <1>3 DEF Importing

\* A module that ends its load without an error is sound: what it reaches is in the cache,
\* and it is not.
LEMMA FinishedSound ==
    ASSUME LoaderAssumption, IInv, stack # <<>>, Top.kind = "load",
           Top.next > Len(Imports(Top.mod)), program[Top.mod].fault = "none"
    PROVE  Top.mod \in verdict.sound
<1> DEFINE m == Top.mod
           g == ImportGraph(program)
           S == {k \in cache : ~Archived(k)}
<1>1. /\ m \in Modules \ cache /\ ~Archived(m) /\ Top.kind \in Importing
      /\ \A k \in DOMAIN Imports(m) : Imports(m)[k].of # Missing
  BY LoadOnTop
<1>2. g[m] \subseteq cache
  BY <1>1, FinishedImports
<1>3. /\ program \in Programs /\ cache \subseteq Modules /\ verdict = Verdict(program)
      /\ \A k \in cache : ~Archived(k) => k \in verdict.sound /\ g[k] \subseteq cache
  BY DEF IInv, TypeOK, CacheSound
<1>4. g[m] \subseteq S
  BY <1>1, <1>2, SourceImports
<1>5. Closed(g, S)
  BY <1>3, SourceImports DEF Closed
<1>6. Reachable(program, m) \subseteq S
  BY <1>1, <1>3, <1>4, <1>5, ReachableIs
<1>7. Faultless(program, m)
  BY <1>1, <1>6 DEF Faultless, Imports
<1>8. g[m] \subseteq Verdict(program).sound
  BY <1>3, <1>4
<1> QED
  BY <1>1, <1>3, <1>7, <1>8, SoundAbove

\* What is executed on a VM of its own: the module whose load ends, if anything.
LEMMA RanMoves ==
    ASSUME LoaderAssumption, IInv, Next
    PROVE  \/ ran' = ran /\ Executed' = Executed
           \/ /\ Finish /\ ran' = Append(ran, Top.mod)
              /\ Executed' = Executed \cup {Top.mod}
<1>1. TypeOK /\ ran \in Seq(Modules)
  BY DEF IInv, TypeOK
<1>2. CASE ran' = ran
  BY <1>2 DEF Executed
<1>3. CASE ran' # ran
  <2>1. Finish
    BY <1>3, Unchanged
  <2>2. stack # <<>> /\ ran' = Append(ran, Top.mod)
    BY <1>1, <1>3, <2>1, FinishDoes
  <2>3. Top.mod \in Modules
    BY <1>1, <2>2, TopFacts
  <2>4. Executed' = Executed \cup {Top.mod}
    BY <1>1, <2>2, <2>3, ElementsOf DEF Executed
  <2> QED
    BY <2>1, <2>2, <2>4
<1> QED
  BY <1>2, <1>3

\* An error is only forgotten by PrepareFromBundle.
LEMMA ErrorStays ==
    ASSUME LoaderAssumption, IInv, Next, reply \in Errors, mode # "bundle"
    PROVE  reply' = reply
<1>1. /\ calling = None /\ reply # "ok" /\ reply # "none" /\ None \notin Project
      /\ cache \subseteq Modules /\ loading \subseteq Modules /\ None \notin Modules
  BY DEF IInv, Calls, Errors, LoaderAssumption, Modules, TypeOK
<1>2. ~CacheHit /\ ~Circular /\ ~Decode /\ ~Open
  BY <1>1 DEF CacheHit, Circular, Decode, Open
<1>3. ~ImportNext /\ ~BindNext /\ ~Finish /\ ~FileLoaded /\ ~StdLoaded
  BY <1>1 DEF ImportNext, BindNext, Finish, FileLoaded, StdLoaded, Idle
<1>4. Propagate => reply' = reply
  BY DEF Propagate, Abandon, Return
<1> QED
  BY <1>2, <1>3, <1>4, Unchanged

\* CacheSound is kept.
LEMMA CacheSoundKept ==
    ASSUME LoaderAssumption, IInv, Next
    PROVE  CacheSound'
<1>1. /\ TypeOK /\ CacheSound /\ program' = program /\ verdict' = verdict /\ mode' = mode
  BY Unchanged DEF IInv
<1>2. ASSUME NEW m \in cache', ~Archived(m)
      PROVE  m \in verdict.sound /\ m \in Executed' /\ ImportGraph(program)[m] \subseteq cache'
  <2>1. CASE m \in cache
    BY <1>1, <1>2, <2>1, CachedStays, RanMoves DEF CacheSound
  <2>2. CASE m \notin cache
    <3>1. /\ Finish /\ m = Top.mod /\ stack # <<>> /\ Top.kind = "load"
          /\ program[m].fault = "none" /\ ran' = Append(ran, m)
      BY <1>2, <2>2, CacheMoves
    <3>2. Top.next > Len(Imports(Top.mod))
      BY <1>1, <3>1, FinishDoes
    <3>3. m \in verdict.sound
      BY <3>1, <3>2, FinishedSound
    <3>4. ImportGraph(program)[m] \subseteq cache
      BY <3>1, <3>2, LoadOnTop, FinishedImports
    <3>5. m \in Executed'
      <4>1. ran \in Seq(Modules) /\ m \in Modules
        BY <1>1, <3>1, LoadOnTop DEF TypeOK
      <4> QED
        BY <3>1, <4>1, ElementsOf DEF Executed
    <3> QED
      BY <3>3, <3>4, <3>5, CachedStays
  <2> QED
    BY <2>1, <2>2
<1>3. Executed' \subseteq cache' \/ (mode # "bundle" /\ reply' \in Errors)
  <2>1. CASE Finish
    <3>1. /\ stack # <<>> /\ Top.kind = "load" /\ Idle
          /\ \/ cache' = cache \cup {Top.mod}
             \/ /\ program[Top.mod].fault \in Errors /\ Abandon(program[Top.mod].fault)
                /\ cache' = cache
      BY <1>1, <2>1, FinishDoes
    <3>2. Executed \subseteq cache
      BY <1>1, <3>1 DEF CacheSound, Idle, Errors
    <3>3. mode # "bundle" \/ program[Top.mod].fault \notin Errors
      BY <3>1, LoadOnTop DEF Errors
    <3>4. \A e : Abandon(e) => reply' = e
      BY DEF Abandon, Return
    <3> QED
      BY <3>1, <3>2, <3>3, <3>4, RanMoves
  <2>2. CASE ~Finish
    <3>1. Executed' = Executed
      BY <2>2, RanMoves
    <3> QED
      BY <1>1, <3>1, CachedStays, ErrorStays DEF CacheSound
  <2> QED
    BY <2>1, <2>2
<1>4. \A m : Archived(m)' = Archived(m)
  BY <1>1 DEF Archived
<1>5. ImportGraph(program)' = ImportGraph(program)
  BY <1>1 DEF ImportGraph
<1> QED
  BY <1>1, <1>2, <1>3, <1>4, <1>5 DEF CacheSound

\* What one module exports under a name.
ShownRight(m, x, e) ==
    IF e.from = None THEN e.vis = "none"
    ELSE /\ e.vis = program[e.from].declares[x]
         /\ e.vis = "protected" => program[e.from].dir = program[m].dir
         /\ e.vis = "private" => e.from = m

\* ExportsVisible is kept.
LEMMA ExportsVisibleKept ==
    ASSUME LoaderAssumption, IInv, Next
    PROVE  ExportsVisible'
<1>1. /\ TypeOK /\ program' = program /\ exports \in [Modules -> [Names -> ExportRecords]]
      /\ \A m \in Modules, x \in Names : ShownRight(m, x, exports[m][x])
  BY Unchanged DEF IInv, TypeOK, ExportsVisible, ShownRight
<1>2. SUFFICES ASSUME NEW m \in Modules, NEW x \in Names
               PROVE  ShownRight(m, x, exports'[m][x])
  BY <1>1 DEF ExportsVisible, ShownRight
<1>3. CASE exports'[m] = exports[m]
  BY <1>1, <1>3
<1>4. CASE exports'[m] # exports[m]
  <2>1. Finish
    BY <1>4, Unchanged
  <2>2. /\ stack # <<>> /\ Top.kind = "load" /\ Top.next > Len(Imports(Top.mod))
        /\ exports' = exports \/ exports' = [exports EXCEPT ![Top.mod] = Collected(Top.mod)]
    BY <1>1, <2>1, FinishDoes
  <2>3. m = Top.mod /\ exports'[m] = Collected(m)
    BY <1>1, <1>4, <2>2
  <2>4. m \in Modules \ cache /\ Top.kind \in Importing
    BY <2>2, <2>3, LoadOnTop
  <2>5. \A k \in DOMAIN Imports(m) :
           Imports(m)[k].of \in cache /\ Imports(m)[k].names \subseteq Visible(Imports(m)[k].of, m)
    BY <2>2, <2>3, <2>4, FinishedImports
  <2>6. CASE Collected(m)[x] = [from |-> m, vis |-> program[m].declares[x]]
    <3>1. m # None
      BY DEF LoaderAssumption
    <3> QED
      BY <2>3, <2>6, <3>1 DEF ShownRight
  <2>7. ASSUME NEW k \in DOMAIN Imports(m), x \in Imports(m)[k].names,
               Collected(m)[x] = exports[Imports(m)[k].of][x]
        PROVE  ShownRight(m, x, exports'[m][x])
    <3> DEFINE of == Imports(m)[k].of
               e == exports[of][x]
    <3>1. of \in cache /\ of \in Modules /\ x \in Visible(of, m) /\ of # m
      BY <1>1, <2>4, <2>5, <2>7 DEF TypeOK
    <3>2. \/ e.vis = "public"
          \/ e.vis = "protected" /\ program[m].dir = program[of].dir
      BY <3>1 DEF Visible
    <3>3. ShownRight(of, x, e) /\ exports'[m][x] = e
      BY <1>1, <2>3, <2>7, <3>1
    <3> HIDE DEF e, of
    <3> QED
      BY <3>2, <3>3 DEF ShownRight
  <2>8. CASE Collected(m)[x] = Undeclared
    BY <2>3, <2>8 DEF ShownRight, Undeclared
  <2> QED
    BY <1>1, <2>6, <2>7, <2>8, CollectedIs
<1> QED
  BY <1>3, <1>4

\* How the files to come move: from the front, or all of them come again.
LEMMA TodoMoves ==
    ASSUME LoaderAssumption, IInv, Next
    PROVE  \/ todo' = todo /\ (status' = status \/ status' \in {"ready", "failed"})
           \/ /\ todo # <<>> /\ todo' = Tail(todo) /\ status' = status
              /\ \/ FileLoaded /\ status = "loading"
                 \/ InitModule /\ status = "initialising"
                 \/ InitImports /\ status = "stdlib"
           \/ todo' = Order /\ status = "loading" /\ FilesLoaded /\ status' = "initialising"
           \/ todo' = Order /\ status' = "stdlib"
<1>1. CASE FileLoaded
  BY <1>1 DEF FileLoaded
<1>2. CASE FilesLoaded
  BY <1>2 DEF FilesLoaded
<1>3. CASE InitModule
  BY <1>3 DEF InitModule
<1>4. CASE ModulesInited
  BY <1>4 DEF ModulesInited
<1>5. CASE InitImports
  BY <1>5 DEF InitImports
<1>6. CASE Prepared \/ GiveUp \/ BundleReady
  BY <1>6 DEF Prepared, GiveUp, BundleReady
<1> QED
  BY <1>1, <1>2, <1>3, <1>4, <1>5, <1>6, Unchanged

\* While the modules of an archive are read, none of them calls for another.
LEMMA ArchiveReadFlat ==
    ASSUME LoaderAssumption, IInv, mode = "bundle", status = "loading"
    PROVE  stack = <<>>
<1> SUFFICES ASSUME stack # <<>> PROVE FALSE
  OBVIOUS
<1>1. /\ TypeOK /\ Len(stack) \in Nat \ {0} /\ DOMAIN stack = 1..Len(stack)
  BY TopFacts DEF IInv
<1>2. 1 \in DOMAIN stack
  BY <1>1
<1>3. stack[1].kind = "load"
  <2>1. stack[1].kind \in Importing \cup Initialising
    BY <1>1, <1>2, StackFacts
  <2> QED
    BY <1>2, <2>1 DEF IInv, Phases, Importing, Initialising
<1>4. Asked(0, stack[1].mod) /\ ~Archived(stack[1].mod)
  BY <1>2, <1>3 DEF IInv, Calls, LoadsUnderWay
<1>5. todo # <<>> /\ stack[1].mod = Head(todo)
  BY <1>4 DEF Asked, AskedIn
<1>6. Head(todo) \in Project
  BY <1>1, <1>5, TailOf DEF TypeOK
<1> QED
  BY <1>4, <1>5, <1>6 DEF Archived

\* No file comes twice, whatever is left of them.
LEMMA TodoDistinct ==
    ASSUME LoaderAssumption, IInv
    PROVE  /\ \A i, j \in DOMAIN Order : Order[i] = Order[j] => i = j
           /\ todo # <<>> =>
                /\ \A i, j \in DOMAIN Tail(todo) : Tail(todo)[i] = Tail(todo)[j] => i = j
                /\ \A i \in DOMAIN Tail(todo) :
                    /\ i + 1 \in DOMAIN todo /\ Tail(todo)[i] = todo[i + 1] /\ i \in Nat \ {0}
                    /\ Tail(todo)[i] # Head(todo)
<1>1. \A i, j \in DOMAIN Order : Order[i] = Order[j] => i = j
  BY DEF LoaderAssumption
<1>2. ASSUME todo # <<>>
      PROVE  /\ \A i, j \in DOMAIN Tail(todo) : Tail(todo)[i] = Tail(todo)[j] => i = j
             /\ \A i \in DOMAIN Tail(todo) :
                    /\ i + 1 \in DOMAIN todo /\ Tail(todo)[i] = todo[i + 1] /\ i \in Nat \ {0}
                    /\ Tail(todo)[i] # Head(todo)
  <2>1. todo \in Seq(Project) /\ \A i, j \in DOMAIN todo : todo[i] = todo[j] => i = j
    BY DEF IInv, TypeOK, FilesToCome
  <2>2. /\ Len(todo) \in Nat \ {0} /\ DOMAIN Tail(todo) = 1..(Len(todo) - 1)
        /\ \A i \in 1..(Len(todo) - 1) : i + 1 \in 1..Len(todo) /\ Tail(todo)[i] = todo[i + 1]
        /\ Head(todo) = todo[1]
    BY <1>2, <2>1, TailOf
  <2>3. DOMAIN todo = 1..Len(todo)
    BY <2>1, SeqFacts
  <2>4. 1 \in DOMAIN todo
    BY <2>2, <2>3
  <2>5. ASSUME NEW i \in DOMAIN Tail(todo)
        PROVE  /\ i + 1 \in DOMAIN todo /\ Tail(todo)[i] = todo[i + 1] /\ i \in Nat \ {0}
               /\ Tail(todo)[i] # Head(todo)
    <3>1. i \in Nat \ {0} /\ i + 1 \in DOMAIN todo /\ Tail(todo)[i] = todo[i + 1]
      BY <2>2, <2>3, <2>5
    <3>2. i + 1 # 1
      BY <3>1
    <3> QED
      BY <2>1, <2>2, <2>4, <3>1, <3>2
  <2>6. ASSUME NEW i \in DOMAIN Tail(todo), NEW j \in DOMAIN Tail(todo),
               Tail(todo)[i] = Tail(todo)[j]
        PROVE  i = j
    <3>1. i + 1 = j + 1
      BY <2>1, <2>5, <2>6
    <3>2. i \in Nat /\ j \in Nat
      BY <2>5
    <3> QED
      BY <3>1, <3>2
  <2> QED
    BY <2>5, <2>6
<1> QED
  BY <1>1, <1>2

\* An archive's modules to come that are in l.Loading: the one just read, at most.
LEMMA ArchiveToCome ==
    ASSUME LoaderAssumption, IInv, Next, mode = "bundle", status' = "loading",
           NEW i \in DOMAIN todo', todo'[i] \in loading'
    PROVE  i = 1 /\ calling' = None /\ reply' # "none"
<1>1. /\ TypeOK /\ Calls /\ None \notin Modules /\ loading \subseteq Modules
      /\ cache \subseteq Modules
      /\ \A k, l \in DOMAIN todo : todo[k] = todo[l] => k = l
  BY DEF IInv, LoaderAssumption, TypeOK, FilesToCome
<1>2. status = "loading" /\ ((todo' = todo /\ ~FileLoaded)
                              \/ (todo # <<>> /\ todo' = Tail(todo) /\ FileLoaded))
  <2>1. status = "loading" /\ (todo' = todo \/ (todo # <<>> /\ todo' = Tail(todo) /\ FileLoaded))
    BY TodoMoves
  <2>2. FileLoaded => todo # <<>> /\ todo' = Tail(todo)
    BY DEF FileLoaded
  <2> QED
    BY <2>1, <2>2
<1>3. stack = <<>> /\ Len(stack) = 0
  BY <1>2, ArchiveReadFlat
<1>4. \A k \in DOMAIN todo : todo[k] \in loading => k = 1 /\ calling = None /\ reply # "none"
  BY <1>2 DEF IInv, FilesToCome
<1>5. calling # None => /\ calling = todo[1] /\ todo # <<>> /\ 1 \in DOMAIN todo
                        /\ calling \in Project /\ Archived(calling)
  <2> SUFFICES ASSUME calling # None
               PROVE  /\ calling = todo[1] /\ todo # <<>> /\ 1 \in DOMAIN todo
                      /\ calling \in Project /\ Archived(calling)
    OBVIOUS
  <2>1. Asked(Len(stack), calling)
    BY <1>1 DEF Calls
  <2> QED
    BY <1>1, <1>3, <2>1, CallFacts DEF Archived
<1>6. CASE todo # <<>> /\ todo' = Tail(todo) /\ FileLoaded
  <2>1. loading' = loading
    BY <1>6 DEF FileLoaded
  <2>2. i + 1 \in DOMAIN todo /\ todo'[i] = todo[i + 1] /\ i \in Nat \ {0}
    BY <1>6, TodoDistinct
  <2>3. i + 1 = 1
    BY <1>4, <2>1, <2>2
  <2> QED
    BY <2>2, <2>3
<1>7. CASE todo' = todo /\ ~FileLoaded
  <2>1. CASE Decode
    <3>1. calling # None /\ loading' = loading \cup {calling} /\ reply' # "none" /\ calling' = None
      BY <1>1, <2>1 DEF Decode, Return, Modules
    <3>2. todo[i] = todo[1] /\ 1 \in DOMAIN todo
      BY <1>4, <1>5, <1>7, <3>1
    <3> QED
      BY <1>1, <1>7, <3>1, <3>2
  <2>2. CASE ~Decode
    <3>1. ~Open
      <4> SUFFICES ASSUME Open PROVE FALSE
        OBVIOUS
      <4>1. calling \in Modules /\ ~Archived(calling)
        BY <1>1, OpenDoes
      <4> QED
        BY <1>1, <1>5, <4>1
    <3>2. loading' = loading
      BY <1>3, <2>2, <3>1, LoadingMoves
    <3>3. i = 1 /\ calling = None /\ reply # "none"
      BY <1>4, <1>7, <3>2
    <3>4. ~CacheHit /\ ~Circular
      BY <1>1, <3>3 DEF CacheHit, Circular
    <3>5. ~ImportNext /\ ~BindNext /\ ~Finish /\ ~Propagate /\ ~LoadFile /\ ~InitStd
          /\ ~StdLoaded
      BY <1>3, <3>3 DEF ImportNext, BindNext, Finish, Propagate, LoadFile, InitStd, StdLoaded,
         Idle
    <3> QED
      BY <1>7, <2>2, <3>1, <3>3, <3>4, <3>5, Unchanged
  <2> QED
    BY <2>1, <2>2
<1> QED
  BY <1>2, <1>6, <1>7

\* FilesToCome is kept.
LEMMA FilesToComeKept ==
    ASSUME LoaderAssumption, IInv, Next
    PROVE  FilesToCome'
<1>1. /\ TypeOK /\ Calls /\ FilesToCome /\ mode' = mode
      /\ \A i, j \in DOMAIN todo : todo[i] = todo[j] => i = j
  BY Unchanged DEF IInv, FilesToCome
<1>2. \A i, j \in DOMAIN todo' : todo'[i] = todo'[j] => i = j
  BY <1>1, TodoMoves, TodoDistinct
<1>3. ASSUME mode = "build", status' = "loading", NEW m \in Project
      PROVE  m \in cache' \/ \E i \in DOMAIN todo' : todo'[i] = m
  <2>1. status = "loading" /\ (m \in cache \/ \E i \in DOMAIN todo : todo[i] = m)
    BY <1>1, <1>3, TodoMoves DEF FilesToCome
  <2>2. CASE todo' = todo
    BY <2>1, <2>2, CachedStays
  <2>3. CASE FileLoaded
    <3>1. stack = <<>> /\ todo # <<>> /\ reply = "ok" /\ todo' = Tail(todo)
      BY <1>3, <2>3 DEF FileLoaded
    <3>2. PICK k \in cache : Asked(Len(stack), k)
      BY <1>1, <3>1 DEF Calls
    <3>3. todo[1] \in cache
      BY <1>1, <3>1, <3>2, CallFacts
    <3>4. ASSUME NEW i \in DOMAIN todo, i # 1
          PROVE  \E j \in DOMAIN Tail(todo) : Tail(todo)[j] = todo[i]
      BY <1>1, <3>1, <3>4, InTail DEF TypeOK
    <3> QED
      BY <2>1, <3>1, <3>3, <3>4, CachedStays
  <2> QED
    BY <1>3, <2>1, <2>2, <2>3, TodoMoves
<1>4. ASSUME status' = "loading" PROVE inited' = <<>>
  <2>1. status = "loading" /\ inited = <<>>
    BY <1>1, <1>4, TodoMoves DEF FilesToCome
  <2>2. ~InitModule
    BY <2>1 DEF InitModule
  <2>3. stack # <<>> => Top.kind # "init"
    <3> SUFFICES ASSUME stack # <<>> PROVE Top.kind # "init"
      OBVIOUS
    <3>1. Len(stack) \in DOMAIN stack /\ Top = stack[Len(stack)]
      BY <1>1, TopFacts
    <3> QED
      BY <2>1, <3>1 DEF IInv, Phases, Initialising
  <2> QED
    BY <2>1, <2>2, <2>3, InitedMoves
<1>5. ASSUME status' = "initialising", NEW i \in DOMAIN todo'
      PROVE  todo'[i] \notin Initialised'
  <2>1. CASE FilesLoaded
    <3>1. status = "loading" /\ inited' = inited
      BY <2>1 DEF FilesLoaded
    <3>2. inited' = <<>>
      BY <1>1, <3>1 DEF FilesToCome
    <3> QED
      BY <3>2 DEF Initialised
  <2>2. CASE status = "initialising"
    <3>1. /\ \A j \in DOMAIN todo : todo[j] \notin Initialised
          /\ stack = <<>>
      BY <1>1, <2>2, QuietWhileInitialising DEF FilesToCome
    <3>2. CASE todo' = todo
      <4>1. ~InitModule
        <5> SUFFICES ASSUME InitModule PROVE FALSE
          OBVIOUS
        <5>1. todo # <<>> /\ todo' = Tail(todo)
          BY <1>5 DEF InitModule
        <5>2. todo \in Seq(Project)
          BY <1>1 DEF TypeOK
        <5>3. Len(Tail(todo)) = Len(todo) - 1 /\ Len(todo) \in Nat
          BY <5>1, <5>2, TailOf
        <5> QED
          BY <3>2, <5>1, <5>3
      <4> QED
        BY <3>1, <3>2, <4>1, InitedMoves
    <3>3. CASE todo # <<>> /\ todo' = Tail(todo)
      <4>1. todo'[i] = todo[i + 1] /\ i + 1 \in DOMAIN todo /\ todo'[i] # Head(todo)
        BY <3>3, TodoDistinct
      <4> QED
        BY <3>1, <4>1, InitedMoves
    <3> QED
      BY <1>5, <2>2, <3>2, <3>3, TodoMoves
  <2> QED
    BY <1>5, <2>1, <2>2, TodoMoves
<1> QED
  BY <1>1, <1>2, <1>3, <1>4, <1>5, ArchiveToCome DEF FilesToCome

\* The elements before the last of a sequence of one element more are those it had.
LEMMA BeforeOf ==
    ASSUME NEW S, NEW s \in Seq(S), NEW x \in S, NEW i \in DOMAIN Append(s, x)
    PROVE  \/ i \in DOMAIN s /\ Append(s, x)[i] = s[i] /\ Before(Append(s, x), i) = Before(s, i)
           \/ Append(s, x)[i] = x /\ Before(Append(s, x), i) = {s[j] : j \in DOMAIN s}
<1> DEFINE t == Append(s, x)
<1>1. /\ Len(s) \in Nat /\ DOMAIN s = 1..Len(s) /\ DOMAIN t = 1..(Len(s) + 1)
      /\ \A j \in 1..Len(s) : t[j] = s[j]
      /\ t[Len(s) + 1] = x
  BY Appended
<1>2. i \in 1..(Len(s) + 1)
  BY <1>1
<1> HIDE DEF t
<1>3. CASE i = Len(s) + 1
  <2>1. 1..(i - 1) = 1..Len(s)
    BY <1>1, <1>3
  <2> QED
    BY <1>1, <1>3, <2>1 DEF Before, t
<1>4. CASE i # Len(s) + 1
  <2>1. i \in 1..Len(s) /\ \A j \in 1..(i - 1) : j \in 1..Len(s)
    BY <1>1, <1>2, <1>4
  <2> QED
    BY <1>1, <2>1 DEF Before, t
<1> QED
  BY <1>3, <1>4

\* What is read of an archive: ArchiveRead is kept.
LEMMA ArchiveReadKept ==
    ASSUME LoaderAssumption, IInv, Next
    PROVE  ArchiveRead'
<1>1. /\ TypeOK /\ Calls /\ FilesToCome /\ ArchiveRead /\ program' = program /\ mode' = mode
      /\ None \notin Modules /\ loading \subseteq Modules /\ cache \subseteq cache'
  BY Unchanged, CachedStays DEF IInv, LoaderAssumption, TypeOK
<1>2. SUFFICES ASSUME mode = "bundle", NEW m \in Project
               PROVE  ReadIn(status', todo', reply', cache', m)
  BY <1>1 DEF ArchiveRead, ReadIn, Readable
<1>3. ReadIn(status, todo, reply, cache, m)
  BY <1>1, <1>2 DEF ArchiveRead
<1>4. m \in cache' => Readable(m)
  <2>1. CASE cache' = cache
    BY <1>3, <2>1 DEF ReadIn
  <2>2. CASE Decode /\ cache' # cache
    <3>1. Readable(calling) /\ cache' = cache \cup {calling}
      BY <2>2 DEF Decode, Readable
    <3> QED
      BY <1>3, <3>1 DEF ReadIn
  <2>3. CASE cache' = cache \cup {Top.mod} /\ program[Top.mod].fault = "none"
    BY <1>3, <2>3 DEF ReadIn, Readable
  <2> QED
    BY <2>1, <2>2, <2>3, CacheMoves
<1>5. ASSUME status' = "loading", Readable(m)
      PROVE  /\ m \in cache' \/ \E i \in DOMAIN todo' : todo'[i] = m
             /\ todo' # <<>> /\ m = todo'[1] /\ reply' # "none" => m \in cache'
  <2>1. status = "loading" /\ ((todo' = todo /\ ~FileLoaded)
                                \/ (todo # <<>> /\ todo' = Tail(todo) /\ FileLoaded))
    <3>1. status = "loading"
          /\ (todo' = todo \/ (todo # <<>> /\ todo' = Tail(todo) /\ FileLoaded))
      BY <1>5, TodoMoves
    <3>2. FileLoaded => todo # <<>> /\ todo' = Tail(todo)
      BY DEF FileLoaded
    <3> QED
      BY <3>1, <3>2
  <2>2. /\ m \in cache \/ \E i \in DOMAIN todo : todo[i] = m
        /\ todo # <<>> /\ m = todo[1] /\ reply # "none" => m \in cache
    BY <1>3, <1>5, <2>1 DEF ReadIn
  <2>3. CASE todo # <<>> /\ todo' = Tail(todo) /\ FileLoaded
    <3>1. reply # "none" /\ reply' = "none"
      BY <2>3 DEF FileLoaded, Errors
    <3>2. ASSUME NEW i \in DOMAIN todo, i # 1
          PROVE  \E j \in DOMAIN Tail(todo) : Tail(todo)[j] = todo[i]
      BY <1>1, <2>3, <3>2, InTail DEF TypeOK
    <3> QED
      BY <1>1, <2>2, <2>3, <3>1, <3>2
  <2>4. CASE todo' = todo /\ ~FileLoaded
    <3>1. SUFFICES ASSUME todo # <<>>, m = todo[1], reply' # "none", reply' # reply
                   PROVE  m \in cache'
      BY <1>1, <2>2, <2>4
    <3>2. stack = <<>> /\ Len(stack) = 0
      BY <1>2, <2>1, ArchiveReadFlat
    <3>3. CacheHit \/ Circular \/ Decode \/ Open
      BY <2>4, <3>1, <3>2, Unchanged
      DEF ImportNext, BindNext, Finish, Propagate, StdLoaded
    <3>4. calling # None
      BY <1>1, <3>3 DEF CacheHit, Circular, Decode, Open, TypeOK, Modules
    <3>5. calling = m /\ 1 \in DOMAIN todo /\ Archived(m)
      <4>1. Asked(Len(stack), calling)
        BY <1>1, <3>4 DEF Calls
      <4> QED
        BY <1>1, <1>2, <3>1, <3>2, <4>1, CallFacts DEF Archived
    <3>6. ~Open
      BY <3>5 DEF Open
    <3>7. ~Circular
      BY <1>1, <1>2, <2>1, <3>1, <3>4, <3>5 DEF Circular, FilesToCome
    <3>8. CASE CacheHit
      BY <1>1, <3>5, <3>8 DEF CacheHit
    <3>9. CASE Decode
      BY <1>5, <3>5, <3>9 DEF Decode, Readable
    <3> QED
      BY <3>3, <3>6, <3>7, <3>8, <3>9
  <2> QED
    BY <2>1, <2>3, <2>4
<1>6. ASSUME status' = "initialising", Readable(m) PROVE m \in cache'
  <2>1. CASE status = "initialising"
    BY <1>1, <1>3, <1>6, <2>1 DEF ReadIn
  <2>2. CASE FilesLoaded
    <3>1. status = "loading" /\ todo = <<>>
      BY <2>2 DEF FilesLoaded
    <3> QED
      BY <1>1, <1>3, <1>6, <3>1 DEF ReadIn
  <2> QED
    BY <1>6, <2>1, <2>2, TodoMoves
<1> QED
  BY <1>4, <1>5, <1>6 DEF ReadIn

\* The file whose turn it is in an archive.
LEMMA NextOfArchive ==
    ASSUME LoaderAssumption, IInv, status = "initialising", todo # <<>>,
           NEW n, n = Len(Order) - Len(todo)
    PROVE  /\ n \in Nat /\ n + 1 \in DOMAIN Order /\ Head(todo) = Order[n + 1]
           /\ Head(todo) \in Project /\ Head(todo) \notin Initialised
           /\ Head(todo) \in cache \ {Entry} <=> Head(todo) \in Runnable
           /\ Initialised = Runnable \cap {Order[j] : j \in 1..n}
           /\ Len(Order) - Len(Tail(todo)) = n + 1 /\ Len(Tail(todo)) <= Len(Order)
           /\ \A i \in DOMAIN Tail(todo) : Tail(todo)[i] = Order[(n + 1) + i]
<1>1. /\ mode = "bundle" /\ todo \in Seq(Project) /\ Order \in Seq(Project)
      /\ Len(todo) <= Len(Order)
      /\ \A i \in DOMAIN todo : todo[i] = Order[n + i] /\ todo[i] \notin Initialised
      /\ Initialised = Runnable \cap {Order[j] : j \in 1..n}
  BY DEF IInv, TypeOK, Phases, ArchiveRun, FilesToCome, LoaderAssumption
<1>2. /\ Len(todo) \in Nat \ {0} /\ Head(todo) = todo[1] /\ Head(todo) \in Project
      /\ Len(Tail(todo)) = Len(todo) - 1 /\ DOMAIN Tail(todo) = 1..(Len(todo) - 1)
      /\ \A i \in 1..(Len(todo) - 1) : i + 1 \in 1..Len(todo) /\ Tail(todo)[i] = todo[i + 1]
      /\ DOMAIN todo = 1..Len(todo) /\ Len(Order) \in Nat /\ DOMAIN Order = 1..Len(Order)
  BY <1>1, TailOf, SeqFacts
<1>3. /\ n \in Nat /\ n + 1 \in DOMAIN Order /\ 1 \in DOMAIN todo
      /\ Len(Order) - Len(Tail(todo)) = n + 1 /\ Len(Tail(todo)) <= Len(Order)
  BY <1>1, <1>2
<1>4. Head(todo) = Order[n + 1] /\ Head(todo) \notin Initialised
  BY <1>1, <1>2, <1>3
<1>5. ASSUME NEW i \in DOMAIN Tail(todo) PROVE Tail(todo)[i] = Order[(n + 1) + i]
  <2>1. i + 1 \in DOMAIN todo /\ Tail(todo)[i] = todo[i + 1]
    BY <1>2
  <2>2. n + (i + 1) = (n + 1) + i
    BY <1>2, <1>3
  <2> QED
    BY <1>1, <2>1, <2>2
<1>6. Head(todo) \in cache <=> Readable(Head(todo))
  BY <1>1, <1>2 DEF IInv, ArchiveRead, ReadIn
<1>7. Head(todo) \in cache \ {Entry} <=> Head(todo) \in Runnable
  BY <1>2, <1>6 DEF Runnable, Readable
<1> QED
  BY <1>1, <1>2, <1>3, <1>4, <1>5, <1>7

\* What is executed of an archive: ArchiveRun is kept.
LEMMA ArchiveRunKept ==
    ASSUME LoaderAssumption, IInv, Next
    PROVE  ArchiveRun'
<1>1. /\ TypeOK /\ ArchiveRun /\ program' = program /\ Runnable' = Runnable
      /\ Order \in Seq(Project) /\ Len(Order) \in Nat /\ DOMAIN Order = 1..Len(Order)
      /\ Project = {Order[i] : i \in DOMAIN Order} /\ todo \in Seq(Project)
      /\ Initialised \subseteq Initialised'
  BY Unchanged, CachedStays, SeqFacts DEF IInv, LoaderAssumption, TypeOK, Runnable
<1> DEFINE n == Len(Order) - Len(todo)
           n1 == Len(Order) - Len(todo')
<1>2. ASSUME status' = "initialising"
      PROVE  /\ Len(todo') <= Len(Order)
             /\ \A i \in DOMAIN todo' : todo'[i] = Order[n1 + i]
             /\ Initialised' = Runnable \cap {Order[j] : j \in 1..n1}
  <2>1. CASE FilesLoaded
    <3>1. todo' = Order /\ status = "loading" /\ inited' = inited
      BY <1>2, <2>1 DEF FilesLoaded
    <3>2. inited' = <<>>
      BY <3>1 DEF IInv, FilesToCome
    <3>3. Initialised' = {}
      BY <3>2 DEF Initialised
    <3>4. n1 = 0 /\ Len(todo') <= Len(Order) /\ \A i \in DOMAIN Order : n1 + i = i
      BY <1>1, <3>1
    <3>5. 1..0 = {}
      OBVIOUS
    <3> QED
      BY <3>1, <3>3, <3>4, <3>5
  <2>2. CASE status = "initialising"
    <3>1. stack = <<>> /\ ~StdInited
      BY <2>2, QuietWhileInitialising DEF StdInited
    <3>2. CASE InitModule
      <4>1. todo # <<>> /\ todo' = Tail(todo)
        BY <1>2, <3>2 DEF InitModule
      <4>2. /\ n \in Nat /\ Head(todo) = Order[n + 1]
            /\ Head(todo) \in cache \ {Entry} <=> Head(todo) \in Runnable
            /\ Initialised = Runnable \cap {Order[j] : j \in 1..n}
            /\ n1 = n + 1 /\ Len(todo') <= Len(Order)
            /\ \A i \in DOMAIN todo' : todo'[i] = Order[(n + 1) + i]
        BY <2>2, <4>1, NextOfArchive
      <4>3. Initialised' = IF Head(todo) \in cache \ {Entry} THEN Initialised \cup {Head(todo)}
                           ELSE Initialised
        <5>1. CASE Head(todo) \in cache \ {Entry}
          <6>1. inited' # inited
            <7>1. inited' = Append(inited, Head(todo)) /\ inited \in Seq(Modules)
              BY <3>2, <5>1 DEF InitModule, IInv, TypeOK
            <7>2. Len(Append(inited, Head(todo))) = Len(inited) + 1 /\ Len(inited) \in Nat
              BY <1>1, <5>1, <7>1, Appended DEF TypeOK
            <7> QED
              BY <7>1, <7>2
          <6> QED
            BY <3>1, <5>1, <6>1, InitedMoves
        <5>2. CASE Head(todo) \notin cache \ {Entry}
          BY <3>1, <5>2, InitedMoves
        <5> QED
          BY <5>1, <5>2
      <4>4. \A j : j \in 1..(n + 1) <=> j \in 1..n \/ j = n + 1
        BY <4>2
      <4> HIDE DEF n, n1
      <4>5. {Order[j] : j \in 1..(n + 1)} = {Order[j] : j \in 1..n} \cup {Order[n + 1]}
        BY <4>4
      <4> QED
        BY <4>2, <4>3, <4>5
    <3>3. CASE ~InitModule
      <4>1. Initialised' = Initialised
        BY <3>1, <3>3, InitedMoves
      <4>2. todo' = todo
        BY <1>2, <2>2, <3>3, TodoMoves
      <4> QED
        BY <1>1, <2>2, <4>1, <4>2 DEF ArchiveRun
    <3> QED
      BY <3>2, <3>3
  <2> QED
    BY <1>2, <2>1, <2>2, TodoMoves
<1>3. ASSUME status' = "stdlib" PROVE Runnable \subseteq Initialised'
  <2>1. CASE status = "stdlib"
    BY <1>1, <2>1 DEF ArchiveRun
  <2>2. CASE ModulesInited
    <3>1. status = "initialising" /\ todo = <<>> /\ Len(todo) = 0
      BY <2>2 DEF ModulesInited
    <3>2. Len(Order) - 0 = Len(Order)
      BY <1>1
    <3>3. Initialised = Runnable \cap {Order[j] : j \in 1..Len(Order)}
      BY <1>1, <3>1, <3>2 DEF ArchiveRun
    <3> QED
      BY <1>1, <3>3 DEF Runnable
  <2> QED
    BY <1>3, <2>1, <2>2, Unchanged
    DEF Prepared, GiveUp, FilesLoaded, InitModule, BundleReady
<1> QED
  BY <1>1, <1>2, <1>3 DEF ArchiveRun

\* LoadOrder is kept.
LEMMA LoadOrderKept ==
    ASSUME LoaderAssumption, IInv, Next
    PROVE  LoadOrder'
<1>1. /\ TypeOK /\ LoadOrder /\ program' = program /\ program \in Programs
      /\ ran \in Seq(Modules)
      /\ ImportGraph(program)' = ImportGraph(program)
  BY Unchanged DEF IInv, RunsOnceInOrder, TypeOK, ImportGraph
<1>2. ASSUME NEW i \in DOMAIN ran'
      PROVE  /\ ran'[i] \notin Before(ran', i)
             /\ ImportGraph(program)[ran'[i]] \subseteq Before(ran', i)
  <2>1. CASE ran' = ran
    BY <1>1, <1>2, <2>1 DEF LoadOrder
  <2>2. CASE Finish /\ ran' = Append(ran, Top.mod)
    <3>1. stack # <<>> /\ Top.kind = "load" /\ Idle /\ Top.next > Len(Imports(Top.mod))
      BY <1>1, <2>2, FinishDoes
    <3>2. Top.mod \in Modules \ cache /\ ~Archived(Top.mod) /\ Top.kind \in Importing
      BY <3>1, LoadOnTop
    <3>3. Top.mod \notin Executed
      BY <3>1, <3>2 DEF IInv, CacheSound, Idle, Errors
    <3>4. ImportGraph(program)[Top.mod] \subseteq Executed
      <4>1. ImportGraph(program)[Top.mod] \subseteq cache
        BY <3>1, <3>2, FinishedImports
      <4>2. \A k \in ImportGraph(program)[Top.mod] : ~Archived(k)
        BY <3>2, SourceImports
      <4> QED
        BY <4>1, <4>2 DEF IInv, CacheSound
    <3> DEFINE m == Top.mod
    <3>5. \/ i \in DOMAIN ran /\ ran'[i] = ran[i] /\ Before(ran', i) = Before(ran, i)
          \/ ran'[i] = m /\ Before(ran', i) = Executed
      <4>1. m \in Modules /\ ran' = Append(ran, m)
        BY <2>2, <3>2
      <4> HIDE DEF m
      <4> QED
        BY <1>1, <1>2, <4>1, BeforeOf DEF Executed
    <3> QED
      BY <1>1, <3>3, <3>4, <3>5 DEF LoadOrder
  <2> QED
    BY <2>1, <2>2, RanMoves
<1> QED
  BY <1>1, <1>2 DEF LoadOrder

\* Module m may be the next that a bundle's VM executes, after those before.
InTurn(m, before) ==
    /\ m \notin before \cup {Entry}
    /\ \A n \in DOMAIN Order : m = Order[n] =>
          before = Runnable \cap {Order[j] : j \in 1..(n - 1)}
    /\ m \in Std => Runnable \cup ImportGraph(program)[m] \subseteq before

\* BundleOrder is kept.
LEMMA BundleOrderKept ==
    ASSUME LoaderAssumption, IInv, Next
    PROVE  BundleOrder'
<1>1. /\ TypeOK /\ program' = program /\ program \in Programs /\ inited \in Seq(Modules)
      /\ Runnable' = Runnable /\ ImportGraph(program)' = ImportGraph(program)
      /\ \A i \in DOMAIN inited : InTurn(inited[i], Before(inited, i))
  <2>1. program' = program
    BY Unchanged
  <2>2. Runnable' = Runnable /\ ImportGraph(program)' = ImportGraph(program)
    BY <2>1 DEF Runnable, ImportGraph
  <2>3. \A i \in DOMAIN inited : InTurn(inited[i], Before(inited, i))
    BY DEF IInv, RunsOnceInOrder, BundleOrder, InTurn
  <2> QED
    BY <2>1, <2>2, <2>3 DEF IInv, TypeOK
<1>2. SUFFICES ASSUME NEW i \in DOMAIN inited' PROVE InTurn(inited'[i], Before(inited', i))
  BY <1>1 DEF BundleOrder, InTurn
<1>3. ASSUME NEW m \in Modules, inited' = Append(inited, m), InTurn(m, Initialised)
      PROVE  InTurn(inited'[i], Before(inited', i))
  <2>1. \/ /\ i \in DOMAIN inited /\ inited'[i] = inited[i]
           /\ Before(inited', i) = Before(inited, i)
        \/ inited'[i] = m /\ Before(inited', i) = Initialised
    BY <1>1, <1>2, <1>3, BeforeOf DEF Initialised
  <2> QED
    BY <1>1, <1>3, <2>1
<1>4. CASE inited' = inited
  BY <1>1, <1>2, <1>4
<1>5. CASE /\ InitModule /\ todo # <<>> /\ Head(todo) \in cache \ {Entry}
           /\ inited' = Append(inited, Head(todo))
  <2> DEFINE n == Len(Order) - Len(todo)
  <2>1. status = "initialising"
    BY <1>5 DEF InitModule
  <2>2. /\ n \in Nat /\ n + 1 \in DOMAIN Order /\ Head(todo) = Order[n + 1]
        /\ Head(todo) \in Project /\ Head(todo) \notin Initialised
        /\ Initialised = Runnable \cap {Order[j] : j \in 1..n}
    BY <1>5, <2>1, NextOfArchive
  <2>3. Head(todo) \in Modules \ Std
    BY <2>2 DEF LoaderAssumption, Modules
  <2>4. (n + 1) - 1 = n
    BY <2>2
  <2> HIDE DEF n
  <2>5. ASSUME NEW k \in DOMAIN Order, Head(todo) = Order[k]
        PROVE  Initialised = Runnable \cap {Order[j] : j \in 1..(k - 1)}
    <3>1. k = n + 1
      BY <2>2, <2>5 DEF LoaderAssumption
    <3> QED
      BY <2>2, <2>4, <3>1
  <2>6. InTurn(Head(todo), Initialised)
    BY <1>5, <2>2, <2>3, <2>5 DEF InTurn
  <2> QED
    BY <1>3, <1>5, <2>3, <2>6
<1>6. CASE /\ StdInited /\ stack # <<>> /\ Top.kind = "init"
           /\ inited' = Append(inited, Top.mod)
  <2>1. /\ Len(stack) \in DOMAIN stack /\ Top = stack[Len(stack)] /\ Top.mod \in Modules
        /\ Top.next \in Nat \ {0}
    BY <1>1, <1>6, TopFacts
  <2>2. Top.mod \in Std \ Initialised /\ status = "stdlib"
    BY <1>6, <2>1 DEF IInv, InitsUnderWay, Phases, Initialising
  <2>3. Top.mod # Entry /\ Top.mod \notin Project
    BY <2>2 DEF LoaderAssumption
  <2>4. Top.next > Len(Imports(Top.mod))
    BY <1>1, <1>6, InitedDoes
  <2>5. Len(Imports(Top.mod)) \in Nat /\ DOMAIN Imports(Top.mod) = 1..Len(Imports(Top.mod))
    BY <1>1, <2>1, ModuleFacts DEF Imports
  <2>6. \A k \in DOMAIN Imports(Top.mod) : k \in 1..(Top.next - 1)
    BY <2>1, <2>4, <2>5
  <2>7. \A k \in DOMAIN Imports(Top.mod) :
           Imports(Top.mod)[k].of \in Std => Imports(Top.mod)[k].of \in Initialised
    BY <1>6, <2>1, <2>6 DEF IInv, ImportsDone, Initialising
  <2>8. ImportGraph(program)[Top.mod] \subseteq Initialised
    <3> DEFINE m == Top.mod
    <3>1. m \in Modules /\ m \in Std
      BY <2>1, <2>2
    <3>2. \A k \in DOMAIN Imports(m) :
             Imports(m)[k].of \in Std => Imports(m)[k].of \in Initialised
      BY <2>7
    <3> HIDE DEF m
    <3>3. \A j \in ImportGraph(program)[m] :
            j \in Std /\ \E k \in DOMAIN program[m].imports : program[m].imports[k].of = j
      BY <1>1, <3>1, ModuleFacts
    <3>4. ImportGraph(program)[m] \subseteq Initialised
      BY <3>2, <3>3 DEF Imports
    <3> QED
      BY <3>4 DEF m
  <2>9. Runnable \subseteq Initialised
    BY <2>2 DEF IInv, ArchiveRun
  <2>10. \A k \in DOMAIN Order : Order[k] \in Project
    BY DEF LoaderAssumption
  <2>11. InTurn(Top.mod, Initialised)
    BY <2>2, <2>3, <2>8, <2>9, <2>10 DEF InTurn
  <2> QED
    BY <1>3, <1>6, <2>1, <2>11
<1> QED
  BY <1>4, <1>5, <1>6, InitedMoves

\* A load that is asked for while it is under way goes round a cycle.
LEMMA CircularIsCycle ==
    ASSUME LoaderAssumption, IInv, Circular
    PROVE  verdict.cyclic # {}
<1>1. /\ TypeOK /\ Calls /\ calling \in loading \ cache /\ loading \subseteq Modules
      /\ None \notin Modules /\ verdict = Verdict(program) /\ program \in Programs
  BY DEF IInv, TypeOK, Circular, LoaderAssumption
<1>2. calling \in Modules /\ Asked(Len(stack), calling)
  BY <1>1 DEF Calls
<1>3. ~Archived(calling)
  <2>1. CASE stack = <<>>
    <3>1. /\ status = "loading" /\ calling = todo[1] /\ 1 \in DOMAIN todo
      BY <1>1, <1>2, <2>1, CallFacts
    <3>2. mode # "bundle"
      BY <1>1, <1>2, <3>1 DEF IInv, FilesToCome
    <3> QED
      BY <3>2 DEF Archived
  <2>2. CASE stack # <<>> /\ Top.kind = "init"
    <3>1. Len(stack) \in DOMAIN stack /\ Top = stack[Len(stack)]
      BY <1>1, <2>2, TopFacts
    <3>2. calling = Top.mod /\ Top.mod \in Std
      BY <1>1, <1>2, <2>2, <3>1, CallFacts DEF Importing, IInv, InitsUnderWay
    <3> QED
      BY <3>2 DEF Archived, LoaderAssumption
  <2>3. CASE stack # <<>> /\ Top.kind # "init"
    <3>1. /\ Top.kind \in Importing /\ Top.next \in DOMAIN Imports(Top.mod)
          /\ calling = Imports(Top.mod)[Top.next].of
      BY <1>1, <1>2, <2>3, CallFacts
    <3>2. Top.mod \in Modules /\ Len(stack) \in DOMAIN stack /\ Top = stack[Len(stack)]
      BY <1>1, <2>3, TopFacts
    <3>3. calling \in ImportGraph(program)[Top.mod]
      BY <1>1, <1>2, <3>1, <3>2, ImportedIs
    <3>4. CASE Top.kind = "entry"
      BY <3>2, <3>4 DEF IInv, Phases, Archived
    <3>5. CASE Top.kind = "load"
      BY <2>3, <3>2, <3>3, <3>5, LoadOnTop, SourceImports
    <3> QED
      BY <3>1, <3>4, <3>5 DEF Importing
  <2> QED
    BY <2>1, <2>2, <2>3
<1>4. PICK i \in DOMAIN stack : stack[i].kind = "load" /\ stack[i].mod = calling
  BY <1>1, <1>3 DEF IInv, LoadsUnderWay
<1>5. stack[i].kind \in Importing /\ ~(stack[i].kind \in Initialising)
  BY <1>4 DEF Importing, Initialising
<1>6. stack # <<>> /\ calling \in ImportGraph(program)[Top.mod]
  BY <1>2, <1>4, <1>5, TopImports
<1>7. calling \in Reachable(program, calling)
  BY <1>4, <1>5, <1>6, UnderAll
<1> QED
  BY <1>1, <1>2, <1>7, VerdictSays

\* VerdictMatchesGraph is kept.
LEMMA VerdictKept ==
    ASSUME LoaderAssumption, IInv, Next
    PROVE  VerdictMatchesGraph'
<1>1. /\ TypeOK /\ VerdictMatchesGraph /\ program' = program /\ verdict' = verdict
      /\ mode' = mode /\ program \in Programs
      /\ ImportGraph(program)' = ImportGraph(program)
  BY Unchanged DEF IInv, TypeOK, ImportGraph
<1>2. ASSUME reply' = "circular" PROVE verdict.cyclic # {}
  <2>1. CASE Circular
    BY <2>1, CircularIsCycle
  <2>2. CASE reply = "circular"
    BY <1>1, <2>2 DEF VerdictMatchesGraph
  <2>3. ASSUME reply # "circular", ~Circular PROVE FALSE
    <3>1. ~CacheHit /\ ~Decode /\ ~Propagate /\ ~FileLoaded /\ ~StdLoaded
      BY <1>2, <2>3
      DEF CacheHit, Decode, Propagate, FileLoaded, StdLoaded, Return, Abandon
    <3>2. ~Open
      BY <1>1, <1>2, <2>3, OpenDoes
    <3>3. \A e : Abandon(e) => e = "circular"
      BY <1>2 DEF Abandon, Return
    <3>4. ~ImportNext
      BY <1>1, <1>2, <2>3, <3>3, ImportNextDoes
    <3>5. ~BindNext
      BY <1>2, <3>3 DEF BindNext
    <3>6. ~Finish
      <4> SUFFICES ASSUME Finish PROVE FALSE
        OBVIOUS
      <4>1. stack # <<>> /\ (Abandon("ok") \/ Abandon(program[Top.mod].fault))
        BY <1>1, FinishDoes
      <4>2. Top.mod \in Modules
        BY <1>1, <4>1, TopFacts
      <4>3. program[Top.mod].fault \in {"none", "unreadable", "rejected", "run"}
        BY <1>1, <4>2, ModuleFacts
      <4> QED
        BY <3>3, <4>1, <4>3
    <3> QED
      BY <1>2, <2>3, <3>1, <3>2, <3>4, <3>5, <3>6, Unchanged
  <2> QED
    BY <2>1, <2>2, <2>3
<1>3. \A m \in cache' : Archived(m) \/ m \in verdict.sound
  BY <1>1, CacheSoundKept DEF CacheSound, Archived
<1>4. ASSUME status' = "ready", status # "ready", mode = "run"
      PROVE  ImportGraph(program)[Entry] \subseteq verdict.sound
  <2>1. Prepared
    <3>1. ~BundleReady
      BY <1>4 DEF BundleReady, IInv, Phases
    <3> QED
      BY <1>4, <3>1, Unchanged DEF GiveUp, FilesLoaded, InitModule, ModulesInited
  <2>2. stack # <<>> /\ Top.kind = "entry" /\ Top.next > Len(Imports(Top.mod))
    BY <2>1 DEF Prepared
  <2>3. Len(stack) \in DOMAIN stack /\ Top = stack[Len(stack)]
    BY <1>1, <2>2, TopFacts
  <2>4. Top.mod = Entry
    BY <2>2, <2>3 DEF IInv, Phases
  <2>5. ImportGraph(program)[Entry] \subseteq cache
    BY <2>2, <2>4, FinishedImports DEF Importing
  <2> QED
    BY <1>4, <2>5 DEF IInv, CacheSound, Archived
<1>5. ASSUME status' = "ready", status # "ready", mode = "build"
      PROVE  Project \subseteq verdict.sound
  <2>1. ~BundleReady
    BY <1>5 DEF BundleReady, IInv, Phases
  <2>2. ~Prepared
    <3> SUFFICES ASSUME Prepared PROVE FALSE
      OBVIOUS
    <3>1. stack # <<>> /\ Top.kind = "entry"
      BY DEF Prepared
    <3>2. Len(stack) \in DOMAIN stack /\ Top = stack[Len(stack)]
      BY <1>1, <3>1, TopFacts
    <3> QED
      BY <1>5, <3>1, <3>2 DEF IInv, Phases
  <2>3. FilesLoaded
    BY <1>5, <2>1, <2>2, Unchanged DEF GiveUp, InitModule, ModulesInited
  <2>4. status = "loading" /\ todo = <<>>
    BY <2>3 DEF FilesLoaded
  <2>5. Project \subseteq cache
    BY <1>5, <2>4 DEF IInv, FilesToCome
  <2> QED
    BY <1>5, <2>5 DEF IInv, CacheSound, Archived
<1>6. status' = "ready" /\ mode = "run" => ImportGraph(program)[Entry] \subseteq verdict.sound
  BY <1>1, <1>4 DEF VerdictMatchesGraph
<1>7. status' = "ready" /\ mode = "build" => Project \subseteq verdict.sound
  BY <1>1, <1>5 DEF VerdictMatchesGraph
<1>8. \A m : Archived(m)' = Archived(m)
  BY <1>1 DEF Archived
<1> QED
  BY <1>1, <1>2, <1>3, <1>6, <1>7, <1>8 DEF VerdictMatchesGraph

\* A name bound in module m, declared in module from, is one that m may see.
MayBind(m, from, x) ==
    from # None =>
        \/ program[from].declares[x] = "public"
        \/ /\ program[from].declares[x] = "protected"
           /\ program[from].dir = program[m].dir

\* What an import binds is what the importer may see: its own private names are no import's.
LEMMA BoundVisible ==
    ASSUME LoaderAssumption, IInv, stack # <<>>, Top.kind \in Importing,
           NEW import, import.of \in cache, import.of \in ImportGraph(program)[Top.mod],
           import.names \subseteq Visible(import.of, Top.mod), NEW x \in Names,
           MayBind(Top.mod, Top.reg[x], x)
    PROVE  MayBind(Top.mod, Bound(Top.reg, import, Top.mod)[x], x)
<1> DEFINE of == import.of
           m == Top.mod
           e == exports[of][x]
<1>1. /\ TypeOK /\ Len(stack) \in DOMAIN stack /\ Top = stack[Len(stack)] /\ m \in Modules
      /\ program \in Programs /\ of \in Modules
  BY TopFacts DEF IInv, TypeOK
<1>2. of # m
  <2>1. CASE Top.kind = "load"
    BY <2>1, LoadOnTop
  <2>2. CASE Top.kind = "entry"
    <3>1. mode = "run"
      BY <1>1, <2>2 DEF IInv, Phases
    <3>2. ~Archived(of)
      BY <3>1 DEF Archived
    <3>3. of \notin Reachable(program, of)
      BY <3>2, CachedAcyclic
    <3> QED
      BY <1>1, <3>3, ReachableIs
  <2> QED
    BY <2>1, <2>2 DEF Importing
<1>3. CASE x \in import.names \/ (of \in Std /\ x \in Visible(of, m))
  <2>1. x \in Visible(of, m)
    BY <1>3
  <2>2. Bound(Top.reg, import, m)[x] = e.from
    BY <1>3 DEF Bound
  <2>3. \/ e.vis = "public"
        \/ e.vis = "protected" /\ program[m].dir = program[of].dir
    BY <1>2, <2>1 DEF Visible
  <2>4. ShownRight(of, x, e)
    BY <1>1 DEF IInv, ExportsVisible, ShownRight
  <2> HIDE DEF e, of, m
  <2>5. MayBind(m, e.from, x)
    BY <2>3, <2>4 DEF ShownRight, MayBind
  <2> QED
    BY <2>2, <2>5 DEF m
<1>4. CASE ~(x \in import.names \/ (of \in Std /\ x \in Visible(of, m)))
  <2>1. Bound(Top.reg, import, m)[x] = Top.reg[x]
    BY <1>4 DEF Bound
  <2> QED
    BY <2>1
<1> QED
  BY <1>3, <1>4

\* VisibilityKept is kept.
LEMMA VisibilityStays ==
    ASSUME LoaderAssumption, IInv, Next
    PROVE  VisibilityKept'
<1>1. /\ TypeOK /\ Calls /\ program' = program /\ program \in Programs
      /\ \A i \in DOMAIN stack, x \in Names : MayBind(stack[i].mod, stack[i].reg[x], x)
  BY Unchanged DEF IInv, TypeOK, VisibilityKept, MayBind
<1>2. SUFFICES ASSUME NEW i \in DOMAIN stack', NEW x \in Names
               PROVE  MayBind(stack'[i].mod, stack'[i].reg[x], x)
  BY <1>1 DEF VisibilityKept, MayBind
<1>3. CASE i \in DOMAIN stack /\ stack'[i] = stack[i]
  BY <1>1, <1>3
<1>4. CASE stack'[i].reg = [y \in Names |-> None]
  BY <1>4 DEF MayBind
<1>5. CASE /\ i \in DOMAIN stack /\ i = Len(stack) /\ stack # <<>>
           /\ Advanced(stack, stack') /\ stack'[i].mod = stack[i].mod
           /\ BindNext \/ InitStd
  <2>1. Top = stack[i] /\ Top.mod \in Modules /\ MayBind(Top.mod, Top.reg[x], x)
    BY <1>1, <1>5, TopFacts
  <2>2. ~PoppedTo(stack, stack')
    BY <1>5 DEF PoppedTo, Advanced
  <2>3. CASE BindNext
    <3>1. \A e : ~Abandon(e)
      BY <1>1, <1>5, <2>2, AbandonDoes
    <3> DEFINE import == Imports(Top.mod)[Top.next]
    <3>2. /\ Top.kind \in Importing /\ Top.next \in DOMAIN Imports(Top.mod)
          /\ import.of \in cache /\ import.names \subseteq Visible(import.of, Top.mod)
          /\ stack'[i].reg = Bound(Top.reg, import, Top.mod)
      BY <1>1, <1>5, <2>3, <3>1, BindNextDoes
    <3>3. import.of \in ImportGraph(program)[Top.mod]
      <4>1. import.of \in Modules
        BY <1>1, <3>2 DEF TypeOK
      <4> QED
        BY <1>1, <2>1, <3>2, <4>1, ImportedIs
    <3> HIDE DEF import
    <3>4. MayBind(Top.mod, Bound(Top.reg, import, Top.mod)[x], x)
      BY <1>5, <2>1, <3>2, <3>3, BoundVisible
    <3> QED
      BY <1>5, <2>1, <3>2, <3>4
  <2>4. CASE InitStd
    <3>1. Len(stack') = Len(stack) /\ Len(stack) \in Nat
      BY <1>5 DEF Advanced
    <3>2. \A k, n : ~PushedOn(stack, stack', k, n)
      BY <3>1 DEF PushedOn
    <3>3. stack'[i].reg = stack[i].reg
      BY <1>1, <1>5, <2>4, <3>2, InitStdDoes
    <3> QED
      BY <1>1, <1>5, <3>3
  <2> QED
    BY <1>5, <2>3, <2>4
<1> QED
  BY <1>3, <1>4, <1>5, ActivationWas

-----------------------------------------------------------------------------
(* The theorems *)

\* The invariant holds before anything is loaded: the stack is empty, or has the entry
\* program alone.
LEMMA InitHolds ==
    ASSUME LoaderAssumption, Init
    PROVE  IInv
<1>1. /\ program \in Programs /\ verdict = Verdict(program) /\ mode \in Modes
      /\ status = "loading" /\ calling = None /\ reply = "none" /\ loading = {} /\ cache = {}
      /\ exports = [m \in Modules |-> [x \in Names |-> Undeclared]]
      /\ ran = <<>> /\ inited = <<>>
      /\ None \notin Modules /\ Entry \in Modules
      /\ todo = IF mode = "run" THEN <<>> ELSE Order
      /\ stack = IF mode = "run" THEN <<NewActivation("entry", Entry)>> ELSE <<>>
  BY DEF Init, LoaderAssumption, Modules
<1> DEFINE a == NewActivation("entry", Entry)
<1>2. a \in Activations /\ a.kind = "entry" /\ a.mod = Entry /\ a.next = 1
      /\ a.reg = [x \in Names |-> None]
  BY <1>1 DEF NewActivation, Activations, Importing
<1> HIDE DEF a
<1>3. /\ stack \in Seq(Activations) /\ Len(stack) \in Nat /\ DOMAIN stack = 1..Len(stack)
      /\ \A i \in DOMAIN stack : i = 1 /\ stack[i] = a /\ mode = "run" /\ Len(stack) = 1
  <2>1. <<a>> \in Seq(Activations) /\ Len(<<a>>) = 1 /\ <<a>>[1] = a /\ DOMAIN <<a>> = {1}
    BY <1>2
  <2>2. <<>> \in Seq(Activations) /\ Len(<<>>) = 0 /\ DOMAIN <<>> = {}
    OBVIOUS
  <2>3. stack = IF mode = "run" THEN <<a>> ELSE <<>>
    BY <1>1 DEF a
  <2>4. CASE mode = "run"
    <3>1. stack = <<a>> /\ \A i \in {1} : i = 1
      BY <2>3, <2>4
    <3>2. 1..1 = {1}
      OBVIOUS
    <3> QED
      BY <2>1, <2>4, <3>1, <3>2
  <2>5. CASE mode # "run"
    <3>1. stack = <<>> /\ 1..0 = {}
      BY <2>3, <2>5
    <3> QED
      BY <2>2, <3>1
  <2> QED
    BY <2>4, <2>5
<1>4. TypeOK
  <2>1. todo \in Seq(Project) /\ ran \in Seq(Modules) /\ inited \in Seq(Modules)
    BY <1>1 DEF LoaderAssumption
  <2>2. exports \in [Modules -> [Names -> ExportRecords]]
    BY <1>1 DEF Undeclared, ExportRecords, Visibilities
  <2> QED
    BY <1>1, <1>3, <2>1, <2>2 DEF TypeOK
<1>5. Phases
  BY <1>1, <1>2, <1>3 DEF Phases, Initialising
<1>6. Calls
  BY <1>1, <1>2, <1>3 DEF Calls
<1>7. LoadsUnderWay
  BY <1>1, <1>2, <1>3 DEF LoadsUnderWay
<1>8. Descends
  BY <1>3 DEF Descends
<1>9. ImportsDone
  <2>1. Len(Imports(Entry)) \in Nat
    BY <1>1, ModuleFacts DEF Imports
  <2>2. 1 <= Len(Imports(Entry)) + 1 /\ 1..(1 - 1) = {}
    BY <2>1
  <2> QED
    BY <1>2, <1>3, <2>2 DEF ImportsDone
<1>10. InitsUnderWay
  BY <1>2, <1>3 DEF InitsUnderWay
<1>11. CacheSound
  BY <1>1 DEF CacheSound, Executed
<1>12. ExportsVisible
  BY <1>1 DEF ExportsVisible, Undeclared
<1>13. FilesToCome
  <2>1. todo = <<>> \/ todo = Order
    BY <1>1
  <2>2. \A i, j \in DOMAIN todo : todo[i] = todo[j] => i = j
    BY <2>1 DEF LoaderAssumption
  <2>3. ASSUME mode = "build", NEW m \in Project PROVE \E i \in DOMAIN todo : todo[i] = m
    BY <1>1, <2>3 DEF LoaderAssumption
  <2> QED
    BY <1>1, <2>2, <2>3 DEF FilesToCome
<1>14. RunsOnceInOrder
  BY <1>1 DEF RunsOnceInOrder, LoadOrder, BundleOrder
<1>15. VerdictMatchesGraph
  BY <1>1 DEF VerdictMatchesGraph
<1>16. VisibilityKept
  BY <1>2, <1>3 DEF VisibilityKept
<1>17. ArchiveRead /\ ArchiveRun
  <2>1. ASSUME mode = "bundle", NEW m \in Project PROVE \E i \in DOMAIN todo : todo[i] = m
    BY <1>1, <2>1 DEF LoaderAssumption
  <2> QED
    BY <1>1, <2>1 DEF ArchiveRead, ReadIn, ArchiveRun
<1> QED
  BY <1>4, <1>5, <1>6, <1>7, <1>8, <1>9, <1>10, <1>11, <1>12, <1>13, <1>14, <1>15, <1>16, <1>17
  DEF IInv

\* The invariant holds after every step.
LEMMA StepKeeps ==
    ASSUME LoaderAssumption, IInv, [Next]_vars
    PROVE  IInv'
<1>1. CASE Next
  BY <1>1, TypeKept, PhasesKept, CallsKept, LoadsUnderWayKept, DescendsKept, ImportsDoneKept,
     InitsUnderWayKept, CacheSoundKept, ExportsVisibleKept, FilesToComeKept,
     ArchiveReadKept, ArchiveRunKept, LoadOrderKept, BundleOrderKept, VerdictKept, VisibilityStays
  DEF IInv, RunsOnceInOrder
<1>2. CASE UNCHANGED vars
  <2>1. /\ UNCHANGED <<program, verdict, mode, status, todo, stack, calling, reply, loading>>
        /\ UNCHANGED <<cache, exports, ran, inited>>
    BY <1>2 DEF vars, given, loads, results
  <2>2. ImportGraph(program)' = ImportGraph(program)
    BY <2>1
  <2>3. Phases' /\ Calls' /\ LoadsUnderWay'
    BY SMTT(30), <2>1 DEF IInv, Phases, Calls, Asked, AskedIn, LoadsUnderWay, Archived, Imports
  <2>4. Descends' /\ TypeOK'
    BY <2>1 DEF IInv, Descends, TypeOK
  <2>5. ImportsDone'
    <3>1. ASSUME NEW kind, NEW m, NEW k, DoneOne(kind, m, k) PROVE DoneOne(kind, m, k)'
      BY <2>1, <3>1 DEF DoneOne, Imports, Visible, Initialised
    <3>2. \A i \in DOMAIN stack :
             /\ stack[i].next <= Len(Imports(stack[i].mod)) + 1
             /\ \A k \in 1..(stack[i].next - 1) : DoneOne(stack[i].kind, stack[i].mod, k)
      BY DEF IInv, ImportsDone, DoneOne
    <3>3. ASSUME NEW i \in DOMAIN stack', NEW kind, NEW m,
                 kind = stack'[i].kind, m = stack'[i].mod
          PROVE  /\ stack'[i].next <= Len(Imports(m)) + 1
                 /\ \A k \in 1..(stack'[i].next - 1) : DoneOne(kind, m, k)'
      BY <2>1, <3>1, <3>2, <3>3
    <3>4. \A kind, m : \A i \in DOMAIN stack' :
             kind = stack'[i].kind /\ m = stack'[i].mod =>
                 /\ stack'[i].next <= Len(Imports(m)) + 1
                 /\ \A k \in 1..(stack'[i].next - 1) : DoneOne(kind, m, k)'
      BY <3>3
    <3>5. program' = program
      BY <2>1
    <3> QED
      BY <3>4, <3>5 DEF ImportsDone, DoneOne, Imports
  <2>6. InitsUnderWay' /\ FilesToCome'
    BY <2>1 DEF IInv, InitsUnderWay, FilesToCome, Initialised, Idle
  <2>7. CacheSound' /\ ExportsVisible'
    BY <2>1, <2>2 DEF IInv, CacheSound, ExportsVisible, Archived, Executed
  <2>8. VerdictMatchesGraph' /\ VisibilityKept'
    BY <2>1, <2>2 DEF IInv, VerdictMatchesGraph, VisibilityKept, Archived
  <2>9. LoadOrder' /\ BundleOrder'
    BY <2>1, <2>2 DEF IInv, RunsOnceInOrder, LoadOrder, BundleOrder, Runnable
  <2>10. ArchiveRead' /\ ArchiveRun'
    BY <2>1 DEF IInv, ArchiveRead, ReadIn, Readable, ArchiveRun, Initialised, Runnable
  <2> QED
    BY <2>3, <2>4, <2>5, <2>6, <2>7, <2>8, <2>9, <2>10 DEF IInv, RunsOnceInOrder
<1> QED
  BY <1>1, <1>2

\* Whatever the modules are, the invariant holds at all times.
THEOREM Invariance ==
    ASSUME LoaderAssumption
    PROVE  Spec => []IInv
<1>1. Init => IInv
  BY InitHolds
<1>2. IInv /\ [Next]_vars => IInv'
  BY StepKeeps
<1> QED
  BY <1>1, <1>2, PTL DEF Spec

\* Every variable keeps its type: no load, binding or initialisation makes an activation,
\* a cache entry or an export of something else (loader.go, loadModule).
THEOREM TypeCorrect ==
    ASSUME LoaderAssumption
    PROVE  Spec => []TypeOK
<1>1. IInv => TypeOK
  BY DEF IInv
<1> QED
  BY <1>1, Invariance, PTL

\* From source no module is executed twice or before what it imports (loadModule's l.Cache).
\* A bundle's VM executes none twice: the project's files in the order of the archive, each
\* when all readable ones before it were, whatever it imports, and then the library's, each
\* after what it imports (PrepareFromBundle's loops, initStdlibModule's initialized).
THEOREM RunsOnce ==
    ASSUME LoaderAssumption
    PROVE  Spec => []RunsOnceInOrder
<1>1. IInv => RunsOnceInOrder
  BY DEF IInv
<1> QED
  BY <1>1, Invariance, PTL

\* A circular import is reported only where there is one, and what is loaded, or called
\* ready, has no cycle, gap or failing module under it (loadModule's l.Loading).
THEOREM ReadyIsSound ==
    ASSUME LoaderAssumption
    PROVE  Spec => []VerdictMatchesGraph
<1>1. IInv => VerdictMatchesGraph
  BY DEF IInv
<1> QED
  BY <1>1, Invariance, PTL

\* No module binds a name that the module declaring it hides from it, however many
\* indexes export it again (bindImport, visibleExports, augmentIndexExports).
THEOREM NamesStayHidden ==
    ASSUME LoaderAssumption
    PROVE  Spec => []VisibilityKept
<1>1. IInv => VisibilityKept
  BY DEF IInv
<1> QED
  BY <1>1, Invariance, PTL
=============================================================================
