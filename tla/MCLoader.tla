------------------------------ MODULE MCLoader ------------------------------
(***************************************************************************)
(* Three files of a project and two modules of the standard library, one   *)
(* of which imports the other.  Graphs: every way for the files to import  *)
(* two things each, cycles, self-imports and diamonds among them, with one *)
(* file that may fail in each of the ways there are.  Shown: every         *)
(* visibility of a name in two files, one of which may be an index that    *)
(* exports it again, in every placement in two directories.                *)
(***************************************************************************)
EXTENDS Loader

CONSTANTS main, a, b, s, t, x, d1, d2

MCOrder == <<a, b, main>>

\* Lists of at most two different imports.
Lists(S) == {<<>>} \cup {<<i>> : i \in S} \cup {<<p[1], p[2]>> : p \in {q \in S \X S : q[1] # q[2]}}
Namespace(m) == [of |-> m, names |-> {}]
Named(m) == [of |-> m, names |-> Names]

Module(imports, vis, dir, index, fault) ==
    [imports |-> imports, declares |-> [n \in Names |-> vis], dir |-> dir, index |-> index,
     fault |-> fault]
Public(imports, fault) == Module(imports, "public", d1, FALSE, fault)
Faults == {"unreadable", "rejected", "run", "none"}

Graphs ==
    {[m \in Modules |->
        CASE m = main -> Public(f[1], "none")
          [] m = a -> Public(f[2], f[4])
          [] m = b -> Public(f[3], "none")
          [] m = s -> Public(<<Namespace(t)>>, "none")
          [] m = t -> Public(<<>>, "none")] :
     f \in (Lists({Namespace(a), Namespace(b)}) \cup {<<Namespace(a), Namespace(Missing)>>})
           \X Lists({Namespace(m) : m \in {a, b, s}})
           \X Lists({Namespace(m) : m \in {a, main, t, Missing}})
           \X Faults}

Shown ==
    {[m \in Modules |->
        CASE m = main -> Module(f[1], "none", d1, FALSE, "none")
          [] m = a -> Module(f[2], f[3], f[4], f[5], "none")
          [] m = b -> Module(<<>>, f[6], f[7], FALSE, "none")
          [] m = s -> Module(<<>>, "protected", d2, FALSE, "none")
          [] m = t -> Public(<<>>, "none")] :
     f \in {<<Named(a)>>, <<Named(b)>>, <<Named(b), Namespace(a)>>, <<Namespace(a), Named(s)>>}
           \X {<<>>, <<Named(b)>>, <<Named(s)>>}
           \X Visibilities \X {d1, d2} \X BOOLEAN \X Visibilities \X {d1, d2}}

MCPrograms == Graphs \cup Shown

ASSUME ProgramsAssumption == LoaderAssumption
=============================================================================
