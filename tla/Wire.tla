-------------------------------- MODULE Wire --------------------------------
(***************************************************************************)
(* The cells a class file is made of (internal/classfile/module_codec.go,  *)
(* from line 1232 on).  A stream is a sequence of cells; a cell carries    *)
(* its width, so that a reader that asks for another width than the writer *)
(* used has lost its place.  A string with its length, and a run of code   *)
(* bytes, are one cell each: a length in bytes is a length in cells here.  *)
(*                                                                         *)
(* A kind says how a value is laid out: a number of a width, a flag, a     *)
(* string, a row of named fields, a counted list, or a Go map, which is a  *)
(* counted list of its entries in the order of sort.Strings.               *)
(***************************************************************************)
EXTENDS Naturals, Sequences, SequencesExt, TLC

CONSTANTS NameOrder,   \* every string used as a key of a map, in the order of sort.Strings
          Modulus      \* the number of values of a uint16 (2^16 in the code)

ASSUME ModulusAssumption == Modulus \in Nat \ {0}

(***************************************************************************)
(* Kinds.                                                                  *)
(***************************************************************************)
U1 == [t |-> "u1"]
U2 == [t |-> "u2"]
U4 == [t |-> "u4"]
Text == [t |-> "text"]
Flag == [t |-> "flag"]
CodeBytes == [t |-> "bytes"]       \* a run of code bytes after a u4 that counts them
Info == [t |-> "attribute"]        \* the index of a name, and bytes after a u4 that counts them
Row(fields) == [t |-> "row", fields |-> fields]
ListOf(kind) == [t |-> "list", of |-> kind]
MapOf(kind) == [t |-> "map", of |-> kind]

\* make([]string, count), make(map[string]T, count): what writeStringMap, writeOverloads, ...
\* put down for one entry of a map.
Entry(kind) == Row(<< <<"key", Text>>, <<"val", kind>> >>)

\* The keys of a map in the order sort.Strings gives them.
Sorted(keys) == SelectSeq(NameOrder, LAMBDA n : n \in keys)

Cell(width, v) == [w |-> width, v |-> v]

\* The conversion uint16(n) before every writeU2.
Uint16(n) == n % Modulus

(***************************************************************************)
(* Writing.                                                                *)
(***************************************************************************)
RECURSIVE Write(_, _)
Write(kind, v) ==
  CASE kind.t = "u2" -> <<Cell("u2", Uint16(v))>>
    [] kind.t = "flag" -> <<Cell("u1", IF v THEN 1 ELSE 0)>>
    [] kind.t = "row" ->
         FlattenSeq([i \in DOMAIN kind.fields |->
                       Write(kind.fields[i][2], v[kind.fields[i][1]])])
    [] kind.t = "list" ->
         <<Cell("u2", Uint16(Len(v)))>> \o
         FlattenSeq([i \in DOMAIN v |-> Write(kind.of, v[i])])
    [] kind.t = "map" ->
         LET keys == Sorted(DOMAIN v)
         IN  Write(ListOf(Entry(kind.of)),
                   [i \in DOMAIN keys |-> [key |-> keys[i], val |-> v[keys[i]]]])
    [] OTHER -> <<Cell(kind.t, v)>>

\* writeAttribute: the name, the length, the bytes.
Attribute(name, info) == <<Cell("u2", name), Cell("u4", Len(info))>> \o info

(***************************************************************************)
(* Reading.  A reader is the stream, the place it has reached, whether     *)
(* every read so far has succeeded, and the last value it returned.        *)
(***************************************************************************)
Reader(s) == [s |-> s, at |-> 1, ok |-> TRUE, v |-> 0]

\* binary.Read and io.ReadFull: the end of the stream is an error, and so is a cell of another
\* width, which stands for the garbage a reader that lost its place would decode.
Take(r, width) ==
  IF r.ok /\ r.at <= Len(r.s) /\ r.s[r.at].w = width
  THEN [r EXCEPT !.at = @ + 1, !.v = r.s[r.at].v]
  ELSE [r EXCEPT !.ok = FALSE]

\* Mutant: Read instead of ReadFull takes what is left of the file for the attribute.
AttributeShort(q, name) ==
  IF q.ok
  THEN [q EXCEPT !.at = @ + q.v,
                 !.v = [name |-> name,
                        info |-> SubSeq(q.s, q.at, Min({q.at + q.v - 1, Len(q.s)}))]]
  ELSE q

\* readAttribute after the length: the bytes, in a reader of their own.
AttributeFrom(q, name) ==
  IF q.ok /\ q.at + q.v - 1 <= Len(q.s)
  THEN [q EXCEPT !.at = @ + q.v,
                 !.v = [name |-> name, info |-> SubSeq(q.s, q.at, q.at + q.v - 1)]]
  ELSE [q EXCEPT !.ok = FALSE]

ReadAttribute(r) == AttributeFrom(Take(Take(r, "u2"), "u4"), Take(r, "u2").v)

\* The rows of key and value as a map: of equal keys the last one counts.
AsMap(r) ==
  IF ~r.ok THEN r
  ELSE [r EXCEPT !.v =
          [k \in {r.v[i].key : i \in DOMAIN r.v} |->
             r.v[Max({i \in DOMAIN r.v : r.v[i].key = k})].val]]

RECURSIVE Read(_, _), ReadRow(_, _, _, _), ReadList(_, _, _, _)

AddField(q, fields, i, got) == ReadRow(q, fields, i + 1, got @@ (fields[i][1] :> q.v))
\* The fields of a row from the i-th on, added to those already read.
ReadRow(r, fields, i, got) ==
  IF ~r.ok \/ i > Len(fields) THEN [r EXCEPT !.v = got]
  ELSE AddField(Read(r, fields[i][2]), fields, i, got)

AddElement(q, kind, n, got) == ReadList(q, kind, n - 1, Append(got, q.v))
\* n more elements of a list, added to those already read.
ReadList(r, kind, n, got) ==
  IF ~r.ok \/ n = 0 THEN [r EXCEPT !.v = got]
  ELSE AddElement(Read(r, kind), kind, n, got)
ReadCounted(count, kind) == ReadList(count, kind, count.v, <<>>)

Read(r, kind) ==
  CASE kind.t = "flag" -> [Take(r, "u1") EXCEPT !.v = (@ = 1)]
    [] kind.t = "row" -> ReadRow(r, kind.fields, 1, <<>>)
    [] kind.t = "list" -> ReadCounted(Take(r, "u2"), kind.of)
    [] kind.t = "bytes" -> ReadCounted(Take(r, "u4"), U1)
    [] kind.t = "map" -> AsMap(Read(r, ListOf(Entry(kind.of))))
    [] kind.t = "attribute" -> ReadAttribute(r)
    [] OTHER -> Take(r, kind.t)
=============================================================================
