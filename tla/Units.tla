-------------------------------- MODULE Units --------------------------------
(***************************************************************************)
(* What COMPOOLs promise, without tables, indices and files: a unit that   *)
(* imports sees the declarations of the imported units with the meaning    *)
(* they had there, later imports before earlier ones and its own before    *)
(* all; what it publishes is what it declares and imports.  Only when some *)
(* table is full may meanings be lost, and a lost one is never replaced by *)
(* another.                                                                *)
(***************************************************************************)
EXTENDS Integers, Sequences, SequencesExt, TLC

CONSTANT Decls \* the declarations units are made of

VARIABLES
  scope, \* what the names of the unit mean: all, and those it will publish
  pub,   \* what the units published, in order
  full   \* whether a table is full

vars == <<scope, pub, full>>

None == <<"none">>
Plain(bt, width) == <<"plain", bt, width>>
Empty == [all |-> <<>>, out |-> <<>>]

Base(env, spec) ==
  CASE spec.bt = "status" -> <<"status", spec.vals>>
    [] spec.bt \in {"ref", "like"} ->
         IF spec.name \in DOMAIN env THEN env[spec.name].type ELSE Plain("error", 0)
    [] OTHER -> Plain(spec.bt, spec.width)
Meaning(env, spec) ==
  LET m[n \in 0 .. spec.ptrs] == IF n = 0 THEN Base(env, spec) ELSE <<"ptr", m[n - 1]>>
  IN m[spec.ptrs]

Value(env, e) ==
  CASE e.op = "lit" -> e.val
    [] e.op = "name" ->
         IF e.name \in DOMAIN env /\ env[e.name].kind = "CONST" THEN env[e.name].val ELSE 0

TableMeaning(env, d) ==
  <<"table", Value(env, d.lo), Value(env, d.hi), d.wordsz,
    [j \in DOMAIN d.flds |-> <<d.flds[j].name, Meaning(env, d.flds[j].spec), d.flds[j].by>>]>>

Published(kind) == kind \in {"VAR", "CONST", "TYPE", "TABLE"}
Bind(sc, name, kind, type, val) ==
  LET b == name :> [kind |-> kind, type |-> type, val |-> val] IN
    [all |-> b @@ sc.all, out |-> IF Published(kind) THEN b @@ sc.out ELSE sc.out]

\* The names of a BLOCK are nobody else's, those of an inline COMPOOL are.
Declared(sc, d) ==
  CASE d.k = "item" -> Bind(sc, d.name, "VAR", Meaning(sc.all, d.spec), 0)
    [] d.k = "const" -> Bind(sc, d.name, "CONST", Meaning(sc.all, d.spec), Value(sc.all, d.val))
    [] d.k = "define" -> Bind(sc, d.name, "CONST", Plain("s", 32), Value(sc.all, d.val))
    [] d.k = "type" -> Bind(sc, d.name, "TYPE", Meaning(sc.all, d.spec), 0)
    [] d.k = "proc" -> Bind(sc, d.name, "PROC", <<"proc", d.params, Meaning(sc.all, d.spec)>>, 0)
    [] d.k = "table" -> Bind(sc, d.name, "TABLE", TableMeaning(sc.all, d), 0)
    [] d.k \in {"block", "end"} -> sc
    [] d.k = "compool" -> Bind(sc, d.name, "CPOOL", Plain("void", 0), 0)

\* How the exporter placed fields is not part of what it publishes.
RECURSIVE Flat(_)
Flat(m) ==
  CASE m[1] = "ptr" -> <<"ptr", Flat(m[2])>>
    [] m[1] = "table" ->
         <<"table", m[2], m[3], 16,
           [j \in DOMAIN m[5] |-> <<m[5][j][1], Flat(m[5][j][2]), "plain">>]>>
    [] OTHER -> m
FlatAll(env) == [n \in DOMAIN env |-> [env[n] EXCEPT !.type = Flat(@)]]

---------------------------------------------------------------------------
(* Loss.  m is below n if it is n with parts missing.                      *)
SameOrLost(name, whole) == name \in {"", whole}
RECURSIVE Below(_, _)
Below(m, n) ==
  \/ m = n
  \/ m \in {None, Plain("error", 0)}
  \/ /\ m[1] = "ptr" /\ n[1] = "ptr"
     /\ Below(m[2], n[2])
  \/ /\ m[1] = "status" /\ n[1] = "status"
     /\ Len(m[2]) = Len(n[2])
     /\ \A i \in DOMAIN m[2] : SameOrLost(m[2][i], n[2][i])
  \/ /\ m[1] = "table" /\ n[1] = "table"
     /\ SubSeq(m, 2, 4) = SubSeq(n, 2, 4)
     /\ Len(m[5]) = Len(n[5])
     /\ \A j \in DOMAIN m[5] :
          /\ SameOrLost(m[5][j][1], n[5][j][1])
          /\ Below(m[5][j][2], n[5][j][2])
          /\ m[5][j][3] = n[5][j][3]
  \/ /\ m[1] = "proc" /\ n[1] = "proc"
     /\ m[2] = n[2]
     /\ Below(m[3], n[3])
EntryBelow(a, b) == a.kind = b.kind /\ a.val = b.val /\ Below(a.type, b.type)

\* Of a name whose new declaration was lost the old one remains.
LossOf(now, old, new) ==
  /\ DOMAIN now \subseteq DOMAIN new
  /\ \A n \in DOMAIN now :
       \/ EntryBelow(now[n], new[n])
       \/ n \in DOMAIN old /\ now[n] = old[n]
Becomes(new) ==
  IF full' THEN LossOf(scope'.all, scope.all, new.all) /\ LossOf(scope'.out, scope.out, new.out)
  ELSE scope' = new

---------------------------------------------------------------------------
Init == scope = Empty /\ pub = <<>> /\ full = FALSE

Begin == scope' = Empty
Import(u) == Becomes([all |-> pub[u] @@ scope.all, out |-> pub[u] @@ scope.out])
Declare(d) == Becomes(Declared(scope, d))
Publish ==
  /\ Len(pub') = Len(pub) + 1
  /\ Front(pub') = pub
  /\ LET new == Last(pub') IN
       IF full' THEN LossOf(new, <<>>, FlatAll(scope.out)) ELSE new = FlatAll(scope.out)
  /\ scope' = Empty

\* A table may fill up, or be empty again, without a name losing its meaning.
Fill == UNCHANGED <<scope, pub>>
Next ==
  \/ Fill
  \/ /\ UNCHANGED pub
     /\ \/ Begin
        \/ \E u \in DOMAIN pub : Import(u)
        \/ \E d \in Decls : Declare(d)
  \/ Publish
Spec == Init /\ [][Next]_vars
=============================================================================
