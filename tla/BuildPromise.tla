---------------------------- MODULE BuildPromise ----------------------------
(***************************************************************************)
(* What the tables and files of a build mean, and that a build keeps the   *)
(* promise of Units.                                                       *)
(***************************************************************************)
EXTENDS Build

Decls == UNION {ToSet(ds) : ds \in UNION {Sources[u] : u \in DOMAIN Sources}}
None == <<"none">>

\* The meaning of a type index; T is a record with the tables types refer to.
RECURSIVE Denote(_, _)
Denote(T, t) ==
  IF t \notin DOMAIN T.types THEN None
  ELSE LET ty == T.types[t]
           td == T.tbldef[ty.extra + 1]
       IN CASE ty.kind = "ptr" -> <<"ptr", Denote(T, ty.inner)>>
            [] ty.kind = "proc" -> <<"proc", ty.n_extra, Denote(T, ty.inner)>>
            [] ty.kind = "status" ->
                 IF ty.extra + 1 \in DOMAIN T.stdef THEN <<"status", T.stdef[ty.extra + 1]>> ELSE None
            [] ty.kind = "table" ->
                 IF ty.extra + 1 \notin DOMAIN T.tbldef THEN None
                 ELSE <<"table", td.lo, td.hi, td.wordsz,
                        MapSeq(td.flds, LAMBDA f : <<f.name, Denote(T, f.jtype), f.by>>)>>
            [] OTHER -> <<"plain", ty.kind, ty.width>>

\* What names mean to find_sym among the symbols syms: the last one counts.
Visible(T, syms) ==
  LET Entry(sy) == sy.name :> [kind |-> sy.kind, type |-> Denote(T, sy.type), val |-> sy.cval]
      seen[n \in 0 .. Len(syms)] ==
        IF n = 0 THEN <<>>
        ELSE IF syms[n].name = "" THEN seen[n - 1]
        ELSE Entry(syms[n]) @@ seen[n - 1]
  IN seen[Len(syms)]

\* A file read as the tables it stands for.
TablesOf(f) ==
  [types |-> f.types,
   stdef |-> MapSeq(f.stdef, LAMBDA vals : MapSeq(vals, LAMBDA o : SGET(f.strs, o))),
   tbldef |-> MapSeq(f.tbldef, LAMBDA td : Imported(f, td, Len(td.flds))),
   syms |-> MapSeq(f.syms, LAMBDA sy : [sy EXCEPT !.name = SGET(f.strs, @)])]
Meant(f) == LET T == TablesOf(f) IN Visible(T, T.syms)

\* Until an import is complete its symbols do not count, and those inside a BLOCK
\* never do.
Settled ==
  CASE at = "read" -> SubSeq(S.syms, 1, r.base_syms)
    [] at # "read" /\ S.scp # <<>> -> SubSeq(S.syms, 1, Head(S.scp))
    [] OTHER -> S.syms
ScopeNow ==
  IF at \in {"idle", "stopped"} THEN [all |-> <<>>, out |-> <<>>]
  ELSE [all |-> Visible(S, Settled),
        out |-> Visible(S, SelectSeq(Settled, LAMBDA sy : sy.kind \in ExportedKinds))]

\* "Two modules reading the same .cpl agree": whoever imports, directly or
\* through another unit, finds under every name what the exporter declared, up
\* to what the file format drops (Flat) and what full tables lose.
Promise == INSTANCE Units WITH
  Decls <- Decls, scope <- ScopeNow, full <- Full,
  pub <- [u \in DOMAIN files |-> Meant(files[u])]
KeepsPromise == Promise!Spec
=============================================================================
