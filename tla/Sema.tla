-------------------------------- MODULE Sema --------------------------------
(***************************************************************************)
(* The tables of src/fe/sema.c and what the declaration pass does to them. *)
(* S is sema_ctx_t cut to its tables: the interned types from index 1 on,  *)
(* the definitions of STATUS types and of TABLEs (indices from 0, as in    *)
(* the code), the symbols, the scope stack, whether an error was reported, *)
(* and the limits SM_MAX_*.  Widths and scales of plain types are one      *)
(* value; flags of symbols other than the constant's value are left out.   *)
(***************************************************************************)
EXTENDS Integers, SequencesExt

Ty(kind, width, n_extra, inner, extra) ==
  [kind |-> kind, width |-> width, n_extra |-> n_extra, inner |-> inner, extra |-> extra]

sema_init(lim) ==
  [types |-> <<>>, stdef |-> <<>>, tbldef |-> <<>>, syms |-> <<>>, scp |-> <<>>,
   n_params |-> 0, errs |-> FALSE, lim |-> lim]

sm_err(S) == [S EXCEPT !.errs = TRUE]

(* An operator that may add a type answers the tables and the index.       *)
Res(S, t) == [s |-> S, t |-> t]

\* Linear dedup over the pool; a full pool answers the sentinel 0.
jt_intern(S, ty) ==
  LET old == SelectInSeq(S.types, LAMBDA t : t = ty) IN
    IF old # 0 THEN Res(S, old)
    ELSE IF Len(S.types) + 1 >= S.lim.types THEN Res(S, 0)
    ELSE Res([S EXCEPT !.types = Append(@, ty)], Len(S.types) + 1)

jt_plain(S, kind, width) == jt_intern(S, Ty(kind, width, 0, 0, 0))
jt_void(S) == jt_plain(S, "void", 0)
jt_err(S) == jt_plain(S, "error", 0)
jt_ptr(S, inner) == jt_intern(S, Ty("ptr", 0, 0, inner, 0))
IsKind(S, t, kind) == t \in DOMAIN S.types /\ S.types[t].kind = kind

(* Symbols: scopes are snapshots of the table's length.                    *)
push_scp(S) ==
  IF Len(S.scp) >= S.lim.scopes THEN S ELSE [S EXCEPT !.scp = Append(@, Len(S.syms))]
pop_scp(S) ==
  IF S.scp = <<>> THEN S
  ELSE [S EXCEPT !.syms = SubSeq(@, 1, Last(S.scp)), !.scp = Front(@)]

Sym(name, type, kind, cval) == [name |-> name, type |-> type, kind |-> kind, cval |-> cval]
\* A full table drops the symbol and nobody looks at the -1.
\* (Mutant: the limit is off by one.)
add_symOver(S, sym) ==
  IF Len(S.syms) > S.lim.syms THEN S ELSE [S EXCEPT !.syms = Append(@, sym)]
add_sym(S, sym) ==
  IF Len(S.syms) >= S.lim.syms THEN S ELSE [S EXCEPT !.syms = Append(@, sym)]

\* The most recent symbol of the name, 0 if there is none.
find_sym(S, name) == SelectLastInSeq(S.syms, LAMBDA s : s.name = name)
TypeOfName(S, name) ==
  IF find_sym(S, name) = 0 THEN jt_err(sm_err(S))
  ELSE Res(S, S.syms[find_sym(S, name)].type)

(* A type as the parser hands it over: so many POINTERs to a plain type, a *)
(* STATUS with its values, the name of a type, or LIKE a name.             *)
\* (Mutant: the type refers to the definition that comes next.)
res_statusNext(S, vals) ==
  IF Len(S.stdef) >= S.lim.stdef THEN jt_err(sm_err(S))
  ELSE jt_intern([S EXCEPT !.stdef = Append(@, vals)],
                 Ty("status", 0, Len(vals), 0, Len(S.stdef) + 1))
res_status(S, vals) ==
  IF Len(S.stdef) >= S.lim.stdef THEN jt_err(sm_err(S))
  ELSE jt_intern([S EXCEPT !.stdef = Append(@, vals)],
                 Ty("status", 0, Len(vals), 0, Len(S.stdef)))

res_base(S, spec) ==
  CASE spec.bt = "status" -> res_status(S, spec.vals)
    [] spec.bt \in {"ref", "like"} -> TypeOfName(S, spec.name)
    [] OTHER -> jt_plain(S, spec.bt, spec.width)

\* Each POINTER asks for VOID before it looks inside, and comes after its inside.
res_type(S, spec) ==
  LET void == IF spec.ptrs = 0 THEN S ELSE jt_void(S).s
      res[n \in 0 .. spec.ptrs] ==
        IF n = 0 THEN res_base(void, spec) ELSE jt_ptr(res[n - 1].s, res[n - 1].t)
  IN res[spec.ptrs]

(* Declarations.                                                           *)

\* A constant expression: a literal (arithmetic on literals is folded into it) or
\* the name of a constant.  Any other name is an error, and the value 0.
eval_const(S, e) ==
  LET k == IF e.op = "name" THEN find_sym(S, e.name) ELSE 0
      isConst == k # 0 /\ S.syms[k].kind = "CONST"
  IN CASE e.op = "lit" -> [s |-> S, v |-> e.val]
       [] e.op = "name" /\ isConst -> [s |-> S, v |-> S.syms[k].cval]
       [] e.op = "name" /\ ~ isConst -> [s |-> sm_err(S), v |-> 0]

col_item(S, d) ==
  LET r == res_type(S, d.spec) IN add_sym(r.s, Sym(d.name, r.t, "VAR", 0))
col_const(S, d) ==
  LET r == res_type(S, d.spec)
      c == eval_const(r.s, d.val)
  IN add_sym(c.s, Sym(d.name, r.t, "CONST", c.v))
col_defn(S, d) ==
  LET c == eval_const(S, d.val)
      r == jt_plain(c.s, "s", 32)
  IN add_sym(r.s, Sym(d.name, r.t, "CONST", c.v))
col_tdef(S, d) ==
  LET r == res_type(jt_err(S).s, d.spec) IN add_sym(r.s, Sym(d.name, r.t, "TYPE", 0))

\* Its parameters sit in a pool of their own, from index extra on.
col_proc(S, d) ==
  LET ret == res_type(jt_void([S EXCEPT !.n_params = @ + d.params]).s, d.spec)
      r == jt_intern(ret.s, Ty("proc", 0, d.params, ret.t, S.n_params))
  IN add_sym(r.s, Sym(d.name, r.t, "PROC", 0))

\* The TABLE takes its place first; WORDSIZE and how a field is placed stay in
\* the AST, to which ast_nd refers.
NewTable(S, d) ==
  LET lo == eval_const(S, d.lo)
      hi == eval_const(lo.s, d.hi)
      td == [flds |-> <<>>, lo |-> lo.v, hi |-> hi.v, ast_nd |-> TRUE, wordsz |-> d.wordsz]
  IN [hi.s EXCEPT !.tbldef = Append(@, td)]

\* An OVERLAY must not be wider than the field before it.  (A STATUS has width 0.)
Width(S, t) == IF t \in DOMAIN S.types THEN S.types[t].width ELSE 0
TooWide(S, flds) ==
  Len(flds) >= 2 /\ Width(S, Last(flds).jtype) > Width(S, flds[Len(flds) - 1].jtype)
AddField(ti, S, f) ==
  LET r == res_type(S, f.spec)
      flds == Append(r.s.tbldef[ti].flds, [name |-> f.name, jtype |-> r.t, by |-> f.by])
      put == [r.s EXCEPT !.tbldef[ti].flds = flds]
  IN IF f.by = "overlay" /\ TooWide(put, flds) THEN sm_err(put) ELSE put
col_tabl(S, d) ==
  IF Len(S.tbldef) >= S.lim.tbldef THEN sm_err(S)
  ELSE LET ti == Len(S.tbldef)
           filled[n \in 0 .. Len(d.flds)] ==
             IF n = 0 THEN NewTable(S, d)
             ELSE AddField(ti + 1, filled[n - 1], d.flds[n])
           r == jt_intern(filled[Len(d.flds)], Ty("table", 0, Len(d.flds), 0, ti))
       IN add_sym(r.s, Sym(d.name, r.t, "TABLE", 0))

\* An inline COMPOOL declares into the scope around it.
col_cpool(S, d) ==
  LET v == jt_void(S) IN add_sym(v.s, Sym(d.name, v.t, "CPOOL", 0))

\* The nodes in the order in which col_decl visits them: the declarations inside
\* a BLOCK stand between "block" and "end", those of an inline COMPOOL follow it.
\* The names of a BLOCK go with its scope, its types and definitions stay.
col_decl(S, d) ==
  CASE d.k = "item" -> col_item(S, d)
    [] d.k = "const" -> col_const(S, d)
    [] d.k = "define" -> col_defn(S, d)
    [] d.k = "type" -> col_tdef(S, d)
    [] d.k = "proc" -> col_proc(S, d)
    [] d.k = "table" -> col_tabl(S, d)
    [] d.k = "block" -> push_scp(S)
    [] d.k = "end" -> pop_scp(S)
    [] d.k = "compool" -> col_cpool(S, d)

\* V(name) in a statement: sema gives it the type of the first definition with
\* the value that some STATUS type refers to, or the error type.
StatusType(S, v) ==
  LET TypeFor(i) == SelectInSeq(S.types, LAMBDA t : t.kind = "status" /\ t.extra = i - 1)
      hit == SelectInSeq([i \in DOMAIN S.stdef |-> v \in ToSet(S.stdef[i]) /\ TypeFor(i) # 0],
                         LAMBDA b : b)
  IN IF hit = 0 THEN jt_err(S).t ELSE TypeFor(hit)
\* The lowering looks the value up again, in the definitions alone (ordinals
\* from 1 here, 0 when there is none).
StatusOrd(S, v) ==
  LET hit == SelectInSeq(S.stdef, LAMBDA vals : v \in ToSet(vals))
  IN IF hit = 0 THEN 0 ELSE SelectInSeq(S.stdef[hit], LAMBDA x : x = v)
=============================================================================
