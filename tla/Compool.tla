------------------------------- MODULE Compool -------------------------------
(***************************************************************************)
(* COMPOOL files: cpl_write of src/cpl/cpl_write.c as an operator from the *)
(* tables to a file, cpl_read of src/cpl/cpl_read.c as a reader that adds  *)
(* one record of the file at a time to the tables.  A file is kept as its  *)
(* records; positions count words of four bytes, a string taken as one     *)
(* word, so that a file cut short can end anywhere in a record.            *)
(***************************************************************************)
EXTENDS Sema, FiniteSets

HeaderWords == 6
TypeWords == 4
StatusWords(nv) == 1 + nv
TableWords(nf) == 4 + 5 * nf
SymbolWords == 5

---------------------------------------------------------------------------
(* Writing.                                                                *)

\* The string table: offset 0 is the empty string, a full table answers it too.
str_add(strs, name, max) ==
  IF name = "" \/ name \in ToSet(strs) \/ Len(strs) >= max THEN strs ELSE Append(strs, name)
AddAll(names, max) ==
  LET strs[n \in 0 .. Len(names)] ==
        IF n = 0 THEN <<>> ELSE str_add(strs[n - 1], names[n], max)
  IN strs[Len(names)]
StrOff(strs, name) == SelectInSeq(strs, LAMBDA s : s = name)
SGET(strs, off) == IF off \in DOMAIN strs THEN strs[off] ELSE ""

ExportedKinds == {"VAR", "CONST", "TYPE", "TABLE"}
Exported(syms) ==
  LET out[n \in 0 .. Len(syms)] ==
        IF n = 0 THEN <<>>
        ELSE IF syms[n].kind \in ExportedKinds THEN Append(out[n - 1], syms[n])
        ELSE out[n - 1]
  IN out[Len(syms)]
MapSeq(s, Op(_)) == [i \in DOMAIN s |-> Op(s[i])]

cpl_write(S) ==
  LET names == MapSeq(Exported(S.syms), LAMBDA s : s.name)
                 \o FlattenSeq(S.stdef)
                 \o FlattenSeq(MapSeq(S.tbldef, LAMBDA td : MapSeq(td.flds, LAMBDA f : f.name)))
      strs == AddAll(names, S.lim.strs)
      Off(n) == StrOff(strs, n)
  IN [strs |-> strs,
      types |-> S.types,
      stdef |-> MapSeq(S.stdef, LAMBDA vals : MapSeq(vals, Off)),
      tbldef |-> MapSeq(S.tbldef, LAMBDA td :
                   [lo |-> td.lo, hi |-> td.hi,
                    flds |-> MapSeq(td.flds, LAMBDA f : [name |-> Off(f.name), jtype |-> f.jtype])]),
      syms |-> MapSeq(Exported(S.syms), LAMBDA s : [s EXCEPT !.name = Off(s.name)])]

\* Where the records of a kind end in the file, the n-th at end[n]; words are
\* their lengths.
Ends(start, words) ==
  LET end[n \in 0 .. Len(words)] == IF n = 0 THEN start ELSE end[n - 1] + words[n]
  IN end
TypesEnd(f) == HeaderWords + Len(f.strs) + TypeWords * Len(f.types)
StatusEnds(f) == Ends(TypesEnd(f), MapSeq(f.stdef, LAMBDA vals : StatusWords(Len(vals))))
TableEnds(f) ==
  Ends(StatusEnds(f)[Len(f.stdef)], MapSeq(f.tbldef, LAMBDA td : TableWords(Len(td.flds))))
FileWords(f) == TableEnds(f)[Len(f.tbldef)] + SymbolWords * Len(f.syms)

---------------------------------------------------------------------------
(* Reading.  r is the state of cpl_read: the file and how many words of it *)
(* there are, p, the loop it is in, and the lengths the tables had at its  *)
(* start, by which it shifts indices.  A step answers the tables and r.    *)

Read(S, r) == [s |-> S, r |-> r]
Fail(S) == Read(S, [at |-> "SK_ERR_IO"])
Past(r, words) == r.p + words > r.size

\* Header, string table and the raw types; none of them touches the tables.
ReadHeader(S, file, size) ==
  LET r == [file |-> file, size |-> size, p |-> TypesEnd(file), i |-> 1, at |-> "stdef",
            base_stdef |-> Len(S.stdef), base_tbldf |-> Len(S.tbldef),
            base_syms |-> Len(S.syms), remap |-> <<>>]
  IN IF TypesEnd(file) > size THEN Fail(S) ELSE Read(S, r)

\* The loop goes on with its next record, or the next loop starts.
NextRecord(r, words) == [r EXCEPT !.p = @ + words, !.i = @ + 1]
LoopDone(S, r, next) == Read(S, [r EXCEPT !.i = 1, !.at = next])

\* Full tables skip the values without a look at the end of the file.
ReadStatus(S, r) ==
  IF r.i > Len(r.file.stdef) THEN LoopDone(S, r, "tbldef")
  ELSE LET offs == r.file.stdef[r.i]
           there == IF r.size - r.p - 1 < Len(offs) THEN r.size - r.p - 1 ELSE Len(offs)
           vals == MapSeq(SubSeq(offs, 1, there), LAMBDA o : SGET(r.file.strs, o))
           kept == [S EXCEPT !.stdef = Append(@, vals)]
           next == NextRecord(r, StatusWords(Len(offs)))
       IN IF Past(r, 1) THEN Fail(S)
          ELSE IF Len(S.stdef) >= S.lim.stdef THEN Read(S, next)
          ELSE IF there < Len(offs) THEN Fail(kept)
          ELSE Read(kept, next)

\* Three words are asked for and four are read: behind the end of the file the
\* buffer still holds what it held before.  An imported TABLE has no AST.
Stale == 0
Imported(f, td, nf) ==
  [flds |-> [j \in 1 .. nf |-> [name |-> SGET(f.strs, td.flds[j].name),
                                jtype |-> td.flds[j].jtype, by |-> "plain"]],
   lo |-> td.lo, hi |-> td.hi, ast_nd |-> FALSE, wordsz |-> 16]
ReadTable(S, r) ==
  IF r.i > Len(r.file.tbldef) THEN LoopDone(S, r, "types")
  ELSE LET td == r.file.tbldef[r.i]
           nf == Len(td.flds)
           got == Cardinality({j \in 1 .. nf : ~ Past(r, TableWords(j))})
           seen == IF Past(r, 4) THEN [td EXCEPT !.hi = Stale] ELSE td
           kept == [S EXCEPT !.tbldef = Append(@, Imported(r.file, seen, got))]
       IN IF Past(r, 3) THEN Fail(S)
          ELSE IF Len(S.tbldef) >= S.lim.tbldef THEN Read(S, NextRecord(r, TableWords(nf)))
          ELSE IF got < nf THEN Fail(kept)
          ELSE Read(kept, NextRecord(r, TableWords(nf)))

\* Every type is interned anew, its inner type renamed as that was itself (0 if
\* it was not yet), the definition it refers to shifted as if all of the file's
\* had been stored.
Renamed(remap, t) == IF t \in DOMAIN remap THEN remap[t] ELSE 0
\* (Mutant: an index is kept as it is in the file.)
ShiftedNot(ty, r) == ty.extra
Shifted(ty, r) ==
  CASE ty.kind = "status" -> ty.extra + r.base_stdef
    [] ty.kind = "table" -> ty.extra + r.base_tbldf
    [] OTHER -> ty.extra

\* Then the types of the fields that came with the file.
FixFields(S, remap, from) ==
  LET Fixed(f) == [f EXCEPT !.jtype = Renamed(remap, f.jtype)]
      Tab(td) == [td EXCEPT !.flds = MapSeq(td.flds, Fixed)]
  IN [S EXCEPT !.tbldef = [i \in DOMAIN S.tbldef |->
        IF i <= from THEN S.tbldef[i] ELSE Tab(S.tbldef[i])]]
ImportType(S, r) ==
  IF r.i > Len(r.file.types) THEN LoopDone(FixFields(S, r.remap, r.base_tbldf), r, "syms")
  ELSE LET ty == r.file.types[r.i]
           new == jt_intern(S, [ty EXCEPT !.inner = Renamed(r.remap, ty.inner),
                                          !.extra = Shifted(ty, r)])
       IN Read(new.s, [r EXCEPT !.i = @ + 1, !.remap = Append(@, new.t)])

\* (Mutant: a file cut within its last symbol passes.)
ReadSymbolShort(S, r) ==
  IF r.i > Len(r.file.syms) THEN LoopDone(S, r, "SK_OK")
  ELSE LET sy == r.file.syms[r.i]
           new == [sy EXCEPT !.name = SGET(r.file.strs, @), !.type = Renamed(r.remap, @)]
       IN IF Past(r, SymbolWords - 1) THEN Fail(S)
          ELSE Read(add_sym(S, new), NextRecord(r, SymbolWords))
ReadSymbol(S, r) ==
  IF r.i > Len(r.file.syms) THEN LoopDone(S, r, "SK_OK")
  ELSE LET sy == r.file.syms[r.i]
           new == [sy EXCEPT !.name = SGET(r.file.strs, @), !.type = Renamed(r.remap, @)]
       IN IF Past(r, SymbolWords) THEN Fail(S)
          ELSE Read(add_sym(S, new), NextRecord(r, SymbolWords))

cpl_read_step(S, r) ==
  CASE r.at = "stdef" -> ReadStatus(S, r)
    [] r.at = "tbldef" -> ReadTable(S, r)
    [] r.at = "types" -> ImportType(S, r)
    [] r.at = "syms" -> ReadSymbol(S, r)
=============================================================================
