------------------------------ MODULE RegRun ------------------------------
(***************************************************************************)
(* From a promoted procedure to its registers: cmp_pp and cmp_iv of        *)
(* src/x86/x86_ra.c and src/rv/rv_ra.c compute the live intervals, the     *)
(* scan of LinearScan places them, and the procedure then runs with its    *)
(* values in those registers and stack slots.                              *)
(***************************************************************************)
EXTENDS SsaRun

CONSTANTS
  BackEnds,   \* "x86" or "rv": whose cmp_iv runs
  Pool, CalleeSaved, BitBase, MaskWidth, ActMax  \* those of LinearScan

VARIABLES
  target,  \* the back end at work
  pc, iv, reg, i, act, free, csave, csrm  \* those of LinearScan

raVars == <<pc, iv, reg, i, act, free, csave, csrm>>
allVars == <<vars, target, raVars>>

RA == INSTANCE LinearScan WITH Tables <- {}

---------------------------------------------------------------------------
(* cmp_pp and cmp_iv.                                                      *)

\* Program points: the instructions of the blocks, in block order.
Code == FlattenSeq([b \in Blocks |-> InstSeq(b)])
cmp_pp == LET code == Code IN
  [k \in Range(code) |-> SelectInSeq(code, LAMBDA x : x = k)]
LastInst(b) == M.blks[b].first + M.blks[b].n_inst - 1

IsValue(k) == M.insts[k].op \in {"load", "add", "phi"}
ValuesOf(ops) == {v \in Range(ops) : v \in DOMAIN M.insts /\ IsValue(v)}

\* A table under construction: start and end of each value.
Fresh0(pp) == [v \in {k \in DOMAIN pp : IsValue(k)} |-> [start |-> pp[v], end |-> pp[v]]]
Until(t, v, p) == IF p > t[v].end THEN [t EXCEPT ![v].end = p] ELSE t

\* Every operand lives until its use, branch targets aside.
Used(t, pp, k) ==
  IF M.insts[k].op \in {"br", "br_cond"} THEN t
  ELSE [v \in DOMAIN t |->
          IF v \in ValuesOf(M.insts[k].ops) /\ pp[k] > t[v].end
            THEN [t[v] EXCEPT !.end = pp[k]] ELSE t[v]]

\* The operand of a PHI lives to the end of the predecessor.  On x86, one
\* defined after that end is kept from the block of the PHI to the end of the
\* procedure.
\* (Mutant: it ends at its other uses.)
PhiOperandNot(t, pp, b, v, p) == t
PhiOperand(t, pp, b, v, p) ==
  LET tpp == pp[LastInst(p)]
      s == Until(t, v, tpp)
  IN IF target' = "x86" /\ tpp < s[v].start
       THEN [s EXCEPT ![v] = [start |-> pp[M.blks[b].first], end |-> Cardinality(DOMAIN pp)]]
       ELSE s
PhiOperands(t, pp, b, k) ==
  LET ops == M.insts[k].ops
      slots == SelectSeq(Steps(Len(ops)), LAMBDA q : ValuesOf(<<ops[q]>>) # {})
  IN FoldLeft(LAMBDA s, q : PhiOperand(s, pp, b, ops[q], pred[b][q]), t, slots)
\* On x86 a PHI with a predecessor further down lives to the end.
PhiResult(t, pp, b, k) ==
  IF target' = "x86" /\ \E q \in DOMAIN M.insts[k].ops : pred[b][q] > b
    THEN [t EXCEPT ![k].end = Cardinality(DOMAIN pp)] ELSE t

Visit(t, pp, b, k) ==
  LET s == Used(t, pp, k)
  IN IF M.insts[k].op = "phi" THEN PhiResult(PhiOperands(s, pp, b, k), pp, b, k) ELSE s

Table ==
  LET pp == cmp_pp
      VisitBlock(t, b) == FoldLeft(LAMBDA s, k : Visit(s, pp, b, k), t, InstSeq(b))
      done == FoldLeft(VisitBlock, Fresh0(pp), Steps(Len(M.blks)))
      ids == SelectSeq(Code, IsValue)
  IN [j \in DOMAIN ids |-> [iidx |-> ids[j], start |-> done[ids[j]].start,
                            end |-> done[ids[j]].end, cls |-> "gpr"]]

cmp_iv ==
  /\ stage = "done"
  /\ stage' = "alloc"
  /\ target' \in BackEnds
  /\ pc' = "sort"
  /\ iv' = Table
  /\ reg' = [k \in DOMAIN iv' |-> RA!NoReg]
  /\ i' = 2
  /\ UNCHANGED <<act, free, csave, csrm>>
  /\ UNCHANGED <<lowVars, pred, pvar, rpo, idom, df, phi, repl, old, runVars>>

---------------------------------------------------------------------------
\* srt_iv and ra_scan.
Allocate ==
  /\ stage = "alloc"
  /\ RA!Next
  /\ UNCHANGED <<vars, target>>

\* slotof or the register in g_rmap.
Place(k) ==
  IF k \in DOMAIN RA!rmap /\ RA!rmap[k] # RA!NoReg
    THEN <<"register", RA!rmap[k]>> ELSE <<"slot", k>>
Emitted ==
  /\ stage = "alloc"
  /\ pc = "done"
  /\ Begin([k \in DOMAIN M.insts |-> Place(k)])
  /\ UNCHANGED <<target, raVars>>

RegInit ==
  /\ Init
  /\ target = "none"
  /\ pc = "none" /\ iv = <<>> /\ reg = <<>> /\ i = 0 /\ act = <<>>
  /\ free = [c \in RA!Class |-> <<>>] /\ csave = {} /\ csrm = {}
RegNext ==
  \/ low_func /\ UNCHANGED <<m2rVars, runVars, target, raVars>>
  \/ jir_m2r /\ UNCHANGED <<runVars, target, raVars>>
  \/ cmp_iv
  \/ Allocate
  \/ Emitted
  \/ Step /\ UNCHANGED <<target, raVars>>
RegSpec == RegInit /\ [][RegNext]_allVars

---------------------------------------------------------------------------
(* Liveness, by definition.                                                *)

HasPhiFrom(v, b) ==
  \E s \in Range(Succs(b)) : \E k \in Insts(s) :
    /\ M.insts[k].op = "phi"
    /\ \E q \in DOMAIN M.insts[k].ops : pred[s][q] = b /\ M.insts[k].ops[q] = v
\* The last point of block b that reads v, other than for a PHI; 0 for none.
LastRead(pp, v, b) ==
  LET reads == {pp[k] : k \in {x \in Insts(b) :
                  M.insts[x].op \notin {"phi", "br", "br_cond"} /\ v \in Range(M.insts[x].ops)}}
  IN IF reads = {} THEN 0 ELSE CHOOSE p \in reads : \A q \in reads : q <= p
\* The blocks at whose end v is still needed.
LiveOut(pp, v) ==
  LET home == BlockOf(v)
      In(S) == {b \in Blocks \ {home} : LastRead(pp, v, b) # 0 \/ b \in S}
      Grow(S) == S \cup {b \in Reach : Range(Succs(b)) \cap In(S) # {}}
  IN Iterate(Grow, {b \in Reach : HasPhiFrom(v, b)}, Len(M.blks))
LiveIn(pp, v, out) ==
  {b \in Reach \ {BlockOf(v)} : LastRead(pp, v, b) # 0 \/ b \in out}
\* The points at which v must be in its place.
LivePoints(pp, v) ==
  LET out == LiveOut(pp, v)
      FirstAt(b) == IF b = BlockOf(v) THEN pp[v] ELSE pp[M.blks[b].first]
      LastAt(b) == IF b \in out THEN pp[LastInst(b)]
                   ELSE IF LastRead(pp, v, b) # 0 THEN LastRead(pp, v, b) ELSE pp[v]
  IN UNION {FirstAt(b) .. LastAt(b) : b \in LiveIn(pp, v, out) \cup {BlockOf(v)}}

Covered(pp, e) == \A p \in LivePoints(pp, e.iidx) : e.start <= p /\ p <= e.end
Values == {iv[k] : k \in {j \in DOMAIN iv : BlockOf(iv[j].iidx) \in Reach}}

---------------------------------------------------------------------------
(* Properties.                                                             *)

\* A value carried around a loop stays in its register: "Reserve the register
\* from the loop header to function end so it's not reused in the loop body".
LiveCovered ==
  stage = "alloc" /\ pc = "sort" /\ i = 2 =>
    LET pp == cmp_pp IN \A e \in Values : Covered(pp, e)

\* The value is live into a block that a later block jumps back to.
AroundLoop(pp, v) ==
  LET out == LiveOut(pp, v)
  IN \E h \in LiveIn(pp, v, out) : \E p \in Range(pred[h]) : p >= h /\ p \in out
\* The value is read, or flows on, at a point before its definition.
ReadAbove(pp, v) == \E p \in LivePoints(pp, v) : p < pp[v]

\* An interval of cmp_iv falls short of its value's life only where the value
\* is needed again after a jump backwards, around a loop or to a merge block
\* made before the blocks nested in its arms.
ShortOnlyBackwards ==
  stage = "alloc" /\ pc = "sort" /\ i = 2 =>
    LET pp == cmp_pp IN
      \A e \in Values : Covered(pp, e) \/ AroundLoop(pp, e.iidx) \/ ReadAbove(pp, e.iidx)

\* No PHI takes the place of a value that a later PHI of its block still has
\* to copy.
PlacesApart ==
  \A b \in Reach : \A j, k \in Insts(b) :
    M.insts[j].op = "phi" /\ M.insts[k].op = "phi" /\ j < k =>
      \A v \in ValuesOf(M.insts[k].ops) : loc[j] # loc[v]

\* The procedure run with its values in registers and stack slots returns what
\* the procedure run in memory returns, on every path, wherever promotion is
\* sound and every interval covers its value's life.  On x86 the intervals then
\* keep the places of the PHIs apart as well; on RISC-V they may not.
CompiledRight ==
  stage = "run" /\ at = None =>
    \/ SameResult
    \/ ~ PromotionApplies
    \/ LET pp == cmp_pp IN \E e \in Values : ~ Covered(pp, e)
    \/ target = "rv" /\ ~ PlacesApart
=============================================================================
