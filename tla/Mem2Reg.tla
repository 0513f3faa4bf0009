------------------------------ MODULE Mem2Reg ------------------------------
(***************************************************************************)
(* jir_m2r of src/ir/jir_mem2reg.c: one procedure's scalar allocas become  *)
(* SSA values.  One action per pass, in the order jir_m2r calls them, on   *)
(* the blocks that Lowering left in M.                                     *)
(***************************************************************************)
EXTENDS Lowering

CONSTANTS
  MaxPreds, \* M2R_MAXP
  MaxKids,  \* children of a dominator-tree node that bld_dch keeps
  MaxVars,  \* M2R_MAXV
  NParams,  \* n_params: locals 1 .. NParams are parameters
  OpSlots,  \* operands stored in a jir_inst_t
  FakeBase, \* FAKE_BASE, which is JIR_MAX_INST: no instruction has a number above
  MaxChase  \* links of a replacement chain that remap follows

ASSUME Mem2RegAssumption ==
  /\ MaxPreds \in Nat /\ MaxKids \in Nat /\ MaxVars \in Nat /\ OpSlots \in Nat
  /\ FakeBase \in Nat /\ MaxChase \in Nat
  /\ NParams \in 0 .. NVars

VARIABLES
  stage, \* the pass jir_m2r is about to run
  pred,  \* g_nprd, g_pred: the predecessors of each block, in edge order
  pvar,  \* g_pvar: the promotable allocas
  rpo,   \* g_rpo
  idom,  \* g_idom, None where the code has -1
  df,    \* g_dfbuf, g_dfoff, g_dfcnt
  phi,   \* g_phi: blk, var and ops of each PHI
  repl,  \* g_dead and g_repl: the dead instructions, with the loads' values
  old    \* the procedure as it was before rewrite

m2rVars == <<stage, pred, pvar, rpo, idom, df, phi, repl, old>>

Blocks == DOMAIN M.blks
Insts(b) == M.blks[b].first .. (M.blks[b].first + M.blks[b].n_inst - 1)
None == 0

Targets(I) ==
  CASE I.op = "br" -> <<I.ops[1]>>
    [] I.op = "br_cond" -> <<I.ops[2], I.ops[3]>>
    [] OTHER -> <<>>

\* Only the last instruction of a block counts as its terminator.
Succs(b) == IF M.blks[b].n_inst = 0 THEN <<>> ELSE Targets(LastOf(M, b))

Pass(s, t) == lowered /\ stage = s /\ stage' = t /\ UNCHANGED lowVars

M2RInit ==
  /\ stage = "cfg"
  /\ pred = <<>> /\ pvar = <<>> /\ rpo = <<>> /\ idom = <<>>
  /\ df = <<>> /\ phi = <<>> /\ repl = <<>> /\ old = <<>>

\* mk_cfg: at most MaxPreds predecessors are recorded.
Prefix(s, n) == SubSeq(s, 1, IF n < Len(s) THEN n ELSE Len(s))
Steps(n) == [k \in 1 .. n |-> k]
\* The entries of s that are in T, in their order.
Keep(s, T) ==
  LET kept[k \in 0 .. Len(s)] ==
        IF k = 0 THEN <<>>
        ELSE IF s[k] \in T THEN Append(kept[k - 1], s[k]) ELSE kept[k - 1]
  IN kept[Len(s)]
Edges == FlattenSeq([b \in Blocks |-> [k \in DOMAIN Succs(b) |-> <<b, Succs(b)[k]>>]])
Into(edges, t) == Keep(edges, Blocks \X {t})
PredsOf(edges, t) ==
  LET into == Into(edges, t)
  IN Prefix([k \in DOMAIN into |-> into[k][1]], MaxPreds)
mk_cfg ==
  /\ Pass("cfg", "prm")
  /\ LET edges == Edges IN pred' = [t \in Blocks |-> PredsOf(edges, t)]
  /\ UNCHANGED <<pvar, rpo, idom, df, phi, repl, old>>

\* fnd_prm: the allocas behind the parameters' that nothing uses but a load
\* or, as the address, a store.
Uses(I) ==
  CASE I.op \in {"br", "load"} -> {}
    [] I.op \in {"br_cond", "store"} -> {I.ops[1]}
    [] OTHER -> Range(I.ops)
Promotable(a) ==
  /\ M.insts[a].op = "alloca"
  /\ Cardinality({b \in 1 .. a : M.insts[b].op = "alloca"}) > NParams
  /\ \A k \in DOMAIN M.insts : a \notin Uses(M.insts[k])
\* jir_m2r leaves a procedure without any as it is.
fnd_prm ==
  /\ LET found == Prefix(Keep(Steps(Len(M.insts)), {a \in DOMAIN M.insts : Promotable(a)}),
                         MaxVars)
     IN /\ Pass("prm", IF found = <<>> THEN "done" ELSE "rpo")
        /\ pvar' = found
        /\ old' = IF found = <<>> THEN M ELSE old
  /\ UNCHANGED <<pred, rpo, idom, df, phi, repl>>

---------------------------------------------------------------------------
\* mk_rpo: blocks are marked when pushed, so the order is that of a
\* depth-first search by last visit, reversed.
Iterate(f(_), x, n) ==
  LET it[k \in 0 .. n] == IF k = 0 THEN x ELSE f(it[k - 1]) IN it[n]
\* f carried through the entries of s, from x.
Through(f(_, _), x, s) ==
  LET it[k \in 0 .. Len(s)] == IF k = 0 THEN x ELSE f(it[k - 1], s[k]) IN it[Len(s)]

\* (Mutant: only the first branch of a BR_COND is followed.)
PopFirst(st) ==
  IF st.work = <<>> THEN st
  ELSE LET b == Last(st.work)[1]
           new == Keep(Prefix(Succs(b), 1), Blocks \ st.vis)
       IN [work |-> Front(st.work) \o [k \in DOMAIN new |-> <<new[k], "pre">>],
           vis |-> st.vis \cup Range(new), out |-> Append(st.out, b)]

Pop(st) ==
  IF st.work = <<>> THEN st
  ELSE LET top == Last(st.work)
           b == top[1]
           new == Keep(Succs(b), Blocks \ st.vis)
           once == IF Len(new) = 2 /\ new[1] = new[2] THEN Tail(new) ELSE new
       IN IF top[2] = "post"
            THEN [st EXCEPT !.work = Front(@), !.out = <<b>> \o @]
            ELSE [work |-> Front(st.work) \o <<<<b, "post">>>>
                           \o Reverse([k \in DOMAIN once |-> <<once[k], "pre">>]),
                  vis |-> st.vis \cup Range(once), out |-> st.out]
mk_rpo ==
  /\ Pass("rpo", "dom")
  /\ rpo' = Iterate(Pop, [work |-> <<<<1, "pre">>>>, vis |-> {1}, out |-> <<>>],
                    2 * Len(M.blks)).out
  /\ UNCHANGED <<pred, pvar, idom, df, phi, repl, old>>

\* cmp_dom: the two-finger walk up the tree d, then the sweeps over rpo
\* until nothing changes.
Climb(num, d, p) ==
  IF p[1] = p[2] THEN p
  ELSE IF num[p[1]] > num[p[2]] THEN <<d[p[1]], p[2]>> ELSE <<p[1], d[p[2]]>>
Intersect(num, d, a, b) ==
  Iterate(LAMBDA p : Climb(num, d, p), <<a, b>>, 2 * Len(rpo))[1]
\* (Mutant: the first processed predecessor is taken as it is.)
NewIdomFirst(num, d, b) ==
  LET done == SelectSeq(pred[b], LAMBDA p : d[p] # None)
  IN IF done = <<>> THEN d[b] ELSE done[1]
Meet(num, d, a, p) ==
  IF d[p] = None THEN a
  ELSE IF a = None THEN p ELSE Intersect(num, d, a, p)
NewIdom(num, d, b) ==
  LET met[k \in 0 .. Len(pred[b])] ==
        IF k = 0 THEN None ELSE Meet(num, d, met[k - 1], pred[b][k])
      new == met[Len(pred[b])]
  IN IF new = None THEN d[b] ELSE new
Improve(num, d, b) == IF b = 1 THEN d ELSE [d EXCEPT ![b] = NewIdom(num, d, b)]
Sweep(num, d) ==
  LET swept[k \in 0 .. Len(rpo)] ==
        IF k = 0 THEN d ELSE Improve(num, swept[k - 1], rpo[k])
  IN swept[Len(rpo)]
Num == [b \in Range(rpo) |-> CHOOSE k \in DOMAIN rpo : rpo[k] = b]
\* (Mutant: nothing asks for a second sweep.)
SettleOnce(num, st) == [d |-> IF st.changed THEN Sweep(num, st.d) ELSE st.d, changed |-> FALSE]
Settle(num, st) ==
  IF st.changed
    THEN LET e == Sweep(num, st.d) IN [d |-> e, changed |-> e # st.d]
    ELSE st
cmp_dom ==
  /\ Pass("dom", "df")
  /\ LET num == Num
         none == [b \in Blocks |-> IF b = 1 THEN 1 ELSE None]
     IN idom' = Iterate(LAMBDA st : Settle(num, st),
                        [d |-> none, changed |-> TRUE], 64).d
  /\ UNCHANGED <<pred, pvar, rpo, df, phi, repl, old>>

\* cmp_df: an entry goes to the end of the one buffer; a block's offset is
\* where its first entry went, and its entries are read from there.
DfOf(d, b) == [k \in 1 .. d.cnt[b] |-> d.buf[d.off[b] + k]]
AddDf(d, runner, b) ==
  IF b \in Range(DfOf(d, runner)) THEN d
  ELSE [buf |-> Append(d.buf, b),
        off |-> IF d.cnt[runner] = 0
                  THEN [d.off EXCEPT ![runner] = Len(d.buf)] ELSE d.off,
        cnt |-> [d.cnt EXCEPT ![runner] = @ + 1]]

\* The runner goes up from a predecessor of b to the dominator of b.
Runners(b, p) ==
  LET Stop(x) == x = idom[b] \/ x = None \/ x = idom[x]
      Up(s) == IF Stop(Last(s)) THEN s ELSE Append(s, idom[Last(s)])
      path == Iterate(Up, <<p>>, Len(M.blks))
  IN IF Last(path) = idom[b] THEN Front(path) ELSE path
JoinRuns ==
  FlattenSeq([b \in Blocks |->
    IF Len(pred[b]) < 2 THEN <<>>
    ELSE FlattenSeq([k \in DOMAIN pred[b] |->
      LET up == Runners(b, pred[b][k])
      IN [j \in DOMAIN up |-> <<up[j], b>>]])])

\* Above an unreachable predecessor there is no dominator: the code goes on
\* with block (uint32_t)-1, far outside its tables, and is stopped there.
cmp_df ==
  /\ LET runs == JoinRuns
         wild == \E k \in DOMAIN runs : runs[k][1] = None
     IN /\ Pass("df", IF wild THEN "crashed" ELSE "phi")
        /\ df' = IF wild THEN df
                 ELSE Through(LAMBDA d, r : AddDf(d, r[1], r[2]),
                        [buf |-> <<>>, off |-> [b \in Blocks |-> 0],
                         cnt |-> [b \in Blocks |-> 0]], runs)
  /\ UNCHANGED <<pred, pvar, rpo, idom, phi, repl, old>>

---------------------------------------------------------------------------
\* ins_phi: for each promoted alloca, the blocks that store to it and then,
\* from a work list, every block of their dominance frontiers.
StoresTo(b, a) ==
  \E k \in Insts(b) : M.insts[k].op = "store" /\ M.insts[k].ops[2] = a
Ascending(S) == Keep(Steps(Len(M.blks)), S)
\* (Mutant: a block that gets a PHI does not go on the work list.)
SpreadOnce(st, b) == [st EXCEPT !.has = @ \cup Range(DfOf(df, b))]
Spread(st, b) ==
  LET new == Range(DfOf(df, b)) \ st.has
  IN [has |-> st.has \cup new,
      work |-> st.work \o Ascending(new \ Range(st.work))]
PhiBlocks(a) ==
  LET seed == Ascending({b \in Blocks : StoresTo(b, a)})
      Step(st, k) == IF k \in DOMAIN st.work THEN Spread(st, st.work[k]) ELSE st
  IN Through(Step, [has |-> {}, work |-> seed], Steps(Len(M.blks))).has
ins_phi ==
  /\ Pass("phi", "ren")
  /\ phi' = FlattenSeq([v \in DOMAIN pvar |->
       LET at == Ascending(PhiBlocks(pvar[v]))
       IN [k \in DOMAIN at |-> [blk |-> at[k], var |-> v,
                                ops |-> [p \in DOMAIN pred[at[k]] |-> None]]]])
  /\ UNCHANGED <<pred, pvar, rpo, idom, df, repl, old>>

---------------------------------------------------------------------------
\* ren_var: a walk over the dominator tree with one stack of values per
\* promoted variable.  The value of PHI number p is written as FakeId(p).
FakeId(p) == FakeBase + p
IsFake(v) == v > FakeBase
ZeroC == MkConst(2)

\* bld_dch
Kids(b) ==
  Prefix(Ascending({k \in Blocks : k # 1 /\ idom[k] = b /\ k # b}), MaxKids)

VarOf(I, slot) ==
  IF \E v \in DOMAIN pvar : pvar[v] = I.ops[slot]
    THEN CHOOSE v \in DOMAIN pvar : pvar[v] = I.ops[slot] ELSE None
Current(st, v) == IF st.val[v] = <<>> THEN ZeroC ELSE Last(st.val[v])
With(f, k, x) == [d \in DOMAIN f \cup {k} |-> IF d = k THEN x ELSE f[d]]
Push(st, v, x) == [st EXCEPT !.val[v] = Append(@, x)]

\* The PHIs of block b, by number.
PhisOf(b) == Keep(Steps(Len(phi)), {p \in DOMAIN phi : phi[p].blk = b})

\* PHIs of the block define their variables first.
PushPhis(st, b) ==
  Through(LAMBDA s, p : Push(s, phi[p].var, FakeId(p)), st, PhisOf(b))

\* Allocas, stores and loads of promoted variables die; a store pushes its
\* value, a load is replaced by the value on top.
Rename(st, k) ==
  LET I == M.insts[k]
      kill == [st EXCEPT !.dead = @ \cup {k}]
  IN CASE I.op = "alloca" -> IF k \in Range(pvar) THEN kill ELSE st
       [] I.op = "store" /\ VarOf(I, 2) # None -> Push(kill, VarOf(I, 2), I.ops[1])
       [] I.op = "load" /\ VarOf(I, 1) # None ->
            [kill EXCEPT !.repl = With(@, k, Current(st, VarOf(I, 1)))]
       [] OTHER -> st

\* Every branch of the block, not only the last instruction, hands the
\* current values to the PHIs of its targets, in the slot of this block.
FillFrom(st, b, t) ==
  LET slot == SelectInSeq(pred[t], LAMBDA q : q = b)
      Filled(p) == [p EXCEPT !.ops[slot] = Current(st, p.var)]
  IN IF slot = 0 THEN st
     ELSE [st EXCEPT !.phi =
            [p \in DOMAIN @ |-> IF @[p].blk = t THEN Filled(@[p]) ELSE @[p]]]

InstSeq(b) == [k \in 1 .. M.blks[b].n_inst |-> M.blks[b].first + k - 1]
RenameBlock(st, b) ==
  LET body == Through(Rename, PushPhis(st, b), InstSeq(b))
      outs == FlattenSeq([k \in DOMAIN InstSeq(b) |-> Targets(M.insts[InstSeq(b)[k]])])
  IN Through(LAMBDA s, t : FillFrom(s, b, t), body, outs)

\* (Mutant: the stacks are not restored.)
WalkOn(st) ==
  IF st.work = <<>> THEN st
  ELSE LET b == Last(st.work).blk
           kids == [k \in DOMAIN Kids(b) |-> [blk |-> Kids(b)[k], val |-> <<>>]]
       IN [RenameBlock([st EXCEPT !.work = Front(@)], b)
             EXCEPT !.work = @ \o Reverse(kids)]

\* A frame is a block to enter, or the stacks to restore on the way back.
Walk(st) ==
  IF st.work = <<>> THEN st
  ELSE LET top == Last(st.work)
           rest == [st EXCEPT !.work = Front(@)]
           back == [blk |-> None, val |-> st.val]
           kids == [k \in DOMAIN Kids(top.blk) |->
                      [blk |-> Kids(top.blk)[k], val |-> <<>>]]
       IN IF top.blk = None THEN [rest EXCEPT !.val = top.val]
          ELSE [RenameBlock(rest, top.blk) EXCEPT !.work = @ \o <<back>> \o Reverse(kids)]
ren_var ==
  /\ Pass("ren", "rewrite")
  /\ LET st == Iterate(Walk,
                 [work |-> <<[blk |-> 1, val |-> <<>>]>>,
                  val |-> [v \in DOMAIN pvar |-> <<>>],
                  phi |-> phi, dead |-> {}, repl |-> <<>>],
                 2 * Len(M.blks))
     IN phi' = st.phi /\ repl' = [dead |-> st.dead, value |-> st.repl]
  /\ UNCHANGED <<pred, pvar, rpo, idom, df, old>>

---------------------------------------------------------------------------
\* rewrite: each block's PHIs, then its live instructions, in block order
\* from the place of the first; NOPs fill what is left.
NewCode(b) ==
  LET here == PhisOf(b)
  IN [k \in DOMAIN here |-> FakeId(here[k])]
     \o Keep(InstSeq(b), DOMAIN M.insts \ repl.dead)
Order == FlattenSeq([b \in Blocks |-> NewCode(b)])

\* remap: a dead load stands for its replacement, up to MaxChase times over.
Chase(v) == IF v \in DOMAIN repl.value THEN repl.value[v] ELSE v
remap(order, v) ==
  LET w == Iterate(Chase, v, MaxChase)
      new == IF IsConst(w) THEN 0 ELSE SelectInSeq(order, LAMBDA x : x = w)
  IN IF new = 0 THEN w ELSE new

\* A PHI keeps the operands that fit its slots; branch targets are blocks.
NewInst(order, x) ==
  IF IsFake(x)
    THEN LET ops == Prefix(phi[x - FakeBase].ops, OpSlots)
         IN Inst("phi", [k \in DOMAIN ops |-> remap(order, ops[k])])
    ELSE LET I == M.insts[x]
             isBlock(k) == I.op = "br" \/ (I.op = "br_cond" /\ k > 1)
         IN [I EXCEPT !.ops = [k \in DOMAIN @ |->
                                 IF isBlock(k) THEN @[k] ELSE remap(order, @[k])]]
SizeOf(b) == Len(NewCode(b))
FirstOf(b) == 1 + Through(LAMBDA n, c : n + SizeOf(c), 0, Steps(b - 1))
rewrite ==
  /\ lowered /\ stage = "rewrite" /\ stage' = "done"
  /\ old' = M
  /\ LET order == Order IN
     M' = [insts |-> [k \in DOMAIN order |-> NewInst(order, order[k])]
                     \o [k \in 1 .. (Len(M.insts) - Len(order)) |-> Inst("nop", <<>>)],
           blks |-> [b \in Blocks |-> [first |-> FirstOf(b), n_inst |-> SizeOf(b)]]]
  /\ UNCHANGED <<cur_blk, lp_exit, lbl, stack, left, lowered,
                 pred, pvar, rpo, idom, df, phi, repl>>

jir_m2r ==
  mk_cfg \/ fnd_prm \/ mk_rpo \/ cmp_dom \/ cmp_df \/ ins_phi \/ ren_var \/ rewrite
=============================================================================
