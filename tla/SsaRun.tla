------------------------------ MODULE SsaRun ------------------------------
(***************************************************************************)
(* A procedure before and after jir_m2r, executed side by side: the loads  *)
(* and stores the lowering emitted on one side, the SSA values and the     *)
(* PHI copies of phi_cpy in src/x86/x86_emit.c (and src/rv/rv_emit.c) on   *)
(* the other.  Both take the same branches.                                *)
(***************************************************************************)
EXTENDS Mem2Reg

VARIABLES
  at,   \* the block about to run, None once the procedure has returned
  mem,  \* the locals' memory in the program before, by alloca
  mem2, \* the same after, for the locals that keep their alloca
  loc,  \* where each instruction of the program after keeps its value
  val,  \* the values in those places
  seen  \* what the two programs returned

runVars == <<at, mem, mem2, loc, val, seen>>
vars == <<lowVars, m2rVars, runVars>>

Undef == 0  \* what an uninitialised local, or an operand never set, holds

\* The step of a FOR moves values around a cycle of two.
Incremented(v) ==
  CASE v = Undef -> Undef [] v < -500 -> v + 500 [] OTHER -> v - 500

\* Execution of block b of module m up to its first terminator, from memory mm
\* and values vv, the value of instruction k being kept at lc[k].
Value(vv, lc, x) == IF IsConst(x) THEN x ELSE vv[lc[x]]
Exec(m, lc, r, k) ==
  LET I == m.insts[k]
      arg == Value(r.val, lc, I.ops[1])
  IN IF r.stop THEN r
     ELSE CASE I.op = "store" -> [r EXCEPT !.mem[I.ops[2]] = arg]
            [] I.op = "load" -> [r EXCEPT !.val[lc[k]] = r.mem[I.ops[1]]]
            [] I.op = "add" -> [r EXCEPT !.val[lc[k]] = Incremented(arg)]
            [] I.op = "ret" /\ I.ops # <<>> -> [r EXCEPT !.out = arg, !.stop = TRUE]
            [] I.op \in Terminators /\ ~ (I.op = "ret" /\ I.ops # <<>>) ->
                 [r EXCEPT !.to = Targets(I), !.stop = TRUE]
            [] OTHER -> r
RunBlock(m, lc, b, mm, vv) ==
  Through(LAMBDA r, k : Exec(m, lc, r, k),
          [mem |-> mm, val |-> vv, out |-> None, to |-> <<>>, stop |-> FALSE],
          [k \in 1 .. m.blks[b].n_inst |-> m.blks[b].first + k - 1])

\* phi_cpy of module m on the edge from b to t: one PHI after the other takes
\* its operand for that edge, also from a PHI copied just before.  From the
\* fifth predecessor on the operand is instruction 0.
phi_cpy(m, lc, vv, b, t) ==
  LET slot == SelectInSeq(pred[t], LAMBDA q : q = b)
      src(w, ops) == IF slot \in DOMAIN ops /\ ops[slot] # None
                       THEN Value(w, lc, ops[slot]) ELSE Undef
      phis == Keep([k \in 1 .. m.blks[t].n_inst |-> m.blks[t].first + k - 1],
                   {k \in DOMAIN m.insts : m.insts[k].op = "phi"})
  IN IF slot = 0 THEN vv
     ELSE Through(LAMBDA w, k : [w EXCEPT ![lc[k]] = src(w, m.insts[k].ops)],
                  vv, phis)

RunInit ==
  /\ at = None /\ seen = <<None, None>>
  /\ mem = <<>> /\ mem2 = <<>> /\ loc = <<>> /\ val = <<>>

\* The caller has stored the arguments into the parameters' allocas.
Argument(a) == IF a <= NParams THEN MkConst(400 + a) ELSE Undef
Begin(places) ==
  /\ stage' = "run"
  /\ at' = 1
  /\ mem' = [a \in DOMAIN old.insts |-> Argument(a)]
  /\ mem2' = mem'
  /\ loc' = places
  /\ val' = [l \in Range(places) |-> Undef]
  /\ UNCHANGED <<lowVars, pred, pvar, rpo, idom, df, phi, repl, old, seen>>

Identity(m) == [k \in DOMAIN m.insts |-> k]
\* Each instruction has a place of its own.
Start == stage = "done" /\ Begin(Identity(M))

\* One block on both sides; the branch, if there is one, may go either way.
Step ==
  /\ stage = "run"
  /\ at # None
  /\ LET before == RunBlock(old, Identity(old), at, mem,
                            [k \in DOMAIN old.insts |-> Undef])
         after == RunBlock(M, loc, at, mem2, val)
     IN /\ mem' = before.mem
        /\ mem2' = after.mem
        /\ seen' = <<before.out, after.out>>
        /\ IF before.to = <<>>
             THEN at' = None /\ val' = after.val
             ELSE \E t \in Range(before.to) :
                    at' = t /\ val' = phi_cpy(M, loc, after.val, at, t)
  /\ UNCHANGED <<lowVars, m2rVars, loc>>

Init == LowInit /\ M2RInit /\ RunInit
Next ==
  \/ low_func /\ UNCHANGED <<m2rVars, runVars>>
  \/ jir_m2r /\ UNCHANGED runVars
  \/ Start
  \/ Step
Spec == Init /\ [][Next]_vars

---------------------------------------------------------------------------
(* Reachability and dominance, by definition.                              *)

Reached(avoiding) ==
  Iterate(LAMBDA S : S \cup ((UNION {Range(Succs(b)) : b \in S}) \ avoiding),
          {1}, Len(M.blks))
Reach == Reached({})
Dom(a, b) == a = b \/ a = 1 \/ b \notin Reached({a})
SDom(a, b) == a # b /\ Dom(a, b)
Frontier(a) ==
  {b \in Reach : ~ SDom(a, b) /\ \E p \in Reach : b \in Range(Succs(p)) /\ Dom(a, p)}

---------------------------------------------------------------------------
(* Properties.                                                             *)

IsLoop(f) == f.kind \in {"while", "for"}

Stages == {"cfg", "prm", "rpo", "dom", "df", "phi", "ren", "rewrite", "done",
           "run", "crashed"}

\* Every block, operand and predecessor the passes leave behind is one of the
\* procedure's.
TypeOK ==
  /\ stage \in Stages
  /\ cur_blk \in Blocks
  /\ Range(lp_exit) \subseteq Blocks
  /\ \A l \in Labels : lbl[l] \in Blocks \cup {0}
  /\ \A b \in Blocks : \A k \in Insts(b) : Range(Targets(M.insts[k])) \subseteq Blocks
  /\ pred # <<>> => DOMAIN pred = Blocks /\ \A b \in Blocks : Len(pred[b]) <= MaxPreds
  /\ idom # <<>> => idom \in [Blocks -> Blocks \cup {None}]
  /\ at \in Blocks \cup {None}

\* low_stmt leaves no reachable block open: the lowered procedure never falls
\* off the end of a block, which mk_cfg and the back ends rely on.
BlocksClosed ==
  lowered /\ stage = "cfg" =>
    \A b \in Reach : M.blks[b].n_inst > 0 /\ LastOf(M, b).op \in Terminators

\* EXIT leaves the loop it is written in: lp_exit agrees with the loops whose
\* bodies are being lowered.
Innermost(k) ==
  IsLoop(stack[k]) /\ \A j \in DOMAIN stack : IsLoop(stack[j]) => j <= k
ExitsInnermost ==
  [][Exit => \A k \in DOMAIN stack :
       Innermost(k) => Last(M'.insts) = Br(stack[k].end)]_vars

\* The sweeps of cmp_dom end with one that changes nothing, also where a GOTO
\* leads into a loop; 64 of them are enough.
Settled == stage = "df" => Sweep(Num, idom) = idom

\* cmp_dom finds the immediate dominator of every reachable block.
DomRight ==
  stage = "df" => \A b \in Reach \ {1} :
    /\ SDom(idom[b], b)
    /\ \A a \in Reach : SDom(a, b) => Dom(a, idom[b])

\* "each block's entries are contiguous": what ins_phi reads back for a block
\* is its dominance frontier.
DfExact == stage = "phi" => \A a \in Reach : Range(DfOf(df, a)) = Frontier(a)

\* jir_m2r only breaks down on a reachable join with an unreachable predecessor.
CrashesOnlyOnDeadPred ==
  stage = "crashed" => \E b \in Reach : ~ Range(pred[b]) \subseteq Reach

\* "SSA in flat arrays. Every value is an instruction index": after rewrite an
\* operand in reachable code names a value whose definition dominates its use,
\* and the operand of a PHI dominates the end of its predecessor.
BlockOf(k) == CHOOSE b \in Blocks : k \in Insts(b)
DefinedAt(x, b, k) ==
  /\ x # None
  /\ M.insts[x].op \in {"phi", "add", "load"}
  /\ LET d == BlockOf(x) IN IF d = b THEN x < k ELSE SDom(d, b)
SsaForm ==
  stage = "done" /\ rpo # <<>> => \A b \in Reach : \A k \in Insts(b) :
    LET I == M.insts[k] IN
      CASE I.op = "phi" ->
             \A q \in DOMAIN I.ops :
               LET p == pred[b][q] IN
                 p \in Reach /\ ~ IsConst(I.ops[q])
                   => DefinedAt(I.ops[q], p, Len(M.insts) + 1)
        [] I.op \in {"store", "ret", "add"} /\ I.ops # <<>> ->
             ~ IsConst(I.ops[1]) => DefinedAt(I.ops[1], b, k)
        [] OTHER -> TRUE

\* rewrite stays within the instructions the procedure had: "fill gap between
\* compacted end and original end", the next procedure's code is not touched.
FitsInPlace == stage = "done" => Len(M.insts) = Len(old.insts)

\* "emit PHI parallel copies": on entry to a block every PHI holds the value
\* its operand had at the end of the predecessor.
CopiesInParallel ==
  [][stage = "run" /\ at' # None =>
       LET end == RunBlock(M, loc, at, mem2, val).val
           slot == SelectInSeq(pred[at'], LAMBDA q : q = at)
       IN \A k \in Insts(at') :
            M.insts[k].op = "phi" /\ slot \in DOMAIN M.insts[k].ops =>
              val'[loc[k]] = Value(end, loc, M.insts[k].ops[slot])]_vars

---------------------------------------------------------------------------
(* When promotion preserves the procedure.                                 *)

\* No statement follows a jump in its block.
JumpsEndBlocks ==
  \A b \in Blocks : \A k \in 1 .. (old.blks[b].n_inst - 1) :
    old.insts[old.blks[b].first + k - 1].op \notin Terminators
FrontiersRead == \A a \in Reach : Range(DfOf(df, a)) = Frontier(a)
\* Every predecessor of a PHI has an operand slot.
SlotsSuffice ==
  \A p \in DOMAIN phi :
    Cardinality({b \in Blocks : phi[p].blk \in Range(Succs(b))}) <= OpSlots
\* No PHI copies another PHI of its block that is copied before it.
CopyOrderFree ==
  \A b \in Blocks : \A j, k \in Insts(b) :
    M.insts[j].op = "phi" /\ M.insts[k].op = "phi" /\ j < k =>
      j \notin Range(M.insts[k].ops)

\* The procedure after jir_m2r returns what the procedure before it returns,
\* on every path, wherever the four conditions above hold: frontiers, PHI
\* placement, renaming and remapping never lose or mix up a value.
SameResult == seen[1] = Undef \/ seen[1] = seen[2]
PromotionApplies ==
  JumpsEndBlocks /\ FrontiersRead /\ SlotsSuffice /\ CopyOrderFree
PromotionSound == SameResult \/ ~ PromotionApplies
=============================================================================
