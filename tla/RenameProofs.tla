---------------------------- MODULE RenameProofs ----------------------------
(***************************************************************************)
(* Proofs about ren_var and rewrite: the walk over the dominator tree      *)
(* enters every reachable block once, with the stacks of the block above   *)
(* it, every value it hands on is defined where it is used, and rewrite    *)
(* leaves a procedure in SSA form.  At the end, that every block a pass or *)
(* a run names is one of the procedure's, and what fnd_prm, cmp_df and     *)
(* ins_phi promise the passes behind them.                                 *)
(***************************************************************************)
EXTENDS Mem2RegProofs

---------------------------------------------------------------------------
(* ren_var: the values the stacks hold, and where they are known.          *)

Stacks == [DOMAIN pvar -> Seq(Int)]
Replacements == UNION {[D -> Int] : D \in SUBSET DOMAIN M.insts}
PhiRec == [blk : Blocks, var : DOMAIN pvar, ops : Seq(Int)]
\* A frame with a block to enter, and one with the stacks to restore.
Frame == [blk : Blocks, val : {<<>>}] \cup [blk : {None}, val : Stacks]
Walking ==
  [work : Seq(Frame), val : Stacks, phi : Seq(PhiRec), dead : SUBSET DOMAIN M.insts,
   repl : Replacements]

\* What ren_var finds when it starts, and rewrite after it, whatever the limits
\* did before; no PHI has an operand at first.
Typed ==
  /\ Final(M) /\ phi \in Seq(PhiRec) /\ \A t \in Blocks : IsSeq(pred[t])
  /\ \A p \in DOMAIN phi : DOMAIN phi[p].ops = DOMAIN pred[phi[p].blk]
Unfilled == \A p \in DOMAIN phi : \A q \in DOMAIN phi[p].ops : phi[p].ops[q] = None

\* No limit took anything away: the tree is that of the immediate dominators,
\* the predecessors are complete, and no node has more children than are kept.
Below(b) == {k \in Blocks : k # 1 /\ idom[k] = b /\ k # b}
KidsFit == \A b \in Reach : Len(Ascending(Below(b))) <= MaxKids
NumbersFit == Len(M.insts) <= FakeBase
TreeRight ==
  /\ Ready /\ NumbersFit /\ KidsFit
  /\ \A t \in Blocks : IsInjective(pred[t])
  /\ \A b \in Blocks : idom[b] # None => b \in Reach
  /\ \A b \in Reach \ {1} : idom[b] \in Reach /\ SDom(idom[b], b) /\ Num[idom[b]] < Num[b]

\* x is computed in block d, by an instruction or by a PHI.
Where(x, d) ==
  \/ x \in Values(M, d)
  \/ \E p \in DOMAIN phi : x = FakeId(p) /\ phi[p].blk = d
\* x is defined before instruction k of block b on every path to it.
Defined(x, b, k) ==
  \E d \in Reach : Where(x, d) /\ (SDom(d, b) \/ (d = b /\ (x < k \/ IsFake(x))))
Supplied(x, b, k) == IsConst(x) \/ Defined(x, b, k)
Avail(vs, b, k) == \A v \in DOMAIN pvar : \A i \in DOMAIN vs[v] : Supplied(vs[v][i], b, k)
AtEndOf == Len(M.insts) + 1

LEMMA FinalParts ==
  ASSUME Final(M)
  PROVE  /\ Len(M.insts) \in Nat /\ DOMAIN M.insts = 1 .. Len(M.insts)
         /\ Len(M.blks) \in Nat /\ Blocks = 1 .. Len(M.blks) /\ 1 \in Blocks
         /\ \A b \in Blocks : M.blks[b].first \in Nat \ {0} /\ M.blks[b].n_inst \in Nat
         /\ \A b \in Blocks : Insts(b) = Home(M, b) /\ Home(M, b) \subseteq DOMAIN M.insts
         /\ Shaped(M)
<1>1. PICK c : Good(M, c, {}) /\ 1 \in Handled(M, c, {})
  BY DEF Final
<1>2. IsModule(M) /\ Within(M) /\ Shaped(M)
  BY <1>1 DEF Good
<1>3. /\ Len(M.insts) \in Nat /\ DOMAIN M.insts = 1 .. Len(M.insts)
      /\ Len(M.blks) \in Nat /\ Blocks = 1 .. Len(M.blks)
      /\ \A b \in Blocks : M.blks[b].first \in Nat \ {0} /\ M.blks[b].n_inst \in Nat
  BY <1>2, Parts DEF Blocks
<1>4. 1 \in Blocks
  BY <1>1 DEF Handled, Blocks
<1>5. ASSUME NEW b \in Blocks PROVE Insts(b) = Home(M, b) /\ Home(M, b) \subseteq DOMAIN M.insts
  <2>1. M.blks[b].n_inst > 0 => M.blks[b].first + M.blks[b].n_inst - 1 <= Len(M.insts)
    BY <1>2 DEF Within, Blocks
  <2>2. Home(M, b) = M.blks[b].first .. (M.blks[b].first + M.blks[b].n_inst - 1)
    BY DEF Home
  <2>3. Home(M, b) \subseteq DOMAIN M.insts
    BY <1>3, <2>1, <2>2
  <2> QED
    BY <2>2, <2>3 DEF Insts
<1> QED
  BY <1>2, <1>3, <1>4, <1>5

\* Values are numbers, none of them None.
LEMMA WhereNumber ==
  ASSUME Typed, NEW d \in Blocks, NEW x, Where(x, d)
  PROVE  x \in Nat \ {0}
<1>1. CASE x \in Values(M, d)
  <2>1. x \in DOMAIN M.insts /\ DOMAIN M.insts = 1 .. Len(M.insts)
    BY <1>1, FinalParts DEF Values, Typed
  <2> QED
    BY <2>1, FinalParts DEF Typed
<1>2. CASE \E p \in DOMAIN phi : x = FakeId(p) /\ phi[p].blk = d
  <2>1. PICK p \in DOMAIN phi : x = FakeId(p)
    BY <1>2
  <2>2. p \in Nat \ {0}
    BY LenProperties DEF Typed
  <2> QED
    BY <2>1, <2>2, Mem2RegAssumption DEF FakeId
<1> QED
  BY <1>1, <1>2 DEF Where

LEMMA SuppliedSome ==
  ASSUME Typed, NEW b, NEW k, NEW x \in Int, Supplied(x, b, k)
  PROVE  x # None
<1>1. CASE IsConst(x)
  BY <1>1 DEF IsConst, None
<1>2. CASE Defined(x, b, k)
  <2>1. PICK d \in Reach : Where(x, d)
    BY <1>2 DEF Defined
  <2>2. d \in Blocks
    BY FinalGraph, ReachFacts DEF Typed
  <2> QED
    BY <2>1, <2>2, WhereNumber DEF None
<1> QED
  BY <1>1, <1>2 DEF Supplied

\* What is known stays known further down the block and the tree.
LEMMA SuppliedLater ==
  ASSUME NEW x \in Int, NEW b, NEW k \in Int, NEW l \in Int, k <= l, Supplied(x, b, k)
  PROVE  Supplied(x, b, l)
<1>1. CASE IsConst(x)
  BY <1>1 DEF Supplied
<1>2. CASE Defined(x, b, k)
  <2>1. PICK d \in Reach : Where(x, d) /\ (SDom(d, b) \/ (d = b /\ (x < k \/ IsFake(x))))
    BY <1>2 DEF Defined
  <2>2. x < k => x < l
    OBVIOUS
  <2> QED
    BY <2>1, <2>2 DEF Supplied, Defined
<1> QED
  BY <1>1, <1>2 DEF Supplied

LEMMA SuppliedBelow ==
  ASSUME TreeRight, NEW x, NEW b \in Reach, NEW k, Supplied(x, b, k), NEW c \in Reach,
         SDom(b, c), NEW l
  PROVE  Supplied(x, c, l)
<1>1. CASE IsConst(x)
  BY <1>1 DEF Supplied
<1>2. CASE Defined(x, b, k)
  <2>1. PICK d \in Reach : Where(x, d) /\ (SDom(d, b) \/ d = b)
    BY <1>2 DEF Defined
  <2>2. SDom(d, c)
    BY <2>1, DomTrans DEF TreeRight
  <2> QED
    BY <2>1, <2>2 DEF Supplied, Defined
<1> QED
  BY <1>1, <1>2 DEF Supplied

LEMMA AvailLater ==
  ASSUME NEW vs \in Stacks, NEW b, NEW k \in Int, NEW l \in Int, k <= l, Avail(vs, b, k)
  PROVE  Avail(vs, b, l)
<1> SUFFICES ASSUME NEW v \in DOMAIN pvar, NEW i \in DOMAIN vs[v] PROVE Supplied(vs[v][i], b, l)
  BY DEF Avail
<1>1. vs[v] \in Seq(Int)
  BY DEF Stacks
<1>2. vs[v][i] \in Int
  BY <1>1, LenProperties
<1> QED
  BY <1>2, SuppliedLater DEF Avail

LEMMA AvailBelow ==
  ASSUME TreeRight, NEW vs, NEW b \in Reach, NEW k, Avail(vs, b, k), NEW c \in Reach,
         SDom(b, c), NEW l
  PROVE  Avail(vs, c, l)
BY SuppliedBelow DEF Avail

---------------------------------------------------------------------------
(* ren_var: what entering a block does to the stacks.                      *)

LEMMA CurrentFacts ==
  ASSUME NEW st \in Walking, NEW v \in DOMAIN pvar
  PROVE  /\ Current(st, v) \in Int
         /\ \A b, k : Avail(st.val, b, k) => Supplied(Current(st, v), b, k)
<1> DEFINE s == st.val[v]
<1>1. s \in Seq(Int)
  BY DEF Walking, Stacks
<1>2. ZeroC \in Int /\ IsConst(ZeroC)
  BY DEF ZeroC, MkConst, IsConst
<1>3. CASE s = <<>>
  <2>1. Current(st, v) = ZeroC
    BY <1>3 DEF Current
  <2> QED
    BY <1>2, <2>1 DEF Supplied
<1>4. CASE s # <<>>
  <2>1. Current(st, v) = Last(s)
    BY <1>4 DEF Current
  <2> HIDE DEF s
  <2>2. Len(s) \in DOMAIN s /\ Last(s) = s[Len(s)] /\ s[Len(s)] \in Int
    BY <1>1, <1>4, LenProperties DEF Last
  <2> QED
    BY <2>1, <2>2 DEF Avail, s
<1> QED
  BY <1>3, <1>4

LEMMA PushFacts ==
  ASSUME NEW st \in Walking, NEW v \in DOMAIN pvar, NEW x \in Int
  PROVE  /\ Push(st, v, x) \in Walking
         /\ Push(st, v, x).work = st.work /\ Push(st, v, x).phi = st.phi
         /\ Push(st, v, x).dead = st.dead /\ Push(st, v, x).repl = st.repl
         /\ \A b, k : Avail(st.val, b, k) /\ Supplied(x, b, k) => Avail(Push(st, v, x).val, b, k)
<1> DEFINE s == st.val[v]
           t == Append(s, x)
           w == [st.val EXCEPT ![v] = t]
<1>1. st.val \in Stacks /\ s \in Seq(Int)
  BY DEF Walking, Stacks
<1>2. /\ t \in Seq(Int) /\ Len(t) = Len(s) + 1 /\ Len(s) \in Nat
      /\ \A i \in 1 .. Len(s) : t[i] = s[i]
      /\ t[Len(s) + 1] = x
  BY <1>1, AppendProperties, LenProperties
<1>3. DOMAIN t = 1 .. Len(s) + 1 /\ DOMAIN s = 1 .. Len(s)
  BY <1>1, <1>2, LenProperties
<1>4. Push(st, v, x) = [st EXCEPT !.val = w]
  BY DEF Push
<1> HIDE DEF t
<1>5. w \in Stacks /\ w[v] = t /\ \A u \in DOMAIN pvar : u # v => w[u] = st.val[u]
  BY <1>1, <1>2 DEF Stacks
<1> HIDE DEF w
<1>6. /\ Push(st, v, x) \in Walking /\ Push(st, v, x).val = w
      /\ Push(st, v, x).work = st.work /\ Push(st, v, x).phi = st.phi
      /\ Push(st, v, x).dead = st.dead /\ Push(st, v, x).repl = st.repl
  BY <1>4, <1>5 DEF Walking
<1>7. ASSUME NEW b, NEW k, Avail(st.val, b, k), Supplied(x, b, k),
             NEW u \in DOMAIN pvar, NEW i \in DOMAIN w[u]
      PROVE  Supplied(w[u][i], b, k)
  <2>1. CASE u # v
    <3>1. w[u] = st.val[u] /\ i \in DOMAIN st.val[u]
      BY <1>5, <1>7, <2>1
    <3> QED
      BY <1>7, <3>1 DEF Avail
  <2>2. CASE u = v
    <3>1. w[u] = t /\ i \in 1 .. Len(s) + 1
      BY <1>3, <1>5, <1>7, <2>2
    <3>2. CASE i = Len(s) + 1
      BY <1>2, <1>7, <3>1, <3>2
    <3>3. CASE i # Len(s) + 1
      <4>1. i \in 1 .. Len(s)
        BY <1>2, <3>1, <3>3
      <4>2. w[u][i] = s[i] /\ i \in DOMAIN st.val[v]
        BY <1>2, <1>3, <3>1, <4>1
      <4> QED
        BY <1>7, <4>2 DEF Avail
    <3> QED
      BY <3>2, <3>3
  <2> QED
    BY <2>1, <2>2
<1> QED
  BY <1>6, <1>7 DEF Avail

LEMMA PhisOfFacts ==
  ASSUME Typed, NEW b
  PROVE  /\ IsSeq(PhisOf(b)) /\ Len(PhisOf(b)) \in Nat /\ DOMAIN PhisOf(b) = 1 .. Len(PhisOf(b))
         /\ Range(PhisOf(b)) = {p \in DOMAIN phi : phi[p].blk = b}
<1>1. Len(phi) \in Nat /\ DOMAIN phi = 1 .. Len(phi)
  BY LenProperties DEF Typed
<1>2. /\ IsSeq(PhisOf(b))
      /\ Range(PhisOf(b)) = (1 .. Len(phi)) \cap {p \in DOMAIN phi : phi[p].blk = b}
  BY <1>1, StepsFacts, KeepFacts DEF PhisOf
<1> QED
  BY <1>1, <1>2, DomainOfSeq

\* The stacks with the PHIs of b on top.
LEMMA PushPhisFacts ==
  ASSUME Typed, NEW st \in Walking, NEW b \in Blocks
  PROVE  /\ PushPhis(st, b) \in Walking
         /\ PushPhis(st, b).work = st.work /\ PushPhis(st, b).phi = st.phi
         /\ PushPhis(st, b).dead = st.dead /\ PushPhis(st, b).repl = st.repl
         /\ b \in Reach /\ Avail(st.val, b, 0) => Avail(PushPhis(st, b).val, b, 0)
<1> DEFINE s == PhisOf(b)
           n == Len(s)
           Do(x, k) == Push(x, phi[s[k]].var, FakeId(s[k]))
           Ok(x) == /\ x.work = st.work /\ x.phi = st.phi /\ x.dead = st.dead /\ x.repl = st.repl
                    /\ b \in Reach /\ Avail(st.val, b, 0) => Avail(x.val, b, 0)
           T == [k \in 0 .. n |-> {x \in Walking : Ok(x)}]
           step == [k \in 1 .. n |-> [x \in Walking |-> Do(x, k)]]
           Is(f) == f = [k \in 0 .. n |-> IF k = 0 THEN st ELSE Do(f[k - 1], k)]
<1>1. n \in Nat
  BY PhisOfFacts
<1>2. ASSUME NEW k \in 1 .. n, NEW x \in T[k - 1] PROVE Do(x, k) \in T[k]
  <2>1. k - 1 \in 0 .. n /\ k \in 0 .. n
    BY <1>1
  <2>2. x \in Walking /\ Ok(x)
    <3> HIDE DEF Ok, n
    <3> QED
      BY <1>2, <2>1
  <2> DEFINE p == s[k]
  <2>3. p \in DOMAIN phi /\ phi[p].blk = b
    BY PhisOfFacts DEF Range
  <2>4. phi[p].var \in DOMAIN pvar /\ p \in Nat \ {0}
    <3>1. phi[p] \in PhiRec /\ p \in 1 .. Len(phi)
      BY <2>3, LenProperties DEF Typed
    <3> QED
      BY <3>1 DEF PhiRec
  <2>5. FakeId(p) \in Int /\ IsFake(FakeId(p))
    <3> HIDE DEF p
    <3> QED
      BY <2>4, Mem2RegAssumption DEF FakeId, IsFake
  <2>6. b \in Reach => Supplied(FakeId(p), b, 0)
    <3>1. Where(FakeId(p), b)
      BY <2>3 DEF Where
    <3> QED
      BY <2>5, <3>1 DEF Supplied, Defined
  <2> DEFINE r == Push(x, phi[p].var, FakeId(p))
  <2>7. /\ r \in Walking
        /\ r.work = x.work /\ r.phi = x.phi /\ r.dead = x.dead /\ r.repl = x.repl
        /\ Avail(x.val, b, 0) /\ Supplied(FakeId(p), b, 0) => Avail(r.val, b, 0)
    BY <2>2, <2>4, <2>5, PushFacts
  <2> HIDE DEF r, p
  <2>8. Ok(r)
    BY <2>2, <2>6, <2>7
  <2>9. Do(x, k) = r
    BY DEF r, p
  <2> HIDE DEF Do, Ok, n
  <2> QED
    BY <2>1, <2>7, <2>8, <2>9
<1>3. st \in T[0]
  <2>1. 0 \in 0 .. n /\ Ok(st)
    BY <1>1
  <2> HIDE DEF Ok, n
  <2> QED
    BY <2>1
<1>4. \A k \in 0 .. n : T[k] \subseteq Walking
  OBVIOUS
<1> HIDE DEF T, Do, n
<1>5. \E f : Is(f)
  <2>1. ASSUME NEW k \in 1 .. n, NEW x \in T[k - 1] PROVE step[k][x] \in T[k]
    <3>1. k - 1 \in 0 .. n
      BY <1>1
    <3>2. x \in Walking
      BY <1>4, <3>1
    <3> QED
      BY <1>2, <3>2
  <2> HIDE DEF step
  <2>2. PICK f : Follows(f, n, st, step) /\ \A k \in 0 .. n : f[k] \in T[k]
    BY <1>1, <1>3, <2>1, StepsExist
  <2>3. ASSUME NEW k \in 1 .. n PROVE step[k][f[k - 1]] = Do(f[k - 1], k)
    <3>1. k - 1 \in 0 .. n
      BY <1>1
    <3>2. f[k - 1] \in Walking
      BY <1>4, <2>2, <3>1
    <3> QED
      BY <3>2 DEF step
  <2>4. \A k \in 0 .. n : k # 0 => k \in 1 .. n
    BY <1>1
  <2>5. Is(f)
    BY <2>2, <2>3, <2>4 DEF Follows
  <2> QED
    BY <2>5
<1> DEFINE it == CHOOSE f : Is(f)
<1>6. Is(it)
  <2> HIDE DEF Is
  <2> QED
    BY <1>5
<1>7. PushPhis(st, b) = it[n]
  BY Zenon DEF PushPhis, Through, Do, n
<1> HIDE DEF it
<1>8. PushPhis(st, b) \in T[n]
  <2>1. ASSUME NEW k \in 1 .. n, it[k - 1] \in T[k - 1] PROVE it[k] \in T[k]
    <3>1. k \in 0 .. n /\ k # 0
      BY <1>1
    <3>2. it[k] = Do(it[k - 1], k)
      BY <1>6, <3>1
    <3> QED
      BY <1>2, <2>1, <3>2
  <2>2. it[0] = st
    BY <1>1, <1>6
  <2>3. \A k \in 0 .. n : it[k] \in T[k]
    <3> HIDE DEF Is
    <3> QED
      BY <1>1, <1>3, <2>1, <2>2, StepsStay
  <2>4. n \in 0 .. n
    BY <1>1
  <2> QED
    BY <1>7, <2>3, <2>4
<1>9. PushPhis(st, b) \in Walking /\ Ok(PushPhis(st, b))
  <2>1. n \in 0 .. n
    BY <1>1
  <2> HIDE DEF Ok
  <2> QED
    BY <1>8, <2>1 DEF T
<1> QED
  BY <1>9

\* Only loads are replaced, each by a value known where the load is; what dies
\* is an alloca, a store or a load that is replaced, in a reachable block.
ReplacedIn(value, c, d) ==
  d \in Home(M, c) /\ M.insts[d].op = "load" /\ Supplied(value[d], c, d)
ReplRight(value) == \A d \in DOMAIN value : \E c \in Reach : ReplacedIn(value, c, d)
DeadRight(dead, value) ==
  \A d \in dead :
    /\ \E c \in Reach : d \in Home(M, c)
    /\ M.insts[d].op \in {"alloca", "store"} \/ d \in DOMAIN value
Replaces(st) == ReplRight(st.repl) /\ DeadRight(st.dead, st.repl)

LEMMA VarOfFacts ==
  ASSUME NEW I, NEW slot, VarOf(I, slot) # None
  PROVE  VarOf(I, slot) \in DOMAIN pvar
<1>1. CASE \E v \in DOMAIN pvar : pvar[v] = I.ops[slot]
  BY <1>1 DEF VarOf
<1>2. CASE ~ \E v \in DOMAIN pvar : pvar[v] = I.ops[slot]
  BY <1>2 DEF VarOf
<1> QED
  BY <1>1, <1>2

\* The operand of a store.
LEMMA StoredFacts ==
  ASSUME Typed, NEW b \in Blocks, NEW k \in Home(M, b), TakesValue(M.insts[k])
  PROVE  M.insts[k].ops[1] \in Int /\ (b \in Reach => Supplied(M.insts[k].ops[1], b, k))
<1> DEFINE x == M.insts[k].ops[1]
<1>1. Shaped(M) /\ Home(M, b) \subseteq DOMAIN M.insts /\ DOMAIN M.insts = 1 .. Len(M.insts)
  BY FinalParts DEF Typed
<1>2. Constant(x) \/ (x \in Values(M, b) /\ x < k)
  BY <1>1 DEF Shaped, Fed, Blocks
<1>3. CASE Constant(x)
  BY <1>3 DEF Constant, Supplied
<1>4. CASE x \in Values(M, b) /\ x < k
  <2>1. x \in Int
    BY <1>1, <1>4, FinalParts DEF Values, Typed
  <2>2. Where(x, b)
    BY <1>4 DEF Where
  <2> HIDE DEF x
  <2>3. b \in Reach => Supplied(x, b, k)
    BY <1>4, <2>2 DEF Supplied, Defined
  <2> QED
    BY <2>1, <2>3 DEF x
<1> QED
  BY <1>2, <1>3, <1>4

LEMMA ReplacementFacts ==
  ASSUME NEW f \in Replacements, NEW k \in DOMAIN M.insts, NEW x \in Int
  PROVE  /\ With(f, k, x) \in Replacements /\ DOMAIN With(f, k, x) = DOMAIN f \cup {k}
         /\ With(f, k, x)[k] = x
         /\ \A d \in DOMAIN f : d # k => With(f, k, x)[d] = f[d]
<1>1. PICK D \in SUBSET DOMAIN M.insts : f \in [D -> Int]
  BY DEF Replacements
<1>2. DOMAIN f = D /\ D \cup {k} \in SUBSET DOMAIN M.insts
  BY <1>1
<1>3. With(f, k, x) \in [D \cup {k} -> Int]
  BY <1>1, <1>2 DEF With
<1>4. With(f, k, x) \in Replacements
  BY <1>2, <1>3 DEF Replacements
<1> QED
  BY <1>4 DEF With

\* One instruction of a block: what it pushes is known behind it, and what
\* replaces it is known before it.
LEMMA RenameFacts ==
  ASSUME Typed, NEW st \in Walking, NEW b \in Blocks, NEW k \in Home(M, b)
  PROVE  /\ Rename(st, k) \in Walking
         /\ Rename(st, k).work = st.work /\ Rename(st, k).phi = st.phi
         /\ b \in Reach /\ Replaces(st) /\ Avail(st.val, b, k) =>
              Replaces(Rename(st, k)) /\ Avail(Rename(st, k).val, b, k + 1)
<1> DEFINE I == M.insts[k]
           r == Rename(st, k)
           kill == [st EXCEPT !.dead = @ \cup {k}]
           v2 == VarOf(I, 2)
           v1 == VarOf(I, 1)
<1>1. /\ k \in DOMAIN M.insts /\ k \in Int /\ Made(I)
      /\ \A c \in Blocks : Home(M, c) \subseteq DOMAIN M.insts
  <2>1. Shaped(M) /\ Home(M, b) \subseteq DOMAIN M.insts /\ DOMAIN M.insts = 1 .. Len(M.insts)
        /\ \A c \in Blocks : Home(M, c) \subseteq DOMAIN M.insts
    BY FinalParts DEF Typed
  <2>2. k \in DOMAIN M.insts
    BY <2>1
  <2>3. Made(I)
    BY <2>1, <2>2 DEF Shaped
  <2> QED
    BY <2>1, <2>2, <2>3
<1>2. st.val \in Stacks /\ st.repl \in Replacements /\ st.dead \in SUBSET DOMAIN M.insts
  BY DEF Walking
<1>3. /\ kill \in Walking /\ kill.work = st.work /\ kill.phi = st.phi
      /\ kill.val = st.val /\ kill.repl = st.repl /\ kill.dead = st.dead \cup {k}
  BY <1>1 DEF Walking
<1>4. r = CASE I.op = "alloca" -> IF k \in Range(pvar) THEN kill ELSE st
            [] I.op = "store" /\ v2 # None -> Push(kill, v2, I.ops[1])
            [] I.op = "load" /\ v1 # None ->
                 [kill EXCEPT !.repl = With(@, k, Current(st, v1))]
            [] OTHER -> st
  BY DEF Rename
<1>5. ASSUME b \in Reach, Avail(st.val, b, k) PROVE Avail(st.val, b, k + 1)
  <2>1. k + 1 \in Int /\ k <= k + 1
    BY <1>1
  <2> QED
    BY <1>1, <1>2, <1>5, <2>1, AvailLater
<1>6. ASSUME b \in Reach, Replaces(st), I.op \in {"alloca", "store"}
      PROVE  Replaces(kill)
  BY <1>3, <1>6 DEF Replaces, DeadRight
<1> HIDE DEF r, kill
<1>7. CASE r = st
  BY <1>5, <1>7 DEF r
<1>8. CASE I.op = "alloca" /\ r = kill
  BY <1>3, <1>5, <1>6, <1>8 DEF r
<1>9. CASE I.op = "store" /\ v2 # None
  <2>1. TakesValue(I)
    <3>1. I.ops # <<>>
      <4>1. Len(I.ops) = 2
        BY <1>1, <1>9 DEF Made
      <4>2. Len(<<>>) = 0 /\ 0 # 2
        BY EmptyIsSeq
      <4> HIDE DEF I
      <4> QED
        BY <4>1, <4>2, Zenon
    <3> QED
      BY <1>9, <3>1 DEF TakesValue
  <2> DEFINE x == I.ops[1]
  <2>2. x \in Int /\ (b \in Reach => Supplied(x, b, k))
    BY <2>1, StoredFacts
  <2>3. v2 \in DOMAIN pvar
    BY <1>9, VarOfFacts
  <2>4. r = Push(kill, v2, x)
    BY <1>4, <1>9
  <2> HIDE DEF x, v2, I
  <2>5. /\ r \in Walking /\ r.work = st.work /\ r.phi = st.phi
        /\ r.dead = kill.dead /\ r.repl = kill.repl
        /\ Avail(st.val, b, k + 1) /\ Supplied(x, b, k + 1) => Avail(r.val, b, k + 1)
    BY <1>3, <2>2, <2>3, <2>4, PushFacts
  <2>6. b \in Reach => Supplied(x, b, k + 1)
    <3>1. k + 1 \in Int /\ k <= k + 1
      BY <1>1
    <3> QED
      BY <1>1, <2>2, <3>1, SuppliedLater
  <2>7. Replaces(kill) => Replaces(r)
    BY <2>5 DEF Replaces
  <2> QED
    BY <1>5, <1>6, <1>9, <2>5, <2>6, <2>7 DEF r, I
<1>10. CASE I.op = "load" /\ v1 # None
  <2> DEFINE x == Current(st, v1)
             f == With(st.repl, k, x)
  <2>1. v1 \in DOMAIN pvar
    BY <1>10, VarOfFacts
  <2> HIDE DEF v1
  <2>2. x \in Int /\ (Avail(st.val, b, k) => Supplied(x, b, k))
    BY <2>1, CurrentFacts
  <2>3. r = [kill EXCEPT !.repl = f]
    BY <1>3, <1>4, <1>10
  <2> HIDE DEF x
  <2>4. /\ f \in Replacements /\ DOMAIN f = DOMAIN st.repl \cup {k} /\ f[k] = x
        /\ \A d \in DOMAIN st.repl : d # k => f[d] = st.repl[d]
    BY <1>1, <1>2, <2>2, ReplacementFacts
  <2> HIDE DEF f
  <2>5. /\ r \in Walking /\ r.work = st.work /\ r.phi = st.phi /\ r.val = st.val
        /\ r.repl = f /\ r.dead = st.dead \cup {k}
    BY <1>3, <2>3, <2>4 DEF Walking
  <2>6. ASSUME b \in Reach, Replaces(st), Avail(st.val, b, k)
        PROVE  Replaces(r)
    <3>1. ReplacedIn(f, b, k)
      BY <1>10, <2>2, <2>4, <2>6 DEF ReplacedIn
    <3>2. ASSUME NEW d \in DOMAIN st.repl, d # k PROVE \E c \in Reach : ReplacedIn(f, c, d)
      BY <2>4, <2>6, <3>2 DEF Replaces, ReplRight, ReplacedIn
    <3>3. ReplRight(f)
      BY <2>4, <2>6, <3>1, <3>2 DEF ReplRight
    <3>4. DeadRight(r.dead, f)
      BY <2>4, <2>5, <2>6 DEF Replaces, DeadRight
    <3> QED
      BY <2>5, <3>3, <3>4 DEF Replaces
  <2> QED
    BY <1>5, <2>5, <2>6 DEF r
<1> QED
  BY <1>4, <1>7, <1>8, <1>9, <1>10

LEMMA InstSeqFacts ==
  ASSUME Typed, NEW b \in Blocks
  PROVE  /\ IsSeq(InstSeq(b)) /\ Len(InstSeq(b)) = M.blks[b].n_inst
         /\ DOMAIN InstSeq(b) = 1 .. M.blks[b].n_inst /\ Range(InstSeq(b)) = Home(M, b)
         /\ \A k \in 1 .. M.blks[b].n_inst : InstSeq(b)[k] = M.blks[b].first + k - 1
         /\ Rising(InstSeq(b))
<1> DEFINE s == InstSeq(b)
           n == M.blks[b].n_inst
           p == M.blks[b].first
<1>1. n \in Nat /\ p \in Nat \ {0} /\ Home(M, b) = p .. p + n - 1
  BY FinalParts DEF Typed, Home
<1>2. s = [k \in 1 .. n |-> p + k - 1]
  BY DEF InstSeq
<1> HIDE DEF n, p, s
<1>3. s = [k \in 1 .. n |-> s[k]] /\ DOMAIN s = 1 .. n /\ \A k \in 1 .. n : s[k] = p + k - 1
  BY <1>2
<1>4. IsSeq(s) /\ Len(s) = n
  BY <1>1, <1>3, FunctionIsSeq
<1>5. Range(s) \subseteq Home(M, b) /\ Rising(s)
  BY <1>1, <1>3 DEF Range, Rising
<1>6. ASSUME NEW x \in Home(M, b) PROVE x \in Range(s)
  <2>1. x - p + 1 \in 1 .. n /\ x = p + (x - p + 1) - 1
    BY <1>1
  <2>2. s[x - p + 1] = x
    BY <1>3, <2>1
  <2> QED
    BY <1>3, <2>1, <2>2 DEF Range
<1> QED
  BY <1>3, <1>4, <1>5, <1>6 DEF s, n, p

\* The instructions of a block.
Body(st, b) == Through(Rename, PushPhis(st, b), InstSeq(b))
LEMMA BodyFacts ==
  ASSUME Typed, NEW st \in Walking, NEW b \in Blocks
  PROVE  /\ Body(st, b) \in Walking
         /\ Body(st, b).work = st.work /\ Body(st, b).phi = st.phi
         /\ b \in Reach /\ Replaces(st) /\ Avail(st.val, b, 0) =>
              Replaces(Body(st, b)) /\ Avail(Body(st, b).val, b, AtEndOf)
<1> DEFINE s == InstSeq(b)
           n == Len(s)
           base == PushPhis(st, b)
           Do(x, k) == Rename(x, s[k])
           Ok(x, k) == /\ x.work = st.work /\ x.phi = st.phi
                       /\ b \in Reach /\ Replaces(st) /\ Avail(st.val, b, 0) =>
                            Replaces(x) /\ Avail(x.val, b, M.blks[b].first + k)
           T == [k \in 0 .. n |-> {x \in Walking : Ok(x, k)}]
           step == [k \in 1 .. n |-> [x \in Walking |-> Do(x, k)]]
           Is(f) == f = [k \in 0 .. n |-> IF k = 0 THEN base ELSE Do(f[k - 1], k)]
<1>0. /\ n = M.blks[b].n_inst /\ n \in Nat /\ M.blks[b].first \in Nat \ {0}
      /\ \A k \in 1 .. n : s[k] \in Home(M, b) /\ s[k] = M.blks[b].first + k - 1
      /\ Len(M.insts) \in Nat /\ DOMAIN M.insts = 1 .. Len(M.insts)
      /\ Home(M, b) \subseteq DOMAIN M.insts
  BY InstSeqFacts, FinalParts DEF Range, Typed
<1>1. n \in Nat
  BY <1>0
<1>2. ASSUME NEW k \in 1 .. n, NEW x \in T[k - 1] PROVE Do(x, k) \in T[k]
  <2>1. k - 1 \in 0 .. n /\ k \in 0 .. n
    BY <1>1
  <2>2. x \in Walking /\ Ok(x, k - 1)
    <3> HIDE DEF Ok, n
    <3> QED
      BY <1>2, <2>1
  <2> DEFINE i == s[k]
  <2>3. i \in Home(M, b) /\ i = M.blks[b].first + k - 1
    BY <1>0
  <2> DEFINE r == Rename(x, i)
  <2> HIDE DEF i
  <2>4. /\ r \in Walking /\ r.work = x.work /\ r.phi = x.phi
        /\ b \in Reach /\ Replaces(x) /\ Avail(x.val, b, i) => Replaces(r) /\ Avail(r.val, b, i + 1)
    BY <2>2, <2>3, RenameFacts
  <2> HIDE DEF r, s
  <2>7. /\ M.blks[b].first + (k - 1) \in Int /\ M.blks[b].first + (k - 1) = i
        /\ i + 1 = M.blks[b].first + k
    BY <1>0, <2>3
  <2>8. Ok(r, k)
    BY <2>2, <2>4, <2>7
  <2>9. Do(x, k) = r
    BY DEF r, i
  <2> HIDE DEF Do, Ok, n
  <2> QED
    BY <2>1, <2>4, <2>8, <2>9
<1>3. base \in T[0]
  <2>1. /\ base \in Walking /\ base.work = st.work /\ base.phi = st.phi
        /\ base.dead = st.dead /\ base.repl = st.repl
        /\ b \in Reach /\ Avail(st.val, b, 0) => Avail(base.val, b, 0)
    BY PushPhisFacts
  <2> HIDE DEF base
  <2>2. base.val \in Stacks
    BY <2>1 DEF Walking
  <2>3. Avail(base.val, b, 0) => Avail(base.val, b, M.blks[b].first + 0)
    <3>1. 0 \in Int /\ M.blks[b].first + 0 \in Int /\ 0 <= M.blks[b].first + 0
      BY <1>0
    <3> QED
      BY <2>2, <3>1, AvailLater
  <2>4. Replaces(st) => Replaces(base)
    BY <2>1 DEF Replaces
  <2>5. 0 \in 0 .. n /\ Ok(base, 0)
    BY <1>1, <2>1, <2>3, <2>4
  <2> HIDE DEF Ok, n
  <2> QED
    BY <2>1, <2>5
<1> HIDE DEF base
<1>4. \A k \in 0 .. n : T[k] \subseteq Walking
  OBVIOUS
<1> HIDE DEF T, Do, n
<1>5. \E f : Is(f)
  <2>1. ASSUME NEW k \in 1 .. n, NEW x \in T[k - 1] PROVE step[k][x] \in T[k]
    <3>1. k - 1 \in 0 .. n
      BY <1>1
    <3>2. x \in Walking
      BY <1>4, <3>1
    <3> QED
      BY <1>2, <3>2
  <2> HIDE DEF step
  <2>2. PICK f : Follows(f, n, base, step) /\ \A k \in 0 .. n : f[k] \in T[k]
    BY <1>1, <1>3, <2>1, StepsExist
  <2>3. ASSUME NEW k \in 1 .. n PROVE step[k][f[k - 1]] = Do(f[k - 1], k)
    <3>1. k - 1 \in 0 .. n
      BY <1>1
    <3>2. f[k - 1] \in Walking
      BY <1>4, <2>2, <3>1
    <3> QED
      BY <3>2 DEF step
  <2>4. \A k \in 0 .. n : k # 0 => k \in 1 .. n
    BY <1>1
  <2>5. Is(f)
    BY <2>2, <2>3, <2>4 DEF Follows
  <2> QED
    BY <2>5
<1> DEFINE it == CHOOSE f : Is(f)
<1>6. Is(it)
  <2> HIDE DEF Is
  <2> QED
    BY <1>5
<1>7. Body(st, b) = it[n]
  BY Zenon DEF Body, Through, Do, n, base
<1> HIDE DEF it
<1>8. Body(st, b) \in T[n]
  <2>1. ASSUME NEW k \in 1 .. n, it[k - 1] \in T[k - 1] PROVE it[k] \in T[k]
    <3>1. k \in 0 .. n /\ k # 0
      BY <1>1
    <3>2. it[k] = Do(it[k - 1], k)
      BY <1>6, <3>1
    <3> QED
      BY <1>2, <2>1, <3>2
  <2>2. it[0] = base
    BY <1>1, <1>6
  <2>3. \A k \in 0 .. n : it[k] \in T[k]
    <3> HIDE DEF Is
    <3> QED
      BY <1>1, <1>3, <2>1, <2>2, StepsStay
  <2>4. n \in 0 .. n
    BY <1>1
  <2> QED
    BY <1>7, <2>3, <2>4
<1>9. Body(st, b) \in Walking /\ Ok(Body(st, b), n)
  <2>1. n \in 0 .. n
    BY <1>1
  <2> HIDE DEF Ok
  <2> QED
    BY <1>8, <2>1 DEF T
<1>10. ASSUME b \in Reach, Avail(Body(st, b).val, b, M.blks[b].first + n)
       PROVE  Avail(Body(st, b).val, b, AtEndOf)
  <2>1. Body(st, b).val \in Stacks
    BY <1>9 DEF Walking
  <2>2. n # 0
    BY <1>0, <1>10, ReachClosed DEF Typed, BlkTerm
  <2>3. M.blks[b].first + n - 1 \in Home(M, b)
    BY <1>0, <2>2 DEF Home
  <2>4. M.blks[b].first + n - 1 <= Len(M.insts)
    BY <1>0, <2>3
  <2>6. \A p, l \in Nat : p + n - 1 <= l => p + n \in Int /\ l + 1 \in Int /\ p + n <= l + 1
    BY <1>1
  <2>5. M.blks[b].first + n \in Int /\ AtEndOf \in Int /\ M.blks[b].first + n <= AtEndOf
    BY <1>0, <2>4, <2>6 DEF AtEndOf
  <2> QED
    BY <1>10, <2>1, <2>5, AvailLater
<1> QED
  BY <1>9, <1>10

---------------------------------------------------------------------------
(* ren_var: the operands handed to the PHIs of the blocks that follow.     *)

\* The PHIs with some operands filled in.
SamePhis(ph) ==
  /\ ph \in Seq(PhiRec) /\ DOMAIN ph = DOMAIN phi
  /\ \A p \in DOMAIN phi :
       ph[p].blk = phi[p].blk /\ ph[p].var = phi[p].var /\ DOMAIN ph[p].ops = DOMAIN phi[p].ops
\* An operand there is comes from a reachable predecessor, and is known at its end.
Handed(ph) ==
  \A p \in DOMAIN phi : \A q \in DOMAIN phi[p].ops :
    LET c == pred[phi[p].blk][q]
    IN ph[p].ops[q] # None => c \in Reach /\ Supplied(ph[p].ops[q], c, AtEndOf)
\* The PHIs of t have their operand from b.
Filled(ph, b, t) ==
  \A p \in DOMAIN phi : \A q \in DOMAIN phi[p].ops :
    phi[p].blk = t /\ pred[t][q] = b => ph[p].ops[q] # None
\* ph2 is ph with operands that come from b, the values st has on top.
Sent(ph, ph2, b, st) ==
  \A p \in DOMAIN phi : \A q \in DOMAIN phi[p].ops :
    \/ ph2[p].ops[q] = ph[p].ops[q]
    \/ pred[phi[p].blk][q] = b /\ ph2[p].ops[q] = Current(st, phi[p].var)

LEMMA SlotFacts ==
  ASSUME NEW s, IsSeq(s), NEW x
  PROVE  LET j == SelectInSeq(s, LAMBDA q : q = x)
         IN (j = 0 /\ x \notin Range(s)) \/ (j # 0 /\ j \in DOMAIN s /\ s[j] = x)
<1> DEFINE j == SelectInSeq(s, LAMBDA q : q = x)
           I == {i \in 1 .. Len(s) : s[i] = x}
<1>1. Len(s) \in Nat /\ DOMAIN s = 1 .. Len(s)
  BY DomainOfSeq
<1>2. j = IF I # {} THEN Min(I) ELSE 0
  BY DEF SelectInSeq
<1> HIDE DEF j
<1>3. CASE I = {}
  BY <1>1, <1>2, <1>3 DEF Range, j
<1>4. CASE I # {}
  <2>1. I \in SUBSET Nat
    OBVIOUS
  <2>2. Min(I) \in I
    <3> HIDE DEF I
    <3> QED
      BY <1>4, <2>1, MinIn
  <2>3. j \in 1 .. Len(s) /\ s[j] = x
    BY <1>2, <1>4, <2>2
  <2> QED
    BY <1>1, <2>3 DEF j
<1> QED
  BY <1>3, <1>4

LEMMA FillFacts ==
  ASSUME Typed, NEW st \in Walking, SamePhis(st.phi), NEW b \in Blocks, NEW t \in Blocks
  PROVE  LET r == FillFrom(st, b, t) IN
         /\ r \in Walking /\ SamePhis(r.phi) /\ Sent(st.phi, r.phi, b, st)
         /\ r.work = st.work /\ r.val = st.val /\ r.dead = st.dead /\ r.repl = st.repl
         /\ TreeRight /\ b \in Reach /\ Avail(st.val, b, AtEndOf) /\ Handed(st.phi) =>
              /\ Handed(r.phi) /\ Filled(r.phi, b, t)
              /\ \A c, u : Filled(st.phi, c, u) => Filled(r.phi, c, u)
<1> DEFINE r == FillFrom(st, b, t)
           j == SelectInSeq(pred[t], LAMBDA q : q = b)
           Cur(p) == Current(st, p.var)
           One(p) == IF p.blk = t THEN [p EXCEPT !.ops[j] = Cur(p)] ELSE p
           ph == [p \in DOMAIN st.phi |-> One(st.phi[p])]
<1>1. IsSeq(pred[t]) /\ DOMAIN pred[t] = 1 .. Len(pred[t])
  BY DomainOfSeq DEF Typed
<1>2. (j = 0 /\ b \notin Range(pred[t])) \/ (j # 0 /\ j \in DOMAIN pred[t] /\ pred[t][j] = b)
  BY <1>1, SlotFacts
<1>3. r = IF j = 0 THEN st ELSE [st EXCEPT !.phi = ph]
  BY DEF FillFrom
<1>4. ASSUME NEW p \in DOMAIN phi
      PROVE  /\ st.phi[p] \in PhiRec /\ st.phi[p].blk = phi[p].blk
             /\ DOMAIN st.phi[p].ops = DOMAIN pred[phi[p].blk]
             /\ Cur(st.phi[p]) \in Int /\ st.phi[p].ops \in Seq(Int)
             /\ (Avail(st.val, b, AtEndOf) => Supplied(Cur(st.phi[p]), b, AtEndOf))
  <2>1. /\ p \in DOMAIN st.phi /\ st.phi \in Seq(PhiRec) /\ st.phi[p].blk = phi[p].blk
        /\ DOMAIN st.phi[p].ops = DOMAIN pred[phi[p].blk]
    BY DEF SamePhis, Typed
  <2>2. st.phi[p] \in PhiRec
    BY <2>1, LenProperties
  <2>3. st.phi[p].var \in DOMAIN pvar /\ st.phi[p].ops \in Seq(Int)
    BY <2>2 DEF PhiRec
  <2> QED
    BY <2>1, <2>2, <2>3, CurrentFacts
<1> HIDE DEF j, r, Cur
<1>5. CASE j = 0
  <2>1. r = st
    BY <1>3, <1>5
  <2>2. Filled(st.phi, b, t)
    <3> SUFFICES ASSUME NEW p \in DOMAIN phi, NEW q \in DOMAIN phi[p].ops,
                        phi[p].blk = t, pred[t][q] = b
                 PROVE  FALSE
      BY DEF Filled
    <3>1. q \in DOMAIN pred[t]
      BY DEF Typed
    <3> QED
      BY <1>2, <1>5, <3>1 DEF Range
  <2>3. Sent(st.phi, st.phi, b, st)
    BY DEF Sent
  <2> QED
    BY <2>1, <2>2, <2>3 DEF r
<1>6. CASE j # 0
  <2>1. j \in DOMAIN pred[t] /\ pred[t][j] = b /\ j \in Int
    BY <1>1, <1>2, <1>6
  <2>2. r = [st EXCEPT !.phi = ph]
    BY <1>3, <1>6
  <2>3. ASSUME NEW p \in DOMAIN phi
        PROVE  /\ One(st.phi[p]) \in PhiRec
               /\ One(st.phi[p]).blk = phi[p].blk /\ One(st.phi[p]).var = phi[p].var
               /\ DOMAIN One(st.phi[p]).ops = DOMAIN phi[p].ops
               /\ \A q \in DOMAIN phi[p].ops :
                    One(st.phi[p]).ops[q] =
                      IF phi[p].blk = t /\ q = j THEN Cur(st.phi[p]) ELSE st.phi[p].ops[q]
    <3> DEFINE o == st.phi[p]
               xs == [o.ops EXCEPT ![j] = Cur(o)]
    <3>1. /\ o \in PhiRec /\ o.blk = phi[p].blk /\ o.var = phi[p].var
          /\ o.ops \in Seq(Int) /\ DOMAIN o.ops = DOMAIN pred[phi[p].blk] /\ Cur(o) \in Int
          /\ DOMAIN o.ops = DOMAIN phi[p].ops
      BY <1>4 DEF SamePhis
    <3>2. CASE phi[p].blk # t
      BY <3>1, <3>2
    <3>3. CASE phi[p].blk = t
      <4>1. One(o) = [o EXCEPT !.ops = xs]
        BY <3>1, <3>3
      <4> HIDE DEF o
      <4>2. j \in DOMAIN o.ops
        BY <2>1, <3>1, <3>3
      <4>3. xs \in Seq(Int) /\ DOMAIN xs = DOMAIN o.ops /\ xs[j] = Cur(o)
            /\ \A q \in DOMAIN o.ops : q # j => xs[q] = o.ops[q]
        <5>1. xs \in Seq(Int)
          BY <3>1, <4>2, ExceptSeq, LenProperties
        <5> QED
          BY <4>2, <5>1
      <4> HIDE DEF xs, One
      <4>4. /\ One(o) \in PhiRec /\ One(o).blk = o.blk /\ One(o).var = o.var /\ One(o).ops = xs
        BY <3>1, <4>1, <4>3 DEF PhiRec
      <4> QED
        BY <3>1, <3>3, <4>3, <4>4 DEF o
    <3> QED
      BY <3>2, <3>3
  <2> HIDE DEF One
  <2>4. ph \in Seq(PhiRec) /\ DOMAIN ph = DOMAIN phi /\ \A p \in DOMAIN phi : ph[p] = One(st.phi[p])
    <3>1. /\ st.phi \in Seq(PhiRec) /\ DOMAIN st.phi = DOMAIN phi
          /\ Len(st.phi) \in Nat /\ DOMAIN st.phi = 1 .. Len(st.phi)
      BY LenProperties DEF SamePhis
    <3>2. ph = [p \in 1 .. Len(st.phi) |-> ph[p]] /\ \A p \in 1 .. Len(st.phi) : ph[p] \in PhiRec
      BY <2>3, <3>1
    <3>3. ph \in [1 .. Len(st.phi) -> PhiRec]
      <4> HIDE DEF ph
      <4> QED
        BY <3>2
    <3> QED
      BY <3>1, <3>3
  <2> HIDE DEF ph
  <2>5. /\ r \in Walking /\ r.phi = ph
        /\ r.work = st.work /\ r.val = st.val /\ r.dead = st.dead /\ r.repl = st.repl
    BY <2>2, <2>4 DEF Walking
  <2>6. SamePhis(ph)
    BY <2>3, <2>4 DEF SamePhis
  <2>7. ASSUME TreeRight, b \in Reach, Avail(st.val, b, AtEndOf), Handed(st.phi)
        PROVE  /\ Handed(ph) /\ Filled(ph, b, t)
               /\ \A c, u : Filled(st.phi, c, u) => Filled(ph, c, u)
    <3>1. ASSUME NEW p \in DOMAIN phi
          PROVE  Supplied(Cur(st.phi[p]), b, AtEndOf) /\ Cur(st.phi[p]) # None
      <4>1. Cur(st.phi[p]) \in Int /\ Supplied(Cur(st.phi[p]), b, AtEndOf)
        BY <1>4, <2>7
      <4> QED
        BY <4>1, SuppliedSome
    <3>2. Handed(ph)
      BY <2>1, <2>3, <2>4, <2>7, <3>1 DEF Handed
    <3>3. Filled(ph, b, t)
      <4> SUFFICES ASSUME NEW p \in DOMAIN phi, NEW q \in DOMAIN phi[p].ops,
                          phi[p].blk = t, pred[t][q] = b
                   PROVE  ph[p].ops[q] # None
        BY DEF Filled
      <4>1. q \in DOMAIN pred[t] /\ IsInjective(pred[t])
        BY <2>7 DEF Typed, TreeRight
      <4>2. q = j
        BY <2>1, <4>1 DEF IsInjective
      <4> QED
        BY <2>3, <2>4, <3>1, <4>2
    <3>4. \A c, u : Filled(st.phi, c, u) => Filled(ph, c, u)
      BY <2>3, <2>4, <3>1 DEF Filled
    <3> QED
      BY <3>2, <3>3, <3>4
  <2>8. Sent(st.phi, ph, b, st)
    <3>1. \A p \in DOMAIN phi : Cur(st.phi[p]) = Current(st, phi[p].var)
      BY DEF Cur, SamePhis
    <3> QED
      BY <2>1, <2>3, <2>4, <3>1 DEF Sent
  <2> QED
    BY <2>5, <2>6, <2>7, <2>8 DEF r
<1> QED
  BY <1>5, <1>6

LEMMA TargetsInside ==
  ASSUME Final(M), NEW k \in DOMAIN M.insts
  PROVE  Range(Targets(M.insts[k])) \subseteq Blocks
<1>1. PICK c : Good(M, c, {})
  BY DEF Final
<1>2. Jumps(M) \subseteq Blocks
  BY <1>1 DEF Good, Handled, Blocks
<1> QED
  BY <1>2 DEF Jumps, Leads

\* The blocks that the branches of b lead to.
Outs(b) == FlattenSeq([k \in DOMAIN InstSeq(b) |-> Targets(M.insts[InstSeq(b)[k]])])
LEMMA OutsFacts ==
  ASSUME Typed, NEW b \in Blocks
  PROVE  /\ IsSeq(Outs(b)) /\ Range(Outs(b)) \subseteq Blocks
         /\ b \in Reach => Range(Succs(b)) \subseteq Range(Outs(b))
<1> DEFINE s == InstSeq(b)
           n == M.blks[b].n_inst
           ss == [k \in DOMAIN s |-> Targets(M.insts[s[k]])]
<1>1. /\ n \in Nat /\ DOMAIN s = 1 .. n /\ (\A k \in 1 .. n : s[k] = M.blks[b].first + k - 1)
      /\ \A k \in 1 .. n : s[k] \in DOMAIN M.insts
  BY InstSeqFacts, FinalParts DEF Typed, Range
<1>2. IsSeq(ss) /\ DOMAIN ss = 1 .. n /\ \A k \in 1 .. n : ss[k] = Targets(M.insts[s[k]])
  <2>1. ss = [k \in 1 .. n |-> ss[k]] /\ \A k \in 1 .. n : ss[k] = Targets(M.insts[s[k]])
    BY <1>1
  <2> HIDE DEF ss
  <2>2. IsSeq(ss) /\ DOMAIN ss = 1 .. n
    BY <1>1, <2>1, FunctionIsSeq
  <2> QED
    BY <2>1, <2>2
<1>3. Outs(b) = FlattenSeq(ss)
  BY DEF Outs
<1> HIDE DEF ss, s, n
<1>4. \A k \in 1 .. n : IsSeq(ss[k]) /\ Range(ss[k]) \subseteq Blocks
  BY <1>1, <1>2, TargetsShort, TargetsInside DEF Typed
<1>5. IsSeq(Outs(b)) /\ Range(Outs(b)) = UNION {Range(ss[k]) : k \in 1 .. n}
  <2>1. \A k \in DOMAIN ss : IsSeq(ss[k])
    BY <1>2, <1>4
  <2>2. IsSeq(FlattenSeq(ss)) /\ Range(FlattenSeq(ss)) = UNION {Range(ss[k]) : k \in DOMAIN ss}
    BY <1>2, <2>1, FlatRange
  <2> QED
    BY <1>2, <1>3, <2>2
<1>6. Range(Outs(b)) \subseteq Blocks
  BY <1>4, <1>5
<1>7. ASSUME b \in Reach PROVE Range(Succs(b)) \subseteq Range(Outs(b))
  <2>1. n # 0
    BY <1>1, <1>7, ReachClosed DEF Typed, BlkTerm, n
  <2>2. n \in 1 .. n
    BY <1>1, <2>1
  <2>3. Succs(b) = ss[n]
    <3>1. s[n] = M.blks[b].first + M.blks[b].n_inst - 1
      BY <1>1, <2>2 DEF n
    <3> QED
      BY <1>2, <2>1, <2>2, <3>1 DEF Succs, LastOf, n
  <2> QED
    BY <1>5, <2>2, <2>3
<1> QED
  BY <1>5, <1>6, <1>7

\* Entering a block leaves values on the stacks that are known at its end, and
\* an operand in the PHIs of every block behind it.
LEMMA RenameBlockFacts ==
  ASSUME Typed, NEW st \in Walking, SamePhis(st.phi), NEW b \in Blocks
  PROVE  LET r == RenameBlock(st, b) IN
         /\ r \in Walking /\ SamePhis(r.phi) /\ r.work = st.work
         /\ r.val = Body(st, b).val /\ r.dead = Body(st, b).dead /\ r.repl = Body(st, b).repl
         /\ Sent(st.phi, r.phi, b, Body(st, b))
         /\ TreeRight /\ b \in Reach /\ Replaces(st) /\ Avail(st.val, b, 0) /\ Handed(st.phi) =>
              /\ Replaces(r) /\ Avail(r.val, b, AtEndOf) /\ Handed(r.phi)
              /\ \A t \in Blocks : Filled(r.phi, b, t)
              /\ \A c, u : Filled(st.phi, c, u) => Filled(r.phi, c, u)
<1> DEFINE s == Outs(b)
           n == Len(s)
           base == Body(st, b)
           Do(x, k) == FillFrom(x, b, s[k])
           Told == /\ TreeRight /\ b \in Reach /\ Replaces(st) /\ Avail(st.val, b, 0)
                   /\ Handed(st.phi)
           Does(x, k) ==
             /\ Replaces(x) /\ Avail(x.val, b, AtEndOf) /\ Handed(x.phi)
             /\ \A j \in 1 .. k : Filled(x.phi, b, s[j])
             /\ \A c, u : Filled(st.phi, c, u) => Filled(x.phi, c, u)
           Alike(x) == /\ x.work = st.work /\ SamePhis(x.phi)
                       /\ x.val = base.val /\ x.dead = base.dead /\ x.repl = base.repl
                       /\ Sent(st.phi, x.phi, b, base)
           Ok(x, k) == Alike(x) /\ (Told => Does(x, k))
           T == [k \in 0 .. n |-> {x \in Walking : Ok(x, k)}]
           step == [k \in 1 .. n |-> [x \in Walking |-> Do(x, k)]]
           Is(f) == f = [k \in 0 .. n |-> IF k = 0 THEN base ELSE Do(f[k - 1], k)]
<1>0. /\ n \in Nat /\ DOMAIN s = 1 .. n /\ \A k \in 1 .. n : s[k] \in Blocks
      /\ b \in Reach => Range(Succs(b)) \subseteq Range(s)
  BY OutsFacts, DomainOfSeq DEF Range
<1>1. n \in Nat
  BY <1>0
<1>2. ASSUME NEW k \in 1 .. n, NEW x \in T[k - 1] PROVE Do(x, k) \in T[k]
  <2>1. k - 1 \in 0 .. n /\ k \in 0 .. n /\ \A j \in 1 .. k : j \in 1 .. k - 1 \/ j = k
    BY <1>1
  <2>2. x \in Walking /\ Ok(x, k - 1)
    <3> HIDE DEF Ok, n
    <3> QED
      BY <1>2, <2>1
  <2> DEFINE t == s[k]
             r == FillFrom(x, b, t)
  <2>3. t \in Blocks
    BY <1>0
  <2> HIDE DEF t, Told, s
  <2>4. /\ r \in Walking /\ SamePhis(r.phi) /\ Sent(x.phi, r.phi, b, x)
        /\ r.work = x.work /\ r.val = x.val /\ r.dead = x.dead /\ r.repl = x.repl
        /\ TreeRight /\ b \in Reach /\ Avail(x.val, b, AtEndOf) /\ Handed(x.phi) =>
              /\ Handed(r.phi) /\ Filled(r.phi, b, t)
              /\ \A c, u : Filled(x.phi, c, u) => Filled(r.phi, c, u)
    BY <2>2, <2>3, FillFacts
  <2> HIDE DEF r
  <2>5. ASSUME Told PROVE Does(r, k)
    <3>1. Does(x, k - 1) /\ TreeRight /\ b \in Reach
      BY <2>2, <2>5 DEF Told
    <3>2. Handed(r.phi) /\ Filled(r.phi, b, t) /\ \A c, u : Filled(x.phi, c, u) => Filled(r.phi, c, u)
      BY <2>4, <3>1
    <3>3. \A j \in 1 .. k : Filled(r.phi, b, s[j])
      BY <2>1, <3>1, <3>2 DEF t
    <3>4. Replaces(r) /\ Avail(r.val, b, AtEndOf)
      BY <2>4, <3>1 DEF Replaces
    <3>5. \A c, u : Filled(st.phi, c, u) => Filled(r.phi, c, u)
      BY <3>1, <3>2
    <3> QED
      BY <3>2, <3>3, <3>4, <3>5
  <2>6. Ok(r, k)
    <3>1. \A v : Current(x, v) = Current(base, v)
      BY <2>2 DEF Current
    <3>2. Sent(x.phi, r.phi, b, x) /\ Sent(st.phi, x.phi, b, base)
      BY <2>2, <2>4
    <3> HIDE DEF base
    <3>3. Sent(st.phi, r.phi, b, base)
      BY <3>1, <3>2 DEF Sent
    <3> QED
      BY <2>2, <2>4, <2>5, <3>3
  <2>7. Do(x, k) = r
    BY DEF r, t
  <2> HIDE DEF Do, Ok, n
  <2> QED
    BY <2>1, <2>4, <2>6, <2>7
<1>3. base \in T[0]
  <2>1. /\ base \in Walking /\ base.work = st.work /\ base.phi = st.phi
        /\ b \in Reach /\ Replaces(st) /\ Avail(st.val, b, 0) =>
              Replaces(base) /\ Avail(base.val, b, AtEndOf)
    BY BodyFacts
  <2> HIDE DEF base, s
  <2>2. Ok(base, 0)
    BY <2>1 DEF Sent
  <2>3. 0 \in 0 .. n
    BY <1>1
  <2> HIDE DEF Ok, n
  <2> QED
    BY <2>1, <2>2, <2>3
<1> HIDE DEF base
<1>4. \A k \in 0 .. n : T[k] \subseteq Walking
  OBVIOUS
<1> HIDE DEF T, Do, n
<1>5. \E f : Is(f)
  <2>1. ASSUME NEW k \in 1 .. n, NEW x \in T[k - 1] PROVE step[k][x] \in T[k]
    <3>1. k - 1 \in 0 .. n
      BY <1>1
    <3>2. x \in Walking
      BY <1>4, <3>1
    <3> QED
      BY <1>2, <3>2
  <2> HIDE DEF step
  <2>2. PICK f : Follows(f, n, base, step) /\ \A k \in 0 .. n : f[k] \in T[k]
    BY <1>1, <1>3, <2>1, StepsExist
  <2>3. ASSUME NEW k \in 1 .. n PROVE step[k][f[k - 1]] = Do(f[k - 1], k)
    <3>1. k - 1 \in 0 .. n
      BY <1>1
    <3>2. f[k - 1] \in Walking
      BY <1>4, <2>2, <3>1
    <3> QED
      BY <3>2 DEF step
  <2>4. \A k \in 0 .. n : k # 0 => k \in 1 .. n
    BY <1>1
  <2>5. Is(f)
    BY <2>2, <2>3, <2>4 DEF Follows
  <2> QED
    BY <2>5
<1> DEFINE it == CHOOSE f : Is(f)
<1>6. Is(it)
  <2> HIDE DEF Is
  <2> QED
    BY <1>5
<1>7. RenameBlock(st, b) = it[n]
  BY Zenon DEF RenameBlock, Body, Outs, Through, Do, n, base
<1> HIDE DEF it
<1>8. RenameBlock(st, b) \in T[n]
  <2>1. ASSUME NEW k \in 1 .. n, it[k - 1] \in T[k - 1] PROVE it[k] \in T[k]
    <3>1. k \in 0 .. n /\ k # 0
      BY <1>1
    <3>2. it[k] = Do(it[k - 1], k)
      BY <1>6, <3>1
    <3> QED
      BY <1>2, <2>1, <3>2
  <2>2. it[0] = base
    BY <1>1, <1>6
  <2>3. \A k \in 0 .. n : it[k] \in T[k]
    <3> HIDE DEF Is
    <3> QED
      BY <1>1, <1>3, <2>1, <2>2, StepsStay
  <2>4. n \in 0 .. n
    BY <1>1
  <2> QED
    BY <1>7, <2>3, <2>4
<1> DEFINE r == RenameBlock(st, b)
<1>9. r \in Walking /\ Ok(r, n)
  <2>1. n \in 0 .. n
    BY <1>1
  <2> HIDE DEF Ok
  <2> QED
    BY <1>8, <2>1 DEF T
<1> HIDE DEF r
<1>10. ASSUME Told, Does(r, n), NEW t \in Blocks PROVE Filled(r.phi, b, t)
  <2>1. CASE t \in Range(s)
    <3>1. PICK j \in 1 .. n : s[j] = t
      BY <1>0, <2>1 DEF Range
    <3> QED
      BY <1>10, <3>1
  <2>2. CASE t \notin Range(s)
    <3> SUFFICES ASSUME NEW p \in DOMAIN phi, NEW q \in DOMAIN phi[p].ops,
                        phi[p].blk = t, pred[t][q] = b
                 PROVE  FALSE
      BY DEF Filled
    <3>1. q \in DOMAIN pred[t]
      BY DEF Typed
    <3>2. b \in Range(pred[t])
      BY <3>1 DEF Range
    <3>3. t \in Range(Succs(b))
      BY <1>10, <3>2 DEF TreeRight, Ready
    <3> QED
      BY <1>0, <1>10, <2>2, <3>3
  <2> QED
    BY <2>1, <2>2
<1> HIDE DEF s, n
<1>11. /\ r.val = Body(st, b).val /\ r.dead = Body(st, b).dead /\ r.repl = Body(st, b).repl
       /\ Sent(st.phi, r.phi, b, Body(st, b))
  BY <1>9 DEF base
<1> QED
  BY <1>9, <1>10, <1>11 DEF r

---------------------------------------------------------------------------
(* ren_var: the work list.                                                 *)

KidFrames(b) == Reverse([k \in DOMAIN Kids(b) |-> [blk |-> Kids(b)[k], val |-> <<>>]])
LEMMA KidsFacts ==
  ASSUME Typed, NEW b \in Blocks
  PROVE  /\ KidFrames(b) \in Seq(Frame)
         /\ \A i \in DOMAIN KidFrames(b) : KidFrames(b)[i].blk \in Below(b)
         /\ \A i, j \in DOMAIN KidFrames(b) : KidFrames(b)[i].blk = KidFrames(b)[j].blk => i = j
         /\ TreeRight /\ b \in Reach =>
              \A c \in Below(b) : \E i \in DOMAIN KidFrames(b) : KidFrames(b)[i].blk = c
<1> DEFINE all == Ascending(Below(b))
           s == Kids(b)
           n == Len(s)
           f == [k \in DOMAIN s |-> [blk |-> s[k], val |-> <<>>]]
           r == KidFrames(b)
<1>1. /\ IsSeq(all) /\ Range(all) = Blocks \cap Below(b) /\ IsInjective(all)
  BY FinalGraph, AscendingFacts DEF Typed
<1>2. s = Prefix(all, MaxKids)
  BY DEF Kids, Below
<1>3. r = Reverse(f)
  BY DEF KidFrames
<1> HIDE DEF all, s, r
<1>4. /\ IsSeq(s) /\ (\A k \in DOMAIN s : k \in DOMAIN all /\ s[k] = all[k])
      /\ Len(all) <= MaxKids => DOMAIN s = DOMAIN all
  BY <1>1, <1>2, PrefixFacts, Mem2RegAssumption
<1>5. n \in Nat /\ DOMAIN s = 1 .. n
  BY <1>4, DomainOfSeq
<1> HIDE DEF n
<1>6. /\ DOMAIN f = 1 .. n
      /\ \A k \in 1 .. n : f[k] = [blk |-> s[k], val |-> <<>>]
      /\ Len(f) = n
  <2>1. f = [k \in 1 .. n |-> f[k]] /\ \A k \in 1 .. n : f[k] = [blk |-> s[k], val |-> <<>>]
    BY <1>5
  <2> HIDE DEF f
  <2>2. Len(f) = n /\ DOMAIN f = 1 .. n
    BY <1>5, <2>1, FunctionIsSeq
  <2> QED
    BY <2>1, <2>2
<1> HIDE DEF f
<1>7. r = [i \in 1 .. n |-> f[(n - i) + 1]]
  BY <1>3, <1>6 DEF Reverse
<1>8. /\ \A i \in 1 .. n : (n - i) + 1 \in 1 .. n /\ (n - ((n - i) + 1)) + 1 = i
      /\ \A i, j \in 1 .. n : (n - i) + 1 = (n - j) + 1 => i = j
  BY <1>5
<1>9. /\ DOMAIN r = 1 .. n
      /\ \A i \in 1 .. n : r[i] = [blk |-> s[(n - i) + 1], val |-> <<>>]
  BY <1>6, <1>7, <1>8
<1>10. \A k \in 1 .. n : s[k] \in Below(b) /\ s[k] \in Blocks
  <2>1. \A k \in 1 .. n : s[k] \in Range(all)
    BY <1>4, <1>5 DEF Range
  <2> QED
    BY <1>1, <2>1
<1>11. r \in Seq(Frame)
  <2>1. \A i \in 1 .. n : r[i] \in Frame
    BY <1>8, <1>9, <1>10 DEF Frame
  <2>2. r \in [1 .. n -> Frame]
    BY <1>7, <2>1
  <2> QED
    BY <1>5, <2>2
<1>12. \A i \in 1 .. n : r[i].blk = s[(n - i) + 1] /\ r[i].blk \in Below(b)
  BY <1>8, <1>9, <1>10
<1>13. ASSUME NEW i \in 1 .. n, NEW j \in 1 .. n, r[i].blk = r[j].blk
       PROVE  i = j
  <2>1. s[(n - i) + 1] = s[(n - j) + 1] /\ (n - i) + 1 \in DOMAIN s /\ (n - j) + 1 \in DOMAIN s
    BY <1>5, <1>8, <1>12, <1>13
  <2>2. (n - i) + 1 = (n - j) + 1
    BY <1>1, <1>4, <2>1 DEF IsInjective
  <2> QED
    BY <1>8, <2>2
<1>14. ASSUME TreeRight, b \in Reach, NEW c \in Below(b)
       PROVE  \E i \in 1 .. n : r[i].blk = c
  <2>1. DOMAIN s = DOMAIN all
    BY <1>4, <1>14 DEF TreeRight, KidsFit, all
  <2>2. c \in Range(all)
    BY <1>1 DEF Below
  <2>3. PICK k \in 1 .. n : s[k] = c
    BY <1>4, <1>5, <2>1, <2>2 DEF Range
  <2>4. (n - k) + 1 \in 1 .. n /\ r[(n - k) + 1].blk = c
    BY <1>8, <1>12, <2>3
  <2> QED
    BY <2>4
<1> QED
  BY <1>9, <1>11, <1>12, <1>13, <1>14 DEF r

\* W after its last frame, block b, is entered from the stacks vs.
Entered(W, W2, b, vs) ==
  LET n == Len(W) IN
  /\ W2 \in Seq(Frame) /\ Len(W2) >= n
  /\ \A i \in 1 .. n - 1 : W2[i] = W[i]
  /\ W2[n].blk = None /\ W2[n].val = vs
  /\ \A i \in n + 1 .. Len(W2) : W2[i].blk \in Below(b)
  /\ \A i, j \in n + 1 .. Len(W2) : W2[i].blk = W2[j].blk => i = j
  /\ TreeRight /\ b \in Reach =>
       \A c \in Below(b) : \E i \in n + 1 .. Len(W2) : W2[i].blk = c

LEMMA EnteredFacts ==
  ASSUME Typed, NEW W \in Seq(Frame), W # <<>>, NEW b \in Blocks, NEW vs \in Stacks
  PROVE  Entered(W, (Front(W) \o <<[blk |-> None, val |-> vs]>>) \o KidFrames(b), b, vs)
<1> DEFINE n == Len(W)
           back == [blk |-> None, val |-> vs]
           f == Front(W)
           g == f \o <<back>>
           r == KidFrames(b)
           m == Len(r)
           W2 == g \o r
<1>1. /\ IsSeq(f) /\ Len(f) = n - 1 /\ n \in Nat \ {0}
      /\ \A k \in 1 .. n - 1 : f[k] = W[k]
  BY SeqIsSeq, FrontAny
<1>2. back \in Frame /\ back.blk = None /\ back.val = vs
  BY DEF Frame
<1>3. f \in Seq(Frame)
  <2>1. \A k \in 1 .. n - 1 : f[k] \in Frame
    <3>1. \A k \in 1 .. n - 1 : k \in 1 .. n
      BY <1>1
    <3> QED
      BY <1>1, <3>1, LenProperties
  <2>2. n - 1 \in Nat /\ DOMAIN f = 1 .. n - 1 /\ f = [k \in DOMAIN f |-> f[k]]
    BY <1>1, DomainOfSeq DEF IsSeq
  <2> HIDE DEF f
  <2>3. f \in [1 .. n - 1 -> Frame]
    BY <2>1, <2>2
  <2> QED
    BY <2>2, <2>3
<1> HIDE DEF back, f
<1>4. /\ g \in Seq(Frame) /\ Len(g) = n
      /\ \A k \in 1 .. n - 1 : g[k] = W[k]
      /\ g[n] = back
  <2>1. <<back>> \in Seq(Frame) /\ Len(<<back>>) = 1 /\ <<back>>[1] = back
    BY <1>2
  <2> HIDE DEF n
  <2>2. /\ g \in Seq(Frame) /\ Len(g) = (n - 1) + 1
        /\ \A k \in 1 .. (n - 1) + 1 : g[k] = IF k <= n - 1 THEN f[k] ELSE <<back>>[k - (n - 1)]
    BY <1>1, <1>3, <2>1, ConcatProperties
  <2>3. (n - 1) + 1 = n /\ n - (n - 1) = 1 /\ n \in 1 .. n /\ ~ (n <= n - 1)
        /\ \A k \in 1 .. n - 1 : k \in 1 .. n /\ k <= n - 1
    BY <1>1
  <2> QED
    BY <1>1, <2>1, <2>2, <2>3
<1> HIDE DEF g
<1>5. /\ r \in Seq(Frame) /\ m \in Nat /\ DOMAIN r = 1 .. m
  BY KidsFacts, LenProperties
<1> HIDE DEF r, m, n
<1>6. /\ W2 \in Seq(Frame) /\ Len(W2) = n + m
      /\ \A k \in 1 .. n : W2[k] = g[k]
      /\ \A k \in n + 1 .. n + m : W2[k] = r[k - n]
  <2>1. /\ W2 \in Seq(Frame) /\ Len(W2) = n + m
        /\ \A k \in 1 .. n + m : W2[k] = IF k <= n THEN g[k] ELSE r[k - n]
    BY <1>4, <1>5, ConcatProperties DEF m
  <2>2. /\ \A k \in 1 .. n : k \in 1 .. n + m /\ k <= n
        /\ \A k \in n + 1 .. n + m : k \in 1 .. n + m /\ ~ (k <= n)
    BY <1>1, <1>5
  <2> HIDE DEF W2
  <2> QED
    BY <2>1, <2>2
<1> HIDE DEF W2
<1>7. /\ \A k \in 1 .. n - 1 : k \in 1 .. n
      /\ n \in 1 .. n
      /\ n + m >= n
      /\ \A i \in n + 1 .. n + m : i - n \in 1 .. m
      /\ \A i, j \in n + 1 .. n + m : i - n = j - n => i = j
      /\ \A i \in 1 .. m : i + n \in n + 1 .. n + m /\ (i + n) - n = i
  BY <1>1, <1>5
<1>8. \A i \in 1 .. n - 1 : W2[i] = W[i]
  BY <1>4, <1>6, <1>7
<1>9. W2[n].blk = None /\ W2[n].val = vs
  BY <1>2, <1>4, <1>6, <1>7
<1>10. \A i \in n + 1 .. n + m : W2[i].blk \in Below(b)
  BY <1>5, <1>6, <1>7, KidsFacts DEF r
<1>11. \A i, j \in n + 1 .. n + m : W2[i].blk = W2[j].blk => i = j
  <2>1. \A i, j \in 1 .. m : r[i].blk = r[j].blk => i = j
    BY <1>5, KidsFacts DEF r
  <2> QED
    BY <1>6, <1>7, <2>1
<1>12. TreeRight /\ b \in Reach => \A c \in Below(b) : \E i \in n + 1 .. n + m : W2[i].blk = c
  <2> SUFFICES ASSUME TreeRight, b \in Reach, NEW c \in Below(b)
               PROVE  \E i \in n + 1 .. n + m : W2[i].blk = c
    OBVIOUS
  <2>1. PICK i \in 1 .. m : r[i].blk = c
    BY <1>5, KidsFacts DEF r
  <2> QED
    BY <1>6, <1>7, <2>1
<1>13. Entered(W, W2, b, vs)
  BY <1>6, <1>7, <1>8, <1>9, <1>10, <1>11, <1>12 DEF Entered, n
<1> QED
  BY <1>13 DEF W2, g, f, back, r

\* The frames that enter a block, those that restore the stacks, and the blocks
\* that have been entered, vis, or will be.
Entries(W) == {i \in DOMAIN W : W[i].blk # None}
Nones(W) == {i \in DOMAIN W : W[i].blk = None}
Listed(W, vis) == vis \cup {W[i].blk : i \in Entries(W)}
\* Every block is entered once, after the block above it and never without.
Visited(W, vis) ==
  /\ 1 \in Listed(W, vis)
  /\ \A i \in Entries(W) : W[i].blk \in Reach \ vis
  /\ \A i, j \in Entries(W) : W[i].blk = W[j].blk => i = j
  /\ \A c \in Listed(W, vis) \ {1} : idom[c] \in vis
  /\ \A c \in Reach \ {1} : idom[c] \in vis => c \in Listed(W, vis)
\* A block is entered from stacks whose values are known there: vs, or those
\* of the frame that will be the last one restored.
Restored(W, vs) ==
  \A i \in Entries(W) :
    \/ (\A j \in i + 1 .. Len(W) : W[j].blk # None) /\ Avail(vs, W[i].blk, 0)
    \/ \E j \in i + 1 .. Len(W) :
         /\ W[j].blk = None /\ Avail(W[j].val, W[i].blk, 0)
         /\ \A l \in i + 1 .. j - 1 : W[l].blk # None
\* W without its last frame.
Popped(W, W2) ==
  /\ W2 \in Seq(Frame) /\ Len(W2) = Len(W) - 1
  /\ \A i \in 1 .. Len(W) - 1 : W2[i] = W[i]

LEMMA FrontFrames ==
  ASSUME NEW W \in Seq(Frame), W # <<>>
  PROVE  /\ Popped(W, Front(W)) /\ Last(W) = W[Len(W)] /\ Last(W) \in Frame
         /\ Len(W) \in Nat \ {0} /\ DOMAIN W = 1 .. Len(W)
<1> DEFINE n == Len(W)
           f == Front(W)
<1>1. /\ IsSeq(f) /\ Len(f) = n - 1 /\ n \in Nat \ {0}
      /\ (\A k \in 1 .. n - 1 : f[k] = W[k])
      /\ Last(W) = W[n]
  BY SeqIsSeq, FrontAny
<1>2. DOMAIN W = 1 .. n /\ \A k \in 1 .. n : W[k] \in Frame
  BY LenProperties
<1>3. \A k \in 1 .. n - 1 : k \in 1 .. n
  BY <1>1
<1>4. n - 1 \in Nat /\ DOMAIN f = 1 .. n - 1 /\ f = [k \in DOMAIN f |-> f[k]]
  BY <1>1, DomainOfSeq DEF IsSeq
<1>5. n \in 1 .. n
  BY <1>1
<1> HIDE DEF f, n
<1>6. f \in [1 .. n - 1 -> Frame]
  BY <1>1, <1>2, <1>3, <1>4
<1>7. f \in Seq(Frame)
  BY <1>4, <1>6
<1> QED
  BY <1>1, <1>2, <1>5, <1>7 DEF Popped, f, n

\* Restoring the stacks on the way back.
LEMMA PoppedFacts ==
  ASSUME NEW W \in Seq(Frame), W # <<>>, W[Len(W)].blk = None, NEW W2, Popped(W, W2),
         NEW vs
  PROVE  /\ Entries(W2) = Entries(W) /\ Nones(W) = Nones(W2) \cup {Len(W)}
         /\ Len(W) \notin Nones(W2)
         /\ \A vis : Visited(W, vis) => Visited(W2, vis)
         /\ Restored(W, vs) => Restored(W2, W[Len(W)].val)
<1> DEFINE n == Len(W)
<1>1. /\ n \in Nat \ {0} /\ DOMAIN W = 1 .. n
      /\ DOMAIN W2 = 1 .. n - 1 /\ Len(W2) = n - 1 /\ \A i \in 1 .. n - 1 : W2[i] = W[i]
  BY FrontFrames, LenProperties DEF Popped
<1>2. W[n].blk = None /\ None = 0
  BY DEF None
<1> HIDE DEF n
<1>3. /\ 1 .. n = (1 .. n - 1) \cup {n} /\ n \notin 1 .. n - 1
  BY <1>1
<1>4. Entries(W2) = Entries(W)
  BY <1>1, <1>2, <1>3 DEF Entries
<1>5. Nones(W) = Nones(W2) \cup {n} /\ n \notin Nones(W2)
  BY <1>1, <1>2, <1>3 DEF Nones
<1>6. \A i \in Entries(W) : i \in 1 .. n - 1 /\ W2[i] = W[i]
  BY <1>1, <1>4 DEF Entries
<1>7. \A vis : Listed(W2, vis) = Listed(W, vis)
  BY <1>4, <1>6 DEF Listed
<1>8. \A vis : Visited(W, vis) => Visited(W2, vis)
  BY <1>4, <1>6, <1>7 DEF Visited
<1>9. ASSUME Restored(W, vs) PROVE Restored(W2, W[n].val)
  <2> SUFFICES ASSUME NEW i \in Entries(W)
               PROVE  \/ (\A j \in i + 1 .. n - 1 : W2[j].blk # None) /\ Avail(W[n].val, W[i].blk, 0)
                      \/ \E j \in i + 1 .. n - 1 :
                           /\ W2[j].blk = None /\ Avail(W2[j].val, W[i].blk, 0)
                           /\ \A l \in i + 1 .. j - 1 : W2[l].blk # None
    BY <1>1, <1>4, <1>6 DEF Restored
  <2>1. i \in 1 .. n - 1 /\ n \in i + 1 .. n
    BY <1>1, <1>6
  <2>2. PICK j \in i + 1 .. n :
          /\ W[j].blk = None /\ Avail(W[j].val, W[i].blk, 0)
          /\ \A l \in i + 1 .. j - 1 : W[l].blk # None
    BY <1>2, <1>9, <2>1 DEF Restored, n
  <2>3. \A l \in i + 1 .. n - 1 : W2[l] = W[l]
    BY <1>1, <2>1
  <2>4. CASE j = n
    BY <2>2, <2>3, <2>4
  <2>5. CASE j # n
    <3>1. j \in i + 1 .. n - 1 /\ \A l \in i + 1 .. j - 1 : l \in i + 1 .. n - 1
      BY <1>1, <2>1, <2>5
    <3> QED
      BY <2>2, <2>3, <3>1
  <2> QED
    BY <2>4, <2>5
<1> QED
  BY <1>4, <1>5, <1>8, <1>9 DEF n

\* Entering a block.
LEMMA EnteredWork ==
  ASSUME Typed, TreeRight, NEW W \in Seq(Frame), W # <<>>, NEW b \in Reach, W[Len(W)].blk = b,
         NEW W2, NEW vs, Entered(W, W2, b, vs)
  PROVE  /\ Nones(W2) = Nones(W) \cup {Len(W)} /\ Len(W) \notin Nones(W)
         /\ \A vis : Visited(W, vis) => b \notin vis /\ Visited(W2, vis \cup {b})
         /\ Restored(W, vs) => Avail(vs, b, 0)
         /\ \A v2 : Restored(W, vs) /\ Avail(v2, b, AtEndOf) => Restored(W2, v2)
<1> DEFINE n == Len(W)
           m == Len(W2)
<1>1. /\ n \in Nat \ {0} /\ DOMAIN W = 1 .. n
      /\ DOMAIN W2 = 1 .. m /\ m \in Nat /\ n <= m
      /\ \A i \in 1 .. n - 1 : W2[i] = W[i]
  BY FrontFrames, LenProperties DEF Entered
<1>2. b # None /\ W[n].blk = b /\ W2[n].blk = None /\ W2[n].val = vs
  <2>1. b \in Blocks /\ None \notin Blocks
    BY NumFacts DEF TreeRight
  <2> QED
    BY <2>1 DEF Entered
<1>3. \A c \in Below(b) : c \in Reach \ {1} /\ c # None /\ idom[c] = b /\ c # b /\ SDom(b, c)
  BY NumFacts, <1>2 DEF TreeRight, Below
<1>4. /\ \A i \in n + 1 .. m : W2[i].blk \in Below(b) /\ W2[i].blk # None
      /\ \A i, j \in n + 1 .. m : W2[i].blk = W2[j].blk => i = j
      /\ \A c \in Below(b) : \E i \in n + 1 .. m : W2[i].blk = c
  BY <1>3 DEF Entered
<1> HIDE DEF n, m
<1>6. /\ 1 .. n = (1 .. n - 1) \cup {n} /\ n \notin 1 .. n - 1
      /\ 1 .. m = ((1 .. n - 1) \cup {n}) \cup (n + 1 .. m)
      /\ n \notin n + 1 .. m /\ \A i \in 1 .. n - 1 : i \notin n + 1 .. m
  BY <1>1
<1>7. Entries(W) = (Entries(W) \cap (1 .. n - 1)) \cup {n}
  BY <1>1, <1>2, <1>6 DEF Entries
<1>8. Entries(W2) = (Entries(W) \cap (1 .. n - 1)) \cup (n + 1 .. m)
  BY <1>1, <1>2, <1>4, <1>6 DEF Entries
<1>9. Nones(W2) = Nones(W) \cup {n} /\ n \notin Nones(W)
  BY <1>1, <1>2, <1>4, <1>6 DEF Nones
<1> DEFINE E == Entries(W) \cap (1 .. n - 1)
<1>10. ASSUME NEW vis, Visited(W, vis) PROVE b \notin vis /\ Visited(W2, vis \cup {b})
  <2>1. b \in Reach \ vis /\ \A i \in E : W[i].blk # b
    BY <1>1, <1>2, <1>6, <1>7, <1>10 DEF Visited
  <2>2. Listed(W, vis) = (vis \cup {b}) \cup {W[i].blk : i \in E}
    BY <1>2, <1>7 DEF Listed
  <2>3. Listed(W2, vis \cup {b}) = ((vis \cup {b}) \cup {W[i].blk : i \in E}) \cup Below(b)
    <3>1. {W2[i].blk : i \in Entries(W2)} = {W[i].blk : i \in E} \cup Below(b)
      <4>1. \A i \in E : W2[i] = W[i] /\ i \in Entries(W2)
        BY <1>1, <1>8
      <4>2. \A i \in n + 1 .. m : W2[i].blk \in Below(b) /\ i \in Entries(W2)
        BY <1>4, <1>8
      <4>3. Entries(W2) = E \cup (n + 1 .. m)
        BY <1>8
      <4> HIDE DEF E
      <4> QED
        BY <1>4, <4>1, <4>2, <4>3
    <3> QED
      BY <3>1 DEF Listed
  <2>4. Listed(W2, vis \cup {b}) = Listed(W, vis) \cup Below(b)
    BY <2>2, <2>3
  <2>5. \A c \in Listed(W, vis) : c # 1 => idom[c] \in vis
    BY <1>10 DEF Visited
  <2>6. \A c \in Below(b) : c \notin Listed(W, vis)
    BY <1>3, <2>1, <2>5
  <2>7. \A i \in E : W[i].blk \in Listed(W, vis) /\ W[i].blk \in Reach \ (vis \cup {b})
    BY <1>10, <2>1, <2>2 DEF Visited
  <2>8. \A i \in Entries(W2) : W2[i].blk \in Reach \ (vis \cup {b})
    <3>1. \A i \in E : W2[i].blk \in Reach \ (vis \cup {b})
      BY <1>1, <2>7
    <3>2. \A i \in n + 1 .. m : W2[i].blk \in Reach \ (vis \cup {b})
      BY <1>3, <1>4, <2>2, <2>6
    <3> QED
      BY <1>8, <3>1, <3>2
  <2>9. \A i, j \in Entries(W2) : W2[i].blk = W2[j].blk => i = j
    <3>1. \A i, j \in E : W2[i].blk = W2[j].blk => i = j
      BY <1>1, <1>10 DEF Visited
    <3>2. \A i \in E, j \in n + 1 .. m : W2[i].blk # W2[j].blk
      BY <1>1, <1>4, <2>6, <2>7
    <3> QED
      BY <1>4, <1>8, <3>1, <3>2
  <2>10. \A c \in Listed(W2, vis \cup {b}) \ {1} : idom[c] \in vis \cup {b}
    BY <1>3, <2>4, <2>5
  <2>11. ASSUME NEW c \in Reach \ {1}, idom[c] \in vis \cup {b}
         PROVE  c \in Listed(W2, vis \cup {b})
    <3>1. CASE idom[c] \in vis
      BY <1>10, <2>4, <3>1 DEF Visited
    <3>2. CASE idom[c] = b /\ c # b
      <4>1. c \in Below(b)
        BY <3>2, NumFacts DEF Below, TreeRight
      <4> QED
        BY <2>4, <4>1
    <3>3. CASE c = b
      BY <2>2, <2>4, <3>3
    <3> QED
      BY <2>11, <3>1, <3>2, <3>3
  <2>12. 1 \in Listed(W2, vis \cup {b})
    BY <1>10, <2>4 DEF Visited
  <2> QED
    BY <2>1, <2>8, <2>9, <2>10, <2>11, <2>12 DEF Visited
<1>11. ASSUME Restored(W, vs)
       PROVE  /\ Avail(vs, b, 0)
              /\ \A i \in E : \E j \in i + 1 .. n :
                   /\ W2[j].blk = None /\ Avail(W2[j].val, W[i].blk, 0)
                   /\ \A l \in i + 1 .. j - 1 : W2[l].blk # None
  <2>1. Avail(vs, b, 0)
    <3>1. n \in Entries(W) /\ ~ \E j \in n + 1 .. n : TRUE
      BY <1>1, <1>7
    <3> QED
      BY <1>2, <1>11, <3>1 DEF Restored, n
  <2>2. ASSUME NEW i \in E
        PROVE  \E j \in i + 1 .. n :
                   /\ W2[j].blk = None /\ Avail(W2[j].val, W[i].blk, 0)
                   /\ \A l \in i + 1 .. j - 1 : W2[l].blk # None
    <3>1. i \in 1 .. n - 1 /\ i \in Entries(W) /\ n \in i + 1 .. n
      BY <1>1
    <3>2. \A l \in i + 1 .. n - 1 : W2[l] = W[l] /\ l \in i + 1 .. n
      BY <1>1, <3>1
    <3>3. CASE (\A j \in i + 1 .. n : W[j].blk # None) /\ Avail(vs, W[i].blk, 0)
      <4>1. \A l \in i + 1 .. n - 1 : W2[l].blk # None
        BY <3>2, <3>3
      <4> QED
        BY <1>2, <3>1, <3>3, <4>1
    <3>4. CASE \E j \in i + 1 .. n :
                 /\ W[j].blk = None /\ Avail(W[j].val, W[i].blk, 0)
                 /\ \A l \in i + 1 .. j - 1 : W[l].blk # None
      <4>1. PICK j \in i + 1 .. n :
              /\ W[j].blk = None /\ Avail(W[j].val, W[i].blk, 0)
              /\ \A l \in i + 1 .. j - 1 : W[l].blk # None
        BY <3>4
      <4>2. j # n
        BY <1>2, <4>1
      <4>3. j \in i + 1 .. n - 1 /\ \A l \in i + 1 .. j - 1 : l \in i + 1 .. n - 1
        BY <1>1, <3>1, <4>2
      <4> QED
        BY <3>1, <3>2, <4>1, <4>3
    <3> QED
      BY <1>11, <3>1, <3>3, <3>4 DEF Restored, n
  <2> QED
    BY <2>1, <2>2
<1>12. ASSUME NEW v2, Restored(W, vs), Avail(v2, b, AtEndOf)
       PROVE  Restored(W2, v2)
  <2>1. ASSUME NEW i \in E
        PROVE  \E j \in i + 1 .. m :
                 /\ W2[j].blk = None /\ Avail(W2[j].val, W2[i].blk, 0)
                 /\ \A l \in i + 1 .. j - 1 : W2[l].blk # None
    <3>1. W2[i] = W[i] /\ i \in 1 .. n - 1
      BY <1>1
    <3>2. \A j \in i + 1 .. n : j \in i + 1 .. m
      BY <1>1, <3>1
    <3> QED
      BY <1>11, <1>12, <3>1, <3>2
  <2>2. ASSUME NEW i \in n + 1 .. m
        PROVE  (\A j \in i + 1 .. m : W2[j].blk # None) /\ Avail(v2, W2[i].blk, 0)
    <3>1. \A j \in i + 1 .. m : j \in n + 1 .. m
      BY <1>1
    <3>2. Avail(v2, W2[i].blk, 0)
      <4>1. W2[i].blk \in Reach /\ SDom(b, W2[i].blk)
        BY <1>3, <1>4
      <4> QED
        BY <1>12, <4>1, AvailBelow
    <3> QED
      BY <1>4, <3>1, <3>2
  <2> HIDE DEF E
  <2>3. Entries(W2) = E \cup (n + 1 .. m)
    BY <1>8 DEF E
  <2> QED
    BY <2>1, <2>2, <2>3 DEF Restored, m
<1> QED
  BY <1>9, <1>10, <1>11, <1>12 DEF n

\* One frame of the work list.
LEMMA WalkFacts ==
  ASSUME Typed, NEW st \in Walking, SamePhis(st.phi)
  PROVE  LET r == Walk(st)
             top == st.work[Len(st.work)]
             b == top.blk
         IN /\ r \in Walking /\ SamePhis(r.phi)
            /\ st.work = <<>> => r = st
            /\ st.work # <<>> /\ b = None =>
                 /\ Popped(st.work, r.work) /\ r.val = top.val
                 /\ r.phi = st.phi /\ r.dead = st.dead /\ r.repl = st.repl
            /\ st.work # <<>> /\ b # None =>
                 /\ b \in Blocks /\ Entered(st.work, r.work, b, st.val)
                 /\ \E s \in Walking :
                      /\ s.val = st.val /\ s.dead = st.dead /\ s.repl = st.repl
                      /\ r.val = Body(s, b).val /\ r.dead = Body(s, b).dead
                      /\ r.repl = Body(s, b).repl /\ Sent(st.phi, r.phi, b, Body(s, b))
                 /\ TreeRight /\ b \in Reach /\ Replaces(st) /\ Avail(st.val, b, 0)
                    /\ Handed(st.phi) =>
                      /\ Replaces(r) /\ Avail(r.val, b, AtEndOf) /\ Handed(r.phi)
                      /\ \A t \in Blocks : Filled(r.phi, b, t)
                      /\ \A c, u : Filled(st.phi, c, u) => Filled(r.phi, c, u)
<1> DEFINE r == Walk(st)
           W == st.work
           top == W[Len(W)]
           b == top.blk
           rest == [st EXCEPT !.work = Front(@)]
           back == [blk |-> None, val |-> st.val]
           kids == [k \in DOMAIN Kids(top.blk) |-> [blk |-> Kids(top.blk)[k], val |-> <<>>]]
           q == RenameBlock(rest, b)
           W2 == (Front(W) \o <<back>>) \o KidFrames(b)
<1>1. W \in Seq(Frame) /\ st.val \in Stacks
  BY DEF Walking
<1>2. CASE W = <<>>
  <2>1. r = st
    BY <1>2 DEF Walk
  <2> QED
    BY <1>2, <2>1
<1>3. ASSUME W # <<>>
      PROVE  /\ Last(W) = top /\ top \in Frame /\ Popped(W, Front(W))
             /\ rest \in Walking /\ rest.work = Front(W) /\ rest.val = st.val
             /\ rest.phi = st.phi /\ rest.dead = st.dead /\ rest.repl = st.repl
  <2>1. Last(W) = top /\ top \in Frame /\ Popped(W, Front(W))
    <3>1. Last(W) = W[Len(W)] /\ Last(W) \in Frame /\ Popped(W, Front(W))
      BY <1>1, <1>3, FrontFrames
    <3> QED
      BY <3>1
  <2>2. Front(W) \in Seq(Frame)
    BY <2>1 DEF Popped
  <2> QED
    BY <2>1, <2>2 DEF Walking
<1>4. CASE W # <<>> /\ b = None
  <2>1. r = [rest EXCEPT !.val = top.val]
    BY <1>3, <1>4 DEF Walk
  <2>2. top.val \in Stacks
    <3>1. None \notin Blocks
      BY FinalParts DEF Typed, None
    <3>2. top \in Frame /\ top.blk = None
      BY <1>3, <1>4
    <3> HIDE DEF top
    <3> QED
      BY <3>1, <3>2 DEF Frame
  <2>3. /\ r \in Walking /\ r.work = Front(W) /\ r.val = top.val
        /\ r.phi = st.phi /\ r.dead = st.dead /\ r.repl = st.repl
    <3> HIDE DEF rest, top, r
    <3> QED
      BY <1>3, <1>4, <2>1, <2>2 DEF Walking
  <2> HIDE DEF r, rest
  <2> QED
    BY <1>3, <1>4, <2>3 DEF r
<1>5. CASE W # <<>> /\ b # None
  <2>1. r = [q EXCEPT !.work = @ \o <<back>> \o Reverse(kids)]
    BY <1>3, <1>5 DEF Walk
  <2>2. b \in Blocks
    <3>1. top \in Frame /\ top.blk # None
      BY <1>3, <1>5
    <3> HIDE DEF top
    <3> QED
      BY <3>1 DEF Frame
  <2>3. SamePhis(rest.phi)
    BY <1>3, <1>5
  <2> HIDE DEF rest
  <2>4. /\ q \in Walking /\ SamePhis(q.phi) /\ q.work = Front(W)
        /\ q.val = Body(rest, b).val /\ q.dead = Body(rest, b).dead /\ q.repl = Body(rest, b).repl
        /\ Sent(rest.phi, q.phi, b, Body(rest, b))
        /\ TreeRight /\ b \in Reach /\ Replaces(rest) /\ Avail(rest.val, b, 0) /\ Handed(rest.phi) =>
              /\ Replaces(q) /\ Avail(q.val, b, AtEndOf) /\ Handed(q.phi)
              /\ \A t \in Blocks : Filled(q.phi, b, t)
              /\ \A c, u : Filled(rest.phi, c, u) => Filled(q.phi, c, u)
    BY <1>3, <1>5, <2>2, <2>3, RenameBlockFacts
  <2>5. Entered(W, W2, b, st.val)
    BY <1>1, <1>5, <2>2, EnteredFacts
  <2>6. W2 \in Seq(Frame)
    BY <2>5 DEF Entered
  <2>7. r = [q EXCEPT !.work = W2]
    <3>1. Reverse(kids) = KidFrames(b)
      BY DEF KidFrames
    <3> HIDE DEF q, kids, back
    <3> QED
      BY <2>1, <2>4, <3>1
  <2> HIDE DEF q, r, W2, b
  <2>8. /\ r \in Walking /\ r.work = W2
        /\ r.phi = q.phi /\ r.val = q.val /\ r.dead = q.dead /\ r.repl = q.repl
    BY <2>4, <2>6, <2>7 DEF Walking
  <2>9. (Replaces(st) <=> Replaces(rest)) /\ (Replaces(q) => Replaces(r))
    BY <1>3, <1>5, <2>8 DEF Replaces
  <2>10. rest.val = st.val /\ rest.phi = st.phi
    BY <1>3, <1>5
  <2>11. r \in Walking /\ SamePhis(r.phi) /\ b \in Blocks /\ Entered(W, r.work, b, st.val)
    BY <2>2, <2>4, <2>5, <2>8
  <2>13. \E s \in Walking :
            /\ s.val = st.val /\ s.dead = st.dead /\ s.repl = st.repl
            /\ r.val = Body(s, b).val /\ r.dead = Body(s, b).dead
            /\ r.repl = Body(s, b).repl /\ Sent(st.phi, r.phi, b, Body(s, b))
    <3>1. /\ rest \in Walking
          /\ rest.val = st.val /\ rest.dead = st.dead /\ rest.repl = st.repl
          /\ r.val = Body(rest, b).val /\ r.dead = Body(rest, b).dead
          /\ r.repl = Body(rest, b).repl /\ Sent(st.phi, r.phi, b, Body(rest, b))
      BY <1>3, <1>5, <2>4, <2>8, <2>10
    <3> QED
      BY <3>1
  <2>12. TreeRight /\ b \in Reach /\ Replaces(st) /\ Avail(st.val, b, 0)
                    /\ Handed(st.phi) =>
                      /\ Replaces(r) /\ Avail(r.val, b, AtEndOf) /\ Handed(r.phi)
                      /\ \A t \in Blocks : Filled(r.phi, b, t)
                      /\ \A c, u : Filled(st.phi, c, u) => Filled(r.phi, c, u)
    BY <2>4, <2>8, <2>9, <2>10
  <2> QED
    BY <1>5, <2>11, <2>12, <2>13 DEF b, r
<1> QED
  BY <1>2, <1>4, <1>5

\* After k frames the blocks vis have been entered, each twice over but those
\* whose stacks are still to be restored.
WalkInv(st, k) ==
  \E vis \in SUBSET Reach :
    /\ Visited(st.work, vis)
    /\ st.work = <<>> \/ k + Cardinality(Nones(st.work)) = 2 * Cardinality(vis)
    /\ Restored(st.work, st.val)
    /\ Replaces(st) /\ Handed(st.phi)
    /\ \A b \in vis, t \in Blocks : Filled(st.phi, b, t)

LEMMA FramesFinite ==
  ASSUME Typed, NEW W \in Seq(Frame), NEW vis \in SUBSET Reach
  PROVE  /\ IsFiniteSet(Nones(W)) /\ Cardinality(Nones(W)) \in Nat
         /\ IsFiniteSet(vis) /\ Cardinality(vis) \in Nat
         /\ Cardinality(vis) <= Len(M.blks)
         /\ Cardinality(vis) = Len(M.blks) => vis = Blocks
<1>1. Len(W) \in Nat /\ DOMAIN W = 1 .. Len(W)
  BY LenProperties
<1>2. IsFiniteSet(1 .. Len(W)) /\ Nones(W) \in SUBSET (1 .. Len(W))
  BY <1>1, FS_Interval DEF Nones
<1>3. /\ Len(M.blks) \in Nat /\ Blocks = 1 .. Len(M.blks) /\ vis \in SUBSET (1 .. Len(M.blks))
  BY FinalGraph, ReachFacts, FinalParts DEF Typed
<1>4. IsFiniteSet(1 .. Len(M.blks)) /\ Cardinality(1 .. Len(M.blks)) = Len(M.blks)
  BY <1>3, FS_Interval
<1>5. IsFiniteSet(Nones(W)) /\ Cardinality(Nones(W)) \in Nat
  BY <1>2, FS_Subset, FS_CardinalityType
<1>6. /\ IsFiniteSet(vis) /\ Cardinality(vis) <= Cardinality(1 .. Len(M.blks))
      /\ Cardinality(1 .. Len(M.blks)) = Cardinality(vis) => 1 .. Len(M.blks) = vis
  BY <1>3, <1>4, FS_Subset
<1>7. Cardinality(vis) \in Nat
  BY <1>6, FS_CardinalityType
<1> QED
  BY <1>3, <1>4, <1>5, <1>6, <1>7

LEMMA WalkKeeps ==
  ASSUME Typed, TreeRight, NEW st \in Walking, SamePhis(st.phi), NEW k \in Nat, WalkInv(st, k)
  PROVE  WalkInv(Walk(st), k + 1)
<1> DEFINE r == Walk(st)
           W == st.work
           n == Len(W)
           top == W[n]
           b == top.blk
<1>1. PICK vis \in SUBSET Reach :
        /\ Visited(W, vis)
        /\ W = <<>> \/ k + Cardinality(Nones(W)) = 2 * Cardinality(vis)
        /\ Restored(W, st.val)
        /\ Replaces(st) /\ Handed(st.phi)
        /\ \A c \in vis, t \in Blocks : Filled(st.phi, c, t)
  BY DEF WalkInv
<1>2. W \in Seq(Frame) /\ st.val \in Stacks
  BY DEF Walking
<1>3. CASE W = <<>>
  <2>1. r = st
    BY <1>3, WalkFacts
  <2> QED
    BY <1>1, <1>3, <2>1 DEF WalkInv
<1>4. CASE W # <<>> /\ b = None
  <2>1. /\ Popped(W, r.work) /\ r.val = top.val
        /\ r.phi = st.phi /\ r.dead = st.dead /\ r.repl = st.repl
        /\ r \in Walking
    BY <1>4, WalkFacts
  <2> HIDE DEF r, W
  <2>2. /\ Nones(W) = Nones(r.work) \cup {n} /\ n \notin Nones(r.work)
        /\ Visited(r.work, vis) /\ Restored(r.work, top.val)
    BY <1>1, <1>2, <1>4, <2>1, PoppedFacts
  <2>3. /\ IsFiniteSet(Nones(r.work)) /\ Cardinality(Nones(r.work)) \in Nat
        /\ Cardinality(vis) \in Nat
    BY <2>1, FramesFinite DEF Walking
  <2>4. Cardinality(Nones(W)) = Cardinality(Nones(r.work)) + 1
    BY <2>2, <2>3, FS_AddElement
  <2>5. (k + 1) + Cardinality(Nones(r.work)) = 2 * Cardinality(vis)
    <3> HIDE DEF top
    <3> QED
      BY <1>1, <1>4, <2>3, <2>4
  <2>6. Replaces(r) /\ Handed(r.phi) /\ \A c \in vis, t \in Blocks : Filled(r.phi, c, t)
    BY <1>1, <2>1 DEF Replaces
  <2>7. Restored(r.work, r.val)
    BY <2>1, <2>2
  <2>8. WalkInv(r, k + 1)
    BY <2>2, <2>5, <2>6, <2>7 DEF WalkInv
  <2> QED
    BY <2>8 DEF r
<1>5. CASE W # <<>> /\ b # None
  <2>1. n \in Entries(W)
    BY <1>2, <1>5, FrontFrames DEF Entries
  <2>2. b \in Reach \ vis
    BY <1>1, <2>1 DEF Visited
  <2>3. /\ r \in Walking /\ Entered(W, r.work, b, st.val)
        /\ Avail(st.val, b, 0) =>
                      /\ Replaces(r) /\ Avail(r.val, b, AtEndOf) /\ Handed(r.phi)
                      /\ \A t \in Blocks : Filled(r.phi, b, t)
                      /\ \A c, u : Filled(st.phi, c, u) => Filled(r.phi, c, u)
    BY <1>1, <1>5, <2>2, WalkFacts
  <2> HIDE DEF r, W
  <2>4. /\ Nones(r.work) = Nones(W) \cup {n} /\ n \notin Nones(W)
        /\ Visited(r.work, vis \cup {b})
        /\ Avail(st.val, b, 0)
        /\ Avail(r.val, b, AtEndOf) => Restored(r.work, r.val)
    <3> HIDE DEF b
    <3>1. W[Len(W)].blk = b /\ b \in Reach /\ Entered(W, r.work, b, st.val) /\ W # <<>>
      BY <1>5, <2>2, <2>3 DEF b
    <3>2. /\ Nones(r.work) = Nones(W) \cup {Len(W)} /\ Len(W) \notin Nones(W)
          /\ \A v : Visited(W, v) => b \notin v /\ Visited(r.work, v \cup {b})
          /\ Restored(W, st.val) => Avail(st.val, b, 0)
          /\ \A v2 : Restored(W, st.val) /\ Avail(v2, b, AtEndOf) => Restored(r.work, v2)
      BY <1>2, <3>1, EnteredWork
    <3> QED
      BY <1>1, <3>2
  <2> HIDE DEF b
  <2>5. /\ Replaces(r) /\ Handed(r.phi) /\ Restored(r.work, r.val)
        /\ \A c \in vis \cup {b}, t \in Blocks : Filled(r.phi, c, t)
    BY <1>1, <2>3, <2>4
  <2>6. /\ IsFiniteSet(Nones(W)) /\ Cardinality(Nones(W)) \in Nat
        /\ IsFiniteSet(vis) /\ Cardinality(vis) \in Nat
    BY <1>2, FramesFinite
  <2>7. /\ Cardinality(Nones(r.work)) = Cardinality(Nones(W)) + 1
        /\ Cardinality(vis \cup {b}) = Cardinality(vis) + 1
    BY <2>2, <2>4, <2>6, FS_AddElement
  <2>8. (k + 1) + Cardinality(Nones(r.work)) = 2 * Cardinality(vis \cup {b})
    BY <1>1, <1>5, <2>6, <2>7
  <2>9. vis \cup {b} \in SUBSET Reach
    BY <2>2
  <2>10. WalkInv(r, k + 1)
    BY <2>4, <2>5, <2>8, <2>9 DEF WalkInv
  <2> QED
    BY <2>10 DEF r
<1> QED
  BY <1>3, <1>4, <1>5

\* Where the walk starts, and the blocks it has entered when nothing is left.
FirstFrame ==
  [work |-> <<[blk |-> 1, val |-> <<>>]>>, val |-> [v \in DOMAIN pvar |-> <<>>],
   phi |-> phi, dead |-> {}, repl |-> <<>>]
LEMMA FirstFrameFacts ==
  ASSUME Typed, Unfilled
  PROVE  /\ FirstFrame \in Walking /\ SamePhis(FirstFrame.phi)
         /\ TreeRight => WalkInv(FirstFrame, 0)
<1> DEFINE e == [blk |-> 1, val |-> <<>>]
           W == <<e>>
           st == FirstFrame
<1>1. 1 \in Blocks /\ 1 \in Reach
  BY FinalParts, FinalGraph, ReachFacts DEF Typed
<1>2. e \in Frame /\ e.blk = 1
  BY <1>1 DEF Frame
<1> HIDE DEF e
<1>3. W \in Seq(Frame) /\ Len(W) = 1 /\ W[1] = e /\ DOMAIN W = {1}
  BY <1>2
<1>4. <<>> \in Replacements
  <2>1. <<>> \in [{} -> Int] /\ {} \in SUBSET DOMAIN M.insts
    OBVIOUS
  <2> QED
    BY <2>1 DEF Replacements
<1>5. /\ st.work = W /\ st.val = [v \in DOMAIN pvar |-> <<>>] /\ st.phi = phi
      /\ st.dead = {} /\ st.repl = <<>>
  BY DEF FirstFrame, e
<1>6. st \in Walking
  <2>1. st.val \in Stacks
    BY <1>5 DEF Stacks
  <2>2. phi \in Seq(PhiRec)
    BY DEF Typed
  <2> HIDE DEF W
  <2> QED
    BY <1>3, <1>4, <1>5, <2>1, <2>2 DEF Walking, FirstFrame, W, e
<1>7. SamePhis(st.phi)
  BY <1>5 DEF SamePhis, Typed
<1>8. ASSUME TreeRight PROVE WalkInv(st, 0)
  <2>1. Entries(W) = {1} /\ Nones(W) = {}
    BY <1>2, <1>3 DEF Entries, Nones, None
  <2>2. Visited(W, {})
    <3>1. Listed(W, {}) = {1}
      BY <1>2, <1>3, <2>1 DEF Listed
    <3> QED
      BY <1>1, <1>2, <1>3, <2>1, <3>1 DEF Visited
  <2>3. Cardinality({}) = 0
    BY FS_EmptySet
  <2>4. Restored(W, st.val)
    <3>1. \A j \in 1 + 1 .. 1 : FALSE
      OBVIOUS
    <3>2. Avail(st.val, W[1].blk, 0)
      BY <1>5 DEF Avail
    <3> QED
      BY <1>3, <2>1, <3>1, <3>2 DEF Restored
  <2>5. Replaces(st)
    BY <1>5 DEF Replaces, ReplRight, DeadRight
  <2>6. Handed(st.phi)
    BY <1>5 DEF Handed, Unfilled
  <2>7. 0 + Cardinality(Nones(W)) = 2 * Cardinality({})
    BY <2>1, <2>3
  <2> HIDE DEF W, st
  <2> QED
    BY <1>5, <2>2, <2>4, <2>5, <2>6, <2>7 DEF WalkInv
<1> QED
  BY <1>6, <1>7, <1>8

\* With nothing left to enter every block has been entered.
LEMMA VisitedAll ==
  ASSUME Typed, TreeRight, NEW vis \in SUBSET Reach, Visited(<<>>, vis)
  PROVE  Reach \subseteq vis
<1>1. Listed(<<>>, vis) = vis
  BY DEF Listed, Entries
<1>2. 1 \in vis /\ \A c \in Reach \ {1} : idom[c] \in vis => c \in vis
  BY <1>1 DEF Visited
<1> DEFINE U == {k \in Nat : \A c \in Reach : Num[c] <= k => c \in vis}
<1>3. \A c \in Reach : Num[c] \in Nat /\ Num[c] # 0
  BY NumFacts DEF TreeRight
<1>4. 0 \in U
  BY <1>3
<1>5. ASSUME NEW k \in Nat, k \in U PROVE k + 1 \in U
  <2> SUFFICES ASSUME NEW c \in Reach, Num[c] <= k + 1 PROVE c \in vis
    OBVIOUS
  <2>1. CASE c = 1
    BY <1>2, <2>1
  <2>2. CASE c # 1
    <3>1. idom[c] \in Reach /\ Num[idom[c]] < Num[c]
      BY <2>2 DEF TreeRight
    <3>2. Num[idom[c]] <= k
      BY <1>3, <3>1
    <3> QED
      BY <1>2, <1>5, <2>2, <3>1, <3>2
  <2> QED
    BY <2>1, <2>2
<1>6. Nat \subseteq U
  <2> HIDE DEF U
  <2> QED
    BY <1>4, <1>5, Induction
<1> QED
  BY <1>3, <1>6

LEMMA WalkDone ==
  ASSUME Typed, TreeRight, NEW st \in Walking, WalkInv(st, 2 * Len(M.blks))
  PROVE  /\ Replaces(st) /\ Handed(st.phi) /\ \A b \in Reach, t \in Blocks : Filled(st.phi, b, t)
         /\ st.work = <<>>
<1> DEFINE W == st.work
           L == Len(M.blks)
<1>1. PICK vis \in SUBSET Reach :
        /\ Visited(W, vis)
        /\ W = <<>> \/ 2 * L + Cardinality(Nones(W)) = 2 * Cardinality(vis)
        /\ Replaces(st) /\ Handed(st.phi)
        /\ \A c \in vis, t \in Blocks : Filled(st.phi, c, t)
  BY DEF WalkInv
<1>2. W \in Seq(Frame)
  BY DEF Walking
<1>3. /\ IsFiniteSet(Nones(W)) /\ Cardinality(Nones(W)) \in Nat
      /\ IsFiniteSet(vis) /\ Cardinality(vis) \in Nat
      /\ Cardinality(vis) <= L
      /\ Cardinality(vis) = L => vis = Blocks
      /\ L \in Nat
  BY <1>2, FramesFinite, FinalParts DEF Typed
<1>4. Reach \subseteq vis
  <2>1. CASE W = <<>>
    BY <1>1, <2>1, VisitedAll
  <2>2. CASE W # <<>>
    <3>1. 2 * L + Cardinality(Nones(W)) = 2 * Cardinality(vis)
      BY <1>1, <2>2
    <3> HIDE DEF L, W
    <3>2. Cardinality(vis) = L
      BY <1>3, <3>1
    <3>3. Reach \subseteq Blocks
      BY FinalGraph, ReachFacts DEF Typed
    <3> QED
      BY <1>3, <3>2, <3>3
  <2> QED
    BY <2>1, <2>2
<1>5. W = <<>>
  <2> SUFFICES ASSUME W # <<>> PROVE FALSE
    OBVIOUS
  <2> DEFINE f == W[Len(W)]
             C == Cardinality(Nones(W))
  <2>1. 2 * L + C = 2 * Cardinality(vis)
    BY <1>1
  <2>2. Cardinality(vis) = L /\ C = 0
    <3> HIDE DEF L, W, C
    <3>1. C \in Nat /\ Cardinality(vis) \in Nat
      BY <1>3 DEF C
    <3> QED
      BY <1>3, <2>1, <3>1
  <2>3. vis = Blocks /\ Nones(W) = {}
    BY <1>3, <2>2, FS_EmptySet
  <2>4. Len(W) \in DOMAIN W
    BY <1>2, FrontFrames
  <2>5. Len(W) \in Entries(W)
    BY <2>3, <2>4 DEF Entries, Nones
  <2>6. W[Len(W)].blk \in Reach \ vis
    BY <1>1, <2>5 DEF Visited
  <2>7. Reach \subseteq Blocks
    BY FinalGraph, ReachFacts DEF Typed
  <2> QED
    BY <2>3, <2>6, <2>7
<1> QED
  BY <1>1, <1>4, <1>5

\* ren_var.
Renamed == Iterate(Walk, FirstFrame, 2 * Len(M.blks))
LEMMA RenameRight ==
  ASSUME Typed, Unfilled
  PROVE  /\ Renamed \in Walking /\ SamePhis(Renamed.phi)
         /\ TreeRight =>
              /\ Replaces(Renamed) /\ Handed(Renamed.phi)
              /\ \A b \in Reach, t \in Blocks : Filled(Renamed.phi, b, t)
              /\ Renamed.work = <<>>
<1> DEFINE n == 2 * Len(M.blks)
           Do(x, k) == Walk(x)
           Ok(x, k) == SamePhis(x.phi) /\ (TreeRight => WalkInv(x, k))
           T == [k \in 0 .. n |-> {x \in Walking : Ok(x, k)}]
           step == [k \in 1 .. n |-> [x \in Walking |-> Do(x, k)]]
           Is(f) == f = [k \in 0 .. n |-> IF k = 0 THEN FirstFrame ELSE Do(f[k - 1], k)]
<1>1. n \in Nat
  BY FinalParts DEF Typed
<1>2. ASSUME NEW k \in 1 .. n, NEW x \in T[k - 1] PROVE Do(x, k) \in T[k]
  <2>1. k - 1 \in 0 .. n /\ k \in 0 .. n /\ k - 1 \in Nat /\ (k - 1) + 1 = k
    BY <1>1
  <2>2. x \in Walking /\ Ok(x, k - 1)
    <3> HIDE DEF Ok, n
    <3> QED
      BY <1>2, <2>1
  <2> HIDE DEF n
  <2>3. Walk(x) \in Walking /\ SamePhis(Walk(x).phi)
    BY <2>2, WalkFacts
  <2>4. TreeRight => WalkInv(Walk(x), k)
    BY <2>1, <2>2, WalkKeeps
  <2>5. Ok(Walk(x), k)
    BY <2>3, <2>4
  <2> HIDE DEF Ok
  <2> QED
    BY <2>1, <2>3, <2>5
<1>3. FirstFrame \in T[0]
  <2>1. 0 \in 0 .. n /\ Ok(FirstFrame, 0)
    BY <1>1, FirstFrameFacts
  <2> HIDE DEF Ok, n
  <2> QED
    BY <2>1, FirstFrameFacts
<1>4. \A k \in 0 .. n : T[k] \subseteq Walking
  OBVIOUS
<1> HIDE DEF T, Do, n
<1>5. \E f : Is(f)
  <2>1. ASSUME NEW k \in 1 .. n, NEW x \in T[k - 1] PROVE step[k][x] \in T[k]
    <3>1. k - 1 \in 0 .. n
      BY <1>1
    <3>2. x \in Walking
      BY <1>4, <3>1
    <3> QED
      BY <1>2, <3>2
  <2> HIDE DEF step
  <2>2. PICK f : Follows(f, n, FirstFrame, step) /\ \A k \in 0 .. n : f[k] \in T[k]
    BY <1>1, <1>3, <2>1, StepsExist
  <2>3. ASSUME NEW k \in 1 .. n PROVE step[k][f[k - 1]] = Do(f[k - 1], k)
    <3>1. k - 1 \in 0 .. n
      BY <1>1
    <3>2. f[k - 1] \in Walking
      BY <1>4, <2>2, <3>1
    <3> QED
      BY <3>2 DEF step
  <2>4. \A k \in 0 .. n : k # 0 => k \in 1 .. n
    BY <1>1
  <2>5. Is(f)
    BY <2>2, <2>3, <2>4 DEF Follows
  <2> QED
    BY <2>5
<1> DEFINE it == CHOOSE f : Is(f)
<1>6. Is(it)
  <2> HIDE DEF Is
  <2> QED
    BY <1>5
<1>7. Renamed = it[n]
  BY Zenon DEF Renamed, Iterate, Do, n
<1> HIDE DEF it
<1>8. Renamed \in T[n]
  <2>1. ASSUME NEW k \in 1 .. n, it[k - 1] \in T[k - 1] PROVE it[k] \in T[k]
    <3>1. k \in 0 .. n /\ k # 0
      BY <1>1
    <3>2. it[k] = Do(it[k - 1], k)
      BY <1>6, <3>1
    <3> QED
      BY <1>2, <2>1, <3>2
  <2>2. it[0] = FirstFrame
    BY <1>1, <1>6
  <2>3. \A k \in 0 .. n : it[k] \in T[k]
    <3> HIDE DEF Is
    <3> QED
      BY <1>1, <1>3, <2>1, <2>2, StepsStay
  <2>4. n \in 0 .. n
    BY <1>1
  <2> QED
    BY <1>7, <2>3, <2>4
<1>9. Renamed \in Walking /\ Ok(Renamed, n)
  <2>1. n \in 0 .. n
    BY <1>1
  <2> HIDE DEF Ok
  <2> QED
    BY <1>8, <2>1 DEF T
<1> QED
  BY <1>9, WalkDone DEF n

---------------------------------------------------------------------------
(* rewrite: where an instruction or a PHI is put.                          *)

\* What rewrite finds, whatever the limits did before; the limits that let a
\* number tell a PHI from an instruction and that remap follows chains up to.
Rewritable ==
  Typed /\ repl.dead \in SUBSET DOMAIN M.insts /\ repl.value \in Replacements
ChainsFit ==
  \A v \in DOMAIN repl.value : Iterate(Chase, v, MaxChase) \notin DOMAIN repl.value

\* PHIs first, then instructions in the order they had.
LEMMA CodeFacts ==
  ASSUME Rewritable, NEW b \in Blocks
  PROVE  LET c == NewCode(b)
         IN /\ IsSeq(c) /\ Len(c) \in Nat /\ DOMAIN c = 1 .. Len(c)
            /\ Range(c) = {FakeId(p) : p \in {p \in DOMAIN phi : phi[p].blk = b}}
                            \cup (Home(M, b) \ repl.dead)
            /\ NumbersFit =>
                 \A i, j \in DOMAIN c :
                   c[j] \in Home(M, b) /\ (IsFake(c[i]) \/ (c[i] \in Home(M, b) /\ c[i] < c[j]))
                     => i < j
<1> DEFINE here == PhisOf(b)
           A == [k \in DOMAIN here |-> FakeId(here[k])]
           B == Keep(InstSeq(b), DOMAIN M.insts \ repl.dead)
           m == Len(here)
           n == Len(B)
           c == NewCode(b)
           F == {FakeId(p) : p \in {p \in DOMAIN phi : phi[p].blk = b}}
<1>1. /\ IsSeq(here) /\ m \in Nat /\ DOMAIN here = 1 .. m
      /\ Range(here) = {p \in DOMAIN phi : phi[p].blk = b}
  BY PhisOfFacts DEF Rewritable
<1>2. /\ IsSeq(InstSeq(b)) /\ Range(InstSeq(b)) = Home(M, b) /\ Rising(InstSeq(b))
      /\ Home(M, b) \subseteq DOMAIN M.insts /\ DOMAIN M.insts = 1 .. Len(M.insts)
      /\ Len(M.insts) \in Nat
  BY InstSeqFacts, FinalParts DEF Rewritable, Typed
<1>3. /\ IsSeq(B) /\ Range(B) = Home(M, b) \ repl.dead /\ Rising(B)
  <2>1. Range(InstSeq(b)) \subseteq Int
    BY <1>2
  <2>2. Range(B) = Home(M, b) \cap (DOMAIN M.insts \ repl.dead)
    BY <1>2, KeepFacts
  <2> QED
    BY <1>2, <2>1, <2>2, KeepFacts, KeepRising
<1>4. n \in Nat /\ DOMAIN B = 1 .. n
  BY <1>3, DomainOfSeq
<1>5. c = A \o B
  BY DEF NewCode
<1> HIDE DEF here, B, c, m, n
<1>6. IsSeq(A) /\ Len(A) = m /\ \A k \in 1 .. m : A[k] = FakeId(here[k])
  <2>1. A = [k \in 1 .. m |-> A[k]] /\ \A k \in 1 .. m : A[k] = FakeId(here[k])
    BY <1>1
  <2> HIDE DEF A
  <2> QED
    BY <1>1, <2>1, FunctionIsSeq
<1>7. Range(A) = F
  <2>1. DOMAIN A = 1 .. m
    BY <1>1
  <2>2. Range(A) = {FakeId(here[k]) : k \in 1 .. m}
    BY <1>6, <2>1 DEF Range
  <2>3. Range(here) = {here[k] : k \in 1 .. m}
    BY <1>1 DEF Range
  <2> HIDE DEF A
  <2> QED
    BY <1>1, <2>2, <2>3
<1> HIDE DEF A
<1>8. /\ IsSeq(c) /\ Len(c) = m + n /\ Range(c) = F \cup (Home(M, b) \ repl.dead)
      /\ \A k \in 1 .. m : c[k] = A[k]
      /\ \A k \in 1 .. n : c[m + k] = B[k]
  <2>1. /\ IsSeq(c) /\ Len(c) = Len(A) + Len(B) /\ Range(c) = Range(A) \cup Range(B)
        /\ \A k \in 1 .. Len(A) : c[k] = A[k]
        /\ \A k \in 1 .. Len(B) : c[Len(A) + k] = B[k]
    <3>1. /\ IsSeq(A \o B) /\ Len(A \o B) = Len(A) + Len(B)
          /\ \A k \in 1 .. Len(A) : (A \o B)[k] = A[k]
          /\ \A k \in 1 .. Len(B) : (A \o B)[Len(A) + k] = B[k]
      <4>1. IsSeq(A) /\ IsSeq(B)
        BY <1>3, <1>6
      <4> QED
        BY ONLY <4>1, ConcatAny
    <3>2. Range(A \o B) = Range(A) \cup Range(B)
      BY <1>3, <1>6, ConcatRange
    <3> QED
      BY <1>5, <3>1, <3>2, Zenon
  <2> QED
    BY <1>3, <1>6, <1>7, <2>1 DEF n
<1>9. Len(c) \in Nat /\ DOMAIN c = 1 .. Len(c)
  BY <1>8, DomainOfSeq
<1>10. ASSUME NumbersFit, NEW i \in DOMAIN c, NEW j \in DOMAIN c, c[j] \in Home(M, b),
              IsFake(c[i]) \/ (c[i] \in Home(M, b) /\ c[i] < c[j])
       PROVE  i < j
  <2>1. i \in 1 .. m + n /\ j \in 1 .. m + n
    BY <1>8, <1>9
  <2>2. \A x \in Home(M, b) : ~ IsFake(x) /\ x \in Int
    BY <1>2, <1>10, Mem2RegAssumption DEF NumbersFit, IsFake
  <2>3. \A k \in 1 .. m : IsFake(c[k])
    <3> SUFFICES ASSUME NEW k \in 1 .. m PROVE IsFake(c[k])
      OBVIOUS
    <3>1. c[k] = FakeId(here[k]) /\ here[k] \in Range(here)
      BY <1>1, <1>6, <1>8 DEF Range
    <3>2. here[k] \in 1 .. Len(phi) /\ Len(phi) \in Nat
      BY <1>1, <3>1, LenProperties DEF Rewritable, Typed
    <3> QED
      BY <3>1, <3>2, Mem2RegAssumption DEF FakeId, IsFake
  <2>4. j - m \in 1 .. n /\ c[j] = B[j - m]
    <3>1. j \notin 1 .. m
      BY <1>10, <2>2, <2>3
    <3>2. j - m \in 1 .. n /\ m + (j - m) = j
      BY <1>1, <1>4, <2>1, <3>1
    <3> QED
      BY <1>8, <3>2
  <2>5. CASE i \in 1 .. m
    BY <1>1, <1>4, <2>1, <2>4, <2>5
  <2>6. CASE i \notin 1 .. m
    <3>1. i - m \in 1 .. n /\ m + (i - m) = i
      BY <1>1, <1>4, <2>1, <2>6
    <3>2. c[i] = B[i - m]
      BY <1>8, <3>1
    <3>3. c[i] \in Home(M, b)
      BY <1>3, <1>4, <3>1, <3>2 DEF Range
    <3>4. B[i - m] < B[j - m] /\ B[i - m] \in Int /\ B[j - m] \in Int
      BY <1>10, <2>2, <2>4, <3>2, <3>3
    <3>5. i - m < j - m
      <4>1. j - m < i - m => B[j - m] < B[i - m]
        BY <1>3, <1>4, <2>4, <3>1 DEF Rising
      <4>2. i - m \in Int /\ j - m \in Int
        BY <2>4, <3>1
      <4>3. i - m # j - m
        BY <3>4
      <4>4. ~ (j - m < i - m)
        BY <3>4, <4>1
      <4> QED
        BY <4>2, <4>3, <4>4
    <3> QED
      BY <1>1, <1>4, <2>1, <3>5
  <2> QED
    BY <2>5, <2>6
<1> QED
  BY <1>8, <1>9, <1>10 DEF c

\* Off[b] instructions come before those of block b + 1, and block b has the
\* places Spot(b).
Code == [b \in Blocks |-> NewCode(b)]
Off == CHOOSE off : Offsets(Code, off)
Spot(b) == FirstOf(b) .. (FirstOf(b) + SizeOf(b) - 1)

LEMMA OffFacts ==
  ASSUME Rewritable
  PROVE  /\ IsSeq(Code) /\ Len(Code) = Len(M.blks) /\ Len(M.blks) \in Nat
         /\ Blocks = 1 .. Len(M.blks)
         /\ \A b \in Blocks : Code[b] = NewCode(b) /\ IsSeq(Code[b])
         /\ \A b \in Blocks : SizeOf(b) \in Nat /\ Off[b] = Off[b - 1] + SizeOf(b)
         /\ Offsets(Code, Off) /\ Off \in [0 .. Len(M.blks) -> Nat] /\ Off[0] = 0
<1> DEFINE L == Len(M.blks)
<1>1. L \in Nat /\ Blocks = 1 .. L
  BY FinalParts DEF Rewritable, Typed
<1> HIDE DEF L
<1>2. Code = [b \in 1 .. L |-> Code[b]] /\ \A b \in 1 .. L : Code[b] = NewCode(b)
  BY <1>1 DEF Code
<1>3. IsSeq(Code) /\ Len(Code) = L /\ DOMAIN Code = 1 .. L
  BY <1>1, <1>2, FunctionIsSeq
<1>4. \A b \in 1 .. L : IsSeq(Code[b]) /\ SizeOf(b) \in Nat /\ SizeOf(b) = Len(Code[b])
  BY <1>1, <1>2, CodeFacts DEF SizeOf
<1>5. \E off : Offsets(Code, off)
  BY <1>3, <1>4, OffsetsExist
<1>6. Offsets(Code, Off)
  BY <1>5 DEF Off
<1>7. Off \in [0 .. L -> Nat] /\ Off[0] = 0 /\ \A b \in 1 .. L : Off[b] = Off[b - 1] + SizeOf(b)
  BY <1>3, <1>4, <1>6 DEF Offsets
<1> QED
  BY <1>1, <1>2, <1>3, <1>4, <1>6, <1>7 DEF L

LEMMA FirstOfRight ==
  ASSUME Rewritable, NEW b \in Blocks
  PROVE  FirstOf(b) = Off[b - 1] + 1
<1> DEFINE s == Steps(b - 1)
           n == Len(s)
           Do(x, k) == x + SizeOf(s[k])
           T == [k \in 0 .. n |-> {x \in Nat : x = Off[k]}]
           step == [k \in 1 .. n |-> [x \in Nat |-> Do(x, k)]]
           Is(f) == f = [k \in 0 .. n |-> IF k = 0 THEN 0 ELSE Do(f[k - 1], k)]
           Sum == Through(LAMBDA x, c : x + SizeOf(c), 0, Steps(b - 1))
<1>0. /\ b \in 1 .. Len(M.blks) /\ Len(M.blks) \in Nat /\ b - 1 \in Nat
      /\ n = b - 1 /\ \A k \in 1 .. n : s[k] = k /\ k \in Blocks
      /\ \A k \in 0 .. n : Off[k] \in Nat
  <2>1. /\ b \in 1 .. Len(M.blks) /\ Len(M.blks) \in Nat /\ Blocks = 1 .. Len(M.blks)
        /\ Off \in [0 .. Len(M.blks) -> Nat]
    BY OffFacts
  <2>2. b - 1 \in Nat
    BY <2>1
  <2>3. n = b - 1 /\ \A k \in 1 .. n : s[k] = k
    BY <2>2, StepsFacts
  <2> HIDE DEF n, s
  <2>4. (\A k \in 1 .. n : k \in Blocks) /\ \A k \in 0 .. n : k \in 0 .. Len(M.blks)
    BY <2>1, <2>3
  <2> QED
    BY <2>1, <2>2, <2>3, <2>4
<1>1. n \in Nat
  BY <1>0
<1>2. ASSUME NEW k \in 1 .. n, NEW x \in T[k - 1] PROVE Do(x, k) \in T[k]
  <2> HIDE DEF n, s
  <2>1. k - 1 \in 0 .. n /\ k \in 0 .. n
    BY <1>1
  <2>2. x \in Nat /\ x = Off[k - 1] /\ s[k] = k /\ k \in Blocks
    BY <1>0, <1>2, <2>1
  <2>3. Off[k] = x + SizeOf(k) /\ Off[k] \in Nat
    BY <1>0, <2>1, <2>2, OffFacts
  <2> QED
    BY <2>1, <2>2, <2>3
<1>3. 0 \in T[0]
  <2>1. 0 \in 0 .. n /\ Off[0] = 0
    BY <1>1, OffFacts
  <2> QED
    BY <2>1
<1>4. \A k \in 0 .. n : T[k] \subseteq Nat
  OBVIOUS
<1> HIDE DEF T, Do, n
<1>5. \E f : Is(f)
  <2>1. ASSUME NEW k \in 1 .. n, NEW x \in T[k - 1] PROVE step[k][x] \in T[k]
    <3>1. k - 1 \in 0 .. n
      BY <1>1
    <3>2. x \in Nat
      BY <1>4, <3>1
    <3> QED
      BY <1>2, <3>2
  <2> HIDE DEF step
  <2>2. PICK f : Follows(f, n, 0, step) /\ \A k \in 0 .. n : f[k] \in T[k]
    BY <1>1, <1>3, <2>1, StepsExist
  <2>3. ASSUME NEW k \in 1 .. n PROVE step[k][f[k - 1]] = Do(f[k - 1], k)
    <3>1. k - 1 \in 0 .. n
      BY <1>1
    <3>2. f[k - 1] \in Nat
      BY <1>4, <2>2, <3>1
    <3> QED
      BY <3>2 DEF step
  <2>4. \A k \in 0 .. n : k # 0 => k \in 1 .. n
    BY <1>1
  <2>5. Is(f)
    BY <2>2, <2>3, <2>4 DEF Follows
  <2> QED
    BY <2>5
<1> DEFINE it == CHOOSE f : Is(f)
<1>6. Is(it)
  <2> HIDE DEF Is
  <2> QED
    BY <1>5
<1>7. Sum = it[n]
  BY Zenon DEF Sum, Through, Do, n, s
<1> HIDE DEF it
<1>8. Sum \in T[n]
  <2>1. ASSUME NEW k \in 1 .. n, it[k - 1] \in T[k - 1] PROVE it[k] \in T[k]
    <3>1. k \in 0 .. n /\ k # 0
      BY <1>1
    <3>2. it[k] = Do(it[k - 1], k)
      BY <1>6, <3>1
    <3> QED
      BY <1>2, <2>1, <3>2
  <2>2. it[0] = 0
    BY <1>1, <1>6
  <2>3. \A k \in 0 .. n : it[k] \in T[k]
    <3> HIDE DEF Is
    <3> QED
      BY <1>1, <1>3, <2>1, <2>2, StepsStay
  <2>4. n \in 0 .. n
    BY <1>1
  <2> QED
    BY <1>7, <2>3, <2>4
<1>9. Sum = Off[n]
  <2>1. n \in 0 .. n
    BY <1>1
  <2> HIDE DEF Sum
  <2> QED
    BY <1>8, <2>1 DEF T
<1>10. FirstOf(b) = 1 + Sum
  BY Zenon DEF FirstOf, Sum
<1>11. Off[b - 1] \in Nat /\ Off[n] = Off[b - 1]
  <2>1. n \in 0 .. n
    BY <1>1
  <2> HIDE DEF n
  <2> QED
    BY <1>0, <2>1
<1> HIDE DEF Sum, n
<1> QED
  BY <1>9, <1>10, <1>11

\* Each place holds the instruction or the PHI that the code of its block has
\* there, and is in no other block.
LEMMA PlacesFacts ==
  ASSUME Rewritable
  PROVE  /\ IsSeq(Order) /\ Len(Order) \in Nat /\ DOMAIN Order = 1 .. Len(Order)
         /\ \A b \in Blocks : \A j \in 1 .. SizeOf(b) :
              LET z == FirstOf(b) + j - 1
              IN z \in DOMAIN Order /\ z \in Spot(b) /\ Order[z] = NewCode(b)[j]
         /\ \A b \in Blocks : \A z \in Spot(b) : \E j \in 1 .. SizeOf(b) : z = FirstOf(b) + j - 1
         /\ \A z \in DOMAIN Order : \E b \in Blocks : z \in Spot(b)
         /\ \A b, c \in Blocks : b # c => Spot(b) \cap Spot(c) = {}
<1> DEFINE L == Len(M.blks)
<1>1. /\ IsSeq(Code) /\ Len(Code) = L /\ L \in Nat
      /\ Blocks = 1 .. L
      /\ \A b \in Blocks : Code[b] = NewCode(b) /\ IsSeq(Code[b])
      /\ \A b \in Blocks : SizeOf(b) \in Nat /\ Off[b] = Off[b - 1] + SizeOf(b)
      /\ Offsets(Code, Off) /\ Off \in [0 .. L -> Nat] /\ Off[0] = 0
      /\ DOMAIN Code = 1 .. L
      /\ \A b \in Blocks : SizeOf(b) = Len(Code[b])
  <2>1. DOMAIN Code = Blocks
    BY DEF Code
  <2> QED
    BY <2>1, OffFacts DEF SizeOf
<1>2. Order = FlattenSeq(Code)
  BY DEF Order, Code
<1> HIDE DEF L
<1>3. /\ IsSeq(Order) /\ Len(Order) = Off[L]
      /\ \A b \in 1 .. L : \A j \in 1 .. Len(Code[b]) :
           /\ Off[b - 1] + j \in DOMAIN Order
           /\ Order[Off[b - 1] + j] = Code[b][j]
  <2>1. /\ IsSeq(FlattenSeq(Code)) /\ Len(FlattenSeq(Code)) = Off[Len(Code)]
        /\ \A k \in 1 .. Len(Code) : \A j \in 1 .. Len(Code[k]) :
             /\ Off[k - 1] + j \in DOMAIN FlattenSeq(Code)
             /\ FlattenSeq(Code)[Off[k - 1] + j] = Code[k][j]
    <3>1. IsSeq(Code) /\ (\A k \in DOMAIN Code : IsSeq(Code[k])) /\ Offsets(Code, Off)
      BY <1>1
    <3> QED
      BY ONLY <3>1, FlatPlaces
  <2> QED
    BY <1>1, <1>2, <2>1, Zenon
<1>4. Len(Order) \in Nat /\ DOMAIN Order = 1 .. Len(Order)
  BY <1>3, DomainOfSeq
<1>5. \A b \in Blocks : FirstOf(b) = Off[b - 1] + 1 /\ Off[b - 1] \in Nat /\ b - 1 \in 0 .. L
  <2>1. \A b \in Blocks : b - 1 \in 0 .. L
    BY <1>1
  <2> QED
    BY <1>1, <2>1, FirstOfRight
<1>6. ASSUME NEW b \in Blocks
      PROVE  /\ \A j \in 1 .. SizeOf(b) :
                  LET z == FirstOf(b) + j - 1
                  IN z \in DOMAIN Order /\ z \in Spot(b) /\ Order[z] = NewCode(b)[j]
             /\ \A z \in Spot(b) : \E j \in 1 .. SizeOf(b) : z = FirstOf(b) + j - 1
             /\ Spot(b) = Off[b - 1] + 1 .. Off[b]
  <2>1. FirstOf(b) \in Nat /\ SizeOf(b) \in Nat /\ FirstOf(b) = Off[b - 1] + 1 /\ Off[b - 1] \in Nat
    BY <1>1, <1>5
  <2>2. \A j \in 1 .. SizeOf(b) : FirstOf(b) + j - 1 = Off[b - 1] + j /\ FirstOf(b) + j - 1 \in Spot(b)
    BY <2>1 DEF Spot
  <2>3. \A j \in 1 .. SizeOf(b) : /\ Off[b - 1] + j \in DOMAIN Order
                                  /\ Order[Off[b - 1] + j] = NewCode(b)[j]
    BY <1>1, <1>3
  <2>4. \A z \in Spot(b) : \E j \in 1 .. SizeOf(b) : z = FirstOf(b) + j - 1
    <3> SUFFICES ASSUME NEW z \in Spot(b) PROVE \E j \in 1 .. SizeOf(b) : z = FirstOf(b) + j - 1
      OBVIOUS
    <3>1. z - FirstOf(b) + 1 \in 1 .. SizeOf(b) /\ z = FirstOf(b) + (z - FirstOf(b) + 1) - 1
      BY <2>1 DEF Spot
    <3> QED
      BY <3>1
  <2>5. Spot(b) = Off[b - 1] + 1 .. Off[b]
    <3>1. Off[b] = Off[b - 1] + SizeOf(b)
      BY <1>1
    <3> QED
      BY <2>1, <3>1 DEF Spot
  <2> QED
    BY <2>2, <2>3, <2>4, <2>5
<1>7. ASSUME NEW z \in DOMAIN Order PROVE \E b \in Blocks : z \in Spot(b)
  <2>1. z \in 1 .. Off[Len(Code)]
    BY <1>1, <1>3, <1>4
  <2>2. PICK b \in 1 .. Len(Code) : z \in Off[b - 1] + 1 .. Off[b]
    BY <1>1, <2>1, OffsetsCover
  <2> QED
    BY <1>1, <1>6, <2>2
<1>8. ASSUME NEW b \in Blocks, NEW c \in Blocks, b < c PROVE Spot(b) \cap Spot(c) = {}
  <2>1. b \in 0 .. L /\ c - 1 \in 0 .. L /\ b <= c - 1 /\ b - 1 \in 0 .. L /\ c \in 0 .. L
    BY <1>1, <1>8
  <2>2. Off[b] <= Off[c - 1]
    BY <1>1, <2>1, OffsetsGrow
  <2>3. Off[b - 1] \in Nat /\ Off[b] \in Nat /\ Off[c - 1] \in Nat /\ Off[c] \in Nat
    BY <1>1, <2>1
  <2>4. \A p, q, r, s \in Nat : q <= r => (p + 1 .. q) \cap (r + 1 .. s) = {}
    OBVIOUS
  <2> QED
    BY <1>6, <2>2, <2>3, <2>4
<1>9. \A b, c \in Blocks : b # c => Spot(b) \cap Spot(c) = {}
  <2>1. \A b, c \in Blocks : b # c => b < c \/ c < b
    BY <1>1
  <2> QED
    BY <1>8, <2>1
<1> QED
  BY <1>3, <1>4, <1>6, <1>7, <1>9

---------------------------------------------------------------------------
(* rewrite: what an operand becomes.                                       *)

\* What ren_var leaves when no limit took anything away.
Renaming ==
  /\ Rewritable /\ TreeRight
  /\ ReplRight(repl.value) /\ DeadRight(repl.dead, repl.value)
  /\ Handed(phi) /\ \A b \in Reach, t \in Blocks : Filled(phi, b, t)

\* A block holds the value; with PHIs numbered above the instructions, and no
\* instruction in two blocks, it is the only one.
LEMMA WhereOnce ==
  ASSUME Rewritable, NumbersFit, NEW d \in Blocks, NEW x, Where(x, d)
  PROVE  /\ \A c \in Blocks : x \in Home(M, c) =>
              c = d /\ ~ IsFake(x) /\ x \in Values(M, d)
         /\ x \in Int
<1>1. /\ DOMAIN M.insts = 1 .. Len(M.insts) /\ Len(M.insts) \in Nat
      /\ \A c \in Blocks : Home(M, c) \subseteq DOMAIN M.insts
      /\ \A b, c \in Blocks : b # c => Home(M, b) \cap Home(M, c) = {}
  BY FinalParts DEF Rewritable, Typed, Shaped, Blocks
<1>2. x \in Nat \ {0}
  BY WhereNumber DEF Rewritable
<1>3. \A c \in Blocks : x \in Home(M, c) => ~ IsFake(x)
  BY <1>1, Mem2RegAssumption DEF NumbersFit, IsFake
<1>4. ASSUME NEW c \in Blocks, x \in Home(M, c) PROVE c = d /\ x \in Values(M, d)
  <2>1. \A p \in DOMAIN phi : x # FakeId(p)
    <3>1. \A p \in DOMAIN phi : p \in 1 .. Len(phi) /\ Len(phi) \in Nat
      BY LenProperties DEF Rewritable, Typed
    <3> QED
      BY <1>3, <1>4, <3>1, Mem2RegAssumption DEF FakeId, IsFake
  <2>2. x \in Values(M, d)
    BY <2>1 DEF Where
  <2> QED
    BY <1>1, <1>4, <2>2 DEF Values
<1> QED
  BY <1>2, <1>3, <1>4

LEMMA ChaseSupplied ==
  ASSUME Renaming, NEW b \in Reach, NEW k \in Int, NEW x \in Int, Supplied(x, b, k)
  PROVE  Chase(x) \in Int /\ Supplied(Chase(x), b, k)
<1>1. CASE x \notin DOMAIN repl.value
  BY <1>1 DEF Chase
<1>2. CASE x \in DOMAIN repl.value
  <2> DEFINE y == repl.value[x]
  <2>1. Chase(x) = y /\ y \in Int
    <3>1. PICK D \in SUBSET DOMAIN M.insts : repl.value \in [D -> Int]
      BY DEF Renaming, Rewritable, Replacements
    <3> QED
      BY <1>2, <3>1 DEF Chase
  <2>2. PICK c \in Reach : x \in Home(M, c) /\ Supplied(y, c, x)
    BY <1>2 DEF Renaming, ReplRight, ReplacedIn
  <2>3. Reach \subseteq Blocks /\ DOMAIN M.insts = 1 .. Len(M.insts)
        /\ Home(M, c) \subseteq DOMAIN M.insts
    <3>1. Reach \subseteq Blocks
      BY FinalGraph, ReachFacts DEF Renaming, Rewritable, Typed
    <3> QED
      BY <3>1, FinalParts DEF Renaming, Rewritable, Typed
  <2>4. ~ IsConst(x)
    <3>1. x \in 1 .. Len(M.insts)
      BY <2>2, <2>3
    <3> QED
      BY <3>1 DEF IsConst
  <2>5. PICK d \in Reach : Where(x, d) /\ (SDom(d, b) \/ (d = b /\ (x < k \/ IsFake(x))))
    BY <2>4 DEF Supplied, Defined
  <2>6. c = d /\ ~ IsFake(x)
    BY <2>2, <2>3, <2>5, WhereOnce DEF Renaming, TreeRight
  <2> HIDE DEF y
  <2>7. CASE SDom(d, b)
    BY <2>1, <2>2, <2>6, <2>7, SuppliedBelow DEF Renaming
  <2>8. CASE d = b /\ x < k
    BY <2>1, <2>2, <2>6, <2>8, SuppliedLater
  <2> QED
    BY <2>5, <2>6, <2>7, <2>8
<1> QED
  BY <1>1, <1>2

\* The end of the chain is known where its start is, and is not replaced.
LEMMA ChainFacts ==
  ASSUME Renaming, ChainsFit, NEW b \in Reach, NEW k \in Int, NEW x \in Int, Supplied(x, b, k)
  PROVE  LET w == Iterate(Chase, x, MaxChase)
         IN w \in Int /\ Supplied(w, b, k) /\ w \notin DOMAIN repl.value
<1> DEFINE n == MaxChase
           Do(y, j) == Chase(y)
           Ok(y) == Supplied(y, b, k) /\ (x \notin DOMAIN repl.value => y = x)
           T == [j \in 0 .. n |-> {y \in Int : Ok(y)}]
           step == [j \in 1 .. n |-> [y \in Int |-> Do(y, j)]]
           Is(f) == f = [j \in 0 .. n |-> IF j = 0 THEN x ELSE Do(f[j - 1], j)]
           w == Iterate(Chase, x, MaxChase)
<1>1. n \in Nat
  BY Mem2RegAssumption
<1>2. ASSUME NEW j \in 1 .. n, NEW y \in T[j - 1] PROVE Do(y, j) \in T[j]
  <2>1. j - 1 \in 0 .. n /\ j \in 0 .. n
    BY <1>1
  <2>2. y \in Int /\ Ok(y)
    <3> HIDE DEF Ok, n
    <3> QED
      BY <1>2, <2>1
  <2>3. Chase(y) \in Int /\ Supplied(Chase(y), b, k)
    BY <2>2, ChaseSupplied
  <2>4. x \notin DOMAIN repl.value => Chase(y) = x
    BY <2>2 DEF Chase
  <2>5. Ok(Chase(y))
    BY <2>3, <2>4
  <2> HIDE DEF Ok, n
  <2> QED
    BY <2>1, <2>3, <2>5
<1>3. x \in T[0]
  <2>1. 0 \in 0 .. n /\ Ok(x)
    BY <1>1
  <2> HIDE DEF Ok, n
  <2> QED
    BY <2>1
<1>4. \A j \in 0 .. n : T[j] \subseteq Int
  OBVIOUS
<1> HIDE DEF T, Do, n
<1>5. \E f : Is(f)
  <2>1. ASSUME NEW j \in 1 .. n, NEW y \in T[j - 1] PROVE step[j][y] \in T[j]
    <3>1. j - 1 \in 0 .. n
      BY <1>1
    <3>2. y \in Int
      BY <1>4, <3>1
    <3> QED
      BY <1>2, <3>2
  <2> HIDE DEF step
  <2>2. PICK f : Follows(f, n, x, step) /\ \A j \in 0 .. n : f[j] \in T[j]
    BY <1>1, <1>3, <2>1, StepsExist
  <2>3. ASSUME NEW j \in 1 .. n PROVE step[j][f[j - 1]] = Do(f[j - 1], j)
    <3>1. j - 1 \in 0 .. n
      BY <1>1
    <3>2. f[j - 1] \in Int
      BY <1>4, <2>2, <3>1
    <3> QED
      BY <3>2 DEF step
  <2>4. \A j \in 0 .. n : j # 0 => j \in 1 .. n
    BY <1>1
  <2>5. Is(f)
    BY <2>2, <2>3, <2>4 DEF Follows
  <2> QED
    BY <2>5
<1> DEFINE it == CHOOSE f : Is(f)
<1>6. Is(it)
  <2> HIDE DEF Is
  <2> QED
    BY <1>5
<1>7. w = it[n]
  BY Zenon DEF w, Iterate, Do, n
<1> HIDE DEF it
<1>8. w \in T[n]
  <2>1. ASSUME NEW j \in 1 .. n, it[j - 1] \in T[j - 1] PROVE it[j] \in T[j]
    <3>1. j \in 0 .. n /\ j # 0
      BY <1>1
    <3>2. it[j] = Do(it[j - 1], j)
      BY <1>6, <3>1
    <3> QED
      BY <1>2, <2>1, <3>2
  <2>2. it[0] = x
    BY <1>1, <1>6
  <2>3. \A j \in 0 .. n : it[j] \in T[j]
    <3> HIDE DEF Is
    <3> QED
      BY <1>1, <1>3, <2>1, <2>2, StepsStay
  <2>4. n \in 0 .. n
    BY <1>1
  <2> QED
    BY <1>7, <2>3, <2>4
<1>9. w \in Int /\ Ok(w)
  <2>1. n \in 0 .. n
    BY <1>1
  <2> HIDE DEF Ok, w
  <2> QED
    BY <1>8, <2>1 DEF T
<1>10. w \notin DOMAIN repl.value
  BY <1>9 DEF ChainsFit
<1> QED
  BY <1>9, <1>10

\* A value that is not replaced has a place, in the block it was computed in.
LEMMA PlaceOfValue ==
  ASSUME Renaming, NEW d \in Reach, NEW w, Where(w, d), w \notin DOMAIN repl.value
  PROVE  LET z == SelectInSeq(Order, LAMBDA y : y = w)
         IN /\ z \in DOMAIN Order /\ z # 0 /\ z \in Spot(d) /\ Order[z] = w
            /\ IsFake(w) \/ (w \in Values(M, d) /\ ~ IsFake(w))
<1> DEFINE z == SelectInSeq(Order, LAMBDA y : y = w)
<1>1. /\ Rewritable /\ NumbersFit /\ Reach \subseteq Blocks
      /\ \A p \in DOMAIN phi : p \in Nat \ {0}
  <2>1. Reach \subseteq Blocks
    BY FinalGraph, ReachFacts DEF Renaming, Rewritable, Typed
  <2>2. \A p \in DOMAIN phi : p \in Nat \ {0}
    BY LenProperties DEF Renaming, Rewritable, Typed
  <2> QED
    BY <2>1, <2>2 DEF Renaming, TreeRight
<1>2. \A p \in DOMAIN phi : IsFake(FakeId(p))
  BY <1>1, Mem2RegAssumption DEF IsFake, FakeId
<1>3. d \in Blocks
  BY <1>1
<1>4. w \in Range(NewCode(d)) /\ (IsFake(w) \/ (w \in Values(M, d) /\ ~ IsFake(w)))
  <2>1. CASE w \in Values(M, d)
    <3>1. w \in Home(M, d) /\ M.insts[w].op \in ValueOps
      BY <2>1 DEF Values
    <3>2. w \notin repl.dead
      BY <3>1 DEF Renaming, DeadRight, ValueOps
    <3>3. ~ IsFake(w)
      BY <1>1, <1>3, <3>1, WhereOnce
    <3> QED
      BY <1>1, <1>3, <2>1, <3>1, <3>2, <3>3, CodeFacts
  <2>2. CASE \E p \in DOMAIN phi : w = FakeId(p) /\ phi[p].blk = d
    <3>1. PICK p \in DOMAIN phi : w = FakeId(p) /\ phi[p].blk = d
      BY <2>2
    <3>2. w \in {FakeId(q) : q \in {q \in DOMAIN phi : phi[q].blk = d}}
      BY <3>1
    <3>3. w \in Range(NewCode(d))
      BY <1>1, <1>3, <3>2, CodeFacts
    <3> QED
      BY <1>2, <3>1, <3>3
  <2> QED
    BY <2>1, <2>2 DEF Where
<1>5. PICK j \in 1 .. SizeOf(d) : NewCode(d)[j] = w
  BY <1>1, <1>3, <1>4, CodeFacts DEF Range, SizeOf
<1>6. FirstOf(d) + j - 1 \in DOMAIN Order /\ Order[FirstOf(d) + j - 1] = w
  BY <1>1, <1>3, <1>5, PlacesFacts
<1>7. w \in Range(Order)
  BY <1>6 DEF Range
<1>8. z # 0 /\ z \in DOMAIN Order /\ Order[z] = w
  BY <1>1, <1>7, PlacesFacts, SlotFacts
<1> HIDE DEF z
<1>9. PICK e \in Blocks : z \in Spot(e)
  BY <1>1, <1>8, PlacesFacts
<1>10. w \in Range(NewCode(e))
  <2>1. PICK i \in 1 .. SizeOf(e) : z = FirstOf(e) + i - 1
    BY <1>1, <1>9, PlacesFacts
  <2>2. NewCode(e)[i] = w
    BY <1>1, <1>8, <2>1, PlacesFacts
  <2>3. i \in DOMAIN NewCode(e)
    BY <1>1, CodeFacts DEF SizeOf
  <2> QED
    BY <2>2, <2>3 DEF Range
<1>11. e = d
  <2>1. CASE w \in Home(M, e)
    BY <1>1, <1>3, <2>1, WhereOnce
  <2>2. CASE w \notin Home(M, e)
    <3>1. w \in {FakeId(q) : q \in {q \in DOMAIN phi : phi[q].blk = e}}
      BY <1>1, <1>10, <2>2, CodeFacts
    <3>2. PICK q \in DOMAIN phi : w = FakeId(q) /\ phi[q].blk = e
      BY <3>1
    <3>3. w \notin Values(M, d)
      BY <1>1, <1>2, <1>3, <3>2, WhereOnce DEF Values
    <3>4. PICK p \in DOMAIN phi : w = FakeId(p) /\ phi[p].blk = d
      BY <3>3 DEF Where
    <3>5. p = q
      BY <1>1, <3>2, <3>4, Mem2RegAssumption DEF FakeId
    <3> QED
      BY <3>2, <3>4, <3>5
  <2> QED
    BY <2>1, <2>2
<1> QED
  BY <1>4, <1>8, <1>9, <1>11 DEF z

\* Places keep the order of the block.
LEMMA PlacesInOrder ==
  ASSUME Rewritable, NumbersFit, NEW b \in Blocks, NEW y \in Spot(b), NEW z \in Spot(b),
         Order[z] \in Home(M, b),
         IsFake(Order[y]) \/ (Order[y] \in Home(M, b) /\ Order[y] < Order[z])
  PROVE  y < z
<1>1. PICK i \in 1 .. SizeOf(b) : y = FirstOf(b) + i - 1
  BY PlacesFacts
<1>2. PICK j \in 1 .. SizeOf(b) : z = FirstOf(b) + j - 1
  BY PlacesFacts
<1>3. NewCode(b)[i] = Order[y] /\ NewCode(b)[j] = Order[z]
  BY <1>1, <1>2, PlacesFacts
<1>4. i \in DOMAIN NewCode(b) /\ j \in DOMAIN NewCode(b)
  BY CodeFacts DEF SizeOf
<1>5. i < j
  BY <1>3, <1>4, CodeFacts
<1>6. FirstOf(b) \in Int
  <2>1. Off[b - 1] \in Nat
    <3>1. b - 1 \in 0 .. Len(M.blks)
      BY OffFacts
    <3> QED
      BY <3>1, OffFacts
  <2> QED
    BY <2>1, FirstOfRight
<1>7. SizeOf(b) \in Nat
  BY OffFacts
<1> QED
  BY <1>1, <1>2, <1>5, <1>6, <1>7

\* What remap makes of a value known before instruction k of block b.
LEMMA RemapFacts ==
  ASSUME Renaming, ChainsFit, NEW b \in Reach, NEW k \in Int, NEW x \in Int, Supplied(x, b, k)
  PROVE  LET v == remap(Order, x)
             w == Order[v]
         IN \/ IsConst(v)
            \/ /\ v \in DOMAIN Order /\ v # 0
               /\ \E d \in Reach :
                    /\ v \in Spot(d)
                    /\ IsFake(w) \/ (w \in Values(M, d) /\ ~ IsFake(w))
                    /\ SDom(d, b) \/ (d = b /\ (w < k \/ IsFake(w)))
<1> DEFINE u == Iterate(Chase, x, MaxChase)
           z == SelectInSeq(Order, LAMBDA y : y = u)
           v == remap(Order, x)
<1>1. u \in Int /\ Supplied(u, b, k) /\ u \notin DOMAIN repl.value
  BY ChainFacts
<1>2. v = LET new == IF IsConst(u) THEN 0 ELSE z IN IF new = 0 THEN u ELSE new
  BY DEF remap
<1> HIDE DEF u, v
<1>3. CASE IsConst(u)
  BY <1>2, <1>3 DEF v
<1>4. CASE ~ IsConst(u)
  <2>1. PICK d \in Reach : Where(u, d) /\ (SDom(d, b) \/ (d = b /\ (u < k \/ IsFake(u))))
    BY <1>1, <1>4 DEF Supplied, Defined
  <2>2. /\ z \in DOMAIN Order /\ z # 0 /\ z \in Spot(d) /\ Order[z] = u
        /\ IsFake(u) \/ (u \in Values(M, d) /\ ~ IsFake(u))
    BY <1>1, <2>1, PlaceOfValue
  <2> HIDE DEF z
  <2>3. v = z
    BY <1>2, <1>4, <2>2
  <2>4. /\ v \in DOMAIN Order /\ v # 0 /\ v \in Spot(d) /\ Order[v] = u
    BY <2>2, <2>3
  <2> QED
    BY <2>1, <2>2, <2>4 DEF v
<1> QED
  BY <1>3, <1>4

---------------------------------------------------------------------------
(* rewrite: the procedure it leaves.                                       *)

After ==
  [insts |-> [k \in DOMAIN Order |-> NewInst(Order, Order[k])]
             \o [k \in 1 .. (Len(M.insts) - Len(Order)) |-> Inst("nop", <<>>)],
   blks |-> [b \in Blocks |-> [first |-> FirstOf(b), n_inst |-> SizeOf(b)]]]

LEMMA AfterFacts ==
  ASSUME Rewritable
  PROVE  /\ DOMAIN After.blks = Blocks
         /\ \A b \in Blocks : After.blks[b].first = FirstOf(b) /\ After.blks[b].n_inst = SizeOf(b)
         /\ Len(After.insts) \in Nat /\ Len(Order) <= Len(After.insts)
         /\ \A z \in DOMAIN Order : After.insts[z] = NewInst(Order, Order[z])
<1> DEFINE n == Len(Order)
           A == [k \in DOMAIN Order |-> NewInst(Order, Order[k])]
           m == Len(M.insts) - n
           B == [k \in 1 .. m |-> Inst("nop", <<>>)]
           l == IF m < 0 THEN 0 ELSE m
<1>1. n \in Nat /\ DOMAIN Order = 1 .. n /\ Len(M.insts) \in Nat
  BY PlacesFacts, FinalParts DEF Rewritable, Typed
<1>2. IsSeq(A) /\ Len(A) = n /\ DOMAIN A = 1 .. n
      /\ \A k \in 1 .. n : A[k] = NewInst(Order, Order[k])
  <2> HIDE DEF n
  <2>1. A = [k \in 1 .. n |-> A[k]] /\ \A k \in 1 .. n : A[k] = NewInst(Order, Order[k])
    BY <1>1
  <2> HIDE DEF A
  <2> QED
    BY <1>1, <2>1, FunctionIsSeq
<1>3. IsSeq(B) /\ Len(B) \in Nat
  <2>1. m \in Int
    BY <1>1
  <2>2. l \in Nat /\ 1 .. m = 1 .. l
    <3> HIDE DEF m
    <3> QED
      BY <2>1
  <2>3. B = [k \in 1 .. l |-> B[k]]
    <3> HIDE DEF l, m
    <3> QED
      BY <2>2
  <2> HIDE DEF B, l, m
  <2> QED
    BY <2>2, <2>3, FunctionIsSeq
<1>4. After.insts = A \o B
  BY DEF After
<1> HIDE DEF A, B, n
<1>5. Len(A \o B) = Len(A) + Len(B) /\ \A k \in 1 .. Len(A) : (A \o B)[k] = A[k]
  BY <1>2, <1>3, ConcatAny
<1>6. Len(After.insts) = n + Len(B) /\ \A k \in 1 .. n : After.insts[k] = NewInst(Order, Order[k])
  <2>1. Len(After.insts) = Len(A) + Len(B) /\ \A k \in 1 .. Len(A) : After.insts[k] = A[k]
    BY <1>4, <1>5, Zenon
  <2> QED
    BY <1>2, <2>1
<1>7. DOMAIN After.blks = Blocks
      /\ \A b \in Blocks : After.blks[b].first = FirstOf(b) /\ After.blks[b].n_inst = SizeOf(b)
  BY DEF After
<1> QED
  BY <1>1, <1>3, <1>6, <1>7 DEF n

\* An instruction keeps its operation, its number of operands and where it
\* branches to; its other operands are remapped.
LEMMA NewInstFacts ==
  ASSUME Final(M), NEW x \in DOMAIN M.insts, ~ IsFake(x)
  PROVE  LET I == M.insts[x]
             J == NewInst(Order, x)
         IN /\ J.op = I.op /\ DOMAIN J.ops = DOMAIN I.ops
            /\ Targets(J) = Targets(I)
            /\ I.ops = <<>> => J.ops = <<>>
            /\ TakesValue(I) => J.ops[1] = remap(Order, I.ops[1])
<1> DEFINE I == M.insts[x]
           J == NewInst(Order, x)
           isBlock(k) == I.op = "br" \/ (I.op = "br_cond" /\ k > 1)
           new == [k \in DOMAIN I.ops |-> IF isBlock(k) THEN I.ops[k] ELSE remap(Order, I.ops[k])]
<1>1. J = [I EXCEPT !.ops = new]
  BY DEF NewInst
<1>2. Made(I)
  BY FinalParts DEF Shaped
<1> HIDE DEF I, new
<1>3. J.op = I.op /\ J.ops = new
  BY <1>1, <1>2 DEF Made, Inst
<1>4. /\ DOMAIN new = DOMAIN I.ops
      /\ \A k \in DOMAIN I.ops : new[k] = IF isBlock(k) THEN I.ops[k] ELSE remap(Order, I.ops[k])
  BY DEF new
<1>5. DOMAIN I.ops = 1 .. Len(I.ops) /\ Len(I.ops) \in Nat /\ (I.ops = <<>> <=> Len(I.ops) = 0)
  BY <1>2, DomainOfSeq DEF Made
<1>6. Targets(J) = Targets(I)
  <2>1. CASE I.op = "br"
    <3>0. Len(I.ops) = 1
      BY <1>2, <2>1 DEF Made
    <3>1. 1 \in DOMAIN I.ops
      BY <1>5, <3>0
    <3>2. J.ops[1] = I.ops[1]
      BY <1>3, <1>4, <2>1, <3>1
    <3> QED
      BY <1>3, <2>1, <3>2 DEF Targets
  <2>2. CASE I.op = "br_cond"
    <3>1. 2 \in DOMAIN I.ops /\ 3 \in DOMAIN I.ops
      BY <1>2, <1>5, <2>2 DEF Made
    <3>2. J.ops[2] = I.ops[2] /\ J.ops[3] = I.ops[3]
      BY <1>3, <1>4, <2>2, <3>1
    <3> QED
      BY <1>3, <2>2, <3>2 DEF Targets
  <2>3. CASE I.op \notin {"br", "br_cond"}
    BY <1>3, <2>3 DEF Targets
  <2> QED
    BY <2>1, <2>2, <2>3
<1>7. ASSUME TakesValue(I) PROVE J.ops[1] = remap(Order, I.ops[1])
  <2>0. I.ops # <<>>
    BY <1>7, Zenon DEF TakesValue
  <2>1. 1 \in DOMAIN I.ops
    BY <1>5, <2>0
  <2>2. ~ isBlock(1)
    BY <1>7 DEF TakesValue
  <2> QED
    BY <1>3, <1>4, <2>1, <2>2
<1>8. ASSUME I.ops = <<>> PROVE J.ops = <<>>
  <2>1. DOMAIN I.ops = {}
    BY <1>8
  <2>2. new = [k \in {} |-> IF isBlock(k) THEN I.ops[k] ELSE remap(Order, I.ops[k])]
    BY <2>1 DEF new
  <2> QED
    BY <1>3, <2>2
<1> QED
  BY <1>3, <1>4, <1>6, <1>7, <1>8 DEF I

\* The operands of a PHI are remapped, as many as it has slots for.
LEMMA NewPhiFacts ==
  ASSUME Typed, NEW p \in DOMAIN phi
  PROVE  LET J == NewInst(Order, FakeId(p))
         IN /\ J.op = "phi" /\ IsFake(FakeId(p)) /\ Targets(J) = <<>>
            /\ \A q \in DOMAIN J.ops :
                 q \in DOMAIN phi[p].ops /\ J.ops[q] = remap(Order, phi[p].ops[q])
<1> DEFINE J == NewInst(Order, FakeId(p))
           ops == Prefix(phi[p].ops, OpSlots)
<1>1. p \in Nat \ {0} /\ phi[p].ops \in Seq(Int)
  <2>1. phi[p] \in PhiRec /\ p \in Nat \ {0}
    BY LenProperties DEF Typed
  <2> QED
    BY <2>1 DEF PhiRec
<1>2. IsFake(FakeId(p)) /\ FakeId(p) - FakeBase = p
  BY <1>1, Mem2RegAssumption DEF IsFake, FakeId
<1>3. J = Inst("phi", [k \in DOMAIN ops |-> remap(Order, ops[k])])
  BY <1>2 DEF NewInst
<1>4. \A k \in DOMAIN ops : k \in DOMAIN phi[p].ops /\ ops[k] = phi[p].ops[k]
  <2>1. IsSeq(phi[p].ops)
    BY <1>1, SeqIsSeq
  <2> QED
    BY <2>1, PrefixFacts, Mem2RegAssumption
<1> HIDE DEF ops
<1>5. J.op = "phi" /\ J.ops = [k \in DOMAIN ops |-> remap(Order, ops[k])]
  BY <1>3 DEF Inst
<1> HIDE DEF J
<1>6. Targets(J) = <<>>
  BY <1>5 DEF Targets
<1> QED
  BY <1>2, <1>4, <1>5, <1>6 DEF J

\* No branch is lost: a block ends as it did before.
NewSuccs(b) == IF After.blks[b].n_inst = 0 THEN <<>> ELSE Targets(LastOf(After, b))
LEMMA SuccsKept ==
  ASSUME Renaming, NEW b \in Blocks
  PROVE  NewSuccs(b) = Succs(b)
<1> DEFINE n == M.blks[b].n_inst
           last == M.blks[b].first + n - 1
           c == NewCode(b)
           s == SizeOf(b)
           z == FirstOf(b) + s - 1
<1>1. /\ Rewritable /\ Typed /\ NumbersFit /\ Final(M)
      /\ n \in Nat /\ M.blks[b].first \in Nat \ {0}
      /\ Home(M, b) \subseteq DOMAIN M.insts /\ DOMAIN M.insts = 1 .. Len(M.insts)
      /\ Home(M, b) = M.blks[b].first .. M.blks[b].first + n - 1
      /\ \A e \in Blocks : b # e => Home(M, b) \cap Home(M, e) = {}
      /\ \A x \in Home(M, b) : ~ IsFake(x) /\ x \in Int
  <2>1. Rewritable /\ Typed /\ NumbersFit /\ Final(M)
    BY DEF Renaming, TreeRight, Rewritable, Typed
  <2>2. /\ n \in Nat /\ M.blks[b].first \in Nat \ {0}
        /\ Home(M, b) \subseteq DOMAIN M.insts /\ DOMAIN M.insts = 1 .. Len(M.insts)
        /\ Len(M.insts) \in Nat
        /\ \A e \in Blocks : b # e => Home(M, b) \cap Home(M, e) = {}
    BY <2>1, FinalParts DEF Shaped, Blocks
  <2>3. Home(M, b) = M.blks[b].first .. M.blks[b].first + n - 1
    BY DEF Home
  <2>4. \A x \in Home(M, b) : ~ IsFake(x) /\ x \in Int
    BY <2>1, <2>2, Mem2RegAssumption DEF NumbersFit, IsFake
  <2> QED
    BY <2>1, <2>2, <2>3, <2>4
<1>2. /\ s \in Nat /\ DOMAIN c = 1 .. s
      /\ Range(c) = {FakeId(p) : p \in {p \in DOMAIN phi : phi[p].blk = b}}
                      \cup (Home(M, b) \ repl.dead)
      /\ \A i, j \in DOMAIN c :
           c[j] \in Home(M, b) /\ (IsFake(c[i]) \/ (c[i] \in Home(M, b) /\ c[i] < c[j])) => i < j
  BY <1>1, CodeFacts DEF SizeOf
<1>3. /\ After.blks[b].n_inst = s
      /\ LastOf(After, b) = After.insts[z]
      /\ s # 0 => z \in DOMAIN Order /\ Order[z] = c[s] /\ After.insts[z] = NewInst(Order, c[s])
  <2>1. After.blks[b].n_inst = s /\ After.blks[b].first = FirstOf(b)
    BY <1>1, AfterFacts
  <2>2. LastOf(After, b) = After.insts[z]
    BY <2>1 DEF LastOf
  <2>3. ASSUME s # 0
        PROVE  z \in DOMAIN Order /\ Order[z] = c[s] /\ After.insts[z] = NewInst(Order, c[s])
    <3>1. s \in 1 .. s
      BY <1>2, <2>3
    <3>2. z \in DOMAIN Order /\ Order[z] = c[s]
      BY <1>1, <3>1, PlacesFacts
    <3> QED
      BY <1>1, <3>2, AfterFacts
  <2> QED
    BY <2>1, <2>2, <2>3
<1> HIDE DEF n, c, s, z
<1>4. CASE n = 0
  <2>1. Home(M, b) = {} /\ Succs(b) = <<>>
    <3>1. Home(M, b) = {}
      BY <1>1, <1>4
    <3> QED
      BY <1>4, <3>1 DEF Succs, n
  <2>2. CASE s = 0
    BY <1>3, <2>1, <2>2 DEF NewSuccs
  <2>3. CASE s # 0
    <3>1. c[s] \in Range(c)
      BY <1>2, <2>3 DEF Range
    <3>2. PICK p \in DOMAIN phi : c[s] = FakeId(p)
      BY <1>2, <2>1, <3>1
    <3>3. Targets(NewInst(Order, c[s])) = <<>>
      BY <1>1, <3>2, NewPhiFacts
    <3> QED
      BY <1>3, <2>1, <2>3, <3>3 DEF NewSuccs
  <2> QED
    BY <2>2, <2>3
<1>5. CASE n # 0
  <2>1. last \in Home(M, b) /\ \A x \in Home(M, b) : x = last \/ x < last
    BY <1>1, <1>5
  <2>2. M.insts[last] = LastOf(M, b) /\ Succs(b) = Targets(M.insts[last])
    BY <1>5 DEF LastOf, Succs, n
  <2> HIDE DEF last
  <2>3. last \notin repl.dead
    <3> SUFFICES ASSUME last \in repl.dead PROVE FALSE
      OBVIOUS
    <3>1. PICK e \in Reach : last \in Home(M, e)
      BY DEF Renaming, DeadRight
    <3>2. e \in Blocks
      BY <1>1, FinalGraph, ReachFacts
    <3>3. b \in Reach
      BY <1>1, <2>1, <3>1, <3>2
    <3>4. M.insts[last].op \in {"br", "br_cond", "ret"}
      BY <1>1, <2>2, <3>3, ReachClosed DEF BlkTerm, Terminators
    <3>5. last \in DOMAIN repl.value
      BY <3>4 DEF Renaming, DeadRight
    <3>6. M.insts[last].op = "load"
      BY <3>5 DEF Renaming, ReplRight, ReplacedIn
    <3> QED
      BY <3>4, <3>6
  <2>4. PICK j \in 1 .. s : c[j] = last
    BY <1>2, <2>1, <2>3 DEF Range
  <2>5. s # 0 /\ s \in 1 .. s
    BY <1>2, <2>4
  <2>6. c[s] = last
    <3>1. ~ (s < j)
      BY <1>2, <2>4
    <3>2. c[s] \in Range(c)
      BY <1>2, <2>5 DEF Range
    <3>3. CASE \E p \in DOMAIN phi : c[s] = FakeId(p)
      <4>1. IsFake(c[s])
        BY <1>1, <3>3, NewPhiFacts
      <4> QED
        BY <1>2, <2>1, <2>4, <2>5, <3>1, <4>1
    <3>4. CASE c[s] \in Home(M, b)
      BY <1>2, <2>1, <2>4, <2>5, <3>1, <3>4
    <3> QED
      BY <1>2, <3>2, <3>3, <3>4
  <2>7. Targets(NewInst(Order, last)) = Targets(M.insts[last])
    BY <1>1, <2>1, NewInstFacts
  <2> QED
    BY <1>3, <2>2, <2>5, <2>6, <2>7 DEF NewSuccs
<1> QED
  BY <1>4, <1>5

\* What is reached is the least set that is closed; also after a step.
Least ==
  Graph => \A av, C :
    C \in SUBSET Blocks /\ 1 \in C /\ ClosedUnder(C, av) =>
      1 \in Reached(av) /\ Reached(av) \subseteq C /\ ClosedUnder(Reached(av), av)
LEMMA ReachedLeast == Least
BY ReachedWithin DEF Least
LEMMA ReachedLeastNext == Least'
BY ReachedLeast, PTL

\* The graph after rewrite is the graph before.
LEMMA ReachKept ==
  ASSUME Renaming, M' = After
  PROVE  /\ Blocks' = Blocks /\ \A b \in Blocks : Insts(b)' = Spot(b)
         /\ Reach' = Reach
         /\ \A a, b \in Reach : SDom(a, b)' <=> SDom(a, b)
<1> DEFINE L == Len(M.blks)
           bl == After.blks
<1>1. Rewritable /\ Graph
  BY FinalGraph DEF Renaming, Rewritable, Typed
<1>2. L \in Nat /\ Blocks = 1 .. L /\ 1 \in Blocks
  BY <1>1 DEF Graph
<1>3. bl = [b \in 1 .. L |-> bl[b]]
  BY <1>2 DEF After
<1> HIDE DEF bl, L
<1>4. Len(bl) = L /\ DOMAIN bl = 1 .. L
  BY <1>2, <1>3, FunctionIsSeq
<1>5. M'.blks = bl
  BY DEF bl
<1>6. Blocks' = Blocks /\ Len(M'.blks) = L
  BY <1>2, <1>4, <1>5 DEF Blocks
<1>7. \A b \in Blocks : Insts(b)' = Spot(b)
  BY <1>1, AfterFacts DEF Insts, Spot
<1>8. \A b \in Blocks : Succs(b)' = Succs(b)
  <2> SUFFICES ASSUME NEW b \in Blocks PROVE Succs(b)' = Succs(b)
    OBVIOUS
  <2>1. Succs(b)' = NewSuccs(b)
    BY DEF Succs, NewSuccs, LastOf
  <2> QED
    BY <2>1, SuccsKept
<1>9. Graph'
  <2>1. (Len(M.blks))' \in Nat /\ Blocks' = 1 .. (Len(M.blks))' /\ 1 \in Blocks'
    BY <1>2, <1>6
  <2>2. \A b \in Blocks' :
          IsSeq(Succs(b)') /\ Len(Succs(b)') <= 2 /\ Range(Succs(b)') \subseteq Blocks'
    BY <1>1, <1>6, <1>8 DEF Graph
  <2> QED
    BY <2>1, <2>2 DEF Graph
<1>10. \A C, av : C \in SUBSET Blocks => (ClosedUnder(C, av)' <=> ClosedUnder(C, av))
  BY <1>8 DEF ClosedUnder
<1>11. ASSUME NEW av PROVE Reached(av)' = Reached(av)
  <2>1. Reached(av) \in SUBSET Blocks /\ 1 \in Reached(av) /\ ClosedUnder(Reached(av), av)
    BY <1>1, ReachedFacts
  <2>2. \A C : C \in SUBSET Blocks /\ 1 \in C /\ ClosedUnder(C, av) => Reached(av) \subseteq C
    BY <1>1, ReachedLeast DEF Least
  <2>3. Blocks \in SUBSET Blocks' /\ 1 \in Blocks /\ ClosedUnder(Blocks, av)
    BY <1>1, <1>2, <1>6 DEF ClosedUnder, Graph
  <2>4. \A C : C \in SUBSET Blocks' /\ 1 \in C /\ ClosedUnder(C, av)' =>
          1 \in Reached(av)' /\ Reached(av)' \subseteq C /\ ClosedUnder(Reached(av), av)'
    BY <1>9, ReachedLeastNext DEF Least
  <2>5. /\ 1 \in Reached(av)' /\ Reached(av)' \subseteq Blocks
        /\ ClosedUnder(Reached(av), av)'
    BY <1>6, <1>10, <2>3, <2>4
  <2>6. Reached(av)' \subseteq Reached(av)
    BY <1>6, <1>10, <2>1, <2>4
  <2>7. ClosedUnder(Reached(av)', av)
    BY <1>8, <2>5 DEF ClosedUnder
  <2>8. Reached(av) \subseteq Reached(av)'
    BY <2>2, <2>5, <2>7
  <2> QED
    BY <2>6, <2>8
<1>12. Reach' = Reach
  BY <1>11 DEF Reach
<1>13. \A a, b \in Reach : SDom(a, b)' <=> SDom(a, b)
  BY <1>11, <1>12 DEF SDom, Dom
<1> QED
  BY <1>6, <1>7, <1>12, <1>13

\* v is defined before place k of block b in the procedure after rewrite.
NowDefined(v, b, k) ==
  /\ v # None /\ After.insts[v].op \in {"phi", "add", "load"}
  /\ \E d \in Reach : v \in Spot(d) /\ (SDom(d, b) \/ (d = b /\ v < k))
LEMMA NowDefinedAt ==
  ASSUME Renaming, M' = After, NEW b \in Reach, NEW v, NEW k, NowDefined(v, b, k)
  PROVE  DefinedAt(v, b, k)'
<1>1. /\ Reach \subseteq Blocks /\ Blocks' = Blocks /\ \A c \in Blocks : Insts(c)' = Spot(c)
      /\ \A a, c \in Reach : SDom(a, c)' <=> SDom(a, c)
  BY ReachKept, FinalGraph, ReachFacts DEF Renaming, Rewritable, Typed
<1>2. PICK d \in Reach : v \in Spot(d) /\ (SDom(d, b) \/ (d = b /\ v < k))
  BY DEF NowDefined
<1>3. \A c \in Blocks : v \in Spot(c) <=> c = d
  <2>1. \A c \in Blocks : c # d => Spot(c) \cap Spot(d) = {}
    BY <1>1, PlacesFacts DEF Renaming
  <2> QED
    BY <1>2, <2>1
<1>4. BlockOf(v)' = d
  <2>1. BlockOf(v)' = CHOOSE c \in Blocks : v \in Spot(c)
    BY <1>1 DEF BlockOf
  <2> QED
    BY <1>1, <1>3, <2>1
<1>5. SDom(d, b) => d # b
  BY DEF SDom
<1>6. v # None /\ M'.insts[v].op \in {"phi", "add", "load"}
  BY DEF NowDefined
<1>7. IF d = b THEN v < k ELSE SDom(d, b)'
  BY <1>1, <1>2, <1>5
<1> QED
  BY <1>4, <1>6, <1>7 DEF DefinedAt

\* An operand that is remapped names a value that is defined before it.
LEMMA OperandDefined ==
  ASSUME Renaming, ChainsFit, NEW b \in Reach, NEW k \in Int, NEW x \in Int, Supplied(x, b, k),
         NEW z,
         \/ z = Len(After.insts) + 1
         \/ z \in Spot(b) /\ Order[z] = k /\ k \in Home(M, b)
  PROVE  LET v == remap(Order, x)
         IN IsConst(v) \/ NowDefined(v, b, z)
<1> DEFINE v == remap(Order, x)
           w == Order[v]
<1>1. /\ Rewritable /\ NumbersFit /\ Final(M) /\ Reach \subseteq Blocks
      /\ Len(Order) \in Nat /\ DOMAIN Order = 1 .. Len(Order)
      /\ Len(After.insts) \in Nat /\ Len(Order) <= Len(After.insts)
  <2>1. Rewritable /\ NumbersFit /\ Final(M)
    BY DEF Renaming, TreeRight, Rewritable, Typed
  <2> QED
    BY <2>1, FinalGraph, ReachFacts, PlacesFacts, AfterFacts
<1>2. SUFFICES ASSUME ~ IsConst(v) PROVE NowDefined(v, b, z)
  OBVIOUS
<1>3. /\ v \in DOMAIN Order /\ v # 0
      /\ \E d \in Reach :
           /\ v \in Spot(d)
           /\ IsFake(w) \/ (w \in Values(M, d) /\ ~ IsFake(w))
           /\ SDom(d, b) \/ (d = b /\ (w < k \/ IsFake(w)))
  BY <1>2, RemapFacts
<1>4. PICK d \in Reach :
           /\ v \in Spot(d)
           /\ IsFake(w) \/ (w \in Values(M, d) /\ ~ IsFake(w))
           /\ SDom(d, b) \/ (d = b /\ (w < k \/ IsFake(w)))
  BY <1>3
<1> HIDE DEF v
<1>5. After.insts[v] = NewInst(Order, w)
  BY <1>1, <1>3, AfterFacts
<1>6. After.insts[v].op \in {"phi", "add", "load"}
  <2>1. CASE IsFake(w)
    <3>1. NewInst(Order, w).op = "phi"
      BY <2>1 DEF NewInst, Inst
    <3> QED
      BY <1>5, <3>1
  <2>2. CASE w \in Values(M, d) /\ ~ IsFake(w)
    <3>1. w \in DOMAIN M.insts /\ M.insts[w].op \in ValueOps
      BY <1>1, <2>2, FinalParts DEF Values
    <3>2. NewInst(Order, w).op \in ValueOps
      BY <1>1, <2>2, <3>1, NewInstFacts
    <3> QED
      BY <1>5, <3>2 DEF ValueOps
  <2> QED
    BY <1>4, <2>1, <2>2
<1>7. ASSUME d = b, w < k \/ IsFake(w) PROVE v < z
  <2>1. CASE z = Len(After.insts) + 1
    BY <1>1, <1>3, <2>1
  <2>2. CASE z \in Spot(b) /\ Order[z] = k /\ k \in Home(M, b)
    <3>1. v \in Spot(b) /\ b \in Blocks /\ (IsFake(w) \/ (w \in Home(M, b) /\ w < k))
      BY <1>1, <1>4, <1>7 DEF Values
    <3> QED
      BY <1>1, <2>2, <3>1, PlacesInOrder
  <2> QED
    BY <2>1, <2>2
<1> QED
  BY <1>3, <1>4, <1>6, <1>7 DEF NowDefined, None

\* What rewrite leaves is in SSA form.
LEMMA SsaAfter ==
  ASSUME Renaming, ChainsFit, M' = After, UNCHANGED pred
  PROVE  SsaForm'
<1> DEFINE I(k) == After.insts[k]
<1>1. /\ Rewritable /\ Typed /\ NumbersFit /\ Final(M)
      /\ Reach \subseteq Blocks /\ Blocks' = Blocks /\ Reach' = Reach
      /\ \A c \in Blocks : Insts(c)' = Spot(c)
      /\ DOMAIN M.insts = 1 .. Len(M.insts) /\ Len(M.insts) \in Nat
      /\ \A c \in Blocks : Home(M, c) \subseteq DOMAIN M.insts
  <2>1. Rewritable /\ Typed /\ NumbersFit /\ Final(M)
    BY DEF Renaming, TreeRight, Rewritable, Typed
  <2> QED
    BY <2>1, FinalGraph, ReachFacts, ReachKept, FinalParts
<1>2. ASSUME NEW b \in Reach, NEW z \in Spot(b)
      PROVE  /\ I(z) = NewInst(Order, Order[z]) /\ z \in DOMAIN Order
             /\ \/ \E p \in DOMAIN phi : Order[z] = FakeId(p) /\ phi[p].blk = b
                \/ Order[z] \in Home(M, b)
  <2>1. PICK j \in 1 .. SizeOf(b) : z = FirstOf(b) + j - 1
    BY <1>1, PlacesFacts
  <2>2. z \in DOMAIN Order /\ Order[z] = NewCode(b)[j]
    BY <1>1, <2>1, PlacesFacts
  <2>3. j \in DOMAIN NewCode(b)
        /\ Range(NewCode(b)) = {FakeId(p) : p \in {p \in DOMAIN phi : phi[p].blk = b}}
                                 \cup (Home(M, b) \ repl.dead)
    BY <1>1, CodeFacts DEF SizeOf
  <2>4. Order[z] \in Range(NewCode(b))
    BY <2>2, <2>3 DEF Range
  <2> QED
    BY <1>1, <2>2, <2>3, <2>4, AfterFacts
<1>3. ASSUME NEW b \in Reach, NEW v, NEW k, NowDefined(v, b, k) PROVE DefinedAt(v, b, k)'
  BY <1>3, NowDefinedAt
<1>4. (Len(M.insts) + 1)' = Len(After.insts) + 1
  OBVIOUS
<1>5. ASSUME NEW b \in Reach, NEW z \in Spot(b), NEW p \in DOMAIN phi,
             Order[z] = FakeId(p), phi[p].blk = b
      PROVE  /\ I(z).op = "phi"
             /\ \A q \in DOMAIN I(z).ops :
                  LET c == pred[b][q]
                  IN c \in Reach /\ ~ IsConst(I(z).ops[q])
                       => NowDefined(I(z).ops[q], c, Len(After.insts) + 1)
  <2>1. /\ I(z).op = "phi"
        /\ \A q \in DOMAIN I(z).ops :
             q \in DOMAIN phi[p].ops /\ I(z).ops[q] = remap(Order, phi[p].ops[q])
    BY <1>1, <1>2, <1>5, NewPhiFacts
  <2> SUFFICES ASSUME NEW q \in DOMAIN I(z).ops, pred[b][q] \in Reach, ~ IsConst(I(z).ops[q])
               PROVE  NowDefined(I(z).ops[q], pred[b][q], Len(After.insts) + 1)
    BY <2>1
  <2> DEFINE c == pred[b][q]
             x == phi[p].ops[q]
  <2>2. q \in DOMAIN phi[p].ops /\ I(z).ops[q] = remap(Order, x)
    BY <2>1
  <2>3. x # None
    BY <1>1, <1>5, <2>2 DEF Renaming, Filled
  <2>4. Supplied(x, c, AtEndOf)
    BY <1>5, <2>2, <2>3 DEF Renaming, Handed
  <2>5. x \in Int
    <3>1. phi[p].ops \in Seq(Int)
      <4>1. phi[p] \in PhiRec
        BY <1>1, LenProperties DEF Typed
      <4> QED
        BY <4>1 DEF PhiRec
    <3> QED
      BY <2>2, <3>1, LenProperties
  <2>6. AtEndOf \in Int
    BY <1>1 DEF AtEndOf
  <2> HIDE DEF x
  <2>7. IsConst(remap(Order, x)) \/ NowDefined(remap(Order, x), c, Len(After.insts) + 1)
    BY <2>4, <2>5, <2>6, OperandDefined
  <2> QED
    BY <2>2, <2>7
<1>6. ASSUME NEW b \in Reach, NEW z \in Spot(b), Order[z] \in Home(M, b)
      PROVE  /\ I(z).op # "phi"
             /\ I(z).op \in {"store", "ret", "add"} /\ I(z).ops # <<>> /\ ~ IsConst(I(z).ops[1])
                  => NowDefined(I(z).ops[1], b, z)
  <2> DEFINE k == Order[z]
             x == M.insts[k].ops[1]
  <2>1. k \in Home(M, b) /\ k \in DOMAIN M.insts /\ k \in Int /\ ~ IsFake(k)
    <3>1. k \in 1 .. Len(M.insts)
      BY <1>1, <1>6
    <3> QED
      BY <1>1, <1>6, <3>1, Mem2RegAssumption DEF NumbersFit, IsFake
  <2> HIDE DEF k
  <2>2. /\ I(z).op = M.insts[k].op
        /\ M.insts[k].ops = <<>> => I(z).ops = <<>>
        /\ TakesValue(M.insts[k]) => I(z).ops[1] = remap(Order, x)
    <3>1. I(z) = NewInst(Order, k)
      BY <1>2 DEF k
    <3> QED
      BY <1>1, <2>1, <3>1, NewInstFacts
  <2>3. M.insts[k].op \in LowOps
    BY <1>1, <2>1, FinalParts DEF Shaped, Made
  <2>4. ASSUME I(z).op \in {"store", "ret", "add"}, I(z).ops # <<>>, ~ IsConst(I(z).ops[1])
        PROVE  NowDefined(I(z).ops[1], b, z)
    <3>1. TakesValue(M.insts[k])
      BY <2>2, <2>4 DEF TakesValue
    <3>2. x \in Int /\ Supplied(x, b, k)
      BY <1>1, <2>1, <3>1, StoredFacts
    <3> HIDE DEF x
    <3>3. IsConst(remap(Order, x)) \/ NowDefined(remap(Order, x), b, z)
      BY <2>1, <3>2, OperandDefined DEF k
    <3> QED
      BY <2>2, <2>4, <3>1, <3>3
  <2> QED
    BY <2>2, <2>3, <2>4 DEF LowOps
<1>7. (\A v, b, k : NowDefined(v, b, k) /\ b \in Reach => DefinedAt(v, b, k)')
  BY <1>3
<1>8. /\ M'.insts = After.insts /\ Len(M'.insts) = Len(After.insts)
      /\ pred' = pred
  OBVIOUS
<1> HIDE DEF I
<1>9. ASSUME NEW b \in Reach', NEW z \in Insts(b)', M'.insts[z].op = "phi",
             NEW q \in DOMAIN M'.insts[z].ops, pred'[b][q] \in Reach',
             ~ IsConst(M'.insts[z].ops[q])
      PROVE  NowDefined(M'.insts[z].ops[q], pred'[b][q], Len(M'.insts) + 1)
  <2>1. b \in Reach /\ z \in Spot(b) /\ pred'[b][q] \in Reach
    BY <1>1, <1>9
  <2>0. M'.insts[z] = I(z)
    BY <1>8 DEF I
  <2>2. PICK p \in DOMAIN phi : Order[z] = FakeId(p) /\ phi[p].blk = b
    BY <1>2, <1>6, <1>9, <2>0, <2>1
  <2> QED
    BY <1>5, <1>8, <1>9, <2>0, <2>1, <2>2
<1>10. ASSUME NEW b \in Reach', NEW z \in Insts(b)', M'.insts[z].op \in {"store", "ret", "add"},
             M'.insts[z].ops # <<>>, ~ IsConst(M'.insts[z].ops[1])
       PROVE  NowDefined(M'.insts[z].ops[1], b, z)
  <2>1. b \in Reach /\ z \in Spot(b) /\ M'.insts[z] = I(z)
    BY <1>1, <1>8 DEF I
  <2>2. Order[z] \in Home(M, b)
    BY <1>2, <1>5, <1>10, <2>1
  <2> QED
    BY <1>6, <1>10, <2>1, <2>2
<1>11. Reach' = Reach
  BY <1>1
<1>12. ASSUME NEW b \in Reach', NEW z \in Insts(b)', M'.insts[z].op = "phi",
             NEW q \in DOMAIN M'.insts[z].ops, pred'[b][q] \in Reach',
             ~ IsConst(M'.insts[z].ops[q])
      PROVE  DefinedAt(M.insts[z].ops[q], pred[b][q], Len(M.insts) + 1)'
  BY ONLY <1>7, <1>9, <1>11, <1>12, Zenon DEF DefinedAt, BlockOf
<1>13. ASSUME NEW b \in Reach', NEW z \in Insts(b)', M'.insts[z].op \in {"store", "ret", "add"},
             M'.insts[z].ops # <<>>, ~ IsConst(M'.insts[z].ops[1])
       PROVE  DefinedAt(M.insts[z].ops[1], b, z)'
  BY ONLY <1>7, <1>10, <1>11, <1>13, Zenon DEF DefinedAt, BlockOf
<1> QED
  BY ONLY <1>12, <1>13 DEF SsaForm

---------------------------------------------------------------------------
(* ins_phi: the PHIs it makes.                                             *)

\* mk_cfg records blocks of the procedure, at most MaxPreds for each.
LEMMA PredsTyped ==
  ASSUME Final(M), NEW t \in Blocks
  PROVE  /\ IsSeq(PredsOf(Edges, t)) /\ Len(PredsOf(Edges, t)) <= MaxPreds
         /\ Range(PredsOf(Edges, t)) \subseteq Blocks
<1> DEFINE into == Into(Edges, t)
           from == [k \in DOMAIN into |-> into[k][1]]
<1>1. IsSeq(into) /\ Range(into) \subseteq Blocks \X {t}
  BY FinalGraph, EdgesAll, KeepFacts DEF Into
<1>2. PredsOf(Edges, t) = Prefix(from, MaxPreds)
  BY DEF PredsOf
<1> HIDE DEF into
<1>3. Len(into) \in Nat /\ DOMAIN into = 1 .. Len(into)
  BY <1>1, DomainOfSeq
<1>4. IsSeq(from)
  <2>1. from = [k \in 1 .. Len(into) |-> from[k]]
    BY <1>3
  <2> HIDE DEF from
  <2> QED
    BY <1>3, <2>1, FunctionIsSeq
<1>5. Range(from) \subseteq Blocks
  BY <1>1 DEF Range
<1> HIDE DEF from
<1> QED
  BY <1>2, <1>4, <1>5, PrefixFacts, Mem2RegAssumption

\* Every PHI is one of a block and a promoted variable, with an empty operand
\* for each recorded predecessor.
NewPhis ==
  FlattenSeq([v \in DOMAIN pvar |->
    LET asc == Ascending(PhiBlocks(pvar[v]))
    IN [k \in DOMAIN asc |-> [blk |-> asc[k], var |-> v,
                             ops |-> [p \in DOMAIN pred[asc[k]] |-> None]]]])
LEMMA NewPhisTyped ==
  ASSUME Final(M), IsSeq(pvar), \A t \in Blocks : IsSeq(pred[t])
  PROVE  /\ NewPhis \in Seq(PhiRec)
         /\ \A p \in DOMAIN NewPhis :
              /\ DOMAIN NewPhis[p].ops = DOMAIN pred[NewPhis[p].blk]
              /\ \A q \in DOMAIN NewPhis[p].ops : NewPhis[p].ops[q] = None
<1> DEFINE asc(v) == Ascending(PhiBlocks(pvar[v]))
           new(v, k) == [blk |-> asc(v)[k], var |-> v,
                         ops |-> [p \in DOMAIN pred[asc(v)[k]] |-> None]]
           of(v) == [k \in DOMAIN asc(v) |-> new(v, k)]
           ss == [v \in DOMAIN pvar |-> of(v)]
           Unset == {r \in PhiRec : /\ DOMAIN r.ops = DOMAIN pred[r.blk]
                                    /\ \A q \in DOMAIN r.ops : r.ops[q] = None}
<1>1. Graph /\ Len(pvar) \in Nat /\ DOMAIN pvar = 1 .. Len(pvar)
  BY FinalGraph, DomainOfSeq
<1>2. ASSUME NEW v \in DOMAIN pvar
      PROVE  IsSeq(of(v)) /\ Range(of(v)) \subseteq Unset
  <2> DEFINE s == asc(v)
  <2>1. /\ IsSeq(s) /\ Len(s) \in Nat /\ DOMAIN s = 1 .. Len(s)
        /\ Range(s) \subseteq Blocks
    BY <1>1, AscendingFacts
  <2> HIDE DEF asc
  <2>2. of(v) = [k \in 1 .. Len(s) |-> of(v)[k]] /\ DOMAIN of(v) = 1 .. Len(s)
        /\ \A k \in 1 .. Len(s) : of(v)[k] = new(v, k)
    BY <2>1
  <2>3. ASSUME NEW k \in 1 .. Len(s) PROVE new(v, k) \in Unset
    <3> DEFINE b == s[k]
               o == [p \in DOMAIN pred[b] |-> None]
    <3>1. b \in Blocks
      BY <2>1 DEF Range
    <3> HIDE DEF b
    <3>2. o \in Seq(Int) /\ DOMAIN o = DOMAIN pred[b] /\ \A q \in DOMAIN o : o[q] = None
      <4>1. Len(pred[b]) \in Nat /\ DOMAIN pred[b] = 1 .. Len(pred[b])
        BY <3>1, DomainOfSeq
      <4>2. o \in [1 .. Len(pred[b]) -> Int]
        BY <4>1 DEF None
      <4> QED
        BY <4>1, <4>2
    <3>3. new(v, k) = [blk |-> b, var |-> v, ops |-> o]
      BY DEF b
    <3> HIDE DEF o, new
    <3> QED
      BY <3>1, <3>2, <3>3 DEF PhiRec
  <2> HIDE DEF of, new, Unset
  <2>4. IsSeq(of(v))
    BY <2>1, <2>2, FunctionIsSeq
  <2> QED
    BY <2>2, <2>3, <2>4 DEF Range
<1>3. NewPhis = FlattenSeq(ss)
  BY DEF NewPhis
<1> HIDE DEF of, Unset
<1>4. DOMAIN ss = DOMAIN pvar /\ \A v \in DOMAIN pvar : ss[v] = of(v)
  OBVIOUS
<1>5. IsSeq(ss)
  <2>1. ss = [v \in 1 .. Len(pvar) |-> ss[v]]
    BY <1>1
  <2> HIDE DEF ss
  <2> QED
    BY <1>1, <2>1, FunctionIsSeq
<1> HIDE DEF ss
<1>6. IsSeq(FlattenSeq(ss)) /\ Range(FlattenSeq(ss)) = UNION {Range(ss[v]) : v \in DOMAIN ss}
  BY <1>2, <1>4, <1>5, FlatRange
<1>7. IsSeq(NewPhis) /\ Range(NewPhis) \subseteq Unset
  <2>1. UNION {Range(ss[v]) : v \in DOMAIN ss} \subseteq Unset
    BY <1>2, <1>4
  <2> QED
    BY <1>3, <1>6, <2>1, Zenon
<1>8. /\ Len(NewPhis) \in Nat /\ DOMAIN NewPhis = 1 .. Len(NewPhis)
      /\ \A p \in DOMAIN NewPhis : NewPhis[p] \in Unset
  BY <1>7, DomainOfSeq DEF Range
<1>9. NewPhis \in Seq(PhiRec)
  <2>1. \A p \in 1 .. Len(NewPhis) : NewPhis[p] \in PhiRec
    BY <1>8 DEF Unset
  <2>2. NewPhis \in [1 .. Len(NewPhis) -> Range(NewPhis)]
    BY <1>7, LenProperties DEF IsSeq
  <2>3. NewPhis \in [1 .. Len(NewPhis) -> PhiRec]
    BY <2>1, <2>2
  <2> QED
    BY <1>8, <2>3
<1> QED
  BY <1>8, <1>9 DEF Unset

---------------------------------------------------------------------------
(* The specification: what ren_var and rewrite start from, and SSA form.   *)

\* What ren_var leaves when no limit took anything away.
Supply ==
  /\ ReplRight(repl.value) /\ DeadRight(repl.dead, repl.value)
  /\ Handed(phi) /\ \A b \in Reach, t \in Blocks : Filled(phi, b, t)

RenInv ==
  /\ PassInv
  /\ stage \in {"cfg", "prm", "rpo"} => rpo = <<>>
  /\ stage \in {"rpo", "dom", "df", "phi", "ren", "rewrite"} => IsSeq(pvar)
  /\ stage \in {"phi", "ren", "rewrite"} =>
       /\ Final(M) /\ pred = [t \in Blocks |-> PredsOf(Edges, t)]
       /\ rpo = RpoOf /\ idom = IdomOf
  /\ stage = "ren" => Typed /\ Unfilled
  /\ stage = "rewrite" => Rewritable /\ (TreeRight => Supply)

\* What is known where does not change as long as the PHIs stay where they are.
LEMMA SameKnown ==
  ASSUME UNCHANGED <<M, pred, rpo, idom, pvar>>, SamePhis(phi')
  PROVE  /\ Blocks' = Blocks /\ Reach' = Reach /\ PhiRec' = PhiRec
         /\ \A x, b, k : Supplied(x, b, k)' <=> Supplied(x, b, k)
         /\ \A b : Home(M, b)' = Home(M, b)
         /\ AtEndOf' = AtEndOf /\ TreeRight' = TreeRight
<1>1. Blocks' = Blocks /\ Edges' = Edges /\ RpoOf' = RpoOf
  BY SameOrder
<1>2. \A av : Reached(av)' = Reached(av)
  BY <1>1 DEF Reached, Iterate, Succs, Targets, LastOf
<1>3. Reach' = Reach /\ \A a, b : SDom(a, b)' <=> SDom(a, b)
  BY <1>2 DEF Reach, SDom, Dom
<1>4. PhiRec' = PhiRec
  BY <1>1 DEF PhiRec
<1>5. \A b : Home(M, b)' = Home(M, b)
  BY DEF Home
<1>6. \A x, d : Where(x, d)' <=> Where(x, d)
  <2>1. DOMAIN phi' = DOMAIN phi /\ \A p \in DOMAIN phi : phi'[p].blk = phi[p].blk
    BY DEF SamePhis
  <2>2. \A x, d : Values(M, d)' = Values(M, d)
    BY DEF Values, Home
  <2> QED
    BY <2>1, <2>2 DEF Where
<1>7. \A x, b, k : Supplied(x, b, k)' <=> Supplied(x, b, k)
  BY <1>3, <1>6 DEF Supplied, Defined
<1>8. AtEndOf' = AtEndOf
  BY DEF AtEndOf
<1>9. TreeRight' = TreeRight
  <2>1. \A b : Succs(b)' = Succs(b)
    BY <1>1 DEF Succs, Targets, LastOf
  <2>2. Ready' = Ready
    BY <1>1, <1>3, <2>1 DEF Ready, Graph, InOrder, Follower
  <2>3. Num' = Num
    BY DEF Num
  <2>4. KidsFit' = KidsFit
    BY <1>1, <1>3 DEF KidsFit, Ascending, Below
  <2>5. NumbersFit' = NumbersFit
    BY DEF NumbersFit
  <2> QED
    BY <1>1, <1>3, <2>2, <2>3, <2>4, <2>5 DEF TreeRight
<1> QED
  BY <1>1, <1>3, <1>4, <1>5, <1>7, <1>8, <1>9

LEMMA TypedNext ==
  ASSUME UNCHANGED <<M, pred, rpo, idom, pvar>>, Typed, SamePhis(phi')
  PROVE  Typed' /\ (Rewritable => (UNCHANGED repl => Rewritable'))
<1>1. Blocks' = Blocks /\ PhiRec' = PhiRec
  BY SameKnown
<1>2. /\ phi' \in Seq(PhiRec) /\ DOMAIN phi' = DOMAIN phi
      /\ \A p \in DOMAIN phi : phi'[p].blk = phi[p].blk /\ DOMAIN phi'[p].ops = DOMAIN phi[p].ops
  BY DEF SamePhis
<1>3. Typed'
  BY <1>1, <1>2 DEF Typed
<1>4. Replacements' = Replacements
  BY DEF Replacements
<1> QED
  BY <1>3, <1>4 DEF Rewritable

LEMMA SupplyNext ==
  ASSUME UNCHANGED <<M, pred, rpo, idom, pvar>>, SamePhis(phi'),
         ReplRight(repl'.value), DeadRight(repl'.dead, repl'.value),
         NEW ph, ph = phi', Handed(ph), \A b \in Reach, t \in Blocks : Filled(ph, b, t)
  PROVE  Supply'
<1>1. /\ Blocks' = Blocks /\ Reach' = Reach
      /\ \A x, b, k : Supplied(x, b, k)' <=> Supplied(x, b, k)
      /\ \A b : Home(M, b)' = Home(M, b)
      /\ AtEndOf' = AtEndOf
  BY SameKnown
<1>2. /\ DOMAIN phi' = DOMAIN phi
      /\ \A p \in DOMAIN phi : phi'[p].blk = phi[p].blk /\ DOMAIN phi'[p].ops = DOMAIN phi[p].ops
  BY DEF SamePhis
<1>3. M' = M /\ pred' = pred
  OBVIOUS
<1>4. Handed(phi)'
  BY <1>1, <1>2, <1>3 DEF Handed
<1>5. \A b \in Reach', t \in Blocks' : Filled(phi, b, t)'
  BY <1>1, <1>2, <1>3 DEF Filled
<1>6. ReplRight(repl.value)'
  BY <1>1, <1>3 DEF ReplRight, ReplacedIn
<1>7. DeadRight(repl.dead, repl.value)'
  BY <1>1, <1>3 DEF DeadRight
<1> QED
  BY <1>4, <1>5, <1>6, <1>7 DEF Supply

LEMMA RenInvKept ==
  ASSUME RenInv, [Next]_vars
  PROVE  RenInv'
<1> DEFINE Facts == /\ Final(M) /\ pred = [t \in Blocks |-> PredsOf(Edges, t)]
                    /\ rpo = RpoOf /\ idom = IdomOf
<1>1. PassInv /\ PassInv'
  BY PassInvKept DEF RenInv
<1>2. ASSUME stage' \notin {"cfg", "prm", "rpo", "dom", "df", "phi", "ren", "rewrite"}
      PROVE  RenInv'
  BY <1>1, <1>2 DEF RenInv
<1>3. ASSUME UNCHANGED <<M, pred, rpo, idom>>, Facts PROVE Facts'
  <2>1. /\ RpoOf' = RpoOf /\ IdomOf' = IdomOf
        /\ [t \in Blocks |-> PredsOf(Edges, t)]' = [t \in Blocks |-> PredsOf(Edges, t)]
    BY <1>3, SameOrder, SamePreds, SameTree
  <2>2. Final(M')
    BY <1>3
  <2> QED
    BY <1>3, <2>1, <2>2
<1>4. ASSUME Facts
      PROVE  Graph /\ \A t \in Blocks : IsSeq(pred[t])
  BY <1>4, FinalGraph, PredsTyped
<1>5. CASE low_func /\ UNCHANGED <<m2rVars, runVars>>
  <2>1. ~ lowered
    BY <1>5 DEF low_func, Assign, Return, For, Copy, If, While, Case, Exit, Goto, Label,
      ThenDone, ElseDone, WhileDone, ForDone, BranchDone, NextBranch, Default, CaseDone,
      Finish, Statement, Resume
  <2>2. stage = "cfg" /\ stage' = "cfg" /\ rpo' = rpo
    BY <1>1, <1>5, <2>1 DEF PassInv, ClosedInv, m2rVars
  <2> QED
    BY <1>1, <2>2 DEF RenInv
<1>6. CASE mk_cfg
  <2>1. stage = "cfg" /\ stage' = "prm" /\ rpo' = rpo
    BY <1>6 DEF mk_cfg, Pass
  <2> QED
    BY <1>1, <2>1 DEF RenInv
<1>7. CASE fnd_prm
  <2> DEFINE found == Prefix(Keep(Steps(Len(M.insts)), {a \in DOMAIN M.insts : Promotable(a)}),
                             MaxVars)
  <2>1. /\ Pass("prm", IF found = <<>> THEN "done" ELSE "rpo")
        /\ pvar' = found /\ rpo' = rpo
    BY <1>7 DEF fnd_prm
  <2>2. IsSeq(found)
    <3>1. Len(M.insts) \in Nat
      <4>1. Final(M)
        BY <1>1, <2>1 DEF PassInv, Pass
      <4> QED
        BY <4>1, FinalParts
    <3> QED
      BY <3>1, StepsFacts, KeepFacts, PrefixFacts, Mem2RegAssumption
  <2> HIDE DEF found
  <2>3. stage = "prm" /\ (stage' = "done" \/ (stage' = "rpo" /\ IsSeq(pvar') /\ rpo' = rpo))
    BY <2>1, <2>2 DEF Pass
  <2> QED
    BY <1>1, <2>3 DEF RenInv
<1>8. CASE mk_rpo
  <2>1. stage = "rpo" /\ stage' = "dom" /\ pvar' = pvar
    BY <1>8 DEF mk_rpo, Pass
  <2> QED
    BY <1>1, <2>1 DEF RenInv
<1>9. CASE cmp_dom
  <2>1. stage = "dom" /\ stage' = "df"
    <3>1. Pass("dom", "df")
      BY <1>9, Zenon DEF cmp_dom
    <3> QED
      BY <3>1 DEF Pass
  <2>2. pvar' = pvar
    BY <1>9, Zenon DEF cmp_dom
  <2> QED
    BY <1>1, <2>1, <2>2 DEF RenInv
<1>10. CASE cmp_df
  <2>1. Pass("df", "crashed") \/ Pass("df", "phi")
    BY <1>10 DEF cmp_df
  <2>2. stage = "df" /\ UNCHANGED M /\ stage' \in {"crashed", "phi"}
    BY <2>1 DEF Pass, lowVars
  <2>3. UNCHANGED <<pred, rpo, idom, pvar>>
    BY <1>10 DEF cmp_df
  <2>4. Facts
    BY <1>1, <2>2 DEF PassInv
  <2>5. Facts'
    BY <1>3, <2>2, <2>3, <2>4
  <2>6. IsSeq(pvar')
    BY <2>2, <2>3 DEF RenInv
  <2> QED
    BY <1>1, <2>2, <2>5, <2>6 DEF RenInv
<1>11. CASE ins_phi
  <2>1. /\ stage = "phi" /\ stage' = "ren" /\ UNCHANGED <<M, pred, rpo, idom, pvar>>
        /\ phi' = NewPhis
    BY <1>11 DEF ins_phi, Pass, lowVars, NewPhis
  <2>2. Facts /\ IsSeq(pvar)
    BY <2>1 DEF RenInv
  <2>3. Facts'
    BY <1>3, <2>1, <2>2
  <2>4. /\ NewPhis \in Seq(PhiRec)
        /\ \A p \in DOMAIN NewPhis :
              /\ DOMAIN NewPhis[p].ops = DOMAIN pred[NewPhis[p].blk]
              /\ \A q \in DOMAIN NewPhis[p].ops : NewPhis[p].ops[q] = None
    BY <1>4, <2>2, NewPhisTyped
  <2>5. Blocks' = Blocks /\ PhiRec' = PhiRec
    BY <2>1, SameOrder DEF PhiRec
  <2>6. Typed' /\ Unfilled'
    BY <1>4, <2>1, <2>2, <2>4, <2>5 DEF Typed, Unfilled
  <2> QED
    BY <1>1, <2>1, <2>2, <2>3, <2>6 DEF RenInv
<1>12. CASE ren_var
  <2>1. /\ stage = "ren" /\ stage' = "rewrite" /\ UNCHANGED <<M, pred, rpo, idom, pvar>>
        /\ phi' = Renamed.phi /\ repl' = [dead |-> Renamed.dead, value |-> Renamed.repl]
    <3>1. stage = "ren" /\ stage' = "rewrite" /\ UNCHANGED <<M, pred, rpo, idom, pvar>>
      BY <1>12 DEF ren_var, Pass, lowVars
    <3>2. phi' = Renamed.phi /\ repl' = [dead |-> Renamed.dead, value |-> Renamed.repl]
      BY <1>12 DEF ren_var, Renamed, FirstFrame
    <3> QED
      BY <3>1, <3>2
  <2>2. Facts /\ Typed /\ Unfilled /\ IsSeq(pvar)
    BY <2>1 DEF RenInv
  <2>3. Facts'
    BY <1>3, <2>1, <2>2
  <2>4. /\ Renamed \in Walking /\ SamePhis(Renamed.phi)
        /\ TreeRight =>
              /\ Replaces(Renamed) /\ Handed(Renamed.phi)
              /\ \A b \in Reach, t \in Blocks : Filled(Renamed.phi, b, t)
    BY <2>2, RenameRight
  <2>5. SamePhis(phi') /\ repl'.dead = Renamed.dead /\ repl'.value = Renamed.repl
    BY <2>1, <2>4
  <2>6. Typed' /\ TreeRight' = TreeRight
    BY <2>1, <2>2, <2>5, TypedNext, SameKnown
  <2>7. Rewritable'
    <3>1. Replacements' = Replacements /\ M' = M
      BY <2>1 DEF Replacements
    <3>2. Renamed.dead \in SUBSET DOMAIN M.insts /\ Renamed.repl \in Replacements
      BY <2>4 DEF Walking
    <3> QED
      BY <2>5, <2>6, <3>1, <3>2 DEF Rewritable
  <2>8. TreeRight => Supply'
    <3> SUFFICES ASSUME TreeRight PROVE Supply'
      OBVIOUS
    <3>1. ReplRight(repl'.value) /\ DeadRight(repl'.dead, repl'.value)
      BY <2>4, <2>5 DEF Replaces
    <3>2. /\ Handed(Renamed.phi) /\ Renamed.phi = phi'
          /\ \A b \in Reach, t \in Blocks : Filled(Renamed.phi, b, t)
      BY <2>1, <2>4
    <3> QED
      BY <2>1, <2>5, <3>1, <3>2, SupplyNext
  <2> QED
    BY <1>1, <2>1, <2>2, <2>3, <2>6, <2>7, <2>8 DEF RenInv
<1>13. CASE rewrite
  BY <1>2, <1>13 DEF rewrite
<1>14. CASE Start
  BY <1>2, <1>14 DEF Start, Begin
<1>15. CASE Step
  BY <1>2, <1>15 DEF Step, m2rVars
<1>16. CASE UNCHANGED vars
  <2>1. UNCHANGED <<M, stage, pred, pvar, rpo, idom, phi, repl>>
    BY <1>16 DEF vars, lowVars, m2rVars
  <2>2. Facts => Facts'
    BY <1>3, <2>1
  <2>3. ASSUME Typed
        PROVE  Typed' /\ (Rewritable => Rewritable') /\ TreeRight' = TreeRight /\ (Supply => Supply')
    <3>1. SamePhis(phi')
      BY <2>1, <2>3 DEF SamePhis, Typed
    <3>2. ASSUME Supply PROVE Supply'
      <4>1. /\ ReplRight(repl'.value) /\ DeadRight(repl'.dead, repl'.value)
            /\ Handed(phi) /\ \A b \in Reach, t \in Blocks : Filled(phi, b, t)
        BY <2>1, <3>2 DEF Supply
      <4> QED
        BY <2>1, <3>1, <4>1, SupplyNext
    <3> QED
      BY <2>1, <2>3, <3>1, <3>2, TypedNext, SameKnown
  <2>4. Unfilled => Unfilled'
    BY <2>1 DEF Unfilled
  <2>5. Rewritable => Typed
    BY DEF Rewritable
  <2>6. stage \in {"phi", "ren", "rewrite"} => Facts'
    BY <2>2 DEF RenInv
  <2>7. stage = "ren" => Typed' /\ Unfilled'
    BY <2>3, <2>4 DEF RenInv
  <2>8. stage = "rewrite" => Rewritable' /\ (TreeRight' => Supply')
    BY <2>3, <2>5 DEF RenInv
  <2>9. stage \in {"cfg", "prm", "rpo"} => rpo' = <<>>
    BY <2>1 DEF RenInv
  <2>10. stage \in {"rpo", "dom", "df", "phi", "ren", "rewrite"} => IsSeq(pvar')
    BY <2>1 DEF RenInv
  <2> QED
    BY <1>1, <2>1, <2>6, <2>7, <2>8, <2>9, <2>10 DEF RenInv
<1> QED
  BY <1>5, <1>6, <1>7, <1>8, <1>9, <1>10, <1>11, <1>12, <1>13, <1>14, <1>15, <1>16
  DEF Next, jir_m2r

\* No limit of jir_m2r took anything away: every predecessor and every child in
\* the tree was recorded, the sweeps settled, instruction numbers stay below
\* those of PHIs, and remap follows each chain to its end.
LimitsKept ==
  /\ PredsFit /\ NumbersFit /\ KidsFit /\ ChainsFit
  /\ Sweep(Num, idom) = idom

LEMMA TreeFromLimits ==
  ASSUME Final(M), pred = [t \in Blocks |-> PredsOf(Edges, t)], rpo = RpoOf, idom = IdomOf,
         LimitsKept
  PROVE  TreeRight
<1>1. Graph
  BY FinalGraph
<1>2. \A t \in Blocks :
        /\ IsSeq(pred[t])
        /\ \A p \in Range(pred[t]) : p \in Blocks /\ t \in Range(Succs(p))
        /\ \A p \in Blocks : t \in Range(Succs(p)) => p \in Range(pred[t])
  BY <1>1, PredsRight DEF PredsFit, LimitsKept
<1>3. Ready
  BY <1>1, <1>2, RpoRight DEF Ready
<1>4. Tree(idom) /\ Done(idom) = Reach
  BY <1>3, IdomRight
<1>5. \A t \in Blocks : IsInjective(pred[t])
  BY PredsInjective
<1>6. \A b \in Blocks : idom[b] # None => b \in Reach
  BY <1>4 DEF Done
<1>7. ASSUME NEW b \in Reach \ {1}
      PROVE  idom[b] \in Reach /\ SDom(idom[b], b) /\ Num[idom[b]] < Num[b]
  <2>1. idom[b] \in Reach /\ Num[idom[b]] < Num[b]
    BY <1>4 DEF Tree
  <2>2. SDom(idom[b], b)
    BY <1>3, <1>4, FixedRight DEF LimitsKept
  <2> QED
    BY <2>1, <2>2
<1> QED
  BY <1>3, <1>5, <1>6, <1>7 DEF TreeRight, LimitsKept

LEMMA SsaKept ==
  ASSUME RenInv, stage = "rewrite" => LimitsKept, SsaForm, [Next]_vars
  PROVE  SsaForm'
<1>1. ASSUME stage' # "done" PROVE SsaForm'
  BY <1>1 DEF SsaForm
<1>2. CASE low_func /\ UNCHANGED <<m2rVars, runVars>>
  <2>1. ~ lowered
    BY <1>2 DEF low_func, Assign, Return, For, Copy, If, While, Case, Exit, Goto, Label,
      ThenDone, ElseDone, WhileDone, ForDone, BranchDone, NextBranch, Default, CaseDone,
      Finish, Statement, Resume
  <2>2. stage' = "cfg"
    BY <1>2, <2>1 DEF RenInv, PassInv, ClosedInv, m2rVars
  <2> QED
    BY <1>1, <2>2
<1>3. CASE fnd_prm
  <2>1. stage = "prm" /\ rpo' = rpo
    <3>1. \E found : Pass("prm", IF found = <<>> THEN "done" ELSE "rpo") /\ rpo' = rpo
      BY <1>3 DEF fnd_prm
    <3> QED
      BY <3>1 DEF Pass
  <2>2. rpo' = <<>>
    BY <2>1 DEF RenInv
  <2> QED
    BY <2>2 DEF SsaForm
<1>4. CASE rewrite
  <2>1. stage = "rewrite" /\ M' = After /\ UNCHANGED <<pred, phi, repl>>
    BY <1>4 DEF rewrite, After
  <2>2. LimitsKept
    BY <2>1
  <2>3. TreeRight
    BY <2>1, <2>2, TreeFromLimits DEF RenInv
  <2>4. Renaming /\ ChainsFit
    BY <2>1, <2>2, <2>3 DEF RenInv, Supply, Renaming, LimitsKept
  <2> QED
    BY <2>1, <2>4, SsaAfter
<1>5. CASE mk_cfg \/ mk_rpo \/ ins_phi \/ ren_var
  BY <1>1, <1>5 DEF mk_cfg, mk_rpo, ins_phi, ren_var, Pass
<1>6. CASE cmp_dom
  <2>1. Pass("dom", "df")
    BY <1>6, Zenon DEF cmp_dom
  <2> QED
    BY <1>1, <2>1 DEF Pass
<1>7. CASE cmp_df
  <2>1. Pass("df", "crashed") \/ Pass("df", "phi")
    BY <1>7 DEF cmp_df
  <2> QED
    BY <1>1, <2>1 DEF Pass
<1>8. CASE Start
  BY <1>1, <1>8 DEF Start, Begin
<1>9. CASE Step
  BY <1>1, <1>9 DEF Step, m2rVars
<1>10. CASE UNCHANGED vars
  <2>1. UNCHANGED <<M, stage, pred, rpo>>
    BY <1>10 DEF vars, lowVars, m2rVars
  <2>2. Blocks' = Blocks /\ \A b : Insts(b)' = Insts(b)
    BY <2>1 DEF Blocks, Insts
  <2>3. \A av : Reached(av)' = Reached(av)
    BY <2>1, <2>2 DEF Reached, Iterate, Succs, Targets, LastOf
  <2>4. Reach' = Reach /\ \A a, b : SDom(a, b)' <=> SDom(a, b)
    BY <2>3 DEF Reach, SDom, Dom
  <2> QED
    BY ONLY SsaForm, <2>1, <2>2, <2>4 DEF SsaForm, DefinedAt, BlockOf
<1> QED
  BY <1>2, <1>3, <1>4, <1>5, <1>6, <1>7, <1>8, <1>9, <1>10 DEF Next, jir_m2r

\* In every state the passes hold what the later ones rely on, and ren_var
\* leaves what rewrite needs.
THEOREM RenInvAlways == Spec => []RenInv
<1>1. Init => RenInv
  BY InitLow DEF Init, M2RInit, ClosedInv, PassInv, RenInv
<1>2. RenInv /\ [Next]_vars => RenInv'
  BY RenInvKept
<1> QED
  BY <1>1, <1>2, PTL DEF Spec

\* "SSA in flat arrays. Every value is an instruction index": what rewrite
\* leaves is in SSA form, for every procedure on which jir_m2r stays within its
\* limits.
THEOREM SsaFormAlways ==
  Spec /\ [](stage = "rewrite" => LimitsKept) => []SsaForm
<1>1. Init => SsaForm
  BY DEF Init, M2RInit, SsaForm
<1>2. RenInv /\ (stage = "rewrite" => LimitsKept) /\ SsaForm /\ [Next]_vars => SsaForm'
  BY SsaKept
<1> QED
  BY <1>1, <1>2, RenInvAlways, PTL DEF Spec

---------------------------------------------------------------------------
(* cmp_dom: what it writes is a block, also where predecessors were lost   *)
(* and the order of the tree is not known.                                 *)

Rooted(d) == d \in [Blocks -> Blocks \cup {None}] /\ \A b \in Done(d) : d[b] \in Done(d)

LEMMA IntersectTyped ==
  ASSUME Len(rpo) \in Nat, NEW d, Rooted(d), NEW a \in Done(d), NEW b \in Done(d)
  PROVE  Intersect(Num, d, a, b) \in Done(d)
<1> DEFINE n == 2 * Len(rpo)
           S == Done(d) \X Done(d)
           Do(x, k) == Climb(Num, d, x)
           T == [k \in 0 .. n |-> S]
           step == [k \in 1 .. n |-> [x \in S |-> Do(x, k)]]
           Is(f) == f = [k \in 0 .. n |-> IF k = 0 THEN <<a, b>> ELSE Do(f[k - 1], k)]
           last == Iterate(LAMBDA p : Climb(Num, d, p), <<a, b>>, 2 * Len(rpo))
<1>1. n \in Nat
  OBVIOUS
<1>2. ASSUME NEW k \in 1 .. n, NEW x \in T[k - 1] PROVE Do(x, k) \in T[k]
  <2>1. k - 1 \in 0 .. n /\ k \in 0 .. n
    BY <1>1
  <2> HIDE DEF n
  <2>2. x[1] \in Done(d) /\ x[2] \in Done(d) /\ x = <<x[1], x[2]>>
    BY <2>1
  <2>3. d[x[1]] \in Done(d) /\ d[x[2]] \in Done(d)
    BY <2>2 DEF Rooted
  <2>4. Climb(Num, d, x) \in S
    BY <2>2, <2>3 DEF Climb
  <2> QED
    BY <2>1, <2>4
<1>3. <<a, b>> \in T[0]
  <2>1. 0 \in 0 .. n
    BY <1>1
  <2> QED
    BY <2>1
<1>4. \A k \in 0 .. n : T[k] \subseteq (Done(d) \X Done(d))
  OBVIOUS
<1> HIDE DEF T, Do, n
<1>5. \E f : Is(f)
  <2>1. ASSUME NEW k \in 1 .. n, NEW x \in T[k - 1] PROVE step[k][x] \in T[k]
    <3>1. k - 1 \in 0 .. n
      BY <1>1
    <3>2. x \in (Done(d) \X Done(d))
      BY <1>4, <3>1
    <3> QED
      BY <1>2, <3>2
  <2> HIDE DEF step
  <2>2. PICK f : Follows(f, n, <<a, b>>, step) /\ \A k \in 0 .. n : f[k] \in T[k]
    BY <1>1, <1>3, <2>1, StepsExist
  <2>3. ASSUME NEW k \in 1 .. n PROVE step[k][f[k - 1]] = Do(f[k - 1], k)
    <3>1. k - 1 \in 0 .. n
      BY <1>1
    <3>2. f[k - 1] \in (Done(d) \X Done(d))
      BY <1>4, <2>2, <3>1
    <3> QED
      BY <3>2 DEF step
  <2>4. \A k \in 0 .. n : k # 0 => k \in 1 .. n
    BY <1>1
  <2>5. Is(f)
    BY <2>2, <2>3, <2>4 DEF Follows
  <2> QED
    BY <2>5
<1> DEFINE it == CHOOSE f : Is(f)
<1>6. Is(it)
  <2> HIDE DEF Is
  <2> QED
    BY <1>5
<1>7. last = it[n]
  BY Zenon DEF last, Iterate, Do, n
<1> HIDE DEF it
<1>8. last \in T[n]
  <2>1. ASSUME NEW k \in 1 .. n, it[k - 1] \in T[k - 1] PROVE it[k] \in T[k]
    <3>1. k \in 0 .. n /\ k # 0
      BY <1>1
    <3>2. it[k] = Do(it[k - 1], k)
      BY <1>6, <3>1
    <3> QED
      BY <1>2, <2>1, <3>2
  <2>2. it[0] = <<a, b>>
    BY <1>1, <1>6
  <2>3. \A k \in 0 .. n : it[k] \in T[k]
    <3> HIDE DEF Is
    <3> QED
      BY <1>1, <1>3, <2>1, <2>2, StepsStay
  <2>4. n \in 0 .. n
    BY <1>1
  <2> QED
    BY <1>7, <2>3, <2>4
<1>9. last \in Done(d) \X Done(d)
  <2>1. n \in 0 .. n
    BY <1>1
  <2> HIDE DEF last
  <2> QED
    BY <1>8, <2>1 DEF T
<1>10. Intersect(Num, d, a, b) = last[1]
  BY Zenon DEF Intersect, last
<1> HIDE DEF last
<1> QED
  BY <1>9, <1>10

LEMMA NewIdomTyped ==
  ASSUME Len(rpo) \in Nat, NEW d, Rooted(d), NEW b \in Blocks, IsSeq(pred[b]),
         Range(pred[b]) \subseteq Blocks
  PROVE  /\ NewIdom(Num, d, b) \in Done(d) \cup {None}
         /\ b \in Done(d) => NewIdom(Num, d, b) # None
<1> DEFINE n == Len(pred[b])
           S == Done(d) \cup {None}
           Do(x, k) == Meet(Num, d, x, pred[b][k])
           T == [k \in 0 .. n |-> S]
           step == [k \in 1 .. n |-> [x \in S |-> Do(x, k)]]
           Is(f) == f = [k \in 0 .. n |-> IF k = 0 THEN None ELSE Do(f[k - 1], k)]
           Met2 == LET met[k \in 0 .. Len(pred[b])] ==
                         IF k = 0 THEN None ELSE Meet(Num, d, met[k - 1], pred[b][k])
                   IN met[Len(pred[b])]
<1>0. n \in Nat /\ DOMAIN pred[b] = 1 .. n
  BY DomainOfSeq
<1>1. n \in Nat
  BY <1>0
<1>2. ASSUME NEW k \in 1 .. n, NEW x \in T[k - 1] PROVE Do(x, k) \in T[k]
  <2>1. k - 1 \in 0 .. n /\ k \in 0 .. n
    BY <1>1
  <2> DEFINE p == pred[b][k]
  <2>2. p \in Blocks
    BY <1>0 DEF Range
  <2> HIDE DEF n, p
  <2>3. x \in S
    BY <2>1
  <2>4. d[p] # None => p \in Done(d)
    BY <2>2 DEF Done
  <2>5. Meet(Num, d, x, p) \in S
    <3>1. d[p] # None /\ x # None => Intersect(Num, d, x, p) \in Done(d)
      BY <2>3, <2>4, IntersectTyped
    <3> QED
      BY <2>3, <2>4, <3>1 DEF Meet
  <2> HIDE DEF S
  <2> QED
    BY <2>1, <2>5 DEF p
<1>3. None \in T[0]
  <2>1. 0 \in 0 .. n
    BY <1>1
  <2> QED
    BY <2>1
<1>4. \A k \in 0 .. n : T[k] \subseteq (Done(d) \cup {None})
  OBVIOUS
<1> HIDE DEF T, Do, n
<1>5. \E f : Is(f)
  <2>1. ASSUME NEW k \in 1 .. n, NEW x \in T[k - 1] PROVE step[k][x] \in T[k]
    <3>1. k - 1 \in 0 .. n
      BY <1>1
    <3>2. x \in (Done(d) \cup {None})
      BY <1>4, <3>1
    <3> QED
      BY <1>2, <3>2
  <2> HIDE DEF step
  <2>2. PICK f : Follows(f, n, None, step) /\ \A k \in 0 .. n : f[k] \in T[k]
    BY <1>1, <1>3, <2>1, StepsExist
  <2>3. ASSUME NEW k \in 1 .. n PROVE step[k][f[k - 1]] = Do(f[k - 1], k)
    <3>1. k - 1 \in 0 .. n
      BY <1>1
    <3>2. f[k - 1] \in (Done(d) \cup {None})
      BY <1>4, <2>2, <3>1
    <3> QED
      BY <3>2 DEF step
  <2>4. \A k \in 0 .. n : k # 0 => k \in 1 .. n
    BY <1>1
  <2>5. Is(f)
    BY <2>2, <2>3, <2>4 DEF Follows
  <2> QED
    BY <2>5
<1> DEFINE it == CHOOSE f : Is(f)
<1>6. Is(it)
  <2> HIDE DEF Is
  <2> QED
    BY <1>5
<1>7. Met2 = it[n]
  BY Zenon DEF Met2, Do, n
<1> HIDE DEF it
<1>8. Met2 \in T[n]
  <2>1. ASSUME NEW k \in 1 .. n, it[k - 1] \in T[k - 1] PROVE it[k] \in T[k]
    <3>1. k \in 0 .. n /\ k # 0
      BY <1>1
    <3>2. it[k] = Do(it[k - 1], k)
      BY <1>6, <3>1
    <3> QED
      BY <1>2, <2>1, <3>2
  <2>2. it[0] = None
    BY <1>1, <1>6
  <2>3. \A k \in 0 .. n : it[k] \in T[k]
    <3> HIDE DEF Is
    <3> QED
      BY <1>1, <1>3, <2>1, <2>2, StepsStay
  <2>4. n \in 0 .. n
    BY <1>1
  <2> QED
    BY <1>7, <2>3, <2>4
<1>9. Met2 \in Done(d) \cup {None}
  <2>1. n \in 0 .. n
    BY <1>1
  <2> HIDE DEF Met2
  <2> QED
    BY <1>8, <2>1 DEF T
<1>10. NewIdom(Num, d, b) = IF Met2 = None THEN d[b] ELSE Met2
  BY Zenon DEF NewIdom, Met2
<1> HIDE DEF Met2
<1>11. d[b] \in Done(d) \cup {None} /\ (b \in Done(d) => d[b] # None)
  BY DEF Rooted, Done
<1> QED
  BY <1>9, <1>10, <1>11

LEMMA ImproveTyped ==
  ASSUME Len(rpo) \in Nat, NEW d, Rooted(d), NEW b \in Blocks, IsSeq(pred[b]),
         Range(pred[b]) \subseteq Blocks
  PROVE  Rooted(Improve(Num, d, b))
<1> DEFINE q == NewIdom(Num, d, b)
           e == Improve(Num, d, b)
<1>1. q \in Done(d) \cup {None} /\ (b \in Done(d) => q # None)
  BY NewIdomTyped
<1> HIDE DEF q
<1>2. CASE b = 1
  BY <1>2 DEF Improve
<1>3. CASE b # 1
  <2>1. e = [d EXCEPT ![b] = q]
    BY <1>3 DEF Improve, q
  <2> HIDE DEF e
  <2>2. /\ e \in [Blocks -> Blocks \cup {None}] /\ e[b] = q
        /\ \A x \in Blocks : x # b => e[x] = d[x]
    BY <1>1, <2>1 DEF Rooted, Done
  <2>3. Done(d) \subseteq Done(e)
    BY <1>1, <2>2 DEF Done
  <2>4. \A x \in Done(e) : e[x] \in Done(e)
    BY <1>1, <2>2, <2>3 DEF Done, Rooted
  <2>5. Rooted(e)
    BY <2>2, <2>4 DEF Rooted
  <2> QED
    BY <2>5 DEF e
<1> QED
  BY <1>2, <1>3

Placing == [Blocks -> Blocks \cup {None}]
LEMMA SweepTyped ==
  ASSUME rpo \in Seq(Blocks), \A t \in Blocks : IsSeq(pred[t]) /\ Range(pred[t]) \subseteq Blocks,
         NEW d, Rooted(d)
  PROVE  Rooted(Sweep(Num, d))
<1> DEFINE n == Len(rpo)
           Do(x, k) == Improve(Num, x, rpo[k])
           T == [k \in 0 .. n |-> {x \in Placing : Rooted(x)}]
           step == [k \in 1 .. n |-> [x \in Placing |-> Do(x, k)]]
           Is(f) == f = [k \in 0 .. n |-> IF k = 0 THEN d ELSE Do(f[k - 1], k)]
<1>0. n \in Nat /\ DOMAIN rpo = 1 .. n /\ \A k \in 1 .. n : rpo[k] \in Blocks
  BY LenProperties
<1>1. n \in Nat
  BY <1>0
<1>2. ASSUME NEW k \in 1 .. n, NEW x \in T[k - 1] PROVE Do(x, k) \in T[k]
  <2>1. k - 1 \in 0 .. n /\ k \in 0 .. n
    BY <1>1
  <2>2. rpo[k] \in Blocks
    BY <1>0
  <2>3. Len(rpo) \in Nat
    BY <1>0
  <2> HIDE DEF n
  <2>4. Rooted(x)
    BY <2>1
  <2>5. Rooted(Do(x, k))
    BY <2>2, <2>3, <2>4, ImproveTyped
  <2>6. Do(x, k) \in Placing
    BY <2>5 DEF Rooted, Placing
  <2> HIDE DEF Do
  <2> QED
    BY <2>1, <2>5, <2>6
<1>3. d \in T[0]
  <2>1. 0 \in 0 .. n
    BY <1>1
  <2>2. d \in Placing
    BY DEF Rooted, Placing
  <2> HIDE DEF n
  <2> QED
    BY <2>1, <2>2
<1>4. \A k \in 0 .. n : T[k] \subseteq Placing
  OBVIOUS
<1> HIDE DEF T, Do, n
<1>5. \E f : Is(f)
  <2>1. ASSUME NEW k \in 1 .. n, NEW x \in T[k - 1] PROVE step[k][x] \in T[k]
    <3>1. k - 1 \in 0 .. n
      BY <1>1
    <3>2. x \in Placing
      BY <1>4, <3>1
    <3> QED
      BY <1>2, <3>2
  <2> HIDE DEF step
  <2>2. PICK f : Follows(f, n, d, step) /\ \A k \in 0 .. n : f[k] \in T[k]
    BY <1>1, <1>3, <2>1, StepsExist
  <2>3. ASSUME NEW k \in 1 .. n PROVE step[k][f[k - 1]] = Do(f[k - 1], k)
    <3>1. k - 1 \in 0 .. n
      BY <1>1
    <3>2. f[k - 1] \in Placing
      BY <1>4, <2>2, <3>1
    <3> QED
      BY <3>2 DEF step
  <2>4. \A k \in 0 .. n : k # 0 => k \in 1 .. n
    BY <1>1
  <2>5. Is(f)
    BY <2>2, <2>3, <2>4 DEF Follows
  <2> QED
    BY <2>5
<1> DEFINE it == CHOOSE f : Is(f)
<1>6. Is(it)
  <2> HIDE DEF Is
  <2> QED
    BY <1>5
<1>7. Sweep(Num, d) = it[n]
  BY Zenon DEF Sweep, Do, n
<1> HIDE DEF it
<1>8. Sweep(Num, d) \in T[n]
  <2>1. ASSUME NEW k \in 1 .. n, it[k - 1] \in T[k - 1] PROVE it[k] \in T[k]
    <3>1. k \in 0 .. n /\ k # 0
      BY <1>1
    <3>2. it[k] = Do(it[k - 1], k)
      BY <1>6, <3>1
    <3> QED
      BY <1>2, <2>1, <3>2
  <2>2. it[0] = d
    BY <1>1, <1>6
  <2>3. \A k \in 0 .. n : it[k] \in T[k]
    <3> HIDE DEF Is
    <3> QED
      BY <1>1, <1>3, <2>1, <2>2, StepsStay
  <2>4. n \in 0 .. n
    BY <1>1
  <2> QED
    BY <1>7, <2>3, <2>4
<1>9. Rooted(Sweep(Num, d))
  <2>1. n \in 0 .. n
    BY <1>1
  <2> QED
    BY <1>8, <2>1 DEF T
<1> QED
  BY <1>9

LEMMA IdomTyped ==
  ASSUME Graph, rpo \in Seq(Blocks),
         \A t \in Blocks : IsSeq(pred[t]) /\ Range(pred[t]) \subseteq Blocks
  PROVE  IdomOf \in [Blocks -> Blocks \cup {None}]
<1> DEFINE n == 64
           S == [d : Placing, changed : BOOLEAN]
           first == [d |-> FirstTree, changed |-> TRUE]
           Do(x, k) == Settle(Num, x)
           T == [k \in 0 .. n |-> {x \in S : Rooted(x.d)}]
           step == [k \in 1 .. n |-> [x \in S |-> Do(x, k)]]
           Is(f) == f = [k \in 0 .. n |-> IF k = 0 THEN first ELSE Do(f[k - 1], k)]
           last == Iterate(LAMBDA st : Settle(Num, st), [d |-> FirstTree, changed |-> TRUE], 64)
<1>1. n \in Nat
  OBVIOUS
<1>2. ASSUME NEW k \in 1 .. n, NEW x \in T[k - 1] PROVE Do(x, k) \in T[k]
  <2> HIDE DEF n, T, S, step, Is
  <2>1. k - 1 \in 0 .. n /\ k \in 0 .. n
    BY <1>1
  <2> USE DEF T, S
  <2>2. x \in S /\ Rooted(x.d)
    BY <2>1
  <2> DEFINE e == Sweep(Num, x.d)
  <2>3. Rooted(e)
    BY <2>2, SweepTyped
  <2>4. e \in Placing
    BY <2>3 DEF Rooted, Placing
  <2>5. Settle(Num, x) = IF x.changed THEN [d |-> e, changed |-> e # x.d] ELSE x
    BY DEF Settle
  <2> HIDE DEF e
  <2>6. Settle(Num, x) \in S /\ Rooted(Settle(Num, x).d)
    BY <2>2, <2>3, <2>4, <2>5
  <2> HIDE DEF S
  <2> QED
    BY <2>1, <2>6
<1>3. first \in T[0]
  <2>1. 0 \in 0 .. n /\ 1 \in Blocks /\ None \notin Blocks
    BY <1>1 DEF Graph, None
  <2>2. FirstTree \in Placing /\ Rooted(FirstTree)
    BY <2>1 DEF FirstTree, Rooted, Placing, Done
  <2>3. first \in S /\ first.d = FirstTree
    BY <2>2
  <2> HIDE DEF first, S, n
  <2> QED
    BY <2>1, <2>2, <2>3
<1> HIDE DEF first
<1>4. \A k \in 0 .. n : T[k] \subseteq [d : Placing, changed : BOOLEAN]
  OBVIOUS
<1> HIDE DEF T, Do, n
<1>5. \E f : Is(f)
  <2>1. ASSUME NEW k \in 1 .. n, NEW x \in T[k - 1] PROVE step[k][x] \in T[k]
    <3>1. k - 1 \in 0 .. n
      BY <1>1
    <3>2. x \in [d : Placing, changed : BOOLEAN]
      BY <1>4, <3>1
    <3> QED
      BY <1>2, <3>2
  <2> HIDE DEF step
  <2>2. PICK f : Follows(f, n, first, step) /\ \A k \in 0 .. n : f[k] \in T[k]
    BY <1>1, <1>3, <2>1, StepsExist
  <2>3. ASSUME NEW k \in 1 .. n PROVE step[k][f[k - 1]] = Do(f[k - 1], k)
    <3>1. k - 1 \in 0 .. n
      BY <1>1
    <3>2. f[k - 1] \in [d : Placing, changed : BOOLEAN]
      BY <1>4, <2>2, <3>1
    <3> QED
      BY <3>2 DEF step
  <2>4. \A k \in 0 .. n : k # 0 => k \in 1 .. n
    BY <1>1
  <2>5. Is(f)
    BY <2>2, <2>3, <2>4 DEF Follows
  <2> QED
    BY <2>5
<1> DEFINE it == CHOOSE f : Is(f)
<1>6. Is(it)
  <2> HIDE DEF Is
  <2> QED
    BY <1>5
<1>7. last = it[n]
  BY Zenon DEF last, Iterate, Do, n, first
<1> HIDE DEF it
<1>8. last \in T[n]
  <2>1. ASSUME NEW k \in 1 .. n, it[k - 1] \in T[k - 1] PROVE it[k] \in T[k]
    <3>1. k \in 0 .. n /\ k # 0
      BY <1>1
    <3>2. it[k] = Do(it[k - 1], k)
      BY <1>6, <3>1
    <3> QED
      BY <1>2, <2>1, <3>2
  <2>2. it[0] = first
    BY <1>1, <1>6
  <2>3. \A k \in 0 .. n : it[k] \in T[k]
    <3> HIDE DEF Is
    <3> QED
      BY <1>1, <1>3, <2>1, <2>2, StepsStay
  <2>4. n \in 0 .. n
    BY <1>1
  <2> QED
    BY <1>7, <2>3, <2>4
<1>9. last \in S /\ Rooted(last.d)
  <2>1. n \in 0 .. n
    BY <1>1
  <2> HIDE DEF last, S
  <2> QED
    BY <1>8, <2>1 DEF T, S
<1>10. IdomOf = last.d
  BY Zenon DEF IdomOf, last
<1> HIDE DEF last
<1> QED
  BY <1>9, <1>10 DEF Placing

---------------------------------------------------------------------------
(* The type invariant: every block a pass or a run names exists.           *)

\* A block that is run leads to blocks of its procedure.
LEMMA RunTargets ==
  ASSUME NEW m, NEW c, Good(m, c, {}), NEW lc, NEW b \in DOMAIN m.blks, NEW mm, NEW vv
  PROVE  Range(RunBlock(m, lc, b, mm, vv).to) \subseteq DOMAIN m.blks
<1> DEFINE s == [k \in 1 .. m.blks[b].n_inst |-> m.blks[b].first + k - 1]
           n == Len(s)
           x0 == [mem |-> mm, val |-> vv, out |-> None, to |-> <<>>, stop |-> FALSE]
           Do(x, k) == Exec(m, lc, x, s[k])
           Ok(x) == "to" \in DOMAIN x /\ Range(x.to) \subseteq DOMAIN m.blks
           Is(f) == f = [k \in 0 .. n |-> IF k = 0 THEN x0 ELSE Do(f[k - 1], k)]
           Upto(f, k) == /\ f = [j \in 0 .. k |-> f[j]] /\ f[0] = x0
                         /\ \A j \in 1 .. k : f[j] = Do(f[j - 1], j)
           U == {k \in Nat : k <= n => \E f : Upto(f, k)}
<1>1. /\ m.blks[b].first \in Nat \ {0} /\ m.blks[b].n_inst \in Nat
      /\ Len(m.insts) \in Nat /\ DOMAIN m.insts = 1 .. Len(m.insts)
      /\ m.blks[b].n_inst > 0 => m.blks[b].first + m.blks[b].n_inst - 1 <= Len(m.insts)
      /\ \A k \in DOMAIN m.insts : Range(Targets(m.insts[k])) \subseteq DOMAIN m.blks
  <2>1. IsModule(m) /\ Within(m) /\ Jumps(m) \subseteq DOMAIN m.blks
    BY DEF Good, Handled
  <2> QED
    BY <2>1, Parts DEF Within, Jumps, Leads
<1>2. n \in Nat /\ \A k \in 1 .. n : s[k] \in DOMAIN m.insts
  <2>1. s = [k \in 1 .. m.blks[b].n_inst |-> s[k]]
        /\ \A k \in 1 .. m.blks[b].n_inst : s[k] = m.blks[b].first + k - 1
    OBVIOUS
  <2> HIDE DEF s
  <2>2. n = m.blks[b].n_inst
    BY <1>1, <2>1, FunctionIsSeq
  <2> DEFINE F == m.blks[b].first
             N == m.blks[b].n_inst
             L == Len(m.insts)
  <2>3. F \in Nat /\ N \in Nat /\ L \in Nat /\ (N > 0 => F + N - 1 <= L) /\ F >= 1
    BY <1>1
  <2>4. n = N /\ (\A k \in 1 .. N : s[k] = F + k - 1) /\ DOMAIN m.insts = 1 .. L
    BY <1>1, <2>1, <2>2
  <2> HIDE DEF n, F, N, L
  <2>5. \A k \in 1 .. N : F + k - 1 \in 1 .. L
    BY <2>3
  <2> QED
    BY <2>3, <2>4, <2>5
<1> HIDE DEF s, n
<1>3. ASSUME NEW k \in 1 .. n, NEW x, Ok(x) PROVE Ok(Do(x, k))
  <2> DEFINE I == m.insts[s[k]]
             arg == Value(x.val, lc, I.ops[1])
  <2>1. Range(Targets(I)) \subseteq DOMAIN m.blks
    BY <1>1, <1>2
  <2>2. \/ Do(x, k) = x
        \/ Do(x, k) = [x EXCEPT !.mem[I.ops[2]] = arg]
        \/ Do(x, k) = [x EXCEPT !.val[lc[s[k]]] = x.mem[I.ops[1]]]
        \/ Do(x, k) = [x EXCEPT !.val[lc[s[k]]] = Incremented(arg)]
        \/ Do(x, k) = [x EXCEPT !.out = arg, !.stop = TRUE]
        \/ Do(x, k) = [x EXCEPT !.to = Targets(I), !.stop = TRUE]
    <3>1. Do(x, k) =
            IF x.stop THEN x
            ELSE CASE I.op = "store" -> [x EXCEPT !.mem[I.ops[2]] = arg]
                   [] I.op = "load" -> [x EXCEPT !.val[lc[s[k]]] = x.mem[I.ops[1]]]
                   [] I.op = "add" -> [x EXCEPT !.val[lc[s[k]]] = Incremented(arg)]
                   [] I.op = "ret" /\ I.ops # <<>> -> [x EXCEPT !.out = arg, !.stop = TRUE]
                   [] I.op \in Terminators /\ ~ (I.op = "ret" /\ I.ops # <<>>) ->
                        [x EXCEPT !.to = Targets(I), !.stop = TRUE]
                   [] OTHER -> x
      BY Zenon DEF Exec
    <3> DEFINE A == [x EXCEPT !.mem[I.ops[2]] = arg]
               B == [x EXCEPT !.val[lc[s[k]]] = x.mem[I.ops[1]]]
               C == [x EXCEPT !.val[lc[s[k]]] = Incremented(arg)]
               D == [x EXCEPT !.out = arg, !.stop = TRUE]
               E == [x EXCEPT !.to = Targets(I), !.stop = TRUE]
    <3> HIDE DEF I, arg, Do, A, B, C, D, E
    <3>2. Do(x, k) =
            IF x.stop THEN x
            ELSE CASE I.op = "store" -> A [] I.op = "load" -> B [] I.op = "add" -> C
                   [] I.op = "ret" /\ I.ops # <<>> -> D
                   [] I.op \in Terminators /\ ~ (I.op = "ret" /\ I.ops # <<>>) -> E
                   [] OTHER -> x
      BY <3>1, Zenon DEF A, B, C, D, E
    <3>3. Do(x, k) \in {x, A, B, C, D, E}
      BY <3>2 DEF Terminators
    <3> QED
      BY <3>3 DEF A, B, C, D, E
  <2> HIDE DEF I, arg, Do
  <2>3. Do(x, k) = [x EXCEPT !.to = Targets(I), !.stop = TRUE] => Ok(Do(x, k))
    BY <1>3, <2>1
  <2>4. ASSUME Do(x, k).to = x.to, DOMAIN Do(x, k) = DOMAIN x PROVE Ok(Do(x, k))
    BY <1>3, <2>4
  <2> QED
    BY <1>3, <2>2, <2>3, <2>4
<1>4. Ok(x0)
  BY DEF Range
<1> HIDE DEF Do, Ok, x0
<1>5. 0 \in U
  <2> DEFINE f == [j \in 0 .. 0 |-> x0]
  <2>1. f = [j \in 0 .. 0 |-> f[j]] /\ f[0] = x0 /\ 1 .. 0 = {}
    OBVIOUS
  <2> HIDE DEF f
  <2> QED
    BY <2>1
<1>6. ASSUME NEW k \in Nat, k \in U PROVE k + 1 \in U
  <2> SUFFICES ASSUME k + 1 <= n PROVE \E f : Upto(f, k + 1)
    OBVIOUS
  <2>1. PICK f : Upto(f, k)
    BY <1>2, <1>6
  <2> DEFINE g == [j \in 0 .. k + 1 |-> IF j <= k THEN f[j] ELSE Do(f[k], k + 1)]
  <2>2. g = [j \in 0 .. k + 1 |-> g[j]] /\ g[0] = x0
    BY <2>1
  <2>3. ASSUME NEW j \in 1 .. k + 1 PROVE g[j] = Do(g[j - 1], j)
    <3>1. j \in 0 .. k + 1 /\ j - 1 \in 0 .. k + 1 /\ j - 1 <= k
      OBVIOUS
    <3>2. g[j - 1] = f[j - 1] /\ g[j] = IF j <= k THEN f[j] ELSE Do(f[k], k + 1)
      BY <3>1
    <3> HIDE DEF g
    <3>3. CASE j <= k
      <4>1. j \in 1 .. k
        BY <3>3
      <4>2. f[j] = Do(f[j - 1], j)
        BY <2>1, <4>1
      <4>3. g[j] = f[j] /\ g[j - 1] = f[j - 1]
        BY <3>2, <3>3
      <4> QED
        BY <4>2, <4>3, Zenon
    <3>4. CASE ~ (j <= k)
      <4>1. j = k + 1 /\ j - 1 = k
        BY <3>4
      <4>2. g[j] = Do(f[k], k + 1) /\ g[j - 1] = f[k]
        BY <3>2, <3>4, <4>1
      <4> QED
        BY <4>1, <4>2, Zenon
    <3> QED
      BY <3>3, <3>4
  <2> HIDE DEF g
  <2> QED
    BY <2>2, <2>3
<1>7. \E f : Is(f)
  <2>1. n \in U
    <3> HIDE DEF U
    <3> QED
      BY <1>2, <1>5, <1>6, Induction
  <2>2. PICK f : Upto(f, n)
    BY <1>2, <2>1
  <2>0. \A k \in 0 .. n : k # 0 => k \in 1 .. n
    BY <1>2
  <2>3. \A k \in 0 .. n : f[k] = IF k = 0 THEN x0 ELSE Do(f[k - 1], k)
    BY <2>0, <2>2
  <2>4. Is(f)
    BY <2>2, <2>3
  <2> HIDE DEF Is
  <2> QED
    BY <2>4
<1> DEFINE it == CHOOSE f : Is(f)
<1>8. Is(it)
  <2> HIDE DEF Is
  <2> QED
    BY <1>7
<1>9. RunBlock(m, lc, b, mm, vv) = it[n]
  BY Zenon DEF RunBlock, Through, Do, n, s, x0
<1> HIDE DEF it
<1>10. n \in {k \in Nat : k <= n => Ok(it[k])}
  <2> DEFINE V == {k \in Nat : k <= n => Ok(it[k])}
  <2>1. 0 \in V
    BY <1>2, <1>4, <1>8
  <2>2. ASSUME NEW k \in Nat, k \in V PROVE k + 1 \in V
    <3> SUFFICES ASSUME k + 1 <= n PROVE Ok(it[k + 1])
      OBVIOUS
    <3>1. k + 1 \in 0 .. n /\ k + 1 # 0 /\ (k + 1) - 1 = k /\ k + 1 \in 1 .. n /\ k <= n
      BY <1>2
    <3>2. it[k + 1] = Do(it[k], k + 1)
      BY <1>8, <3>1
    <3> QED
      BY <1>3, <2>2, <3>1, <3>2
  <2> HIDE DEF V
  <2>3. n \in V
    BY <1>2, <2>1, <2>2, Induction
  <2> QED
    BY <2>3 DEF V
<1> QED
  BY <1>2, <1>9, <1>10 DEF Ok

\* Branches of a module that low_stmt made lead to its blocks.
LEMMA GoodJumps ==
  ASSUME NEW m, NEW c, NEW P, Good(m, c, P), NEW b \in DOMAIN m.blks, NEW k \in Home(m, b)
  PROVE  Range(Targets(m.insts[k])) \subseteq DOMAIN m.blks
<1>1. IsModule(m) /\ Within(m) /\ Jumps(m) \subseteq Handled(m, c, P)
  BY DEF Good
<1>2. /\ m.blks[b].first \in Nat \ {0} /\ m.blks[b].n_inst \in Nat
      /\ Len(m.insts) \in Nat /\ DOMAIN m.insts = 1 .. Len(m.insts)
      /\ m.blks[b].n_inst > 0 => m.blks[b].first + m.blks[b].n_inst - 1 <= Len(m.insts)
  BY <1>1, Parts DEF Within
<1>3. k \in DOMAIN m.insts
  BY <1>2 DEF Home
<1> QED
  BY <1>1, <1>3 DEF Jumps, Leads, Handled

\* While low_func runs, labels and loop exits are blocks.
LEMMA CoveredTypes ==
  ASSUME NEW m, NEW c, NEW P, NEW st, NEW lps, NEW lb,
         Shape(st, lps, lb), Covered(m, c, P, Known(st, lps, lb))
  PROVE  /\ c \in DOMAIN m.blks /\ Range(lps) \subseteq DOMAIN m.blks
         /\ \A l \in Labels : lb[l] \in DOMAIN m.blks \cup {0}
         /\ \A b \in DOMAIN m.blks : \A k \in Home(m, b) :
              Range(Targets(m.insts[k])) \subseteq DOMAIN m.blks
<1>1. Good(m, c, P) /\ Known(st, lps, lb) \subseteq DOMAIN m.blks
  BY DEF Covered, Handled
<1>2. c \in DOMAIN m.blks
  BY <1>1 DEF Good
<1>3. Range(lps) \subseteq DOMAIN m.blks /\ Named(lb) \subseteq DOMAIN m.blks
  BY <1>1 DEF Known
<1>4. \A l \in Labels : lb[l] \in DOMAIN m.blks \cup {0}
  BY <1>3 DEF Named
<1> QED
  BY <1>1, <1>2, <1>3, <1>4, GoodJumps

\* The parts of the type invariant about the procedure and about the passes.
ProcTyped ==
  /\ cur_blk \in Blocks /\ Range(lp_exit) \subseteq Blocks
  /\ \A l \in Labels : lbl[l] \in Blocks \cup {0}
  /\ \A b \in Blocks : \A k \in Insts(b) : Range(Targets(M.insts[k])) \subseteq Blocks
PassesTyped ==
  /\ stage \in Stages
  /\ pred # <<>> => DOMAIN pred = Blocks /\ \A b \in Blocks : Len(pred[b]) <= MaxPreds
  /\ idom # <<>> => idom \in [Blocks -> Blocks \cup {None}]
  /\ at \in Blocks \cup {None}
LEMMA TypeParts == TypeOK <=> ProcTyped /\ PassesTyped
BY DEF TypeOK, ProcTyped, PassesTyped

\* Blocks are not made any more once low_func has returned.
TypeInv ==
  /\ RenInv /\ TypeOK
  /\ stage = "cfg" => pred = <<>> /\ idom = <<>> /\ at = None
  /\ stage \in {"done", "run"} => Final(old) /\ DOMAIN old.blks = Blocks

LEMMA InitTyped ==
  ASSUME Init
  PROVE  TypeInv
<1>1. RenInv /\ LowInv /\ stage = "cfg"
  BY InitLow DEF Init, M2RInit, ClosedInv, PassInv, RenInv
<1>2. pred = <<>> /\ idom = <<>> /\ at = None
  BY DEF Init, M2RInit, RunInit
<1>3. PassesTyped
  BY <1>1, <1>2 DEF PassesTyped, Stages
<1>4. ProcTyped
  <2>1. PICK U \in SUBSET Named(lbl) :
          Covered(M, cur_blk, OwedOf(stack) \cup U, Known(stack, lp_exit, lbl))
    BY <1>1 DEF LowInv
  <2>2. \A b : Insts(b) = Home(M, b)
    BY DEF Insts, Home
  <2> QED
    BY <1>1, <2>1, <2>2, CoveredTypes DEF LowInv, ProcTyped, Blocks
<1> QED
  BY <1>1, <1>2, <1>3, <1>4, TypeParts DEF TypeInv

\* The blocks, labels and branches stay what they are.
LEMMA ProcKept ==
  ASSUME ProcTyped, UNCHANGED <<M, cur_blk, lp_exit, lbl>>
  PROVE  ProcTyped' /\ Blocks' = Blocks
<1>1. Blocks' = Blocks /\ \A b : Insts(b)' = Insts(b)
  BY DEF Blocks, Insts
<1>2. M' = M /\ cur_blk' = cur_blk /\ lp_exit' = lp_exit /\ lbl' = lbl
  OBVIOUS
<1> QED
  BY <1>1, <1>2 DEF ProcTyped, Targets

LEMMA PassesKept ==
  ASSUME PassesTyped, Blocks' = Blocks, stage' \in Stages,
         \/ pred' = pred
         \/ Final(M) /\ pred' = [t \in Blocks |-> PredsOf(Edges, t)],
         idom' = idom \/ idom' \in [Blocks -> Blocks \cup {None}],
         at' \in Blocks \cup {None}
  PROVE  PassesTyped'
<1>1. pred' # <<>> => DOMAIN pred' = Blocks /\ \A b \in Blocks : Len(pred'[b]) <= MaxPreds
  <2>1. CASE pred' = pred
    BY <2>1 DEF PassesTyped
  <2>2. CASE Final(M) /\ pred' = [t \in Blocks |-> PredsOf(Edges, t)]
    BY <2>2, PredsTyped
  <2> QED
    BY <2>1, <2>2
<1>2. idom' # <<>> => idom' \in [Blocks -> Blocks \cup {None}]
  BY DEF PassesTyped
<1> QED
  BY <1>1, <1>2 DEF PassesTyped, Stages, None

\* A pass between mk_cfg and rewrite.
LEMMA PassTyped ==
  ASSUME TypeInv, RenInv', UNCHANGED lowVars, UNCHANGED at,
         stage' \in Stages \ {"cfg", "done", "run"},
         \/ pred' = pred
         \/ Final(M) /\ pred' = [t \in Blocks |-> PredsOf(Edges, t)],
         idom' = idom \/ idom' \in [Blocks -> Blocks \cup {None}]
  PROVE  TypeInv'
<1>1. ProcTyped /\ PassesTyped
  BY TypeParts DEF TypeInv
<1>2. ProcTyped' /\ Blocks' = Blocks
  BY <1>1, ProcKept DEF lowVars
<1>3. PassesTyped'
  <2>1. at' \in Blocks \cup {None}
    BY <1>1 DEF PassesTyped
  <2> QED
    BY <1>1, <1>2, <2>1, PassesKept
<1>4. TypeOK'
  BY <1>2, <1>3 DEF TypeOK, ProcTyped, PassesTyped
<1> QED
  BY <1>4 DEF TypeInv

\* low_func: new blocks may be made, the passes have not begun.
LEMMA LowTyped ==
  ASSUME TypeInv, RenInv', low_func, UNCHANGED <<m2rVars, runVars>>
  PROVE  TypeInv'
<1>1. ~ lowered
  BY DEF low_func, Assign, Return, For, Copy, If, While, Case, Exit, Goto, Label,
    ThenDone, ElseDone, WhileDone, ForDone, BranchDone, NextBranch, Default, CaseDone,
    Finish, Statement, Resume
<1>2. stage = "cfg" /\ LowInv
  BY <1>1 DEF TypeInv, RenInv, PassInv, ClosedInv
<1>3. stage' = "cfg" /\ pred' = <<>> /\ idom' = <<>> /\ at' = None
  BY <1>2 DEF TypeInv, m2rVars, runVars
<1>4. PassesTyped'
  BY <1>3 DEF PassesTyped, Stages
<1>5. ProcTyped'
  <2>1. CASE lowered'
    <3>1. Finish
      BY <1>1, <2>1 DEF low_func, Assign, Return, For, Copy, If, While, Case, Exit, Goto, Label,
        ThenDone, ElseDone, WhileDone, ForDone, BranchDone, NextBranch, Default, CaseDone,
        Statement, Resume
    <3>2. Final(M')
      BY <1>2, <3>1, FinishCloses
    <3>3. UNCHANGED <<cur_blk, lp_exit, lbl>> /\ DOMAIN M'.blks = DOMAIN M.blks
      BY <3>1 DEF Finish, Emit, EmitAll
    <3>4. PICK c : Good(M', c, {})
      BY <3>2 DEF Final
    <3>5. Blocks' = Blocks /\ \A b : Insts(b)' = Home(M', b)
      BY <3>3 DEF Blocks, Insts, Home
    <3>6. \A b \in Blocks' : \A k \in Insts(b)' : Range(Targets(M'.insts[k])) \subseteq Blocks'
      <4>1. Blocks' = DOMAIN M'.blks
        BY DEF Blocks
      <4> QED
        BY <3>4, <3>5, <4>1, GoodJumps
    <3>7. ProcTyped
      BY TypeParts DEF TypeInv
    <3> QED
      BY <3>3, <3>5, <3>6, <3>7 DEF ProcTyped, Targets
  <2>2. CASE ~ lowered'
    <3>1. LowInv'
      BY <1>1, <1>2, <2>2, LowStep
    <3>2. Shape(stack', lp_exit', lbl')
      BY <3>1 DEF LowInv
    <3>3. PICK P : Covered(M', cur_blk', P, Known(stack', lp_exit', lbl'))
      BY <3>1 DEF LowInv
    <3>4. /\ cur_blk' \in DOMAIN M'.blks /\ Range(lp_exit') \subseteq DOMAIN M'.blks
          /\ \A l \in Labels : lbl'[l] \in DOMAIN M'.blks \cup {0}
          /\ \A b \in DOMAIN M'.blks : \A k \in Home(M', b) :
               Range(Targets(M'.insts[k])) \subseteq DOMAIN M'.blks
      BY <3>2, <3>3, CoveredTypes
    <3>5. Blocks' = DOMAIN M'.blks /\ \A b : Insts(b)' = Home(M', b)
      BY DEF Blocks, Insts, Home
    <3> QED
      BY <3>4, <3>5 DEF ProcTyped, Targets
  <2> QED
    BY <2>1, <2>2
<1>6. TypeOK'
  BY <1>4, <1>5 DEF TypeOK, ProcTyped, PassesTyped
<1> QED
  BY <1>3, <1>6 DEF TypeInv

\* rewrite: a PHI leads nowhere, an instruction where it led before.
LEMMA NewTargets ==
  ASSUME Rewritable, ProcTyped, NEW b \in Blocks, NEW z \in Spot(b)
  PROVE  Range(Targets(After.insts[z])) \subseteq Blocks
<1>1. Final(M) /\ Typed
  BY DEF Rewritable, Typed
<1>2. PICK j \in 1 .. SizeOf(b) : z = FirstOf(b) + j - 1
  BY PlacesFacts
<1>3. z \in DOMAIN Order /\ Order[z] = NewCode(b)[j]
  BY <1>2, PlacesFacts
<1>4. After.insts[z] = NewInst(Order, Order[z])
  BY <1>3, AfterFacts
<1>5. Order[z] \in Range(NewCode(b))
  <2>1. DOMAIN NewCode(b) = 1 .. SizeOf(b)
    BY CodeFacts DEF SizeOf
  <2> QED
    BY <1>3, <2>1 DEF Range
<1>6. Order[z] \in {FakeId(p) : p \in {p \in DOMAIN phi : phi[p].blk = b}}
                     \cup (Home(M, b) \ repl.dead)
  BY <1>5, CodeFacts
<1> DEFINE x == Order[z]
<1> HIDE DEF x
<1>7. After.insts[z] = NewInst(Order, x)
  BY <1>4 DEF x
<1>8. \/ \E p \in DOMAIN phi : x = FakeId(p)
      \/ x \in Home(M, b)
  BY <1>6 DEF x
<1>9. Range(<<>>) = {}
  BY DEF Range
<1>10. ASSUME NEW p \in DOMAIN phi, x = FakeId(p)
       PROVE  Range(Targets(After.insts[z])) \subseteq Blocks
  <2>1. Targets(NewInst(Order, FakeId(p))) = <<>>
    BY <1>1, NewPhiFacts
  <2> QED
    BY <1>7, <1>9, <1>10, <2>1
<1>11. ASSUME x \in Home(M, b)
       PROVE  Range(Targets(After.insts[z])) \subseteq Blocks
  <2>1. x \in DOMAIN M.insts /\ x \in Insts(b)
    BY <1>1, <1>11, FinalParts
  <2>2. CASE IsFake(x)
    <3>1. NewInst(Order, x).op = "phi"
      BY <2>2 DEF NewInst, Inst
    <3>2. Targets(NewInst(Order, x)) = <<>>
      BY <3>1 DEF Targets
    <3> QED
      BY <1>7, <1>9, <3>2
  <2>3. CASE ~ IsFake(x)
    <3>1. Targets(NewInst(Order, x)) = Targets(M.insts[x])
      BY <1>1, <2>1, <2>3, NewInstFacts
    <3>2. Range(Targets(M.insts[x])) \subseteq Blocks
      BY <2>1 DEF ProcTyped
    <3> QED
      BY <1>7, <3>1, <3>2
  <2> QED
    BY <2>2, <2>3
<1> QED
  BY <1>8, <1>10, <1>11

LEMMA RewriteTyped ==
  ASSUME TypeInv, RenInv', rewrite, UNCHANGED runVars
  PROVE  TypeInv'
<1>1. /\ stage = "rewrite" /\ stage' = "done" /\ M' = After /\ old' = M
      /\ UNCHANGED <<cur_blk, lp_exit, lbl, pred, idom, at>>
  BY DEF rewrite, After, runVars
<1>2. Rewritable /\ Final(M) /\ ProcTyped /\ PassesTyped
  BY <1>1, TypeParts DEF TypeInv, RenInv, Rewritable, Typed
<1>3. /\ Blocks' = Blocks /\ \A b \in Blocks : Insts(b)' = Spot(b)
  <2>1. /\ DOMAIN After.blks = Blocks
        /\ \A b \in Blocks : After.blks[b].first = FirstOf(b) /\ After.blks[b].n_inst = SizeOf(b)
    BY <1>2, AfterFacts
  <2>2. \A b : Insts(b)' = M'.blks[b].first .. (M'.blks[b].first + M'.blks[b].n_inst - 1)
    BY DEF Insts
  <2>3. Blocks' = DOMAIN M'.blks
    BY DEF Blocks
  <2> QED
    BY <1>1, <2>1, <2>2, <2>3 DEF Spot
<1>4. \A b \in Blocks : \A z \in Spot(b) : Range(Targets(M'.insts[z])) \subseteq Blocks
  BY <1>1, <1>2, NewTargets
<1>5. ProcTyped'
  BY <1>1, <1>2, <1>3, <1>4 DEF ProcTyped, Targets
<1>6. PassesTyped'
  <2>1. at' \in Blocks \cup {None} /\ stage' \in Stages
    BY <1>1, <1>2 DEF PassesTyped, Stages
  <2> QED
    BY <1>1, <1>2, <1>3, <2>1, PassesKept
<1>7. TypeOK'
  BY <1>5, <1>6 DEF TypeOK, ProcTyped, PassesTyped
<1>8. Final(old') /\ DOMAIN old'.blks = Blocks'
  BY <1>1, <1>2, <1>3 DEF Blocks
<1> QED
  BY <1>1, <1>7, <1>8 DEF TypeInv

\* The run: a block leads to blocks of the procedure it was lowered to.
LEMMA RunTyped ==
  ASSUME TypeInv, RenInv', Start \/ Step
  PROVE  TypeInv'
<1>1. /\ stage \in {"done", "run"} /\ stage' = "run" /\ UNCHANGED lowVars
      /\ UNCHANGED <<pred, idom, old>>
  BY DEF Start, Begin, Step, m2rVars
<1>2. ProcTyped /\ PassesTyped /\ Final(old) /\ DOMAIN old.blks = Blocks
  BY <1>1, TypeParts DEF TypeInv
<1>3. ProcTyped' /\ Blocks' = Blocks
  BY <1>1, <1>2, ProcKept DEF lowVars
<1>4. PICK c : Good(old, c, {}) /\ 1 \in Handled(old, c, {})
  BY <1>2 DEF Final
<1>5. 1 \in Blocks
  BY <1>2, <1>4 DEF Handled
<1>6. at' \in Blocks \cup {None}
  <2>1. CASE Start
    BY <1>5, <2>1 DEF Start, Begin
  <2>2. CASE Step
    <3> DEFINE before == RunBlock(old, Identity(old), at, mem,
                                  [k \in DOMAIN old.insts |-> Undef])
    <3>1. at \in Blocks
      BY <1>2, <2>2 DEF Step, PassesTyped
    <3>2. Range(before.to) \subseteq Blocks
      BY <1>2, <1>4, <3>1, RunTargets
    <3>3. at' = None \/ at' \in Range(before.to)
      <4>1. \/ before.to = <<>> /\ at' = None
            \/ \E t \in Range(before.to) : at' = t
        BY <2>2, Zenon DEF Step
      <4> HIDE DEF before
      <4> QED
        BY <4>1
    <3> HIDE DEF before
    <3> QED
      BY <3>2, <3>3
  <2> QED
    BY <2>1, <2>2
<1>7. PassesTyped'
  <2>1. stage' \in Stages /\ pred' = pred /\ idom' = idom
    BY <1>1 DEF Stages
  <2> QED
    BY <1>2, <1>3, <1>6, <2>1, PassesKept
<1>8. TypeOK'
  BY <1>3, <1>7 DEF TypeOK, ProcTyped, PassesTyped
<1>9. Final(old') /\ DOMAIN old'.blks = Blocks'
  BY <1>1, <1>2, <1>3
<1> QED
  BY <1>1, <1>8, <1>9 DEF TypeInv

LEMMA TypeInvKept ==
  ASSUME TypeInv, [Next]_vars
  PROVE  TypeInv'
<1>1. RenInv /\ RenInv' /\ PassInv
  BY RenInvKept DEF TypeInv, RenInv
<1>2. CASE low_func /\ UNCHANGED <<m2rVars, runVars>>
  BY <1>1, <1>2, LowTyped
<1>3. CASE jir_m2r /\ UNCHANGED runVars
  <2>0. UNCHANGED at
    BY <1>3 DEF runVars
  <2>1. CASE mk_cfg
    <3>1. /\ lowered /\ stage = "cfg" /\ stage' = "prm" /\ UNCHANGED lowVars /\ UNCHANGED idom
          /\ pred' = [t \in Blocks |-> PredsOf(Edges, t)]
      BY <2>1 DEF mk_cfg, Pass
    <3>2. Final(M)
      BY <1>1, <3>1 DEF PassInv, ClosedInv
    <3> QED
      BY <1>1, <2>0, <3>1, <3>2, PassTyped DEF Stages
  <2>2. CASE fnd_prm
    <3>1. PICK t \in {"done", "rpo"} :
            Pass("prm", t) /\ UNCHANGED <<pred, idom>> /\ (t = "done" => old' = M)
      <4>1. \E found : /\ Pass("prm", IF found = <<>> THEN "done" ELSE "rpo")
                       /\ old' = IF found = <<>> THEN M ELSE old
                       /\ UNCHANGED <<pred, idom>>
        BY <2>2 DEF fnd_prm
      <4> QED
        BY <4>1
    <3>2. stage = "prm" /\ stage' = t /\ UNCHANGED lowVars
      BY <3>1 DEF Pass
    <3>3. CASE t = "rpo"
      BY <1>1, <2>0, <3>1, <3>2, <3>3, PassTyped DEF Stages
    <3>4. CASE t = "done"
      <4>1. Final(M) /\ old' = M /\ ProcTyped /\ PassesTyped
        BY <1>1, <3>1, <3>2, <3>4, TypeParts DEF PassInv, TypeInv
      <4>2. ProcTyped' /\ Blocks' = Blocks
        BY <3>2, <4>1, ProcKept DEF lowVars
      <4>3. PassesTyped'
        <5>1. at' \in Blocks \cup {None} /\ stage' \in Stages
          BY <2>0, <3>2, <3>4, <4>1 DEF PassesTyped, Stages
        <5> QED
          BY <3>1, <4>1, <4>2, <5>1, PassesKept
      <4>4. TypeOK'
        BY <4>2, <4>3 DEF TypeOK, ProcTyped, PassesTyped
      <4>5. Final(old') /\ DOMAIN old'.blks = Blocks'
        BY <4>1, <4>2 DEF Blocks
      <4> QED
        BY <1>1, <3>2, <3>4, <4>4, <4>5 DEF TypeInv
    <3> QED
      BY <3>3, <3>4
  <2>3. CASE mk_rpo
    BY <1>1, <2>0, <2>3, PassTyped DEF mk_rpo, Pass, Stages
  <2>4. CASE cmp_dom
    <3>1. stage = "dom" /\ stage' = "df" /\ UNCHANGED lowVars
      <4>1. Pass("dom", "df")
        BY <2>4, Zenon DEF cmp_dom
      <4> QED
        BY <4>1 DEF Pass
    <3>2. pred' = pred
      BY <2>4, Zenon DEF cmp_dom
    <3>3. idom' = IdomOf
      BY <2>4 DEF cmp_dom, IdomOf, FirstTree
    <3>4. Final(M) /\ pred = [t \in Blocks |-> PredsOf(Edges, t)] /\ rpo = RpoOf
      BY <1>1, <3>1 DEF PassInv
    <3>5. Graph /\ \A t \in Blocks : IsSeq(pred[t]) /\ Range(pred[t]) \subseteq Blocks
      BY <3>4, FinalGraph, PredsTyped
    <3>6. rpo \in Seq(Blocks)
      BY <3>4, <3>5, RpoRight
    <3>7. idom' \in [Blocks -> Blocks \cup {None}]
      BY <3>3, <3>5, <3>6, IdomTyped
    <3> QED
      BY <1>1, <2>0, <3>1, <3>2, <3>7, PassTyped DEF Stages
  <2>5. CASE cmp_df
    <3>1. Pass("df", "crashed") \/ Pass("df", "phi")
      BY <2>5 DEF cmp_df
    <3>2. UNCHANGED <<pred, idom>>
      BY <2>5 DEF cmp_df
    <3>3. UNCHANGED lowVars /\ stage' \in {"crashed", "phi"}
      BY <3>1 DEF Pass
    <3> QED
      BY <1>1, <2>0, <3>2, <3>3, PassTyped DEF Stages
  <2>6. CASE ins_phi
    BY <1>1, <2>0, <2>6, PassTyped DEF ins_phi, Pass, Stages
  <2>7. CASE ren_var
    BY <1>1, <2>0, <2>7, PassTyped DEF ren_var, Pass, Stages
  <2>8. CASE rewrite
    BY <1>1, <1>3, <2>8, RewriteTyped
  <2> QED
    BY <1>3, <2>1, <2>2, <2>3, <2>4, <2>5, <2>6, <2>7, <2>8 DEF jir_m2r
<1>4. CASE Start \/ Step
  BY <1>1, <1>4, RunTyped
<1>5. CASE UNCHANGED vars
  <2>1. UNCHANGED <<M, cur_blk, lp_exit, lbl, stage, pred, idom, old, at>>
    BY <1>5 DEF vars, lowVars, m2rVars, runVars
  <2>2. ProcTyped /\ PassesTyped
    BY TypeParts DEF TypeInv
  <2>3. ProcTyped' /\ Blocks' = Blocks
    BY <2>1, <2>2, ProcKept
  <2>4. PassesTyped'
    <3>1. at' \in Blocks \cup {None} /\ stage' \in Stages
      BY <2>1, <2>2 DEF PassesTyped
    <3> QED
      BY <2>1, <2>2, <2>3, <3>1, PassesKept
  <2>5. TypeOK'
    BY <2>3, <2>4 DEF TypeOK, ProcTyped, PassesTyped
  <2> QED
    BY <1>1, <2>1, <2>3, <2>5 DEF TypeInv
<1> QED
  BY <1>2, <1>3, <1>4, <1>5 DEF Next

\* Every block, operand and predecessor the passes leave behind is one of the
\* procedure's, and a run only enters such blocks: in every state, also where a
\* limit of jir_m2r takes something away.
THEOREM TypeOKAlways == Spec => []TypeOK
<1>1. Init => TypeInv
  BY InitTyped
<1>2. TypeInv /\ [Next]_vars => TypeInv'
  BY TypeInvKept
<1>3. TypeInv => TypeOK
  BY DEF TypeInv
<1> QED
  BY <1>1, <1>2, <1>3, PTL DEF Spec

---------------------------------------------------------------------------
(* fnd_prm and cmp_df: what the later passes read.                         *)

Found ==
  Prefix(Keep(Steps(Len(M.insts)), {a \in DOMAIN M.insts : Promotable(a)}), MaxVars)
\* The promoted variables are allocas behind the parameters'.
PvarRight ==
  /\ IsSeq(pvar) /\ IsInjective(pvar)
  /\ \A v \in DOMAIN pvar :
       pvar[v] \in DOMAIN M.insts /\ M.insts[pvar[v]].op = "alloca" /\ pvar[v] > NParams
LEMMA FoundRight ==
  ASSUME IsModule(M), NEW found, found = Found
  PROVE  /\ IsSeq(found) /\ IsInjective(found)
         /\ \A v \in DOMAIN found :
              found[v] \in DOMAIN M.insts /\ M.insts[found[v]].op = "alloca" /\ found[v] > NParams
<1> DEFINE P == {a \in DOMAIN M.insts : Promotable(a)}
           s == Steps(Len(M.insts))
           kept == Keep(s, P)
<1>1. Len(M.insts) \in Nat /\ DOMAIN M.insts = 1 .. Len(M.insts)
  BY Parts
<1>2. IsSeq(s) /\ IsInjective(s) /\ Range(s) = 1 .. Len(M.insts)
  BY <1>1, StepsFacts
<1>3. IsSeq(kept) /\ Range(kept) = Range(s) \cap P
  BY <1>2, KeepFacts
<1>4. IsInjective(kept)
  BY <1>2, KeepInjective
<1>5. MaxVars \in Nat /\ NParams \in 0 .. NVars /\ NVars \in Nat
  BY Mem2RegAssumption, LoweringAssumption
<1>6. found = Prefix(kept, MaxVars)
  BY DEF Found
<1> HIDE DEF kept, s
<1>7. IsSeq(found) /\ \A k \in DOMAIN found : k \in DOMAIN kept /\ found[k] = kept[k]
  BY <1>3, <1>5, <1>6, PrefixFacts
<1>8. IsInjective(found)
  BY <1>4, <1>7 DEF IsInjective
<1>9. ASSUME NEW v \in DOMAIN found
      PROVE  found[v] \in DOMAIN M.insts /\ M.insts[found[v]].op = "alloca" /\ found[v] > NParams
  <2> DEFINE a == found[v]
  <2>1. a \in P
    <3>1. kept[v] \in Range(kept) /\ a = kept[v]
      BY <1>7, <1>9 DEF Range
    <3> QED BY <3>1, <1>3
  <2>2. a \in DOMAIN M.insts /\ Promotable(a)
    BY <2>1
  <2>3. a \in Nat /\ a \in 1 .. a
    BY <2>2, <1>1
  <2> DEFINE B == {b \in 1 .. a : M.insts[b].op = "alloca"}
  <2>4. M.insts[a].op = "alloca" /\ Cardinality(B) > NParams
    BY <2>2 DEF Promotable
  <2>5. B \subseteq 1 .. a /\ IsFiniteSet(1 .. a) /\ Cardinality(1 .. a) = a
    <3>1. Cardinality(1 .. a) = IF 1 > a THEN 0 ELSE a - 1 + 1
      BY <2>3, FS_Interval
    <3> QED BY <3>1, <2>3, FS_Interval
  <2>6. Cardinality(B) <= a /\ Cardinality(B) \in Nat
    BY <2>5, FS_Subset, FS_CardinalityType
  <2> HIDE DEF a, B
  <2>7. a > NParams
    BY <2>3, <2>4, <2>6, <1>5
  <2> QED BY <2>2, <2>4, <2>7 DEF a
<1> QED BY <1>7, <1>8, <1>9

\* No branch leads to block 1, and so no PHI is put there.
LEMMA NoWayBack ==
  ASSUME Final(M), Laid(M), NEW b \in Blocks
  PROVE  1 \notin Range(Succs(b))
<1>1. CASE M.blks[b].n_inst = 0
  <2>1. Succs(b) = <<>> /\ Range(<<>>) = {}
    BY <1>1 DEF Succs, Range
  <2> QED BY <2>1
<1>2. CASE M.blks[b].n_inst # 0
  <2> DEFINE k == M.blks[b].first + M.blks[b].n_inst - 1
  <2>1. M.blks[b].first \in Nat \ {0} /\ M.blks[b].n_inst \in Nat /\ Home(M, b) \subseteq DOMAIN M.insts
    BY FinalParts
  <2>2. k \in Home(M, b)
    BY <2>1, <1>2 DEF Home
  <2>3. Succs(b) = Targets(M.insts[k])
    BY <1>2 DEF Succs, LastOf
  <2>4. Aimed(M.insts[k])
    BY <2>1, <2>2 DEF Laid
  <2> QED BY <2>3, <2>4 DEF Aimed, Leads
<1> QED BY <1>1, <1>2

LEMMA NoPredsOfFirst ==
  ASSUME Ready, Final(M), Laid(M)
  PROVE  Len(pred[1]) = 0
<1>1. 1 \in Blocks
  BY DEF Ready, Graph
<1>2. IsSeq(pred[1]) /\ \A p \in Range(pred[1]) : p \in Blocks /\ 1 \in Range(Succs(p))
  BY <1>1 DEF Ready
<1>3. Range(pred[1]) = {}
  BY <1>2, NoWayBack
<1>4. Len(pred[1]) \in Nat /\ DOMAIN pred[1] = 1 .. Len(pred[1])
  BY <1>2, DomainOfSeq
<1>5. \A k \in DOMAIN pred[1] : pred[1][k] \in Range(pred[1])
  BY DEF Range
<1> QED BY <1>3, <1>4, <1>5

\* The runner's way is a list of blocks, whichever block it starts from.
LEMMA RunnersList ==
  ASSUME AtTree, NEW b \in Blocks, NEW p \in Blocks
  PROVE  IsSeq(Runners(b, p))
<1> DEFINE V == Blocks \cup {None}
           S == {s \in Seq(V) : s # <<>>}
           n == Len(M.blks)
           Stop(x) == x = idom[b] \/ x = None \/ x = idom[x]
           Up(s) == IF Stop(Last(s)) THEN s ELSE Append(s, idom[Last(s)])
           it[k \in 0 .. n] == IF k = 0 THEN <<p>> ELSE Up(it[k - 1])
           path == Iterate(Up, <<p>>, n)
<1>1. n \in Nat /\ idom \in [Blocks -> V]
  BY NumFacts DEF AtTree, Ready, Graph, Tree
<1>2. ASSUME NEW s \in S
      PROVE  Up(s) \in S
  <2>1. s \in Seq(V) /\ s # <<>> /\ Len(s) \in Nat \ {0} /\ Last(s) \in V
    <3>1. s \in Seq(V) /\ s # <<>>
      BY <1>2
    <3>2. Len(s) \in Nat \ {0} /\ Last(s) = s[Len(s)]
      BY <3>1, SeqIsSeq, FrontAny
    <3>3. s[Len(s)] \in V
      BY <3>1, <3>2
    <3> QED BY <3>1, <3>2, <3>3
  <2>2. CASE Stop(Last(s))
    BY <2>2, <1>2
  <2>3. CASE ~ Stop(Last(s))
    <3>1. Last(s) \in Blocks
      BY <2>1, <2>3
    <3>2. idom[Last(s)] \in V
      BY <3>1, <1>1
    <3>3. Append(s, idom[Last(s)]) \in Seq(V) /\ Append(s, idom[Last(s)]) # <<>>
      BY <2>1, <3>2, SeqIsSeq, AppendAny
    <3> QED BY <3>3, <2>3
  <2> QED BY <2>2, <2>3
<1>3. <<p>> \in S
  BY DEF S
<1> DEFINE step == [k \in 1 .. n |-> [s \in S |-> Up(s)]]
           Is(f) == f = [k \in 0 .. n |-> IF k = 0 THEN <<p>> ELSE Up(f[k - 1])]
<1>4. \E f : Is(f) /\ \A k \in 0 .. n : f[k] \in S
  <2>1. \A k \in 1 .. n : \A x \in S : step[k][x] \in S
    BY <1>2
  <2> HIDE DEF Is
  <2>2. PICK f : Follows(f, n, <<p>>, step) /\ \A k \in 0 .. n : f[k] \in S
    <3> HIDE DEF S, step
    <3> QED BY <1>1, <1>3, <2>1, StepsWithin
  <2>3. Is(f)
    <3>1. f = [k \in 0 .. n |-> IF k = 0 THEN <<p>> ELSE step[k][f[k - 1]]]
      BY <2>2 DEF Follows
    <3>2. \A k \in 1 .. n : step[k][f[k - 1]] = Up(f[k - 1])
      <4> SUFFICES ASSUME NEW k \in 1 .. n PROVE step[k][f[k - 1]] = Up(f[k - 1])
        OBVIOUS
      <4>1. k - 1 \in 0 .. n
        BY <1>1
      <4>2. f[k - 1] \in S
        BY <4>1, <2>2
      <4> HIDE DEF S, Up
      <4> QED BY <4>2
    <3>3. \A k \in 0 .. n : k # 0 => k \in 1 .. n
      BY <1>1
    <3> HIDE DEF step, Up
    <3> QED BY <3>1, <3>2, <3>3 DEF Is
  <2> QED BY <2>2, <2>3
<1>5. it = CHOOSE g : Is(g)
  BY Zenon DEF it
<1>6. path = it[n]
  BY Zenon DEF path, Iterate
<1> HIDE DEF it, Is, S
<1>7. Is(it)
  BY <1>4, <1>5
<1>8. it[n] \in S
  <2> DEFINE T == [k \in 0 .. n |-> S]
  <2>1. it[0] = <<p>> /\ \A k \in 1 .. n : it[k] = Up(it[k - 1])
    <3>1. it = [k \in 0 .. n |-> IF k = 0 THEN <<p>> ELSE Up(it[k - 1])]
      BY <1>7 DEF Is
    <3>2. it[0] = <<p>>
      <4> HIDE DEF Up
      <4> QED BY <3>1, <1>1
    <3>3. ASSUME NEW k \in 1 .. n
          PROVE  it[k] = Up(it[k - 1])
      <4>1. k \in 0 .. n /\ k # 0
        BY <1>1
      <4> HIDE DEF Up, n
      <4> QED BY <3>1, <4>1
    <3> HIDE DEF Up, n
    <3> QED BY <3>2, <3>3
  <2>2. it[0] \in T[0]
    BY <2>1, <1>3, <1>1
  <2>3. \A k \in 1 .. n : it[k - 1] \in T[k - 1] => it[k] \in T[k]
    <3> SUFFICES ASSUME NEW k \in 1 .. n, it[k - 1] \in T[k - 1] PROVE it[k] \in T[k]
      OBVIOUS
    <3>1. k - 1 \in 0 .. n /\ k \in 0 .. n
      BY <1>1
    <3>2. it[k - 1] \in S
      BY <3>1
    <3>3. Up(it[k - 1]) \in S
      BY <3>2, <1>2
    <3> QED BY <3>1, <3>3, <2>1
  <2> HIDE DEF T
  <2>4. \A k \in 0 .. n : it[k] \in T[k]
    BY <1>1, <2>2, <2>3, StepsStay
  <2>5. n \in 0 .. n
    BY <1>1
  <2> QED BY <2>4, <2>5 DEF T
<1>9. IsSeq(path) /\ path # <<>>
  BY <1>6, <1>8, SeqIsSeq DEF S
<1>10. Runners(b, p) = IF Last(path) = idom[b] THEN Front(path) ELSE path
  BY Zenon DEF Runners
<1> HIDE DEF path
<1> QED BY <1>9, <1>10, FrontAny

LEMMA JoinTargets ==
  ASSUME AtTree, Final(M), Laid(M)
  PROVE  IsSeq(JoinRuns) /\ \A e \in Range(JoinRuns) : e[2] \in Blocks \ {1}
<1> DEFINE n == Len(M.blks)
           One(b, j) == LET up == Runners(b, pred[b][j]) IN [i \in DOMAIN up |-> <<up[i], b>>]
           All(b) == [j \in DOMAIN pred[b] |-> One(b, j)]
           Of(b) == IF Len(pred[b]) < 2 THEN <<>> ELSE FlattenSeq(All(b))
           ss == [b \in Blocks |-> Of(b)]
           Good1(e) == e[2] \in Blocks \ {1}
<1>1. n \in Nat /\ Blocks = 1 .. n /\ Ready
  BY DEF AtTree, Ready, Graph
<1>2. ASSUME NEW b \in Blocks
      PROVE  /\ IsSeq(pred[b]) /\ Len(pred[b]) \in Nat /\ DOMAIN pred[b] = 1 .. Len(pred[b])
             /\ \A p \in Range(pred[b]) : p \in Blocks
  <2>1. IsSeq(pred[b]) /\ \A p \in Range(pred[b]) : p \in Blocks
    BY <1>1 DEF Ready
  <2> QED BY <2>1, DomainOfSeq
<1>3. Len(pred[1]) = 0
  BY <1>1, NoPredsOfFirst
<1>4. ASSUME NEW b \in Blocks \ {1}, NEW j \in DOMAIN pred[b]
      PROVE  IsSeq(One(b, j)) /\ \A e \in Range(One(b, j)) : Good1(e)
  <2> DEFINE up == Runners(b, pred[b][j])
             u == One(b, j)
  <2>1. pred[b][j] \in Range(pred[b])
    BY DEF Range
  <2>2. IsSeq(up)
    BY <1>2, <2>1, RunnersList
  <2>3. Len(up) \in Nat /\ DOMAIN up = 1 .. Len(up)
    BY <2>2, DomainOfSeq
  <2>4. u = [i \in DOMAIN up |-> <<up[i], b>>]
    OBVIOUS
  <2> HIDE DEF up, u
  <2>5. u = [i \in 1 .. Len(up) |-> u[i]]
    BY <2>3, <2>4
  <2>6. IsSeq(u)
    BY <2>3, <2>5, FunctionIsSeq
  <2>7. \A e \in Range(u) : Good1(e)
    <3> SUFFICES ASSUME NEW i \in DOMAIN u PROVE Good1(u[i])
      BY DEF Range
    <3>1. u[i] = <<up[i], b>>
      BY <2>4
    <3> QED BY <3>1
  <2> QED BY <2>6, <2>7 DEF u
<1> HIDE DEF One, Good1
<1>5. ASSUME NEW b \in Blocks
      PROVE  IsSeq(Of(b)) /\ \A e \in Range(Of(b)) : Good1(e)
  <2>1. CASE Len(pred[b]) < 2
    <3>1. Of(b) = <<>> /\ Range(<<>>) = {}
      BY <2>1 DEF Range
    <3> HIDE DEF Of
    <3> QED BY <3>1, EmptyIsSeq
  <2>2. CASE ~ (Len(pred[b]) < 2)
    <3> DEFINE a == All(b)
    <3>0. b # 1
      BY <2>2, <1>3
    <3>1. Of(b) = FlattenSeq(a)
      BY <2>2
    <3>2. a = [j \in DOMAIN pred[b] |-> One(b, j)]
      OBVIOUS
    <3> HIDE DEF a, Of
    <3>3. a = [j \in 1 .. Len(pred[b]) |-> a[j]]
      BY <1>2, <3>2
    <3>4. IsSeq(a)
      BY <1>2, <3>3, FunctionIsSeq
    <3>5. \A j \in DOMAIN a : IsSeq(a[j]) /\ \A e \in Range(a[j]) : Good1(e)
      BY <1>4, <3>2, <3>0
    <3>6. IsSeq(FlattenSeq(a)) /\ Range(FlattenSeq(a)) = UNION {Range(a[j]) : j \in DOMAIN a}
      BY <3>4, <3>5, FlatRange
    <3> QED BY <3>1, <3>5, <3>6
  <2> QED BY <2>1, <2>2
<1>6. JoinRuns = FlattenSeq(ss)
  BY DEF JoinRuns, One
<1> HIDE DEF Of, n
<1>7. IsSeq(ss) /\ DOMAIN ss = 1 .. n
  <2>1. ss = [b \in 1 .. n |-> ss[b]]
    BY <1>1
  <2> HIDE DEF ss
  <2> QED BY <1>1, <2>1, FunctionIsSeq
<1>8. \A b \in DOMAIN ss : IsSeq(ss[b]) /\ \A e \in Range(ss[b]) : Good1(e)
  BY <1>5
<1> HIDE DEF ss
<1>9. IsSeq(FlattenSeq(ss)) /\ Range(FlattenSeq(ss)) = UNION {Range(ss[b]) : b \in DOMAIN ss}
  BY <1>7, <1>8, FlatRange
<1> QED BY <1>6, <1>8, <1>9 DEF Good1

\* The one buffer of cmp_df: what is read back for a block is in it.
Frontiers ==
  {d \in [buf : Seq(Blocks \ {1}), off : [Blocks -> Nat], cnt : [Blocks -> Nat]] :
     \A b \in Blocks : d.off[b] + d.cnt[b] <= Len(d.buf)}
LEMMA DfRange ==
  ASSUME NEW d \in Frontiers, NEW b \in Blocks
  PROVE  /\ IsSeq(DfOf(d, b)) /\ Range(DfOf(d, b)) \subseteq Blocks \ {1}
<1> DEFINE n == d.cnt[b]
           s == DfOf(d, b)
<1>1. n \in Nat /\ d.off[b] \in Nat /\ d.off[b] + n <= Len(d.buf) /\ d.buf \in Seq(Blocks \ {1})
  BY DEF Frontiers
<1>2. s = [k \in 1 .. n |-> d.buf[d.off[b] + k]]
  BY DEF DfOf
<1>3. ASSUME NEW k \in 1 .. n
      PROVE  s[k] \in Blocks \ {1}
  <2>1. Len(d.buf) \in Nat
    BY <1>1
  <2>2. d.off[b] + k \in 1 .. Len(d.buf)
    <3> HIDE DEF n
    <3> QED BY <1>1, <2>1
  <2>3. d.buf[d.off[b] + k] \in Blocks \ {1}
    BY <2>2, <1>1
  <2> HIDE DEF s, n
  <2> QED BY <1>2, <2>3
<1> HIDE DEF s, n
<1>4. s = [k \in 1 .. n |-> s[k]]
  BY <1>2
<1>5. IsSeq(s) /\ DOMAIN s = 1 .. n
  BY <1>1, <1>4, FunctionIsSeq
<1> QED BY <1>3, <1>5 DEF s, Range

LEMMA AddDfKeeps ==
  ASSUME NEW d \in Frontiers, NEW runner, NEW b \in Blocks \ {1}
  PROVE  AddDf(d, runner, b) \in Frontiers
<1>1. CASE b \in Range(DfOf(d, runner))
  BY <1>1 DEF AddDf
<1>2. CASE b \notin Range(DfOf(d, runner))
  <2> DEFINE off2 == IF d.cnt[runner] = 0 THEN [d.off EXCEPT ![runner] = Len(d.buf)] ELSE d.off
             cnt2 == [d.cnt EXCEPT ![runner] = @ + 1]
             buf2 == Append(d.buf, b)
             L == Len(d.buf)
  <2>1. /\ d.buf \in Seq(Blocks \ {1}) /\ L \in Nat
        /\ d.off \in [Blocks -> Nat] /\ d.cnt \in [Blocks -> Nat]
        /\ \A c \in Blocks : d.off[c] + d.cnt[c] <= L
    BY DEF Frontiers
  <2>2. buf2 \in Seq(Blocks \ {1}) /\ Len(buf2) = L + 1
    BY <2>1
  <2> HIDE DEF L
  <2>3. off2 \in [Blocks -> Nat]
    <3>1. [d.off EXCEPT ![runner] = Len(d.buf)] \in [Blocks -> Nat]
      BY <2>1 DEF L
    <3> QED BY <3>1, <2>1
  <2>4. cnt2 \in [Blocks -> Nat]
    <3>1. CASE runner \in Blocks
      <4>1. d.cnt[runner] + 1 \in Nat
        BY <3>1, <2>1
      <4> QED BY <4>1, <2>1
    <3>2. CASE runner \notin Blocks
      <4>1. cnt2 = d.cnt
        BY <3>2, <2>1
      <4> QED BY <4>1, <2>1
    <3> QED BY <3>1, <3>2
  <2>5. ASSUME NEW c \in Blocks
        PROVE  off2[c] + cnt2[c] <= L + 1
    <3>1. CASE c # runner
      <4>1. off2[c] = d.off[c] /\ cnt2[c] = d.cnt[c]
        BY <3>1, <2>1
      <4>2. d.off[c] \in Nat /\ d.cnt[c] \in Nat /\ d.off[c] + d.cnt[c] <= L
        BY <2>1
      <4> HIDE DEF off2, cnt2
      <4> QED BY <4>1, <4>2, <2>1
    <3>2. CASE c = runner
      <4>1. cnt2[c] = d.cnt[c] + 1
        BY <3>2, <2>1
      <4>2. d.off[c] \in Nat /\ d.cnt[c] \in Nat /\ d.off[c] + d.cnt[c] <= L
        BY <2>1
      <4>3. off2[c] = IF d.cnt[c] = 0 THEN L ELSE d.off[c]
        BY <3>2, <2>1 DEF L
      <4> HIDE DEF off2, cnt2
      <4> QED BY <4>1, <4>2, <4>3, <2>1
    <3> QED BY <3>1, <3>2
  <2>6. AddDf(d, runner, b) = [buf |-> buf2, off |-> off2, cnt |-> cnt2]
    BY <1>2 DEF AddDf, L
  <2> HIDE DEF buf2, off2, cnt2
  <2> QED BY <2>2, <2>3, <2>4, <2>5, <2>6 DEF Frontiers
<1> QED BY <1>1, <1>2

\* What cmp_df leaves when it is not stopped.
JoinFrontiers ==
  Through(LAMBDA d, r : AddDf(d, r[1], r[2]),
          [buf |-> <<>>, off |-> [b \in Blocks |-> 0], cnt |-> [b \in Blocks |-> 0]], JoinRuns)
LEMMA JoinFrontiersRight ==
  ASSUME AtTree, Final(M), Laid(M)
  PROVE  JoinFrontiers \in Frontiers
<1> DEFINE s == JoinRuns
           n == Len(s)
           S == Frontiers
           x0 == [buf |-> <<>>, off |-> [b \in Blocks |-> 0], cnt |-> [b \in Blocks |-> 0]]
           Do(d, r) == AddDf(d, r[1], r[2])
           step == [k \in 1 .. n |-> [d \in S |-> Do(d, s[k])]]
           Is(f) == f = [k \in 0 .. n |-> IF k = 0 THEN x0 ELSE Do(f[k - 1], s[k])]
           it[k \in 0 .. n] == IF k = 0 THEN x0 ELSE Do(it[k - 1], s[k])
<1>1. /\ IsSeq(s) /\ n \in Nat /\ DOMAIN s = 1 .. n
      /\ \A k \in 1 .. n : s[k][2] \in Blocks \ {1}
  <2>1. IsSeq(s) /\ \A e \in Range(s) : e[2] \in Blocks \ {1}
    BY JoinTargets
  <2>2. n \in Nat /\ DOMAIN s = 1 .. n
    BY <2>1, DomainOfSeq
  <2> QED BY <2>1, <2>2 DEF Range
<1>2. x0 \in S
  <2>1. [b \in Blocks |-> 0] \in [Blocks -> Nat] /\ <<>> \in Seq(Blocks \ {1})
    OBVIOUS
  <2>2. x0 \in [buf : Seq(Blocks \ {1}), off : [Blocks -> Nat], cnt : [Blocks -> Nat]]
    BY <2>1
  <2>3. \A b \in Blocks : x0.off[b] + x0.cnt[b] <= Len(x0.buf)
    <3>1. Len(<<>>) = 0
      BY EmptyIsSeq
    <3> QED BY <3>1
  <2> HIDE DEF x0
  <2> QED BY <2>2, <2>3 DEF Frontiers
<1>3. \A k \in 1 .. n : \A d \in S : Do(d, s[k]) \in S
  BY <1>1, AddDfKeeps
<1> HIDE DEF s, n, S, x0, Do
<1>4. \E f : Is(f) /\ \A k \in 0 .. n : f[k] \in S
  <2>1. \A k \in 1 .. n : \A x \in S : step[k][x] \in S
    BY <1>3
  <2> HIDE DEF Is
  <2>2. PICK f : Follows(f, n, x0, step) /\ \A k \in 0 .. n : f[k] \in S
    <3> HIDE DEF step
    <3> QED BY <1>1, <1>2, <2>1, StepsWithin
  <2>3. Is(f)
    <3>1. f = [k \in 0 .. n |-> IF k = 0 THEN x0 ELSE step[k][f[k - 1]]]
      BY <2>2 DEF Follows
    <3>2. \A k \in 1 .. n : step[k][f[k - 1]] = Do(f[k - 1], s[k])
      <4> SUFFICES ASSUME NEW k \in 1 .. n PROVE step[k][f[k - 1]] = Do(f[k - 1], s[k])
        OBVIOUS
      <4>1. k - 1 \in 0 .. n
        BY <1>1
      <4>2. f[k - 1] \in S
        BY <4>1, <2>2
      <4> QED BY <4>2
    <3>3. \A k \in 0 .. n : k # 0 => k \in 1 .. n
      BY <1>1
    <3> HIDE DEF step
    <3> QED BY <3>1, <3>2, <3>3 DEF Is
  <2> QED BY <2>2, <2>3
<1>5. it = CHOOSE g : Is(g)
  BY Zenon DEF it
<1>6. JoinFrontiers = it[n]
  BY Zenon DEF JoinFrontiers, Through, s, n, x0, Do
<1> HIDE DEF it, Is
<1>7. Is(it)
  BY <1>4, <1>5
<1> DEFINE T == [k \in 0 .. n |-> S]
<1>8. it[0] \in T[0] /\ \A k \in 1 .. n : it[k - 1] \in T[k - 1] => it[k] \in T[k]
  <2>1. it = [k \in 0 .. n |-> IF k = 0 THEN x0 ELSE Do(it[k - 1], s[k])]
    BY <1>7 DEF Is
  <2>2. it[0] \in T[0]
    BY <2>1, <1>2, <1>1
  <2>3. ASSUME NEW k \in 1 .. n, it[k - 1] \in T[k - 1]
        PROVE  it[k] \in T[k]
    <3>1. k - 1 \in 0 .. n /\ k \in 0 .. n /\ k # 0
      BY <1>1
    <3>2. it[k - 1] \in S
      BY <3>1, <2>3
    <3>3. it[k] = Do(it[k - 1], s[k])
      BY <2>1, <3>1
    <3>4. it[k] \in S
      BY <3>2, <3>3, <1>3
    <3> QED BY <3>1, <3>4
  <2> HIDE DEF T
  <2> QED BY <2>2, <2>3
<1> HIDE DEF T
<1>9. \A k \in 0 .. n : it[k] \in T[k]
  BY <1>1, <1>8, StepsStay
<1>10. n \in 0 .. n
  BY <1>1
<1> QED BY <1>6, <1>9, <1>10 DEF T, S

LEMMA ConcatInjective ==
  ASSUME NEW s, IsSeq(s), IsInjective(s), NEW t, IsSeq(t), IsInjective(t),
         Range(s) \cap Range(t) = {}
  PROVE  IsInjective(s \o t)
<1> DEFINE u == s \o t
           m == Len(s)
           n == Len(t)
<1>1. /\ m \in Nat /\ n \in Nat /\ DOMAIN s = 1 .. m /\ DOMAIN t = 1 .. n
      /\ IsSeq(u) /\ Len(u) = m + n /\ DOMAIN u = 1 .. m + n
      /\ \A k \in 1 .. m : u[k] = s[k]
      /\ \A k \in 1 .. n : u[m + k] = t[k]
  <2>1. IsSeq(u) /\ Len(u) = m + n /\ (\A k \in 1 .. m : u[k] = s[k])
        /\ (\A k \in 1 .. n : u[m + k] = t[k])
    BY ConcatAny
  <2>2. DOMAIN u = 1 .. Len(u)
    BY <2>1, DomainOfSeq
  <2> QED BY <2>1, <2>2, DomainOfSeq
<1> HIDE DEF u, m, n
<1>2. ASSUME NEW i \in 1 .. m + n
      PROVE  \/ i \in 1 .. m /\ u[i] = s[i] /\ u[i] \in Range(s)
             \/ i - m \in 1 .. n /\ u[i] = t[i - m] /\ u[i] \in Range(t)
  <2>1. CASE i <= m
    <3>1. i \in 1 .. m
      BY <2>1, <1>1
    <3> QED BY <3>1, <1>1 DEF Range
  <2>2. CASE ~ (i <= m)
    <3>1. i - m \in 1 .. n /\ m + (i - m) = i
      BY <2>2, <1>1
    <3>2. u[m + (i - m)] = t[i - m]
      BY <3>1, <1>1
    <3> QED BY <3>1, <3>2, <1>1 DEF Range
  <2> QED BY <2>1, <2>2
<1>3. ASSUME NEW i \in 1 .. m + n, NEW j \in 1 .. m + n, u[i] = u[j]
      PROVE  i = j
  <2>1. CASE i \in 1 .. m /\ u[i] = s[i] /\ u[i] \in Range(s)
    <3>1. u[j] \notin Range(t)
      BY <2>1, <1>3
    <3>2. j \in 1 .. m /\ u[j] = s[j]
      BY <3>1, <1>2
    <3> QED BY <2>1, <3>2, <1>1, <1>3 DEF IsInjective
  <2>2. CASE i - m \in 1 .. n /\ u[i] = t[i - m] /\ u[i] \in Range(t)
    <3>1. u[j] \notin Range(s)
      BY <2>2, <1>3
    <3>2. j - m \in 1 .. n /\ u[j] = t[j - m]
      BY <3>1, <1>2
    <3>3. i - m = j - m
      BY <2>2, <3>2, <1>1, <1>3 DEF IsInjective
    <3> QED BY <3>3, <1>1
  <2> QED BY <2>1, <2>2, <1>2
<1> QED BY <1>1, <1>3 DEF IsInjective, u

---------------------------------------------------------------------------
(* ins_phi: a block that stores to the variable, or has a PHI for it, has  *)
(* one in every block of its dominance frontier.                           *)

\* The work list of ins_phi for alloca a after k entries of it.
Spreading == [has : SUBSET (Blocks \ {1}), work : Seq(Blocks)]
SpreadInv(a, st, k) ==
  /\ IsInjective(st.work) /\ {b \in Blocks : StoresTo(b, a)} \subseteq Range(st.work)
  /\ st.has \subseteq Range(st.work)
  /\ \A j \in 1 .. k : j \in DOMAIN st.work => Range(DfOf(df, st.work[j])) \subseteq st.has
LEMMA SpreadKeeps ==
  ASSUME Graph, df \in Frontiers, NEW a, NEW st \in Spreading, NEW k \in Nat \ {0},
         SpreadInv(a, st, k - 1),
         NEW r, r = IF k \in DOMAIN st.work THEN Spread(st, st.work[k]) ELSE st
  PROVE  r \in Spreading /\ SpreadInv(a, r, k)
<1>1. /\ st.work \in Seq(Blocks) /\ IsSeq(st.work) /\ st.has \subseteq Blocks \ {1}
      /\ Len(st.work) \in Nat /\ DOMAIN st.work = 1 .. Len(st.work)
  <2>1. st.work \in Seq(Blocks) /\ st.has \subseteq Blocks \ {1}
    BY DEF Spreading
  <2> QED BY <2>1, SeqIsSeq, DomainOfSeq
<1>2. CASE k \notin DOMAIN st.work
  <2>1. r = st
    BY <1>2
  <2>2. \A j \in 1 .. k : j \in DOMAIN st.work => j \in 1 .. k - 1
    BY <1>2
  <2> QED BY <2>1, <2>2 DEF SpreadInv
<1>3. CASE k \in DOMAIN st.work
  <2> DEFINE b == st.work[k]
             R == Range(DfOf(df, b))
             new == R \ st.has
             add == Ascending(new \ Range(st.work))
             w == st.work \o add
  <2>1. b \in Blocks
    BY <1>1, <1>3
  <2>2. R \subseteq Blocks \ {1}
    BY <2>1, DfRange
  <2>3. r = [has |-> st.has \cup new, work |-> w]
    BY <1>3 DEF Spread
  <2>4. IsSeq(add) /\ Range(add) = Blocks \cap (new \ Range(st.work)) /\ IsInjective(add)
    BY AscendingFacts
  <2>5. Range(add) = new \ Range(st.work)
    BY <2>2, <2>4
  <2> HIDE DEF add, new, R, b
  <2>6. IsSeq(w) /\ Range(w) = Range(st.work) \cup Range(add)
    BY <1>1, <2>4, ConcatRange, ConcatAny
  <2>7. IsInjective(w)
    BY <1>1, <2>4, <2>5, ConcatInjective DEF SpreadInv
  <2>8. /\ Len(w) = Len(st.work) + Len(add) /\ \A j \in 1 .. Len(st.work) : w[j] = st.work[j]
    BY <1>1, <2>4, ConcatAny
  <2>9. Range(w) \subseteq Blocks
    <3>1. Range(st.work) \subseteq Blocks
      BY <1>1 DEF Range
    <3> QED BY <3>1, <2>6, <2>4
  <2>10. w \in Seq(Blocks)
    <3>1. w \in Seq(Range(w))
      BY <2>6 DEF IsSeq
    <3> HIDE DEF w
    <3> QED BY <3>1, <2>9
  <2>11. st.has \cup new = st.has \cup R
    BY DEF new
  <2>12. r \in Spreading
    <3>1. st.has \cup R \subseteq Blocks \ {1}
      BY <1>1, <2>2
    <3> HIDE DEF w
    <3> QED BY <3>1, <2>3, <2>10, <2>11 DEF Spreading
  <2>13. \A j \in 1 .. k : j \in DOMAIN w => Range(DfOf(df, w[j])) \subseteq st.has \cup R
    <3> SUFFICES ASSUME NEW j \in 1 .. k, j \in DOMAIN w
                 PROVE  Range(DfOf(df, w[j])) \subseteq st.has \cup R
      OBVIOUS
    <3>1. j \in 1 .. Len(st.work)
      BY <1>1, <1>3
    <3>2. w[j] = st.work[j]
      BY <2>8, <3>1
    <3>3. CASE j = k
      BY <3>2, <3>3 DEF R, b
    <3>4. CASE j # k
      <4>1. j \in 1 .. k - 1
        BY <3>4
      <4>2. Range(DfOf(df, st.work[j])) \subseteq st.has
        BY <4>1, <3>1, <1>1 DEF SpreadInv
      <4> QED BY <4>2, <3>2
    <3> QED BY <3>3, <3>4
  <2>14. st.has \cup new \subseteq Range(w)
    BY <2>5, <2>6 DEF SpreadInv
  <2>15. {c \in Blocks : StoresTo(c, a)} \subseteq Range(w)
    BY <2>6 DEF SpreadInv
  <2>16. SpreadInv(a, r, k)
    <3>1. r.has = st.has \cup R /\ r.has = st.has \cup new /\ r.work = w
      BY <2>3, <2>11
    <3> HIDE DEF w
    <3> QED BY <3>1, <2>7, <2>13, <2>14, <2>15 DEF SpreadInv
  <2> QED BY <2>12, <2>16
<1> QED BY <1>2, <1>3

\* A list of numbers up to n without repetition has at most n entries.
LEMMA InjectiveShort ==
  ASSUME NEW n \in Nat, NEW s \in Seq(1 .. n), IsInjective(s)
  PROVE  Len(s) <= n
<1>1. Len(s) \in Nat /\ DOMAIN s = 1 .. Len(s) /\ s \in [1 .. Len(s) -> 1 .. n]
  BY LenProperties
<1>2. s \in Injection(1 .. Len(s), 1 .. n)
  BY <1>1 DEF Injection, IsInjective
<1>3. /\ IsFiniteSet(1 .. n) /\ Cardinality(1 .. n) = n
      /\ IsFiniteSet(1 .. Len(s)) /\ Cardinality(1 .. Len(s)) = Len(s)
  <2>1. ASSUME NEW m \in Nat
        PROVE  IsFiniteSet(1 .. m) /\ Cardinality(1 .. m) = m
    <3>1. IsFiniteSet(1 .. m) /\ Cardinality(1 .. m) = IF 1 > m THEN 0 ELSE m - 1 + 1
      BY FS_Interval
    <3> QED BY <3>1
  <2> QED BY <2>1, <1>1
<1>4. Cardinality(1 .. Len(s)) <= Cardinality(1 .. n)
  BY <1>2, <1>3, FS_Injection
<1> QED BY <1>3, <1>4

LEMMA PhiBlocksRight ==
  ASSUME Graph, df \in Frontiers, NEW a
  PROVE  /\ PhiBlocks(a) \subseteq Blocks \ {1}
         /\ \A b \in Blocks :
              StoresTo(b, a) \/ b \in PhiBlocks(a) => Range(DfOf(df, b)) \subseteq PhiBlocks(a)
<1> DEFINE n == Len(M.blks)
           stores == {b \in Blocks : StoresTo(b, a)}
           x0 == [has |-> {}, work |-> Ascending(stores)]
           s == Steps(n)
           Do(st, k) == IF k \in DOMAIN st.work THEN Spread(st, st.work[k]) ELSE st
           T == [k \in 0 .. n |-> {st \in Spreading : SpreadInv(a, st, k)}]
           step == [k \in 1 .. n |-> [st \in Spreading |-> Do(st, s[k])]]
           Is(f) == f = [k \in 0 .. Len(s) |-> IF k = 0 THEN x0 ELSE Do(f[k - 1], s[k])]
           it[k \in 0 .. Len(s)] == IF k = 0 THEN x0 ELSE Do(it[k - 1], s[k])
<1>1. n \in Nat /\ Blocks = 1 .. n
  BY DEF Graph
<1>2. Len(s) = n /\ \A k \in 1 .. n : s[k] = k
  BY <1>1, StepsFacts
<1>3. x0 \in T[0]
  <2> DEFINE w == Ascending(stores)
  <2>1. IsSeq(w) /\ Range(w) = Blocks \cap stores /\ IsInjective(w)
    BY AscendingFacts
  <2>2. w \in Seq(Blocks)
    <3>1. w \in Seq(Range(w))
      BY <2>1 DEF IsSeq
    <3> HIDE DEF w
    <3> QED BY <3>1, <2>1
  <2> HIDE DEF w
  <2>3. [has |-> {}, work |-> w] \in Spreading
    BY <2>2 DEF Spreading
  <2>4. SpreadInv(a, [has |-> {}, work |-> w], 0)
    BY <2>1 DEF SpreadInv
  <2> QED BY <1>1, <2>3, <2>4 DEF w
<1>4. \A k \in 1 .. n : \A st \in T[k - 1] : Do(st, s[k]) \in T[k]
  <2> SUFFICES ASSUME NEW k \in 1 .. n, NEW st \in T[k - 1]
               PROVE  Do(st, s[k]) \in T[k]
    OBVIOUS
  <2>1. k \in Nat \ {0} /\ k \in 0 .. n /\ k - 1 \in 0 .. n /\ s[k] = k
    BY <1>1, <1>2
  <2>2. st \in Spreading /\ SpreadInv(a, st, k - 1)
    BY <2>1
  <2>3. Do(st, k) \in Spreading /\ SpreadInv(a, Do(st, k), k)
    BY <2>1, <2>2, SpreadKeeps
  <2> HIDE DEF Do
  <2> QED BY <2>1, <2>3
<1>5. \A k \in 1 .. n : \A st \in T[k - 1] : step[k][st] = Do(st, s[k])
  <2> SUFFICES ASSUME NEW k \in 1 .. n, NEW st \in T[k - 1]
               PROVE  step[k][st] = Do(st, s[k])
    OBVIOUS
  <2>1. k - 1 \in 0 .. n
    BY <1>1
  <2>2. st \in Spreading
    BY <2>1
  <2> HIDE DEF Do, s
  <2> QED BY <2>2
<1> HIDE DEF T, step, Do, s, n, x0
<1>6. \E f : Is(f) /\ \A k \in 0 .. n : f[k] \in T[k]
  <2>1. PICK f : Follows(f, n, x0, step) /\ \A k \in 0 .. n : f[k] \in T[k]
    <3>1. \A k \in 1 .. n : \A st \in T[k - 1] : step[k][st] \in T[k]
      BY <1>4, <1>5
    <3> QED BY <1>1, <1>3, <3>1, StepsExist
  <2>2. f = [k \in 0 .. n |-> IF k = 0 THEN x0 ELSE step[k][f[k - 1]]]
    BY <2>1 DEF Follows
  <2>3. \A k \in 1 .. n : step[k][f[k - 1]] = Do(f[k - 1], s[k])
    <3> SUFFICES ASSUME NEW k \in 1 .. n PROVE step[k][f[k - 1]] = Do(f[k - 1], s[k])
      OBVIOUS
    <3>1. k - 1 \in 0 .. n
      BY <1>1
    <3> QED BY <3>1, <2>1, <1>5
  <2>4. \A k \in 0 .. n : k # 0 => k \in 1 .. n
    BY <1>1
  <2>5. Is(f)
    BY <2>2, <2>3, <2>4, <1>2
  <2> QED BY <2>1, <2>5
<1>7. it = CHOOSE g : Is(g)
  BY Zenon DEF it
<1>8. PhiBlocks(a) = it[Len(s)].has
  BY Zenon DEF PhiBlocks, Through, s, n, x0, Do, stores
<1> HIDE DEF it
<1>9. Is(it)
  <2> HIDE DEF Is
  <2> QED BY <1>6, <1>7
<1>10. it[0] \in T[0] /\ \A k \in 1 .. n : it[k - 1] \in T[k - 1] => it[k] \in T[k]
  <2>1. it = [k \in 0 .. n |-> IF k = 0 THEN x0 ELSE Do(it[k - 1], s[k])]
    BY <1>9, <1>2
  <2>2. it[0] \in T[0]
    BY <2>1, <1>3, <1>1
  <2>3. ASSUME NEW k \in 1 .. n, it[k - 1] \in T[k - 1]
        PROVE  it[k] \in T[k]
    <3>1. k \in 0 .. n /\ k # 0
      BY <1>1
    <3>2. it[k] = Do(it[k - 1], s[k])
      BY <2>1, <3>1
    <3> QED BY <2>3, <3>2, <1>4
  <2> QED BY <2>2, <2>3
<1>11. \A k \in 0 .. n : it[k] \in T[k]
  BY <1>1, <1>10, StepsStay
<1>12. it[n] \in Spreading /\ SpreadInv(a, it[n], n)
  <2>1. n \in 0 .. n
    BY <1>1
  <2> QED BY <2>1, <1>11 DEF T
<1> DEFINE e == it[n]
           H == PhiBlocks(a)
<1>13. H = e.has /\ e \in Spreading /\ SpreadInv(a, e, n)
  BY <1>8, <1>2, <1>12
<1> HIDE DEF e, H
<1>14. e.work \in Seq(1 .. n) /\ e.has \subseteq Blocks \ {1} /\ IsInjective(e.work)
  BY <1>13, <1>1 DEF Spreading, SpreadInv
<1>15. Len(e.work) \in Nat /\ DOMAIN e.work = 1 .. Len(e.work) /\ Len(e.work) <= n
  BY <1>14, <1>1, InjectiveShort
<1>16. ASSUME NEW b \in Blocks, StoresTo(b, a) \/ b \in H
       PROVE  Range(DfOf(df, b)) \subseteq H
  <2>1. b \in Range(e.work)
    BY <1>13, <1>16 DEF SpreadInv
  <2>2. PICK j \in DOMAIN e.work : e.work[j] = b
    BY <2>1 DEF Range
  <2>3. j \in 1 .. n
    BY <1>15, <1>1
  <2> QED BY <2>2, <2>3, <1>13 DEF SpreadInv
<1> QED BY <1>13, <1>14, <1>16 DEF H

HasPhi(ph, b, v) == \E p \in DOMAIN ph : ph[p].blk = b /\ ph[p].var = v
PhisSpread(ph) ==
  /\ \A p \in DOMAIN ph : ph[p].blk # 1
  /\ \A v \in DOMAIN pvar : \A b \in Blocks :
       StoresTo(b, pvar[v]) \/ HasPhi(ph, b, v) =>
         \A c \in Range(DfOf(df, b)) : HasPhi(ph, c, v)
LEMMA NewPhisSpread ==
  ASSUME Graph, IsSeq(pvar), df \in Frontiers
  PROVE  PhisSpread(NewPhis)
<1> DEFINE asc(v) == Ascending(PhiBlocks(pvar[v]))
           new(v, k) == [blk |-> asc(v)[k], var |-> v,
                         ops |-> [p \in DOMAIN pred[asc(v)[k]] |-> None]]
           of(v) == [k \in DOMAIN asc(v) |-> new(v, k)]
           ss == [v \in DOMAIN pvar |-> of(v)]
           ph == NewPhis
<1>1. ASSUME NEW v \in DOMAIN pvar
      PROVE  /\ IsSeq(of(v))
             /\ \A r \in Range(of(v)) : r.var = v /\ r.blk \in PhiBlocks(pvar[v])
             /\ \A b \in PhiBlocks(pvar[v]) : \E r \in Range(of(v)) : r.var = v /\ r.blk = b
  <2> DEFINE s == asc(v)
  <2>1. IsSeq(s) /\ DOMAIN s = 1 .. Len(s) /\ Len(s) \in Nat /\ Range(s) = Blocks \cap PhiBlocks(pvar[v])
    BY AscendingFacts
  <2>2. PhiBlocks(pvar[v]) \subseteq Blocks \ {1}
    BY PhiBlocksRight
  <2>3. Range(s) = PhiBlocks(pvar[v])
    BY <2>1, <2>2
  <2>4. /\ DOMAIN of(v) = 1 .. Len(s) /\ of(v) = [k \in 1 .. Len(s) |-> of(v)[k]]
        /\ \A k \in 1 .. Len(s) : of(v)[k].var = v /\ of(v)[k].blk = s[k]
    BY <2>1
  <2> HIDE DEF of, asc
  <2>5. IsSeq(of(v))
    BY <2>1, <2>4, FunctionIsSeq
  <2> QED BY <2>1, <2>3, <2>4, <2>5 DEF Range
<1>2. ph = FlattenSeq(ss)
  BY DEF NewPhis
<1> HIDE DEF of
<1>3. IsSeq(ss) /\ DOMAIN ss = DOMAIN pvar /\ \A v \in DOMAIN pvar : ss[v] = of(v)
  <2>1. Len(pvar) \in Nat /\ DOMAIN pvar = 1 .. Len(pvar)
    BY DomainOfSeq
  <2>2. ss = [v \in 1 .. Len(pvar) |-> ss[v]] /\ DOMAIN ss = DOMAIN pvar
        /\ \A v \in DOMAIN pvar : ss[v] = of(v)
    BY <2>1
  <2> HIDE DEF ss
  <2> QED BY <2>1, <2>2, FunctionIsSeq
<1> HIDE DEF ss
<1>4. IsSeq(FlattenSeq(ss)) /\ Range(FlattenSeq(ss)) = UNION {Range(ss[v]) : v \in DOMAIN ss}
  BY <1>1, <1>3, FlatRange
<1> HIDE DEF ph
<1>5. IsSeq(ph) /\ Range(ph) = UNION {Range(of(v)) : v \in DOMAIN pvar}
  BY <1>2, <1>3, <1>4
<1>6. \A b, v : HasPhi(ph, b, v) <=> \E r \in Range(ph) : r.blk = b /\ r.var = v
  BY DEF HasPhi, Range
<1>7. ASSUME NEW v \in DOMAIN pvar, NEW b
      PROVE  HasPhi(ph, b, v) <=> b \in PhiBlocks(pvar[v])
  <2>1. ASSUME HasPhi(ph, b, v) PROVE b \in PhiBlocks(pvar[v])
    <3>1. PICK r \in Range(ph) : r.blk = b /\ r.var = v
      BY <2>1, <1>6
    <3>2. PICK w \in DOMAIN pvar : r \in Range(of(w))
      BY <3>1, <1>5
    <3> QED BY <3>1, <3>2, <1>1
  <2>2. ASSUME b \in PhiBlocks(pvar[v]) PROVE HasPhi(ph, b, v)
    <3>1. PICK r \in Range(of(v)) : r.var = v /\ r.blk = b
      BY <2>2, <1>1
    <3>2. r \in Range(ph)
      BY <1>5
    <3> QED BY <3>1, <3>2, <1>6
  <2> QED BY <2>1, <2>2
<1>8. ASSUME NEW p \in DOMAIN ph PROVE ph[p].blk # 1
  <2>1. ph[p] \in Range(ph)
    BY DEF Range
  <2>2. PICK w \in DOMAIN pvar : ph[p] \in Range(of(w))
    BY <2>1, <1>5
  <2>3. ph[p].blk \in PhiBlocks(pvar[w])
    BY <2>2, <1>1
  <2> QED BY <2>3, PhiBlocksRight
<1>9. ASSUME NEW v \in DOMAIN pvar, NEW b \in Blocks,
             StoresTo(b, pvar[v]) \/ HasPhi(ph, b, v), NEW c \in Range(DfOf(df, b))
      PROVE  HasPhi(ph, c, v)
  <2>1. StoresTo(b, pvar[v]) \/ b \in PhiBlocks(pvar[v])
    BY <1>7, <1>9
  <2>2. c \in PhiBlocks(pvar[v])
    BY <2>1, PhiBlocksRight
  <2> QED BY <2>2, <1>7
<1> QED BY <1>8, <1>9 DEF PhisSpread, ph
=============================================================================
