--------------------------- MODULE Mem2RegProofs ---------------------------
(***************************************************************************)
(* Proofs that cmp_dom finds the immediate dominator of every reachable    *)
(* block, for every procedure, and that only an unreachable predecessor    *)
(* makes cmp_df run out of its tables.  At the end, facts about sequences  *)
(* and dominance that the modules on top of this one use.                  *)
(***************************************************************************)
EXTENDS LoweringProofs

---------------------------------------------------------------------------
(* The entries of a sequence that are in a set.                            *)

LEMMA AppendRange ==
  ASSUME NEW s, IsSeq(s), NEW x
  PROVE  Range(Append(s, x)) = Range(s) \cup {x}
<1> DEFINE t == Append(s, x)
           n == Len(s)
<1>1. n \in Nat /\ DOMAIN s = 1 .. n
  BY DomainOfSeq
<1>2. /\ IsSeq(t) /\ Len(t) = n + 1
      /\ \A k \in 1 .. n : t[k] = s[k]
      /\ t[n + 1] = x
  BY AppendAny
<1> HIDE DEF t, n
<1>3. DOMAIN t = 1 .. n + 1
  BY <1>2, DomainOfSeq
<1>4. 1 .. n + 1 = (1 .. n) \cup {n + 1}
  BY <1>1
<1>5. Range(t) = Range(s) \cup {x}
  BY <1>1, <1>2, <1>3, <1>4 DEF Range
<1> QED
  BY <1>5 DEF t

LEMMA KeepFacts ==
  ASSUME NEW s, IsSeq(s), NEW U
  PROVE  /\ IsSeq(Keep(s, U)) /\ Len(Keep(s, U)) <= Len(s)
         /\ Range(Keep(s, U)) = Range(s) \cap U
<1> DEFINE n == Len(s)
           X == Range(s)
           Upto(k) == {s[i] : i \in 1 .. k}
           More(r, k) == IF s[k] \in U THEN Append(r, s[k]) ELSE r
           T == [k \in 0 .. n |-> {r \in Seq(X) : Len(r) <= k /\ Range(r) = Upto(k) \cap U}]
           step == [k \in 1 .. n |-> [r \in Seq(X) |-> More(r, k)]]
           Is(f) == f = [k \in 0 .. n |-> IF k = 0 THEN <<>>
                           ELSE IF s[k] \in U THEN Append(f[k - 1], s[k]) ELSE f[k - 1]]
<1>1. n \in Nat /\ DOMAIN s = 1 .. n /\ \A k \in 1 .. n : s[k] \in X
  BY DomainOfSeq DEF Range
<1>2. X = Upto(n)
  BY <1>1 DEF Range
<1> HIDE DEF n, X
<1>3. ASSUME NEW k \in 1 .. n, NEW r \in T[k - 1]
      PROVE  More(r, k) \in T[k]
  <2>1. k - 1 \in 0 .. n /\ k \in 0 .. n /\ k \in Int
    BY <1>1
  <2>2. r \in Seq(X) /\ Len(r) <= k - 1 /\ Range(r) = Upto(k - 1) \cap U
    <3> HIDE DEF Upto
    <3> QED
      BY <2>1
  <2>3. Upto(k) = Upto(k - 1) \cup {s[k]}
    <3>1. 1 .. k = (1 .. (k - 1)) \cup {k}
      BY <1>1
    <3> QED
      BY <3>1
  <2>4. IsSeq(r) /\ Len(r) \in Nat
    BY <2>2, SeqIsSeq, LenProperties
  <2>5. CASE s[k] \in U
    <3>1. Append(r, s[k]) \in Seq(X) /\ Len(Append(r, s[k])) = Len(r) + 1
      BY <1>1, <2>2, AppendProperties
    <3>2. Range(Append(r, s[k])) = Range(r) \cup {s[k]}
      BY <2>4, AppendRange
    <3>3. Len(Append(r, s[k])) <= k
      BY <2>1, <2>2, <2>4, <3>1
    <3>4. Range(Append(r, s[k])) = Upto(k) \cap U
      <4> HIDE DEF Upto
      <4> QED
        BY <2>2, <2>3, <2>5, <3>2
    <3>5. Append(r, s[k]) \in T[k]
      <4> HIDE DEF Upto
      <4> QED
        BY <2>1, <3>1, <3>3, <3>4
    <3> QED
      BY <2>5, <3>5
  <2>6. CASE s[k] \notin U
    <3>1. Len(r) <= k
      BY <2>1, <2>2, <2>4
    <3>2. Range(r) = Upto(k) \cap U
      <4> HIDE DEF Upto
      <4> QED
        BY <2>2, <2>3, <2>6
    <3>3. r \in T[k]
      <4> HIDE DEF Upto
      <4> QED
        BY <2>1, <2>2, <3>1, <3>2
    <3> QED
      BY <2>6, <3>3
  <2> QED
    BY <2>5, <2>6
<1>4. <<>> \in T[0]
  <2>1. Range(<<>>) = {} /\ Upto(0) = {} /\ Len(<<>>) = 0 /\ <<>> \in Seq(X) /\ 0 \in 0 .. n
    BY <1>1 DEF Range
  <2> HIDE DEF Upto
  <2> QED
    BY <2>1
<1>5. \A k \in 0 .. n : T[k] \subseteq Seq(X)
  OBVIOUS
<1> HIDE DEF T, Upto
<1>6. \E f : Is(f)
  <2>1. \A k \in 1 .. n : \A r \in T[k - 1] : step[k][r] \in T[k]
    <3> SUFFICES ASSUME NEW k \in 1 .. n, NEW r \in T[k - 1] PROVE step[k][r] \in T[k]
      OBVIOUS
    <3>1. k - 1 \in 0 .. n
      BY <1>1
    <3>2. r \in Seq(X)
      BY <1>5, <3>1
    <3> HIDE DEF More
    <3> QED
      BY <1>3, <3>2
  <2> HIDE DEF step
  <2>2. PICK f : Follows(f, n, <<>>, step) /\ \A k \in 0 .. n : f[k] \in T[k]
    BY <1>1, <1>4, <2>1, StepsExist
  <2>3. ASSUME NEW k \in 1 .. n
        PROVE  step[k][f[k - 1]] = IF s[k] \in U THEN Append(f[k - 1], s[k]) ELSE f[k - 1]
    <3>1. k - 1 \in 0 .. n
      BY <1>1
    <3>2. f[k - 1] \in Seq(X)
      BY <1>5, <2>2, <3>1
    <3> QED
      BY <3>2 DEF step
  <2>4. \A k \in 0 .. n : k # 0 => k \in 1 .. n
    BY <1>1
  <2>5. Is(f)
    BY <2>2, <2>3, <2>4 DEF Follows
  <2> QED
    BY <2>5
<1> DEFINE it == CHOOSE f : Is(f)
<1>7. Is(it)
  <2> HIDE DEF Is
  <2> QED
    BY <1>6
<1>8. Keep(s, U) = it[n]
  BY Zenon DEF Keep, n
<1> HIDE DEF it
<1>9. it[n] \in T[n]
  <2>1. ASSUME NEW k \in 1 .. n, it[k - 1] \in T[k - 1]
        PROVE  it[k] \in T[k]
    <3>1. k \in 0 .. n /\ k # 0
      BY <1>1
    <3>2. it[k] = More(it[k - 1], k)
      BY <1>7, <3>1
    <3> HIDE DEF More
    <3> QED
      BY <1>3, <2>1, <3>2
  <2>2. it[0] = <<>>
    BY <1>1, <1>7
  <2>3. \A k \in 0 .. n : it[k] \in T[k]
    <3> HIDE DEF Is
    <3> QED
      BY <1>1, <1>4, <2>1, <2>2, StepsStay
  <2> QED
    BY <1>1, <2>3
<1>10. n \in 0 .. n
  BY <1>1
<1>11. Keep(s, U) \in Seq(X) /\ Len(Keep(s, U)) <= n /\ Range(Keep(s, U)) = Upto(n) \cap U
  BY <1>8, <1>9, <1>10 DEF T
<1> QED
  BY <1>2, <1>11, SeqIsSeq DEF n, X

---------------------------------------------------------------------------
(* The graph of the blocks.                                                *)

Graph ==
  /\ Len(M.blks) \in Nat /\ Blocks = 1 .. Len(M.blks) /\ 1 \in Blocks
  /\ \A b \in Blocks :
       IsSeq(Succs(b)) /\ Len(Succs(b)) <= 2 /\ Range(Succs(b)) \subseteq Blocks

LEMMA TargetsShort ==
  ASSUME NEW I
  PROVE  IsSeq(Targets(I)) /\ Len(Targets(I)) <= 2
<1> DEFINE x == I.ops[1]
           y == I.ops[2]
           z == I.ops[3]
<1>1. IsSeq(<<x>>) /\ Len(<<x>>) = 1
  <2>1. <<x>> \in Seq({x})
    OBVIOUS
  <2> QED
    BY <2>1, SeqIsSeq
<1>2. IsSeq(<<y, z>>) /\ Len(<<y, z>>) = 2
  <2>1. <<y, z>> \in Seq({y, z})
    OBVIOUS
  <2> QED
    BY <2>1, SeqIsSeq
<1> HIDE DEF x, y, z
<1>3. Targets(I) = <<x>> \/ Targets(I) = <<y, z>> \/ Targets(I) = <<>>
  <2>1. CASE I.op = "br"
    BY <2>1 DEF Targets, x
  <2>2. CASE I.op = "br_cond"
    BY <2>2 DEF Targets, y, z
  <2>3. CASE I.op # "br" /\ I.op # "br_cond"
    BY <2>3 DEF Targets
  <2> QED
    BY <2>1, <2>2, <2>3
<1>4. 1 <= 2 /\ 2 <= 2 /\ 0 <= 2
  OBVIOUS
<1> DEFINE short == {<<x>>, <<y, z>>, <<>>}
<1>5. \A t \in short : IsSeq(t) /\ Len(t) <= 2
  BY <1>1, <1>2, <1>4, EmptyIsSeq, Zenon
<1> QED
  BY <1>3, <1>5

LEMMA FinalGraph ==
  ASSUME Final(M)
  PROVE  Graph
<1>1. PICK c : Good(M, c, {}) /\ 1 \in Handled(M, c, {})
  BY DEF Final
<1>2. /\ IsModule(M) /\ Within(M) /\ Jumps(M) \subseteq Handled(M, c, {})
      /\ Handled(M, c, {}) \subseteq DOMAIN M.blks
  BY <1>1 DEF Good, Handled
<1>3. Len(M.blks) \in Nat /\ Blocks = 1 .. Len(M.blks) /\ 1 \in Blocks
  BY <1>1, <1>2, Parts DEF Blocks
<1>4. ASSUME NEW b \in Blocks
      PROVE  IsSeq(Succs(b)) /\ Len(Succs(b)) <= 2 /\ Range(Succs(b)) \subseteq Blocks
  <2>1. CASE M.blks[b].n_inst = 0
    <3>1. Succs(b) = <<>>
      BY <2>1 DEF Succs
    <3>2. Range(<<>>) = {}
      BY DEF Range
    <3> QED
      BY <3>1, <3>2, EmptyIsSeq
  <2>2. CASE M.blks[b].n_inst # 0
    <3>1. /\ M.blks[b].first \in Nat \ {0} /\ M.blks[b].n_inst \in Nat
          /\ DOMAIN M.insts = 1 .. Len(M.insts) /\ Len(M.insts) \in Nat
          /\ b \in DOMAIN M.blks
      BY <1>2, Parts DEF Blocks
    <3>2. M.blks[b].first + M.blks[b].n_inst - 1 <= Len(M.insts)
      BY <1>2, <2>2, <3>1 DEF Within
    <3>3. M.blks[b].first + M.blks[b].n_inst - 1 \in DOMAIN M.insts
      BY <2>2, <3>1, <3>2
    <3>4. Leads(LastOf(M, b)) \subseteq Blocks
      BY <1>2, <3>3 DEF Jumps, LastOf, Blocks
    <3>5. Succs(b) = Targets(LastOf(M, b))
      BY <2>2 DEF Succs
    <3> QED
      BY <3>4, <3>5, TargetsShort DEF Leads
  <2> QED
    BY <2>1, <2>2
<1> QED
  BY <1>3, <1>4 DEF Graph

\* A set of blocks that branches only leave to the blocks avoided.
ClosedUnder(S, av) == \A b \in S : Range(Succs(b)) \ av \subseteq S

LEMMA ReachedWithin ==
  ASSUME Graph, NEW av, NEW C \in SUBSET Blocks, 1 \in C, ClosedUnder(C, av)
  PROVE  1 \in Reached(av) /\ Reached(av) \subseteq C /\ ClosedUnder(Reached(av), av)
<1> DEFINE n == Len(M.blks)
           Add(S) == S \cup ((UNION {Range(Succs(b)) : b \in S}) \ av)
           Many(S, k) == Cardinality(S) >= k + 1
           T == [k \in 0 .. n |-> {S \in SUBSET C : 1 \in S /\ (Add(S) = S \/ Many(S, k))}]
           step == [k \in 1 .. n |-> [S \in SUBSET C |-> Add(S)]]
           Is(g) == g = [k \in 0 .. n |-> IF k = 0 THEN {1} ELSE Add(g[k - 1])]
<1>1. n \in Nat /\ Blocks = 1 .. n
  BY DEF Graph
<1> HIDE DEF n
<1>2. \A S \in SUBSET C : IsFiniteSet(S) /\ Cardinality(S) \in Nat /\ Cardinality(S) <= n
  <2> SUFFICES ASSUME NEW S \in SUBSET C
               PROVE  IsFiniteSet(S) /\ Cardinality(S) \in Nat /\ Cardinality(S) <= n
    OBVIOUS
  <2>1. IsFiniteSet(1 .. n) /\ Cardinality(1 .. n) = n
    <3>1. Cardinality(1 .. n) = IF 1 > n THEN 0 ELSE n - 1 + 1
      BY <1>1, FS_Interval
    <3>2. IsFiniteSet(1 .. n)
      BY <1>1, FS_Interval
    <3> QED
      BY <1>1, <3>1, <3>2
  <2>2. S \subseteq 1 .. n
    BY <1>1
  <2> QED
    BY <2>1, <2>2, FS_Subset, FS_CardinalityType
<1>3. \A S \in SUBSET C : S \subseteq Add(S) /\ Add(S) \in SUBSET C
  BY DEF ClosedUnder
<1>4. ASSUME NEW k \in 1 .. n, NEW S \in T[k - 1]
      PROVE  Add(S) \in T[k]
  <2>1. k - 1 \in 0 .. n /\ k \in 0 .. n
    BY <1>1
  <2> HIDE DEF Add
  <2>2. S \in SUBSET C /\ 1 \in S /\ (Add(S) = S \/ Many(S, k - 1))
    BY <2>1
  <2>3. Add(S) \in SUBSET C /\ 1 \in Add(S)
    BY <1>3, <2>2
  <2>4. CASE Add(S) = S
    BY <2>1, <2>2, <2>4
  <2>5. CASE Add(S) # S
    <3>1. PICK x \in Add(S) : x \notin S
      BY <1>3, <2>2, <2>5
    <3>2. Cardinality(S \cup {x}) = Cardinality(S) + 1
      BY <1>2, <2>2, <3>1, FS_AddElement
    <3>3. S \cup {x} \subseteq Add(S) /\ IsFiniteSet(Add(S))
      BY <1>2, <1>3, <2>2, <2>3, <3>1
    <3>4. Cardinality(S \cup {x}) <= Cardinality(Add(S))
      BY <3>3, FS_Subset
    <3>5. Many(Add(S), k)
      BY <1>2, <2>1, <2>2, <2>3, <2>5, <3>2, <3>4
    <3> QED
      BY <2>1, <2>3, <3>5
  <2> QED
    BY <2>4, <2>5
<1>5. {1} \in T[0]
  <2>1. Cardinality({1}) = 1
    BY FS_Singleton
  <2>2. Many({1}, 0) /\ 0 \in 0 .. n
    BY <1>1, <2>1
  <2> HIDE DEF Many, Add
  <2> QED
    BY <2>2
<1>6. \A k \in 0 .. n : T[k] \subseteq SUBSET C
  <2> HIDE DEF Many, Add
  <2> QED
    OBVIOUS
<1> HIDE DEF T
<1>7. \E g : Is(g)
  <2>1. \A k \in 1 .. n : \A S \in T[k - 1] : step[k][S] \in T[k]
    <3> SUFFICES ASSUME NEW k \in 1 .. n, NEW S \in T[k - 1] PROVE step[k][S] \in T[k]
      OBVIOUS
    <3>1. k - 1 \in 0 .. n
      BY <1>1
    <3>2. S \in SUBSET C
      BY <1>6, <3>1
    <3> HIDE DEF Add
    <3> QED
      BY <1>4, <3>2
  <2> HIDE DEF step
  <2>2. PICK g : Follows(g, n, {1}, step) /\ \A k \in 0 .. n : g[k] \in T[k]
    BY <1>1, <1>5, <2>1, StepsExist
  <2> HIDE DEF Add
  <2>3. ASSUME NEW k \in 1 .. n
        PROVE  step[k][g[k - 1]] = Add(g[k - 1])
    <3>1. k - 1 \in 0 .. n
      BY <1>1
    <3>2. g[k - 1] \in SUBSET C
      BY <1>6, <2>2, <3>1
    <3> QED
      BY <3>2 DEF step
  <2>4. \A k \in 0 .. n : k # 0 => k \in 1 .. n
    BY <1>1
  <2>5. Is(g)
    BY <2>2, <2>3, <2>4 DEF Follows
  <2> QED
    BY <2>5
<1> DEFINE it == CHOOSE g : Is(g)
<1>8. Is(it)
  <2> HIDE DEF Is
  <2> QED
    BY <1>7
<1>9. Reached(av) = it[n]
  BY DEF Reached, Iterate, n
<1> HIDE DEF it
<1>10. it[n] \in T[n]
  <2> HIDE DEF Add
  <2>1. ASSUME NEW k \in 1 .. n, it[k - 1] \in T[k - 1]
        PROVE  it[k] \in T[k]
    <3>1. k \in 0 .. n /\ k # 0
      BY <1>1
    <3>2. it[k] = Add(it[k - 1])
      BY <1>8, <3>1
    <3> QED
      BY <1>4, <2>1, <3>2
  <2>2. it[0] = {1}
    BY <1>1, <1>8
  <2>3. \A k \in 0 .. n : it[k] \in T[k]
    <3> HIDE DEF Is
    <3> QED
      BY <1>1, <1>5, <2>1, <2>2, StepsStay
  <2> QED
    BY <1>1, <2>3
<1> DEFINE R == Reached(av)
<1>11. R \in SUBSET C /\ 1 \in R /\ (Add(R) = R \/ Many(R, n))
  <2>1. n \in 0 .. n
    BY <1>1
  <2> HIDE DEF Add, Many
  <2> QED
    BY <1>9, <1>10, <2>1 DEF T
<1>12. Add(R) = R
  <2>1. ~ Many(R, n)
    BY <1>1, <1>2, <1>11
  <2> QED
    BY <1>11, <2>1
<1>13. ClosedUnder(R, av)
  <2> HIDE DEF R
  <2> QED
    BY <1>12 DEF ClosedUnder
<1> QED
  BY <1>11, <1>13

\* The blocks reached are the least set that is closed.
LEMMA ReachedFacts ==
  ASSUME Graph, NEW av
  PROVE  /\ 1 \in Reached(av) /\ Reached(av) \subseteq Blocks
         /\ ClosedUnder(Reached(av), av)
<1>1. ClosedUnder(Blocks, av) /\ 1 \in Blocks
  BY DEF ClosedUnder, Graph
<1> QED
  BY <1>1, ReachedWithin

LEMMA ReachFacts ==
  ASSUME Graph
  PROVE  /\ 1 \in Reach /\ Reach \subseteq Blocks
         /\ \A b \in Reach : Range(Succs(b)) \subseteq Reach
<1>1. 1 \in Reach /\ Reach \subseteq Blocks /\ ClosedUnder(Reach, {})
  BY ReachedFacts DEF Reach
<1> QED
  BY <1>1 DEF ClosedUnder

\* What strictly dominates a block dominates its predecessors.
LEMMA DomOfPred ==
  ASSUME Graph, NEW z, NEW p, NEW b \in Range(Succs(p)), SDom(z, b)
  PROVE  Dom(z, p)
<1>1. CASE z = 1
  BY <1>1 DEF Dom
<1>2. CASE z # 1
  <2>1. z # b /\ b \notin Reached({z})
    BY <1>2 DEF SDom, Dom
  <2>2. ClosedUnder(Reached({z}), {z})
    BY ReachedFacts
  <2>3. p \notin Reached({z})
    BY <2>1, <2>2 DEF ClosedUnder
  <2> QED
    BY <2>3 DEF Dom
<1> QED
  BY <1>1, <1>2

---------------------------------------------------------------------------
(* mk_cfg.                                                                 *)

\* No block has more incoming edges than its list of predecessors takes.
PredsFit == \A t \in Blocks : Len(Into(Edges, t)) <= MaxPreds

LEMMA EdgesAll ==
  ASSUME Graph
  PROVE  /\ IsSeq(Edges)
         /\ Range(Edges) = {e \in Blocks \X Blocks : e[2] \in Range(Succs(e[1]))}
<1> DEFINE Out(b) == [k \in DOMAIN Succs(b) |-> <<b, Succs(b)[k]>>]
           ss == [b \in Blocks |-> Out(b)]
           n == Len(M.blks)
<1>1. n \in Nat /\ Blocks = 1 .. n
  BY DEF Graph
<1>2. ASSUME NEW b \in Blocks
      PROVE  IsSeq(Out(b)) /\ Range(Out(b)) = {<<b, t>> : t \in Range(Succs(b))}
  <2>1. IsSeq(Succs(b)) /\ Len(Succs(b)) \in Nat /\ DOMAIN Succs(b) = 1 .. Len(Succs(b))
    BY DomainOfSeq DEF Graph
  <2>2. IsSeq(Out(b)) /\ DOMAIN Out(b) = 1 .. Len(Succs(b))
    <3>1. Out(b) = [k \in 1 .. Len(Succs(b)) |-> Out(b)[k]]
      BY <2>1
    <3> HIDE DEF Out
    <3> QED
      BY <2>1, <3>1, FunctionIsSeq
  <2>3. Range(Out(b)) = {<<b, t>> : t \in Range(Succs(b))}
    BY <2>1, <2>2 DEF Range
  <2> QED
    BY <2>2, <2>3
<1> HIDE DEF n, Out
<1>3. IsSeq(ss) /\ DOMAIN ss = 1 .. n
  <2>1. ss = [b \in 1 .. n |-> ss[b]]
    BY <1>1
  <2> HIDE DEF ss
  <2> QED
    BY <1>1, <2>1, FunctionIsSeq
<1>4. \A b \in DOMAIN ss : IsSeq(ss[b])
  BY <1>1, <1>2
<1>5. Edges = FlattenSeq(ss)
  BY DEF Edges, Out
<1>6. IsSeq(Edges) /\ Range(Edges) = UNION {Range(ss[b]) : b \in DOMAIN ss}
  <2> HIDE DEF ss
  <2> QED
    BY <1>3, <1>4, <1>5, FlatRange
<1>7. Range(Edges) = UNION {Range(Out(b)) : b \in Blocks}
  BY <1>1, <1>3, <1>6
<1>8. \A b \in Blocks : Range(Succs(b)) \subseteq Blocks
  BY DEF Graph
<1>9. UNION {Range(Out(b)) : b \in Blocks} = {e \in Blocks \X Blocks : e[2] \in Range(Succs(e[1]))}
  <2>1. ASSUME NEW e, e \in UNION {Range(Out(b)) : b \in Blocks}
        PROVE  e \in Blocks \X Blocks /\ e[2] \in Range(Succs(e[1]))
    <3>1. PICK b \in Blocks : e \in Range(Out(b))
      BY <2>1
    <3>2. PICK t \in Range(Succs(b)) : e = <<b, t>>
      BY <1>2, <3>1
    <3> QED
      BY <1>8, <3>2
  <2>2. ASSUME NEW e \in Blocks \X Blocks, e[2] \in Range(Succs(e[1]))
        PROVE  e \in UNION {Range(Out(b)) : b \in Blocks}
    <3>1. e[1] \in Blocks /\ e = <<e[1], e[2]>>
      OBVIOUS
    <3>2. e \in Range(Out(e[1]))
      BY <1>2, <2>2, <3>1
    <3> QED
      BY <3>1, <3>2
  <2> QED
    BY <2>1, <2>2
<1> QED
  BY <1>6, <1>7, <1>9

LEMMA PredsRight ==
  ASSUME Graph, NEW t \in Blocks
  PROVE  /\ IsSeq(PredsOf(Edges, t))
         /\ \A p \in Range(PredsOf(Edges, t)) : p \in Blocks /\ t \in Range(Succs(p))
         /\ Len(Into(Edges, t)) <= MaxPreds =>
              \A p \in Blocks : t \in Range(Succs(p)) => p \in Range(PredsOf(Edges, t))
<1> DEFINE into == Into(Edges, t)
           from == [k \in DOMAIN into |-> into[k][1]]
           n == Len(into)
           m == IF MaxPreds < n THEN MaxPreds ELSE n
           r == PredsOf(Edges, t)
<1>1. IsSeq(into) /\ Range(into) = Range(Edges) \cap (Blocks \X {t})
  BY EdgesAll, KeepFacts DEF Into
<1>2. Range(into) = {e \in Blocks \X {t} : t \in Range(Succs(e[1]))}
  <2> HIDE DEF into
  <2>1. \A e \in Blocks \X {t} : e \in Blocks \X Blocks /\ e[2] = t
    OBVIOUS
  <2> QED
    BY <1>1, <2>1, EdgesAll
<1> HIDE DEF into
<1>3. n \in Nat /\ DOMAIN into = 1 .. n
  BY <1>1, DomainOfSeq
<1> HIDE DEF n
<1>4. MaxPreds \in Nat
  BY Mem2RegAssumption
<1>5. m \in 0 .. n /\ (n <= MaxPreds => m = n)
  <2>1. CASE MaxPreds < n
    BY <1>3, <1>4, <2>1
  <2>2. CASE ~ (MaxPreds < n)
    BY <1>3, <1>4, <2>2
  <2> QED
    BY <2>1, <2>2
<1>6. r = SubSeq(from, 1, IF MaxPreds < Len(from) THEN MaxPreds ELSE Len(from))
  BY DEF PredsOf, Prefix, into
<1> HIDE DEF r
<1>7. IsSeq(from) /\ Len(from) = n /\ \A k \in 1 .. n : from[k] = into[k][1]
  <2>1. from = [k \in 1 .. n |-> from[k]] /\ \A k \in 1 .. n : from[k] = into[k][1]
    BY <1>3
  <2> HIDE DEF from
  <2> QED
    BY <1>3, <2>1, FunctionIsSeq
<1> HIDE DEF from
<1>8. r = SubSeq(from, 1, m)
  BY <1>6, <1>7
<1> HIDE DEF m
<1>9. IsSeq(r) /\ Len(r) = m /\ \A k \in 1 .. m : r[k] = from[k]
  BY <1>5, <1>7, <1>8, PrefixAny
<1>10. DOMAIN r = 1 .. m
  BY <1>9, DomainOfSeq
<1>11. ASSUME NEW p \in Range(r)
       PROVE  p \in Blocks /\ t \in Range(Succs(p))
  <2>1. PICK k \in 1 .. m : p = r[k]
    BY <1>10 DEF Range
  <2>2. k \in 1 .. n /\ p = into[k][1]
    BY <1>3, <1>5, <1>7, <1>9, <2>1
  <2>3. into[k] \in Range(into)
    BY <1>3, <2>2 DEF Range
  <2> QED
    BY <1>2, <2>2, <2>3
<1>12. ASSUME n <= MaxPreds, NEW p \in Blocks, t \in Range(Succs(p))
       PROVE  p \in Range(r)
  <2>1. <<p, t>> \in Blocks \X {t} /\ <<p, t>>[1] = p
    OBVIOUS
  <2>2. <<p, t>> \in Range(into)
    BY <1>2, <1>12, <2>1
  <2>3. PICK k \in 1 .. n : into[k] = <<p, t>>
    BY <1>3, <2>2 DEF Range
  <2>4. k \in 1 .. m /\ r[k] = p
    BY <1>5, <1>7, <1>9, <1>12, <2>1, <2>3
  <2> QED
    BY <1>10, <2>4 DEF Range
<1> QED
  BY <1>9, <1>11, <1>12 DEF r, n, into

---------------------------------------------------------------------------
(* mk_rpo.                                                                 *)

\* The blocks on the work list and in the order so far, in one line: each
\* follows some predecessor of it.
Line(wk, ot) ==
  [i \in 1 .. Len(wk) + Len(ot) |-> IF i <= Len(wk) THEN wk[i][1] ELSE ot[i - Len(wk)]]
Follower(L, i) == \E j \in DOMAIN L : j < i /\ L[i] \in Range(Succs(L[j]))
InOrder(L) ==
  /\ IsSeq(L) /\ IsInjective(L) /\ 1 \in DOMAIN L /\ L[1] = 1
  /\ \A i \in DOMAIN L : i # 1 => Follower(L, i)

Inserted(L, w, m) == {L[i] : i \in w + 1 .. w + m}

\* Successors of a block that are not in the line yet may go behind it.
Insertion(L, L2, w, m) ==
  /\ IsSeq(L2) /\ Len(L2) = Len(L) + m
  /\ \A i \in 1 .. w : L2[i] = L[i]
  /\ \A i \in w + 1 .. w + m : L2[i] \in Range(Succs(L[w])) /\ L2[i] \notin Range(L)
  /\ \A i, j \in w + 1 .. w + m : L2[i] = L2[j] => i = j
  /\ \A i \in w + 1 .. Len(L) : L2[i + m] = L[i]
LEMMA InsertFollowers ==
  ASSUME NEW L, InOrder(L), NEW w \in 1 .. Len(L), NEW m \in Nat,
         NEW L2, Insertion(L, L2, w, m)
  PROVE  InOrder(L2) /\ Range(L2) = Range(L) \cup Inserted(L2, w, m)
<1> DEFINE n == Len(L)
           Was(i) == IF i <= w THEN i ELSE i - m
           Now(i) == IF i <= w THEN i ELSE i + m
           New == w + 1 .. w + m
<1>0. /\ IsSeq(L2) /\ Len(L2) = Len(L) + m
      /\ \A i \in 1 .. w : L2[i] = L[i]
      /\ \A i \in New : L2[i] \in Range(Succs(L[w])) /\ L2[i] \notin Range(L)
      /\ \A i, j \in New : L2[i] = L2[j] => i = j
      /\ \A i \in w + 1 .. Len(L) : L2[i + m] = L[i]
  BY DEF Insertion
<1>1. n \in Nat /\ DOMAIN L = 1 .. n /\ DOMAIN L2 = 1 .. n + m /\ w \in 1 .. n
  BY <1>0, DomainOfSeq DEF InOrder
<1> HIDE DEF n
<1>2. ASSUME NEW i \in 1 .. n + m, i \notin New
      PROVE  Was(i) \in 1 .. n /\ Now(Was(i)) = i /\ L2[i] = L[Was(i)]
  <2>1. CASE i <= w
    BY <1>0, <1>1, <2>1
  <2>2. CASE ~ (i <= w)
    <3>1. i - m \in w + 1 .. n /\ ~ (i - m <= w) /\ (i - m) + m = i
      BY <1>1, <1>2, <2>2
    <3>2. L2[i] = L[i - m]
      BY <1>0, <3>1 DEF n
    <3> QED
      BY <1>1, <2>2, <3>1, <3>2
  <2> QED
    BY <2>1, <2>2
<1>3. ASSUME NEW i \in 1 .. n
      PROVE  Now(i) \in 1 .. n + m /\ L2[Now(i)] = L[i]
  <2>1. CASE i <= w
    BY <1>0, <1>1, <2>1
  <2>2. CASE ~ (i <= w)
    BY <1>0, <1>1, <2>2 DEF n
  <2> QED
    BY <2>1, <2>2
<1>4. \A i, j \in 1 .. n : i < j => Now(i) < Now(j)
  BY <1>1
<1>5. New \subseteq 1 .. n + m /\ w \in 1 .. n + m /\ \A i \in New : w < i /\ i # 1
  BY <1>1
<1>6. ASSUME NEW i \in 1 .. n + m, NEW j \in 1 .. n + m, L2[i] = L2[j]
      PROVE  i = j
  <2>1. CASE i \in New /\ j \in New
    BY <1>0, <1>6, <2>1
  <2>2. CASE i \notin New /\ j \notin New
    <3>1. Was(i) = Was(j)
      <4> HIDE DEF Was, New
      <4> QED
        BY <1>1, <1>2, <1>6, <2>2 DEF InOrder, IsInjective
    <3> HIDE DEF Was, Now, New
    <3> QED
      BY <1>2, <2>2, <3>1
  <2>3. CASE i \in New /\ j \notin New
    <3> HIDE DEF Was, Now
    <3>1. L2[j] \in Range(L)
      BY <1>1, <1>2, <2>3 DEF Range
    <3> QED
      BY <1>0, <1>6, <2>3, <3>1
  <2>4. CASE j \in New /\ i \notin New
    <3> HIDE DEF Was, Now
    <3>1. L2[i] \in Range(L)
      BY <1>1, <1>2, <2>4 DEF Range
    <3> QED
      BY <1>0, <1>6, <2>4, <3>1
  <2> QED
    BY <2>1, <2>2, <2>3, <2>4
<1>7. ASSUME NEW i \in 1 .. n + m, i # 1
      PROVE  Follower(L2, i)
  <2>1. CASE i \in New
    <3>1. L2[i] \in Range(Succs(L2[w])) /\ w < i
      BY <1>0, <1>5, <2>1
    <3> QED
      BY <1>1, <1>5, <3>1 DEF Follower
  <2>2. CASE i \notin New
    <3> DEFINE x == Was(i)
    <3>1. x \in 1 .. n /\ Now(x) = i /\ L2[i] = L[x]
      BY <1>2, <2>2
    <3>2. x # 1
      BY <1>1, <1>7, <3>1
    <3> HIDE DEF x
    <3>3. PICK j \in 1 .. n : j < x /\ L[x] \in Range(Succs(L[j]))
      BY <1>1, <3>1, <3>2 DEF InOrder, Follower
    <3>4. Now(j) < Now(x)
      BY <1>4, <3>1, <3>3
    <3> HIDE DEF Now
    <3>5. Now(j) \in 1 .. n + m /\ L2[Now(j)] = L[j] /\ Now(j) < i
      BY <1>3, <3>1, <3>4
    <3> QED
      BY <1>1, <3>1, <3>3, <3>5 DEF Follower
  <2> QED
    BY <2>1, <2>2
<1>8. 1 \in 1 .. n + m /\ L2[1] = 1
  BY <1>0, <1>1 DEF InOrder
<1>9. InOrder(L2)
  BY <1>0, <1>1, <1>6, <1>7, <1>8 DEF InOrder, IsInjective
<1>10. Range(L2) = Range(L) \cup {L2[i] : i \in New}
  <2> HIDE DEF New, Was, Now
  <2>1. Range(L) \subseteq Range(L2)
    BY <1>1, <1>3 DEF Range
  <2>2. {L2[i] : i \in New} \subseteq Range(L2)
    BY <1>1, <1>5 DEF Range
  <2>3. Range(L2) \subseteq Range(L) \cup {L2[i] : i \in New}
    BY <1>1, <1>2 DEF Range
  <2> QED
    BY <2>1, <2>2, <2>3
<1> QED
  BY <1>9, <1>10 DEF Inserted

Item == Blocks \X {"pre", "post"}
Expanded(wk, ot) == Range(ot) \cup {b \in Blocks : <<b, "post">> \in Range(wk)}

\* After k steps: a block opened has its successors in the line, and each step
\* has opened a block or put one into the order.
RpoInv(wk, vs, ot, k) ==
  /\ wk \in Seq(Item) /\ ot \in Seq(Blocks) /\ vs \subseteq Reach
  /\ InOrder(Line(wk, ot)) /\ Range(Line(wk, ot)) = vs
  /\ \A b \in Expanded(wk, ot) : Range(Succs(b)) \subseteq vs
  /\ wk # <<>> => Cardinality(Expanded(wk, ot)) + Cardinality(Range(ot)) = k

\* The parts of the line.
LEMMA LineParts ==
  ASSUME NEW wk \in Seq(Item), NEW ot \in Seq(Blocks)
  PROVE  /\ IsSeq(Line(wk, ot)) /\ Len(Line(wk, ot)) = Len(wk) + Len(ot)
         /\ DOMAIN Line(wk, ot) = 1 .. Len(wk) + Len(ot)
         /\ \A i \in 1 .. Len(wk) : Line(wk, ot)[i] = wk[i][1]
         /\ \A i \in 1 .. Len(ot) : Line(wk, ot)[Len(wk) + i] = ot[i]
<1> DEFINE w == Len(wk)
           o == Len(ot)
           L == Line(wk, ot)
<1>1. w \in Nat /\ o \in Nat
  BY LenProperties
<1> HIDE DEF w, o
<1>2. L = [i \in 1 .. w + o |-> L[i]]
  BY DEF Line, w, o
<1>3. ASSUME NEW i \in 1 .. w
      PROVE  L[i] = wk[i][1]
  <2>1. i \in 1 .. w + o /\ i <= w
    BY <1>1
  <2> QED
    BY <2>1 DEF Line, w, o
<1>4. ASSUME NEW i \in 1 .. o
      PROVE  L[w + i] = ot[i]
  <2>1. w + i \in 1 .. w + o /\ ~ (w + i <= w) /\ (w + i) - w = i
    BY <1>1
  <2>2. L[w + i] = IF w + i <= w THEN wk[w + i][1] ELSE ot[(w + i) - w]
    BY <2>1 DEF Line, w, o
  <2> QED
    BY <2>1, <2>2
<1> HIDE DEF L
<1>5. IsSeq(L) /\ Len(L) = w + o /\ DOMAIN L = 1 .. w + o
  BY <1>1, <1>2, FunctionIsSeq
<1> QED
  BY <1>3, <1>4, <1>5 DEF L, w, o

LEMMA TopOfWork ==
  ASSUME Graph, NEW wk, NEW vs, NEW ot, NEW k, RpoInv(wk, vs, ot, k), wk # <<>>
  PROVE  /\ Len(wk) \in Nat \ {0} /\ Last(wk) = wk[Len(wk)] /\ Last(wk) \in Item
         /\ Front(wk) \in Seq(Item) /\ Len(Front(wk)) = Len(wk) - 1
         /\ \A i \in 1 .. Len(wk) - 1 : Front(wk)[i] = wk[i] /\ wk[i][1] # Last(wk)[1]
         /\ Last(wk)[1] \notin Range(ot)
         /\ Range(wk) = Range(Front(wk)) \cup {Last(wk)}
         /\ \A t : <<Last(wk)[1], t>> \notin Range(Front(wk))
<1> DEFINE w == Len(wk)
           o == Len(ot)
           L == Line(wk, ot)
<1>1. wk \in Seq(Item) /\ ot \in Seq(Blocks) /\ InOrder(L)
  BY DEF RpoInv
<1>2. IsSeq(wk) /\ IsSeq(ot) /\ o \in Nat /\ DOMAIN wk = 1 .. w /\ DOMAIN ot = 1 .. o
  BY <1>1, SeqIsSeq, DomainOfSeq
<1>3. /\ IsSeq(Front(wk)) /\ Len(Front(wk)) = w - 1 /\ w \in Nat \ {0}
      /\ \A i \in 1 .. w - 1 : Front(wk)[i] = wk[i]
      /\ Last(wk) = wk[w]
  BY <1>2, FrontAny
<1>4. \A i \in 1 .. w : wk[i] \in Item
  BY <1>1, ElementOfSeq
<1>5. DOMAIN Front(wk) = 1 .. w - 1
  BY <1>3, DomainOfSeq
<1>6. Front(wk) \in Seq(Item)
  <2>1. Range(Front(wk)) \subseteq Item
    BY <1>3, <1>4, <1>5 DEF Range
  <2>2. Front(wk) \in Seq(Range(Front(wk)))
    BY <1>3 DEF IsSeq
  <2> QED
    BY <2>1, <2>2, SeqMonotonic
<1>7. /\ DOMAIN L = 1 .. w + o
      /\ \A i \in 1 .. w : L[i] = wk[i][1]
      /\ \A i \in 1 .. o : L[w + i] = ot[i]
  BY <1>1, LineParts
<1>8. \A i, j \in 1 .. w + o : L[i] = L[j] => i = j
  BY <1>1, <1>7 DEF InOrder, IsInjective
<1> HIDE DEF w, o, L
<1>9. ASSUME NEW i \in 1 .. w - 1
      PROVE  wk[i][1] # Last(wk)[1]
  <2>1. i \in 1 .. w /\ i \in 1 .. w + o /\ w \in 1 .. w /\ w \in 1 .. w + o /\ i # w
    BY <1>2, <1>3
  <2> QED
    BY <1>3, <1>7, <1>8, <2>1
<1>10. Last(wk)[1] \notin Range(ot)
  <2> SUFFICES ASSUME NEW i \in 1 .. o, ot[i] = Last(wk)[1] PROVE FALSE
    BY <1>2 DEF Range
  <2>1. w + i \in 1 .. w + o /\ w \in 1 .. w /\ w \in 1 .. w + o /\ w + i # w
    BY <1>2, <1>3
  <2> QED
    BY <1>3, <1>7, <1>8, <2>1
<1>11. Range(wk) = Range(Front(wk)) \cup {Last(wk)}
  <2>1. 1 .. w = (1 .. w - 1) \cup {w}
    BY <1>3
  <2> QED
    BY <1>2, <1>3, <1>5, <2>1 DEF Range
<1>12. ASSUME NEW t, <<Last(wk)[1], t>> \in Range(Front(wk))
       PROVE  FALSE
  <2>1. PICK i \in 1 .. w - 1 : Front(wk)[i] = <<Last(wk)[1], t>>
    BY <1>5, <1>12 DEF Range
  <2>2. wk[i][1] = Last(wk)[1]
    BY <1>3, <2>1
  <2> QED
    BY <1>9, <2>2
<1>13. w \in 1 .. w
  BY <1>3
<1> QED
  BY <1>3, <1>4, <1>6, <1>9, <1>10, <1>11, <1>12, <1>13 DEF w

LEMMA ExpandedFinite ==
  ASSUME Graph, NEW wk, NEW ot \in Seq(Blocks)
  PROVE  /\ IsFiniteSet(Expanded(wk, ot)) /\ Cardinality(Expanded(wk, ot)) \in Nat
         /\ IsFiniteSet(Range(ot)) /\ Cardinality(Range(ot)) \in Nat
         /\ Cardinality(Expanded(wk, ot)) <= Len(M.blks)
         /\ \A b \in Blocks \ Range(ot) : Cardinality(Range(ot)) + 1 <= Len(M.blks)
<1> DEFINE n == Len(M.blks)
<1>1. n \in Nat /\ Blocks = 1 .. n
  BY DEF Graph
<1> HIDE DEF n
<1>2. IsFiniteSet(Blocks) /\ Cardinality(Blocks) = n
  <2>1. Cardinality(1 .. n) = (IF 1 > n THEN 0 ELSE n - 1 + 1) /\ IsFiniteSet(1 .. n)
    BY <1>1, FS_Interval
  <2> QED
    BY <1>1, <2>1
<1>3. Range(ot) \subseteq Blocks
  <2>1. IsSeq(ot)
    BY SeqIsSeq
  <2>2. DOMAIN ot = 1 .. Len(ot) /\ \A i \in 1 .. Len(ot) : ot[i] \in Blocks
    BY <2>1, DomainOfSeq, ElementOfSeq
  <2> QED
    BY <2>2 DEF Range
<1>4. Expanded(wk, ot) \subseteq Blocks
  BY <1>3 DEF Expanded
<1>5. \A S \in SUBSET Blocks : IsFiniteSet(S) /\ Cardinality(S) \in Nat /\ Cardinality(S) <= n
  BY <1>2, FS_Subset, FS_CardinalityType
<1>6. ASSUME NEW b \in Blocks \ Range(ot)
      PROVE  Cardinality(Range(ot)) + 1 <= n
  <2>1. Cardinality(Range(ot) \cup {b}) = Cardinality(Range(ot)) + 1
    BY <1>3, <1>5, <1>6, FS_AddElement
  <2>2. Range(ot) \cup {b} \in SUBSET Blocks
    BY <1>3, <1>6
  <2> QED
    BY <1>5, <2>1, <2>2
<1> QED
  BY <1>3, <1>4, <1>5, <1>6 DEF n

LEMMA PopPost ==
  ASSUME Graph, NEW wk, NEW vs, NEW ot, NEW k, RpoInv(wk, vs, ot, k), wk # <<>>,
         Last(wk)[2] = "post"
  PROVE  RpoInv(Front(wk), vs, <<Last(wk)[1]>> \o ot, k + 1)
<1> DEFINE b == Last(wk)[1]
           fr == Front(wk)
           o2 == <<b>> \o ot
           w == Len(wk)
           o == Len(ot)
<1>1. /\ w \in Nat \ {0} /\ Last(wk) = wk[w] /\ Last(wk) \in Item
      /\ fr \in Seq(Item) /\ Len(fr) = w - 1
      /\ \A i \in 1 .. w - 1 : fr[i] = wk[i]
      /\ b \notin Range(ot)
      /\ Range(wk) = Range(fr) \cup {Last(wk)}
      /\ \A t : <<b, t>> \notin Range(fr)
  BY TopOfWork
<1>2. /\ wk \in Seq(Item) /\ ot \in Seq(Blocks) /\ vs \subseteq Reach
      /\ InOrder(Line(wk, ot)) /\ Range(Line(wk, ot)) = vs
      /\ \A x \in Expanded(wk, ot) : Range(Succs(x)) \subseteq vs
      /\ Cardinality(Expanded(wk, ot)) + Cardinality(Range(ot)) = k
  BY DEF RpoInv
<1>3. b \in Blocks /\ Last(wk) = <<b, "post">> /\ b = wk[w][1]
  BY <1>1 DEF Item
<1> HIDE DEF b, fr
<1>4. o \in Nat /\ IsSeq(ot)
  BY <1>2, SeqIsSeq, LenProperties
<1>5. IsSeq(<<b>>) /\ Len(<<b>>) = 1 /\ <<b>>[1] = b /\ <<b>> \in Seq(Blocks) /\ Range(<<b>>) = {b}
  <2>1. <<b>> \in Seq(Blocks) /\ Len(<<b>>) = 1 /\ <<b>>[1] = b
    BY <1>3
  <2>2. Range(<<b>>) = {b}
    BY DEF Range
  <2> QED
    BY <2>1, <2>2, SeqIsSeq
<1>6. /\ o2 \in Seq(Blocks) /\ Len(o2) = o + 1 /\ o2[1] = b
      /\ \A i \in 1 .. o : o2[1 + i] = ot[i]
      /\ Range(o2) = {b} \cup Range(ot)
  <2>1. o2 \in Seq(Blocks)
    BY <1>2, <1>5, ConcatProperties
  <2>2. /\ Len(o2) = 1 + o
        /\ \A i \in 1 .. 1 : o2[i] = <<b>>[i]
        /\ \A i \in 1 .. o : o2[1 + i] = ot[i]
    BY <1>4, <1>5, ConcatAny
  <2>3. Range(o2) = {b} \cup Range(ot)
    BY <1>4, <1>5, ConcatRange
  <2>4. o2[1] = b /\ 1 + o = o + 1
    BY <1>4, <1>5, <2>2
  <2> QED
    BY <2>1, <2>2, <2>3, <2>4
<1> HIDE DEF o2
<1>7. Line(fr, o2) = Line(wk, ot)
  <2> DEFINE L == Line(wk, ot)
             K == Line(fr, o2)
  <2>1. /\ DOMAIN L = 1 .. w + o
        /\ \A i \in 1 .. w : L[i] = wk[i][1]
        /\ \A i \in 1 .. o : L[w + i] = ot[i]
    BY <1>2, LineParts
  <2>2. /\ DOMAIN K = 1 .. (w - 1) + (o + 1)
        /\ \A i \in 1 .. w - 1 : K[i] = fr[i][1]
        /\ \A i \in 1 .. o + 1 : K[(w - 1) + i] = o2[i]
    <3>1. /\ DOMAIN K = 1 .. Len(fr) + Len(o2)
          /\ \A i \in 1 .. Len(fr) : K[i] = fr[i][1]
          /\ \A i \in 1 .. Len(o2) : K[Len(fr) + i] = o2[i]
      BY <1>1, <1>6, LineParts
    <3> HIDE DEF K, w, o
    <3> QED
      BY <1>1, <1>6, <3>1
  <2>3. L = [i \in DOMAIN L |-> L[i]] /\ K = [i \in DOMAIN K |-> K[i]]
    BY DEF Line
  <2> HIDE DEF L, K, w, o
  <2>4. ASSUME NEW i \in 1 .. w + o
        PROVE  K[i] = L[i]
    <3>1. CASE i <= w - 1
      <4>1. i \in 1 .. w - 1 /\ i \in 1 .. w
        BY <1>1, <3>1
      <4> QED
        BY <1>1, <2>1, <2>2, <4>1
    <3>2. CASE i = w
      <4>1. 1 \in 1 .. o + 1 /\ (w - 1) + 1 = i /\ i \in 1 .. w
        BY <1>1, <1>4, <3>2
      <4>2. K[i] = o2[1] /\ L[i] = wk[w][1]
        BY <2>1, <2>2, <3>2, <4>1
      <4> QED
        BY <1>1, <1>3, <1>6, <4>2
    <3>3. CASE i > w
      <4> DEFINE j == i - w
      <4>1. j \in 1 .. o /\ 1 + j \in 1 .. o + 1 /\ (w - 1) + (1 + j) = i /\ w + j = i
        BY <1>1, <1>4, <3>3
      <4> HIDE DEF j
      <4>2. K[i] = o2[1 + j] /\ L[i] = ot[j]
        BY <2>1, <2>2, <4>1
      <4> QED
        BY <1>6, <4>1, <4>2
    <3> QED
      BY <1>1, <3>1, <3>2, <3>3
  <2>5. (w - 1) + (o + 1) = w + o
    BY <1>1, <1>4
  <2>6. K = L
    BY <2>1, <2>2, <2>3, <2>4, <2>5
  <2> QED
    BY <2>6 DEF K, L
<1>8. Expanded(fr, o2) = Expanded(wk, ot)
  BY <1>1, <1>3, <1>6 DEF Expanded
<1>9. Cardinality(Range(o2)) = Cardinality(Range(ot)) + 1
  <2>1. IsFiniteSet(Range(ot))
    BY <1>2, ExpandedFinite
  <2>2. Range(o2) = Range(ot) \cup {b}
    BY <1>6
  <2> QED
    BY <1>1, <2>1, <2>2, FS_AddElement
<1>10. Cardinality(Expanded(fr, o2)) + Cardinality(Range(o2)) = k + 1
  <2>1. Cardinality(Expanded(wk, ot)) \in Nat /\ Cardinality(Range(ot)) \in Nat
    BY <1>2, ExpandedFinite
  <2> QED
    BY <1>2, <1>8, <1>9, <2>1
<1>11. RpoInv(fr, vs, o2, k + 1)
  BY <1>1, <1>2, <1>6, <1>7, <1>8, <1>10 DEF RpoInv
<1> QED
  BY <1>11 DEF fr, o2, b

LEMMA OnceEach ==
  ASSUME NEW new, IsSeq(new), Len(new) <= 2,
         NEW once, once = IF Len(new) = 2 /\ new[1] = new[2] THEN Tail(new) ELSE new
  PROVE  IsSeq(once) /\ IsInjective(once) /\ Range(once) = Range(new)
<1> DEFINE n == Len(new)
<1>1. n \in Nat /\ DOMAIN new = 1 .. n /\ n <= 2 /\ (new = <<>> <=> n = 0)
  BY DomainOfSeq
<1>2. CASE n = 2 /\ new[1] = new[2]
  <2>1. /\ IsSeq(Tail(new)) /\ Len(Tail(new)) = n - 1
        /\ \A k \in 1 .. n - 1 : Tail(new)[k] = new[k + 1]
    <3>1. new # <<>>
      <4> HIDE DEF n
      <4> QED
        BY <1>1, <1>2
    <3> QED
      BY <3>1, TailAny
  <2>2. once = Tail(new)
    BY <1>2
  <2> HIDE DEF n
  <2>3. Len(once) = 1 /\ once[1] = new[2]
    <3>1. n - 1 = 1 /\ 1 + 1 = 2 /\ 1 \in 1 .. 1
      BY <1>2
    <3> QED
      BY <2>1, <2>2, <3>1
  <2>4. DOMAIN once = {1}
    <3>1. DOMAIN once = 1 .. 1
      BY <2>1, <2>2, <2>3, DomainOfSeq
    <3> QED
      BY <3>1
  <2>5. DOMAIN new = {1, 2}
    BY <1>1, <1>2
  <2>6. Range(once) = {new[2]} /\ Range(new) = {new[2]}
    BY <1>2, <2>3, <2>4, <2>5 DEF Range
  <2> QED
    BY <2>1, <2>2, <2>4, <2>6 DEF IsInjective
<1>3. CASE ~ (n = 2 /\ new[1] = new[2])
  <2>1. once = new
    BY <1>3
  <2> HIDE DEF n
  <2>2. ASSUME NEW i \in 1 .. n, NEW j \in 1 .. n, new[i] = new[j]
        PROVE  i = j
    <3>1. i \in {1, 2} /\ j \in {1, 2} /\ (i # j => n = 2)
      BY <1>1
    <3>2. CASE i # j
      <4>1. n = 2 /\ new[1] = new[2]
        BY <2>2, <3>1, <3>2
      <4> QED
        BY <1>3, <4>1
    <3> QED
      BY <3>2
  <2> QED
    BY <1>1, <2>1, <2>2 DEF IsInjective
<1> QED
  BY <1>2, <1>3

LEMMA PopPre ==
  ASSUME Graph, NEW wk, NEW vs, NEW ot, NEW k, RpoInv(wk, vs, ot, k), wk # <<>>,
         Last(wk)[2] = "pre",
         NEW once, IsSeq(once), IsInjective(once),
         Range(once) = Range(Succs(Last(wk)[1])) \ vs
  PROVE  RpoInv(Front(wk) \o <<<<Last(wk)[1], "post">>>>
                          \o Reverse([i \in DOMAIN once |-> <<once[i], "pre">>]),
                vs \cup Range(once), ot, k + 1)
<1> DEFINE b == Last(wk)[1]
           fr == Front(wk)
           mid == <<<<b, "post">>>>
           pu == Reverse([i \in DOMAIN once |-> <<once[i], "pre">>])
           w2 == (fr \o mid) \o pu
           v2 == vs \cup Range(once)
           w == Len(wk)
           o == Len(ot)
           m == Len(once)
           L == Line(wk, ot)
           L2 == Line(w2, ot)
<1>1. /\ w \in Nat \ {0} /\ Last(wk) = wk[w] /\ Last(wk) \in Item
      /\ fr \in Seq(Item) /\ Len(fr) = w - 1
      /\ \A i \in 1 .. w - 1 : fr[i] = wk[i]
      /\ b \notin Range(ot)
      /\ Range(wk) = Range(fr) \cup {Last(wk)}
      /\ \A t : <<b, t>> \notin Range(fr)
  BY TopOfWork
<1>2. /\ wk \in Seq(Item) /\ ot \in Seq(Blocks) /\ vs \subseteq Reach
      /\ InOrder(L) /\ Range(L) = vs
      /\ \A x \in Expanded(wk, ot) : Range(Succs(x)) \subseteq vs
      /\ Cardinality(Expanded(wk, ot)) + Cardinality(Range(ot)) = k
  BY DEF RpoInv
<1>3. b \in Blocks /\ Last(wk) = <<b, "pre">> /\ b = wk[w][1]
  BY <1>1 DEF Item
<1>4. o \in Nat /\ m \in Nat /\ DOMAIN once = 1 .. m
  BY <1>2, LenProperties, DomainOfSeq
<1>5. /\ DOMAIN L = 1 .. w + o /\ Len(L) = w + o
      /\ \A i \in 1 .. w : L[i] = wk[i][1]
      /\ \A i \in 1 .. o : L[w + i] = ot[i]
  BY <1>2, LineParts
<1>6. Range(once) = Range(Succs(b)) \ vs
  OBVIOUS
<1> HIDE DEF b, fr, w, o, m, L
<1>7. b \in vs
  <2>1. w \in 1 .. w /\ w \in 1 .. w + o
    BY <1>1, <1>4
  <2>2. L[w] = b
    BY <1>3, <1>5, <2>1
  <2> QED
    BY <1>2, <1>5, <2>1, <2>2 DEF Range
<1>8. Range(Succs(b)) \subseteq Reach /\ Range(Succs(b)) \subseteq Blocks
  BY <1>2, <1>3, <1>7, ReachFacts DEF Graph
<1>9. /\ IsSeq(pu) /\ Len(pu) = m /\ DOMAIN pu = 1 .. m
      /\ \A i \in 1 .. m : pu[i] = <<once[(m - i) + 1], "pre">>
  <2> DEFINE q == [i \in DOMAIN once |-> <<once[i], "pre">>]
  <2>1. IsSeq(q) /\ Len(q) = m /\ \A i \in 1 .. m : q[i] = <<once[i], "pre">>
    <3>1. q = [i \in 1 .. m |-> q[i]] /\ \A i \in 1 .. m : q[i] = <<once[i], "pre">>
      BY <1>4
    <3> HIDE DEF q
    <3> QED
      BY <1>4, <3>1, FunctionIsSeq
  <2>2. pu = [i \in 1 .. Len(q) |-> q[(Len(q) - i) + 1]]
    BY DEF Reverse
  <2> HIDE DEF q, pu
  <2>3. pu = [i \in 1 .. m |-> q[(m - i) + 1]]
    BY <2>1, <2>2
  <2>4. ASSUME NEW i \in 1 .. m
        PROVE  pu[i] = <<once[(m - i) + 1], "pre">>
    <3>1. (m - i) + 1 \in 1 .. m
      BY <1>4
    <3> QED
      BY <2>1, <2>3, <3>1
  <2>5. pu = [i \in 1 .. m |-> pu[i]]
    BY <2>3
  <2>6. IsSeq(pu) /\ Len(pu) = m /\ DOMAIN pu = 1 .. m
    BY <1>4, <2>5, FunctionIsSeq
  <2> QED
    BY <2>4, <2>6
<1> HIDE DEF pu
<1>10. \A i \in 1 .. m : pu[i] \in Item /\ pu[i][2] = "pre"
  <2> SUFFICES ASSUME NEW i \in 1 .. m PROVE pu[i] \in Item /\ pu[i][2] = "pre"
    OBVIOUS
  <2>1. (m - i) + 1 \in 1 .. m
    BY <1>4
  <2> DEFINE x == once[(m - i) + 1]
  <2>2. x \in Blocks
    BY <1>4, <1>6, <1>8, <2>1 DEF Range
  <2>3. pu[i] = <<x, "pre">>
    BY <1>9
  <2> HIDE DEF x
  <2> QED
    BY <2>2, <2>3 DEF Item
<1>11. /\ w2 \in Seq(Item) /\ Len(w2) = w + m
       /\ \A i \in 1 .. w - 1 : w2[i] = wk[i]
       /\ w2[w] = <<b, "post">>
       /\ \A i \in 1 .. m : w2[w + i] = pu[i]
       /\ Range(w2) = Range(fr) \cup {<<b, "post">>} \cup Range(pu)
  <2>1. mid \in Seq(Item) /\ Len(mid) = 1 /\ mid[1] = <<b, "post">> /\ IsSeq(mid)
        /\ Range(mid) = {<<b, "post">>}
    <3>1. <<b, "post">> \in Item
      BY <1>3 DEF Item
    <3> DEFINE x == <<b, "post">>
    <3> HIDE DEF x
    <3>2. <<x>> \in Seq(Item) /\ Len(<<x>>) = 1 /\ <<x>>[1] = x /\ Range(<<x>>) = {x}
      BY <3>1 DEF Range, x
    <3> QED
      BY <3>2, SeqIsSeq DEF x
  <2> HIDE DEF mid
  <2>2. IsSeq(fr)
    BY <1>1, SeqIsSeq
  <2>3. pu \in Seq(Item)
    <3>1. Range(pu) \subseteq Item
      BY <1>9, <1>10 DEF Range
    <3> QED
      BY <1>9, <3>1, SeqMonotonic DEF IsSeq
  <2> DEFINE fm == fr \o mid
  <2>4. /\ fm \in Seq(Item) /\ IsSeq(fm) /\ Len(fm) = w
        /\ \A i \in 1 .. w - 1 : fm[i] = wk[i]
        /\ fm[w] = <<b, "post">>
        /\ Range(fm) = Range(fr) \cup {<<b, "post">>}
    <3>1. /\ Len(fm) = Len(fr) + Len(mid) /\ IsSeq(fm)
          /\ \A i \in 1 .. Len(fr) : fm[i] = fr[i]
          /\ \A i \in 1 .. Len(mid) : fm[Len(fr) + i] = mid[i]
      <4>1. IsSeq(fr) /\ IsSeq(mid)
        BY <2>1, <2>2
      <4> QED
        BY <4>1, ConcatAny
    <3>2. fm \in Seq(Item) /\ Range(fm) = Range(fr) \cup Range(mid)
      BY <1>1, <2>1, <2>2, ConcatRange, ConcatProperties
    <3> HIDE DEF fm
    <3>3. (w - 1) + 1 = w /\ 1 \in 1 .. 1
      BY <1>1
    <3>4. fm[w] = mid[1] /\ Len(fm) = w
      BY <1>1, <2>1, <3>1, <3>3
    <3> QED
      BY <1>1, <2>1, <3>1, <3>2, <3>4
  <2>5. w2 = fm \o pu
    OBVIOUS
  <2> HIDE DEF fm, w2
  <2>6. /\ Len(w2) = w + m
        /\ \A i \in 1 .. w : w2[i] = fm[i]
        /\ \A i \in 1 .. m : w2[w + i] = pu[i]
    <3>1. IsSeq(fm) /\ IsSeq(pu)
      BY <1>9, <2>4
    <3>2. /\ Len(fm \o pu) = Len(fm) + Len(pu)
          /\ \A i \in 1 .. Len(fm) : (fm \o pu)[i] = fm[i]
          /\ \A i \in 1 .. Len(pu) : (fm \o pu)[Len(fm) + i] = pu[i]
      BY <3>1, ConcatAny
    <3> QED
      BY <1>9, <2>4, <2>5, <3>2
  <2>7. w2 \in Seq(Item)
    BY <2>3, <2>4, <2>5, ConcatProperties
  <2>8. Range(w2) = Range(fr) \cup {<<b, "post">>} \cup Range(pu)
    BY <1>9, <2>4, <2>5, ConcatRange
  <2>9. w \in 1 .. w /\ \A i \in 1 .. w - 1 : i \in 1 .. w
    BY <1>1
  <2> QED
    BY <2>4, <2>6, <2>7, <2>8, <2>9
<1>12. w2 = fr \o mid \o pu
  OBVIOUS
<1> HIDE DEF w2
<1>13. /\ IsSeq(L2) /\ DOMAIN L2 = 1 .. (w + m) + o /\ Len(L2) = (w + m) + o
       /\ \A i \in 1 .. w + m : L2[i] = w2[i][1]
       /\ \A i \in 1 .. o : L2[(w + m) + i] = ot[i]
  <2>1. /\ IsSeq(L2) /\ DOMAIN L2 = 1 .. Len(w2) + Len(ot) /\ Len(L2) = Len(w2) + Len(ot)
        /\ \A i \in 1 .. Len(w2) : L2[i] = w2[i][1]
        /\ \A i \in 1 .. Len(ot) : L2[Len(w2) + i] = ot[i]
    BY <1>2, <1>11, LineParts
  <2> HIDE DEF L2
  <2> QED
    BY <1>11, <2>1 DEF o
<1> HIDE DEF L2
<1>14. \A i \in 1 .. w : L2[i] = L[i]
  <2> SUFFICES ASSUME NEW i \in 1 .. w PROVE L2[i] = L[i]
    OBVIOUS
  <2>1. i \in 1 .. w + m
    BY <1>1, <1>4
  <2>2. L2[i] = w2[i][1] /\ L[i] = wk[i][1]
    BY <1>5, <1>13, <2>1
  <2>3. CASE i = w
    <3>1. w2[w][1] = b
      BY <1>11
    <3> QED
      BY <1>3, <2>2, <2>3, <3>1
  <2>4. CASE i # w
    <3>1. i \in 1 .. w - 1
      BY <1>1, <2>4
    <3> QED
      BY <1>11, <2>2, <3>1
  <2> QED
    BY <2>3, <2>4
<1>15. \A i \in w + 1 .. w + m : (m - (i - w)) + 1 \in 1 .. m /\ L2[i] = once[(m - (i - w)) + 1]
  <2> SUFFICES ASSUME NEW i \in w + 1 .. w + m
               PROVE  (m - (i - w)) + 1 \in 1 .. m /\ L2[i] = once[(m - (i - w)) + 1]
    OBVIOUS
  <2> DEFINE j == i - w
  <2>1. j \in 1 .. m /\ w + j = i /\ i \in 1 .. w + m /\ (m - j) + 1 \in 1 .. m
    BY <1>1, <1>4
  <2>2. (m - (i - w)) + 1 = (m - j) + 1
    OBVIOUS
  <2> HIDE DEF j
  <2>3. L2[i] = pu[j][1] /\ pu[j][1] = once[(m - j) + 1]
    <3>1. w2[i] = pu[j] /\ L2[i] = w2[i][1]
      BY <1>11, <1>13, <2>1
    <3>2. pu[j][1] = once[(m - j) + 1]
      BY <1>9, <2>1
    <3> QED
      BY <3>1, <3>2
  <2> QED
    BY <2>1, <2>2, <2>3
<1>16. \A i \in w + 1 .. w + m : L2[i] \in Range(once)
  BY <1>4, <1>15 DEF Range
<1>17. Range(once) = {L2[i] : i \in w + 1 .. w + m}
  <2>1. ASSUME NEW x \in 1 .. m
        PROVE  once[x] \in {L2[i] : i \in w + 1 .. w + m}
    <3> DEFINE i == w + ((m - x) + 1)
    <3>1. i \in w + 1 .. w + m /\ (m - (i - w)) + 1 = x
      BY <1>1, <1>4
    <3> HIDE DEF i
    <3>2. L2[i] = once[x]
      BY <1>15, <3>1
    <3> QED
      BY <3>1, <3>2
  <2>2. Range(once) \subseteq {L2[i] : i \in w + 1 .. w + m}
    BY <1>4, <2>1 DEF Range
  <2> QED
    BY <1>16, <2>2
<1>18. InOrder(L2) /\ Range(L2) = Range(L) \cup Range(once)
  <2>1. w \in 1 .. Len(L) /\ Len(L2) = Len(L) + m
    BY <1>1, <1>4, <1>5, <1>13
  <2>2. \A i \in w + 1 .. w + m : L2[i] \in Range(Succs(L[w])) /\ L2[i] \notin Range(L)
    <3>1. w \in 1 .. w
      BY <1>1
    <3>2. L[w] = b
      BY <1>3, <1>5, <3>1
    <3> QED
      BY <1>2, <1>6, <1>16, <3>2
  <2>3. \A i, j \in w + 1 .. w + m : L2[i] = L2[j] => i = j
    <3> SUFFICES ASSUME NEW i \in w + 1 .. w + m, NEW j \in w + 1 .. w + m, L2[i] = L2[j]
                 PROVE  i = j
      OBVIOUS
    <3>1. (m - (i - w)) + 1 = (m - (j - w)) + 1
      <4> DEFINE x == (m - (i - w)) + 1
                 y == (m - (j - w)) + 1
      <4>1. x \in 1 .. m /\ y \in 1 .. m /\ once[x] = once[y]
        BY <1>15
      <4> HIDE DEF x, y
      <4>2. x = y
        BY <1>4, <4>1 DEF IsInjective
      <4> QED
        BY <4>2 DEF x, y
    <3> QED
      BY <1>1, <1>4, <3>1
  <2>4. \A i \in w + 1 .. Len(L) : L2[i + m] = L[i]
    <3> SUFFICES ASSUME NEW i \in w + 1 .. w + o PROVE L2[i + m] = L[i]
      BY <1>5
    <3> DEFINE j == i - w
    <3>1. j \in 1 .. o /\ i + m = (w + m) + j /\ i = w + j
      BY <1>1, <1>4
    <3> HIDE DEF j
    <3> QED
      BY <1>5, <1>13, <3>1
  <2>5. Range(L2) = Range(L) \cup Inserted(L2, w, m) /\ InOrder(L2)
    <3>1. InOrder(L) /\ m \in Nat /\ IsSeq(L2)
      BY <1>2, <1>4, <1>13
    <3>2. Insertion(L, L2, w, m)
      BY <1>14, <2>1, <2>2, <2>3, <2>4, <3>1 DEF Insertion
    <3> QED
      BY <2>1, <3>1, <3>2, InsertFollowers
  <2> QED
    BY <1>17, <2>5 DEF Inserted
<1>19. Expanded(w2, ot) = Expanded(wk, ot) \cup {b}
  <2>1. \A x : <<x, "post">> \notin Range(pu)
    BY <1>9, <1>10 DEF Range
  <2>2. \A x \in Blocks : <<x, "post">> \in Range(w2) <=> x = b \/ <<x, "post">> \in Range(fr)
    BY <1>11, <2>1
  <2>3. \A x : <<x, "post">> \in Range(wk) <=> <<x, "post">> \in Range(fr)
    BY <1>1, <1>3
  <2> QED
    BY <1>3, <2>2, <2>3 DEF Expanded
<1>20. Cardinality(Expanded(w2, ot)) + Cardinality(Range(ot)) = k + 1
  <2>1. /\ IsFiniteSet(Expanded(wk, ot)) /\ Cardinality(Expanded(wk, ot)) \in Nat
        /\ Cardinality(Range(ot)) \in Nat
    BY <1>2, ExpandedFinite
  <2>2. b \notin Expanded(wk, ot)
    BY <1>1, <1>3 DEF Expanded
  <2>3. Cardinality(Expanded(wk, ot) \cup {b}) = Cardinality(Expanded(wk, ot)) + 1
    BY <2>1, <2>2, FS_AddElement
  <2> QED
    BY <1>2, <1>19, <2>1, <2>3
<1>21. \A x \in Expanded(w2, ot) : Range(Succs(x)) \subseteq v2
  BY <1>2, <1>6, <1>19
<1>22. v2 \subseteq Reach
  BY <1>2, <1>6, <1>8
<1>23. RpoInv(w2, v2, ot, k + 1)
  BY <1>2, <1>11, <1>18, <1>20, <1>21, <1>22 DEF RpoInv, L2
<1> QED
  BY <1>23 DEF w2, pu, fr, b

Walks == [work : Seq(Item), vis : SUBSET Blocks, out : Seq(Blocks)]

LEMMA PopKeeps ==
  ASSUME Graph, NEW st \in Walks, NEW k, RpoInv(st.work, st.vis, st.out, k)
  PROVE  /\ Pop(st) \in Walks
         /\ RpoInv(Pop(st).work, Pop(st).vis, Pop(st).out, k + 1)
<1> DEFINE wk == st.work
           vs == st.vis
           ot == st.out
           nx == Pop(st)
<1>1. wk \in Seq(Item) /\ vs \subseteq Blocks /\ ot \in Seq(Blocks)
  BY DEF Walks
<1>2. ASSUME NEW w2, NEW v2, NEW o2, RpoInv(w2, v2, o2, k + 1),
             nx = [work |-> w2, vis |-> v2, out |-> o2]
      PROVE  nx \in Walks /\ RpoInv(nx.work, nx.vis, nx.out, k + 1)
  <2>1. nx.work = w2 /\ nx.vis = v2 /\ nx.out = o2
    BY <1>2
  <2>2. w2 \in Seq(Item) /\ o2 \in Seq(Blocks) /\ v2 \subseteq Blocks
    BY <1>2, ReachFacts DEF RpoInv
  <2> HIDE DEF nx
  <2> QED
    BY <1>2, <2>1, <2>2 DEF Walks
<1>3. CASE wk = <<>>
  <2>1. nx = st
    BY <1>3 DEF Pop
  <2>2. RpoInv(wk, vs, ot, k + 1)
    BY <1>3 DEF RpoInv
  <2> QED
    BY <2>1, <2>2
<1>4. CASE wk # <<>> /\ Last(wk)[2] = "post"
  <2>1. nx = [st EXCEPT !.work = Front(@), !.out = <<Last(wk)[1]>> \o @]
    BY <1>4 DEF Pop
  <2>2. nx = [work |-> Front(wk), vis |-> vs, out |-> <<Last(wk)[1]>> \o ot]
    <3> HIDE DEF nx
    <3>1. st = [work |-> wk, vis |-> vs, out |-> ot]
      BY DEF Walks
    <3> QED
      BY <2>1, <3>1
  <2>3. RpoInv(Front(wk), vs, <<Last(wk)[1]>> \o ot, k + 1)
    BY <1>4, PopPost
  <2>4. nx \in Walks /\ RpoInv(nx.work, nx.vis, nx.out, k + 1)
    <3> HIDE DEF nx, wk, vs, ot
    <3> QED
      BY <1>2, <2>2, <2>3
  <2> QED
    BY <2>4
<1>5. CASE wk # <<>> /\ Last(wk)[2] # "post"
  <2> DEFINE b == Last(wk)[1]
             new == Keep(Succs(b), Blocks \ vs)
             once == IF Len(new) = 2 /\ new[1] = new[2] THEN Tail(new) ELSE new
             w2 == Front(wk) \o <<<<b, "post">>>>
                     \o Reverse([i \in DOMAIN once |-> <<once[i], "pre">>])
  <2>1. Last(wk) \in Item /\ b \in Blocks /\ Last(wk)[2] = "pre"
    <3>1. Last(wk) \in Item
      BY <1>5, TopOfWork
    <3> QED
      BY <1>5, <3>1 DEF Item
  <2>2. nx = [work |-> w2, vis |-> vs \cup Range(once), out |-> ot]
    <3>1. wk # <<>> /\ ~ (Last(wk)[2] = "post")
      BY <1>5
    <3> QED
      BY <3>1, Zenon DEF Pop
  <2>3. IsSeq(Succs(b)) /\ Len(Succs(b)) <= 2 /\ Range(Succs(b)) \subseteq Blocks
    BY <2>1 DEF Graph
  <2>4. IsSeq(new) /\ Len(new) <= 2 /\ Range(new) = Range(Succs(b)) \ vs
    <3>1. /\ IsSeq(new) /\ Len(new) <= Len(Succs(b))
          /\ Range(new) = Range(Succs(b)) \cap (Blocks \ vs)
      BY <2>3, KeepFacts
    <3>2. Len(new) \in Nat /\ Len(Succs(b)) \in Nat
      BY <2>3, <3>1, DomainOfSeq
    <3> HIDE DEF new
    <3> QED
      BY <2>3, <3>1, <3>2
  <2> HIDE DEF new
  <2>5. IsSeq(once) /\ IsInjective(once) /\ Range(once) = Range(new)
    BY <2>4, OnceEach
  <2> HIDE DEF once
  <2>6. RpoInv(w2, vs \cup Range(once), ot, k + 1)
    BY <1>5, <2>1, <2>4, <2>5, PopPre
  <2>7. nx \in Walks /\ RpoInv(nx.work, nx.vis, nx.out, k + 1)
    <3> HIDE DEF nx, w2, wk, vs, ot
    <3> QED
      BY <1>2, <2>2, <2>6
  <2> QED
    BY <2>7
<1> QED
  BY <1>3, <1>4, <1>5

\* What mk_rpo starts from and what it leaves.
FirstWalk == [work |-> <<<<1, "pre">>>>, vis |-> {1}, out |-> <<>>]
RpoOf == Iterate(Pop, FirstWalk, 2 * Len(M.blks)).out

LEMMA FirstWalkRight ==
  ASSUME Graph
  PROVE  FirstWalk \in Walks /\ RpoInv(FirstWalk.work, FirstWalk.vis, FirstWalk.out, 0)
<1> DEFINE e == <<1, "pre">>
           wk == <<e>>
           L == Line(wk, <<>>)
<1>1. 1 \in Blocks /\ 1 \in Reach
  BY ReachFacts DEF Graph
<1>2. e \in Item
  BY <1>1 DEF Item
<1>3. e[1] = 1 /\ \A b \in Blocks : <<b, "post">> # e
  OBVIOUS
<1> HIDE DEF e
<1>4. wk \in Seq(Item) /\ Len(wk) = 1 /\ wk[1] = e /\ Range(wk) = {e} /\ wk # <<>>
  BY <1>2 DEF Range
<1>5. <<>> \in Seq(Blocks) /\ Len(<<>>) = 0 /\ Range(<<>>) = {}
  BY DEF Range
<1>6. FirstWalk = [work |-> wk, vis |-> {1}, out |-> <<>>]
  BY DEF FirstWalk, e
<1> HIDE DEF wk
<1>7. /\ IsSeq(L) /\ DOMAIN L = {1} /\ L[1] = 1
  <2>1. /\ IsSeq(L) /\ DOMAIN L = 1 .. Len(wk) + Len(<<>>)
        /\ \A i \in 1 .. Len(wk) : L[i] = wk[i][1]
    BY <1>4, <1>5, LineParts
  <2> HIDE DEF L
  <2>2. 1 + 0 = 1 /\ 1 .. 1 = {1} /\ 1 \in 1 .. 1
    OBVIOUS
  <2>3. DOMAIN L = {1} /\ L[1] = wk[1][1]
    BY <1>4, <1>5, <2>1, <2>2
  <2> QED
    BY <1>3, <1>4, <2>1, <2>3
<1> HIDE DEF L
<1>8. InOrder(L) /\ Range(L) = {1}
  BY <1>7 DEF InOrder, IsInjective, Range
<1>9. Expanded(wk, <<>>) = {}
  BY <1>3, <1>4, <1>5 DEF Expanded
<1>10. Cardinality(Expanded(wk, <<>>)) + Cardinality(Range(<<>>)) = 0
  <2>1. Cardinality({}) = 0 /\ 0 + 0 = 0
    BY FS_EmptySet
  <2> QED
    BY <1>5, <1>9, <2>1
<1>11. RpoInv(wk, {1}, <<>>, 0)
  BY <1>1, <1>4, <1>5, <1>8, <1>9, <1>10 DEF RpoInv, L
<1> QED
  BY <1>1, <1>4, <1>5, <1>6, <1>11 DEF Walks

\* The order lists every reachable block once, each behind a predecessor.
LEMMA RpoRight ==
  ASSUME Graph
  PROVE  RpoOf \in Seq(Blocks) /\ InOrder(RpoOf) /\ Range(RpoOf) = Reach
<1> DEFINE n == Len(M.blks)
           N == 2 * n
           T == [k \in 0 .. N |-> {st \in Walks : RpoInv(st.work, st.vis, st.out, k)}]
           step == [k \in 1 .. N |-> [st \in Walks |-> Pop(st)]]
           Is(g) == g = [k \in 0 .. N |-> IF k = 0 THEN FirstWalk ELSE Pop(g[k - 1])]
<1>1. n \in Nat /\ N \in Nat
  BY DEF Graph
<1> HIDE DEF n, N
<1>2. ASSUME NEW k \in 1 .. N, NEW st \in T[k - 1]
      PROVE  st \in Walks /\ Pop(st) \in T[k]
  <2>1. k - 1 \in 0 .. N /\ k \in 0 .. N /\ (k - 1) + 1 = k
    BY <1>1
  <2>2. st \in Walks /\ RpoInv(st.work, st.vis, st.out, k - 1)
    BY <2>1
  <2>3. /\ Pop(st) \in Walks
        /\ RpoInv(Pop(st).work, Pop(st).vis, Pop(st).out, (k - 1) + 1)
    BY <2>2, PopKeeps
  <2> QED
    BY <2>1, <2>2, <2>3
<1>3. FirstWalk \in T[0]
  BY <1>1, FirstWalkRight
<1> HIDE DEF T
<1>4. \E g : Is(g)
  <2>1. \A k \in 1 .. N : \A st \in T[k - 1] : step[k][st] \in T[k]
    BY <1>2
  <2> HIDE DEF step
  <2>2. PICK g : Follows(g, N, FirstWalk, step) /\ \A k \in 0 .. N : g[k] \in T[k]
    BY <1>1, <1>3, <2>1, StepsExist
  <2>3. ASSUME NEW k \in 1 .. N
        PROVE  step[k][g[k - 1]] = Pop(g[k - 1])
    <3>1. k - 1 \in 0 .. N
      BY <1>1
    <3>2. g[k - 1] \in Walks
      BY <1>2, <2>2, <3>1
    <3> QED
      BY <3>2 DEF step
  <2>4. \A k \in 0 .. N : k # 0 => k \in 1 .. N
    BY <1>1
  <2>5. Is(g)
    BY <2>2, <2>3, <2>4 DEF Follows
  <2> QED
    BY <2>5
<1> DEFINE it == CHOOSE g : Is(g)
<1>5. Is(it)
  <2> HIDE DEF Is
  <2> QED
    BY <1>4
<1>6. RpoOf = it[N].out
  BY DEF RpoOf, Iterate, N, n
<1> HIDE DEF it
<1>7. it[N] \in T[N]
  <2>1. ASSUME NEW k \in 1 .. N, it[k - 1] \in T[k - 1]
        PROVE  it[k] \in T[k]
    <3>1. k \in 0 .. N /\ k # 0
      BY <1>1
    <3>2. it[k] = Pop(it[k - 1])
      BY <1>5, <3>1
    <3> QED
      BY <1>2, <2>1, <3>2
  <2>2. it[0] = FirstWalk
    BY <1>1, <1>5
  <2>3. \A k \in 0 .. N : it[k] \in T[k]
    <3> HIDE DEF Is
    <3> QED
      BY <1>1, <1>3, <2>1, <2>2, StepsStay
  <2> QED
    BY <1>1, <2>3
<1> DEFINE wk == it[N].work
           vs == it[N].vis
           ot == it[N].out
<1>8. RpoInv(wk, vs, ot, N)
  <2>1. N \in 0 .. N
    BY <1>1
  <2> QED
    BY <1>7, <2>1 DEF T
<1> HIDE DEF wk, vs, ot
<1>9. wk \in Seq(Item) /\ ot \in Seq(Blocks)
  BY <1>8 DEF RpoInv
<1>10. wk = <<>>
  <2> SUFFICES ASSUME wk # <<>> PROVE FALSE
    OBVIOUS
  <2>1. Cardinality(Expanded(wk, ot)) + Cardinality(Range(ot)) = N
    BY <1>8 DEF RpoInv
  <2>2. Last(wk)[1] \in Blocks \ Range(ot)
    <3>1. Last(wk) \in Item /\ Last(wk)[1] \notin Range(ot)
      BY <1>8, TopOfWork
    <3> QED
      BY <3>1 DEF Item
  <2>3. /\ Cardinality(Expanded(wk, ot)) \in Nat /\ Cardinality(Range(ot)) \in Nat
        /\ Cardinality(Expanded(wk, ot)) <= n /\ Cardinality(Range(ot)) + 1 <= n
    BY <1>9, <2>2, ExpandedFinite DEF n
  <2> QED
    BY <1>1, <2>1, <2>3 DEF N
<1>11. Line(wk, ot) = ot
  <2>1. Len(wk) = 0 /\ Len(ot) \in Nat /\ ot = [i \in 1 .. Len(ot) |-> ot[i]]
    <3>1. DOMAIN ot = 1 .. Len(ot) /\ Len(ot) \in Nat
      BY <1>9, LenProperties
    <3> QED
      BY <1>9, <1>10, <3>1, EmptySeq
  <2>2. Line(wk, ot) = [i \in 1 .. Len(ot) |-> ot[i]]
    <3>1. 0 + Len(ot) = Len(ot) /\ \A i \in 1 .. Len(ot) : ~ (i <= 0) /\ i - 0 = i
      BY <2>1
    <3> QED
      BY <2>1, <3>1 DEF Line
  <2> QED
    BY <2>1, <2>2
<1>12. InOrder(ot) /\ Range(ot) = vs /\ vs \subseteq Reach
  BY <1>8, <1>11 DEF RpoInv
<1>13. \A b \in vs : Range(Succs(b)) \subseteq vs
  BY <1>8, <1>12 DEF RpoInv, Expanded
<1>14. Reach \subseteq vs
  <2>1. 1 \in vs
    BY <1>12 DEF InOrder, Range
  <2>2. vs \in SUBSET Blocks
    BY <1>12, ReachFacts
  <2>3. ClosedUnder(vs, {})
    BY <1>13 DEF ClosedUnder
  <2> QED
    BY <2>1, <2>2, <2>3, ReachedWithin DEF Reach
<1> QED
  BY <1>6, <1>9, <1>12, <1>14 DEF ot

---------------------------------------------------------------------------
(* cmp_dom: the trees it builds, from an order and predecessor lists that  *)
(* are right.                                                              *)

Ready ==
  /\ Graph
  /\ rpo \in Seq(Blocks) /\ InOrder(rpo) /\ Range(rpo) = Reach
  /\ \A t \in Blocks :
       /\ IsSeq(pred[t])
       /\ \A p \in Range(pred[t]) : p \in Blocks /\ t \in Range(Succs(p))
       /\ \A p \in Blocks : t \in Range(Succs(p)) => p \in Range(pred[t])

LEMMA NumFacts ==
  ASSUME Ready
  PROVE  /\ Len(rpo) \in Nat /\ DOMAIN rpo = 1 .. Len(rpo)
         /\ \A k \in 1 .. Len(rpo) : rpo[k] \in Reach /\ Num[rpo[k]] = k
         /\ \A b \in Reach : Num[b] \in 1 .. Len(rpo) /\ rpo[Num[b]] = b
         /\ \A a, b \in Reach : Num[a] = Num[b] => a = b
         /\ Num[1] = 1 /\ 1 \in Reach /\ Reach \subseteq Blocks /\ None \notin Blocks
<1>1. Graph /\ rpo \in Seq(Blocks) /\ InOrder(rpo) /\ Range(rpo) = Reach
  BY DEF Ready
<1>2. Len(rpo) \in Nat /\ DOMAIN rpo = 1 .. Len(rpo)
  BY <1>1, LenProperties
<1>3. \A k \in 1 .. Len(rpo) : rpo[k] \in Reach
  BY <1>1, <1>2 DEF Range
<1>4. \A b \in Reach : Num[b] \in 1 .. Len(rpo) /\ rpo[Num[b]] = b
  <2> SUFFICES ASSUME NEW b \in Reach PROVE Num[b] \in 1 .. Len(rpo) /\ rpo[Num[b]] = b
    OBVIOUS
  <2>1. Num[b] = CHOOSE k \in DOMAIN rpo : rpo[k] = b
    BY <1>1 DEF Num
  <2>2. \E k \in DOMAIN rpo : rpo[k] = b
    BY <1>1 DEF Range
  <2> QED
    BY <1>2, <2>1, <2>2
<1>5. \A k \in 1 .. Len(rpo) : Num[rpo[k]] = k
  BY <1>1, <1>2, <1>3, <1>4 DEF InOrder, IsInjective
<1>6. \A a, b \in Reach : Num[a] = Num[b] => a = b
  BY <1>4
<1>7. Num[1] = 1
  BY <1>1, <1>2, <1>5 DEF InOrder
<1>8. 1 \in Reach /\ Reach \subseteq Blocks
  BY <1>1, ReachFacts
<1>9. None \notin Blocks
  BY <1>1 DEF Graph, None
<1> QED
  BY <1>2, <1>3, <1>4, <1>5, <1>6, <1>7, <1>8, <1>9

\* A dominator comes no later in the order.
LEMMA DomBefore ==
  ASSUME Ready, NEW z \in Reach, NEW x \in Reach, Dom(z, x)
  PROVE  Num[z] <= Num[x]
<1> DEFINE n == Len(rpo)
           R == Reached({z})
           T == {k \in Nat : \A j \in 1 .. k : j < Num[z] => rpo[j] \in R}
<1>1. /\ n \in Nat /\ DOMAIN rpo = 1 .. n
      /\ \A b \in Reach : Num[b] \in 1 .. n /\ rpo[Num[b]] = b
      /\ \A k \in 1 .. n : Num[rpo[k]] = k
      /\ Num[1] = 1
  BY NumFacts
<1> HIDE DEF n
<1>2. CASE z = x \/ z = 1
  BY <1>1, <1>2
<1>3. CASE z # x /\ z # 1
  <2>1. x \notin R
    BY <1>3 DEF Dom
  <2>2. 1 \in R /\ ClosedUnder(R, {z})
    BY ReachedFacts DEF Ready
  <2> HIDE DEF R
  <2>3. 0 \in T
    OBVIOUS
  <2>4. ASSUME NEW k \in Nat, k \in T PROVE k + 1 \in T
    <3> SUFFICES ASSUME NEW j \in 1 .. k + 1, j < Num[z] PROVE rpo[j] \in R
      OBVIOUS
    <3>1. CASE j <= k
      BY <2>4, <3>1
    <3>2. CASE j = k + 1 /\ j = 1
      BY <2>2, <3>2 DEF Ready, InOrder
    <3>3. CASE j = k + 1 /\ j # 1
      <4>1. j \in 1 .. n /\ Num[rpo[j]] = j
        BY <1>1
      <4>2. PICK i \in 1 .. n : i < j /\ rpo[j] \in Range(Succs(rpo[i]))
        BY <1>1, <3>3, <4>1 DEF Ready, InOrder, Follower
      <4>3. i \in 1 .. k /\ i < Num[z]
        BY <1>1, <3>3, <4>2
      <4>4. rpo[i] \in R
        BY <2>4, <4>3
      <4>5. rpo[j] # z
        BY <4>1
      <4> QED
        BY <2>2, <4>2, <4>4, <4>5 DEF ClosedUnder
    <3> QED
      BY <3>1, <3>2, <3>3
  <2>5. Num[x] \in T
    <3> HIDE DEF T
    <3>1. Num[x] \in Nat
      BY <1>1
    <3> QED
      BY <2>3, <2>4, <3>1, Induction
  <2>6. Num[x] \in 1 .. Num[x] /\ rpo[Num[x]] = x /\ Num[z] \in Int /\ Num[x] \in Int
    BY <1>1
  <2>7. ~ (Num[x] < Num[z])
    BY <2>1, <2>5, <2>6
  <2> QED
    BY <2>6, <2>7
<1> QED
  BY <1>2, <1>3

\* The blocks that have a place in the tree d, and what makes it a tree: each
\* but the first comes behind the block above it, which every other dominator
\* dominates.
Done(d) == {b \in Blocks : d[b] # None}
Tree(d) ==
  /\ d \in [Blocks -> Blocks \cup {None}]
  /\ d[1] = 1
  /\ \A b \in Done(d) : b \in Reach /\ d[b] \in Done(d)
  /\ \A b \in Done(d) \ {1} :
       Num[d[b]] < Num[b] /\ \A z \in Reach : SDom(z, b) => Dom(z, d[b])
\* A set that has the block above each of its blocks.
Upward(U, d) == \A x \in U \ {1} : d[x] \in U

\* The two fingers have gone up from a and b.
Fingers(d, a, b, p, k) ==
  /\ p \in Done(d) \X Done(d)
  /\ Num[p[1]] <= Num[a] /\ Num[p[2]] <= Num[b]
  /\ p[1] = p[2] \/ Num[p[1]] + Num[p[2]] + k <= 2 * Len(rpo)
  /\ \A z \in Reach : Dom(z, a) /\ Dom(z, b) => Dom(z, p[1]) /\ Dom(z, p[2])
  /\ \A U \in SUBSET Blocks :
       Upward(U, d) => (a \in U => p[1] \in U) /\ (b \in U => p[2] \in U)

\* A finger at x goes up when the other, at y, comes before it.
LEMMA OneUp ==
  ASSUME Ready, NEW d, Tree(d), NEW x \in Done(d), NEW y \in Done(d), Num[x] > Num[y]
  PROVE  /\ d[x] \in Done(d) /\ Num[d[x]] < Num[x]
         /\ \A z \in Reach : Dom(z, x) /\ Dom(z, y) => Dom(z, d[x])
         /\ \A U : Upward(U, d) /\ x \in U => d[x] \in U
<1>1. x \in Reach /\ y \in Reach /\ x # 1
  <2>1. x \in Reach /\ y \in Reach
    BY DEF Tree
  <2>2. Num[1] = 1 /\ Num[y] \in 1 .. Len(rpo)
    BY <2>1, NumFacts
  <2> QED
    BY <2>1, <2>2
<1>2. d[x] \in Done(d) /\ Num[d[x]] < Num[x] /\ \A z \in Reach : SDom(z, x) => Dom(z, d[x])
  BY <1>1 DEF Tree
<1>3. ASSUME NEW z \in Reach, Dom(z, x), Dom(z, y)
      PROVE  Dom(z, d[x])
  <2>1. Num[z] <= Num[y] /\ Num[x] \in Nat /\ Num[y] \in Nat /\ Num[z] \in Nat
    <3>1. \A b \in Reach : Num[b] \in 1 .. Len(rpo)
      BY NumFacts
    <3> QED
      BY <1>1, <1>3, <3>1, DomBefore
  <2>2. z # x
    BY <2>1
  <2> QED
    BY <1>2, <1>3, <2>2 DEF SDom
<1> QED
  BY <1>1, <1>2, <1>3 DEF Upward

LEMMA ClimbKeeps ==
  ASSUME Ready, NEW d, Tree(d), NEW a \in Done(d), NEW b \in Done(d), NEW k \in Nat, NEW p,
         Fingers(d, a, b, p, k)
  PROVE  Fingers(d, a, b, Climb(Num, d, p), k + 1)
<1> DEFINE x == p[1]
           y == p[2]
           L2 == 2 * Len(rpo)
<1>1. /\ p = <<x, y>> /\ x \in Done(d) /\ y \in Done(d)
      /\ Num[x] <= Num[a] /\ Num[y] <= Num[b]
      /\ x = y \/ Num[x] + Num[y] + k <= L2
      /\ \A z \in Reach : Dom(z, a) /\ Dom(z, b) => Dom(z, x) /\ Dom(z, y)
      /\ \A U \in SUBSET Blocks : Upward(U, d) => (a \in U => x \in U) /\ (b \in U => y \in U)
  BY DEF Fingers
<1>2. L2 \in Nat
  BY NumFacts
<1>3. \A c \in Done(d) : c \in Reach /\ Num[c] \in Nat
  <2>1. \A c \in Done(d) : c \in Reach
    BY DEF Tree
  <2>2. \A c \in Reach : Num[c] \in 1 .. Len(rpo)
    BY NumFacts
  <2> QED
    BY <2>1, <2>2
<1> HIDE DEF x, y, L2
<1>4. ASSUME NEW v \in Done(d), NEW w \in Done(d), Climb(Num, d, p) = <<v, w>>,
             Num[v] <= Num[x], Num[w] <= Num[y],
             v = w \/ Num[v] + Num[w] + 1 <= Num[x] + Num[y],
             x = y => v = w,
             \A z \in Reach : Dom(z, x) /\ Dom(z, y) => Dom(z, v) /\ Dom(z, w),
             \A U : Upward(U, d) => (x \in U => v \in U) /\ (y \in U => w \in U)
      PROVE  Fingers(d, a, b, Climb(Num, d, p), k + 1)
  <2> DEFINE q == Climb(Num, d, p)
  <2>1. q[1] = v /\ q[2] = w /\ q \in Done(d) \X Done(d)
    BY <1>4
  <2> HIDE DEF q
  <2>2. Num[v] \in Nat /\ Num[w] \in Nat /\ Num[x] \in Nat /\ Num[y] \in Nat
        /\ Num[a] \in Nat /\ Num[b] \in Nat
    BY <1>1, <1>3
  <2>3. Num[v] <= Num[a] /\ Num[w] <= Num[b]
    BY <1>1, <1>4, <2>2
  <2>4. v = w \/ Num[v] + Num[w] + (k + 1) <= L2
    BY <1>1, <1>2, <1>4, <2>2
  <2>5. Fingers(d, a, b, q, k + 1)
    BY <1>1, <1>4, <2>1, <2>3, <2>4 DEF Fingers, L2
  <2> QED
    BY <2>5 DEF q
<1>5. CASE x = y
  <2>1. Climb(Num, d, p) = <<x, y>>
    BY <1>1, <1>5 DEF Climb
  <2>2. Num[x] <= Num[x] /\ Num[y] <= Num[y]
    BY <1>1, <1>3
  <2> QED
    BY <1>1, <1>4, <1>5, <2>1, <2>2
<1>6. CASE x # y /\ Num[x] > Num[y]
  <2>1. Climb(Num, d, p) = <<d[x], y>>
    BY <1>1, <1>6 DEF Climb
  <2>2. /\ d[x] \in Done(d) /\ Num[d[x]] < Num[x]
        /\ \A z \in Reach : Dom(z, x) /\ Dom(z, y) => Dom(z, d[x])
        /\ \A U : Upward(U, d) /\ x \in U => d[x] \in U
    BY <1>1, <1>6, OneUp
  <2>3. /\ Num[d[x]] <= Num[x] /\ Num[y] <= Num[y]
        /\ Num[d[x]] + Num[y] + 1 <= Num[x] + Num[y]
    BY <1>1, <1>3, <2>2
  <2> QED
    BY <1>1, <1>4, <1>6, <2>1, <2>2, <2>3
<1>7. CASE x # y /\ ~ (Num[x] > Num[y])
  <2>1. Climb(Num, d, p) = <<x, d[y]>>
    BY <1>1, <1>7 DEF Climb
  <2>2. Num[y] > Num[x]
    <3>1. Num[x] # Num[y]
      BY <1>1, <1>3, <1>7, NumFacts
    <3> QED
      BY <1>1, <1>3, <1>7, <3>1
  <2>3. /\ d[y] \in Done(d) /\ Num[d[y]] < Num[y]
        /\ \A z \in Reach : Dom(z, y) /\ Dom(z, x) => Dom(z, d[y])
        /\ \A U : Upward(U, d) /\ y \in U => d[y] \in U
    BY <1>1, <2>2, OneUp
  <2>4. /\ Num[d[y]] <= Num[y] /\ Num[x] <= Num[x]
        /\ Num[x] + Num[d[y]] + 1 <= Num[x] + Num[y]
    BY <1>1, <1>3, <2>3
  <2> QED
    BY <1>1, <1>4, <1>7, <2>1, <2>3, <2>4
<1> QED
  BY <1>5, <1>6, <1>7

\* The block where the fingers meet is above both, and keeps the dominators
\* that they have in common.
Above(d, c, a) ==
  /\ Num[c] <= Num[a]
  /\ \A U \in SUBSET Blocks : Upward(U, d) /\ a \in U => c \in U

LEMMA IntersectRight ==
  ASSUME Ready, NEW d, Tree(d), NEW a \in Done(d), NEW b \in Done(d)
  PROVE  LET c == Intersect(Num, d, a, b)
         IN /\ c \in Done(d) /\ Above(d, c, a) /\ Above(d, c, b)
            /\ \A z \in Reach : Dom(z, a) /\ Dom(z, b) => Dom(z, c)
<1> DEFINE N == 2 * Len(rpo)
           S == Done(d) \X Done(d)
           T == [k \in 0 .. N |-> {p \in S : Fingers(d, a, b, p, k)}]
           step == [k \in 1 .. N |-> [p \in S |-> Climb(Num, d, p)]]
           Is(g) == g = [k \in 0 .. N |-> IF k = 0 THEN <<a, b>> ELSE Climb(Num, d, g[k - 1])]
           c == Intersect(Num, d, a, b)
<1>1. N \in Nat /\ Len(rpo) \in Nat
  BY NumFacts
<1>2. a \in Reach /\ b \in Reach /\ Num[a] \in 1 .. Len(rpo) /\ Num[b] \in 1 .. Len(rpo)
  <2>1. a \in Reach /\ b \in Reach
    BY DEF Tree
  <2> QED
    BY <2>1, NumFacts
<1>3. <<a, b>> \in T[0]
  <2> DEFINE p == <<a, b>>
  <2>1. p \in S /\ p[1] = a /\ p[2] = b
    OBVIOUS
  <2> HIDE DEF p
  <2>2. Num[a] <= Num[a] /\ Num[b] <= Num[b] /\ Num[a] + Num[b] + 0 <= N
    BY <1>1, <1>2
  <2>3. Fingers(d, a, b, p, 0)
    BY <2>1, <2>2 DEF Fingers
  <2>4. p \in T[0]
    BY <1>1, <2>1, <2>3
  <2> QED
    BY <2>4 DEF p
<1> HIDE DEF N
<1>4. ASSUME NEW k \in 1 .. N, NEW p \in T[k - 1]
      PROVE  p \in S /\ Climb(Num, d, p) \in T[k]
  <2>1. k - 1 \in 0 .. N /\ k \in 0 .. N /\ (k - 1) + 1 = k /\ k - 1 \in Nat
    BY <1>1
  <2>2. p \in S /\ Fingers(d, a, b, p, k - 1)
    BY <2>1
  <2>3. Fingers(d, a, b, Climb(Num, d, p), (k - 1) + 1)
    BY <2>1, <2>2, ClimbKeeps
  <2>4. Climb(Num, d, p) \in S
    BY <2>3 DEF Fingers
  <2> QED
    BY <2>1, <2>2, <2>3, <2>4
<1> HIDE DEF T, S
<1>5. \E g : Is(g)
  <2>1. \A k \in 1 .. N : \A p \in T[k - 1] : step[k][p] \in T[k]
    BY <1>4
  <2> HIDE DEF step
  <2>2. PICK g : Follows(g, N, <<a, b>>, step) /\ \A k \in 0 .. N : g[k] \in T[k]
    BY <1>1, <1>3, <2>1, StepsExist
  <2>3. ASSUME NEW k \in 1 .. N
        PROVE  step[k][g[k - 1]] = Climb(Num, d, g[k - 1])
    <3>1. k - 1 \in 0 .. N
      BY <1>1
    <3>2. g[k - 1] \in S
      BY <1>4, <2>2, <3>1
    <3> QED
      BY <3>2 DEF step
  <2>4. \A k \in 0 .. N : k # 0 => k \in 1 .. N
    BY <1>1
  <2>5. Is(g)
    BY <2>2, <2>3, <2>4 DEF Follows
  <2> QED
    BY <2>5
<1> DEFINE it == CHOOSE g : Is(g)
<1>6. Is(it)
  <2> HIDE DEF Is
  <2> QED
    BY <1>5
<1>7. c = it[N][1]
  BY DEF Intersect, Iterate, N
<1> HIDE DEF it
<1>8. it[N] \in T[N]
  <2>1. ASSUME NEW k \in 1 .. N, it[k - 1] \in T[k - 1]
        PROVE  it[k] \in T[k]
    <3>1. k \in 0 .. N /\ k # 0
      BY <1>1
    <3>2. it[k] = Climb(Num, d, it[k - 1])
      BY <1>6, <3>1
    <3> QED
      BY <1>4, <2>1, <3>2
  <2>2. it[0] = <<a, b>>
    BY <1>1, <1>6
  <2>3. \A k \in 0 .. N : it[k] \in T[k]
    <3> HIDE DEF Is
    <3> QED
      BY <1>1, <1>3, <2>1, <2>2, StepsStay
  <2> QED
    BY <1>1, <2>3
<1> DEFINE p == it[N]
<1>9. Fingers(d, a, b, p, N)
  <2>1. N \in 0 .. N
    BY <1>1
  <2> QED
    BY <1>8, <2>1 DEF T
<1> HIDE DEF p
<1>10. p[1] = p[2] /\ p[1] \in Done(d)
  <2>1. p[1] \in Done(d) /\ p[2] \in Done(d)
    BY <1>9 DEF Fingers
  <2>2. p[1] \in Reach /\ p[2] \in Reach
    BY <2>1 DEF Tree
  <2>3. Num[p[1]] \in 1 .. Len(rpo) /\ Num[p[2]] \in 1 .. Len(rpo)
    BY <2>2, NumFacts
  <2>4. ~ (Num[p[1]] + Num[p[2]] + N <= 2 * Len(rpo))
    BY <1>1, <2>3 DEF N
  <2> QED
    BY <1>9, <2>1, <2>4 DEF Fingers
<1>11. c = p[1]
  BY <1>7 DEF p
<1> HIDE DEF c
<1>12. /\ c \in Done(d) /\ Above(d, c, a) /\ Above(d, c, b)
       /\ \A z \in Reach : Dom(z, a) /\ Dom(z, b) => Dom(z, c)
  BY <1>9, <1>10, <1>11 DEF Fingers, Above
<1> QED
  BY <1>12 DEF c

\* After the first k predecessors of b.
Met(d, b, r, k) ==
  \/ r = None /\ \A j \in 1 .. k : d[pred[b][j]] = None
  \/ /\ r \in Done(d) /\ \E j \in 1 .. k : d[pred[b][j]] # None
     /\ \A j \in 1 .. k : d[pred[b][j]] # None => Above(d, r, pred[b][j])
     /\ \A z \in Reach :
          (\A j \in 1 .. k : d[pred[b][j]] # None => Dom(z, pred[b][j])) => Dom(z, r)

LEMMA AboveBoth ==
  ASSUME Ready, NEW d, Tree(d), NEW a \in Done(d), NEW b \in Done(d), NEW c \in Done(d),
         Above(d, c, a), Above(d, a, b)
  PROVE  Above(d, c, b)
<1>1. a \in Reach /\ b \in Reach /\ c \in Reach
  BY DEF Tree
<1>2. Num[a] \in Nat /\ Num[b] \in Nat /\ Num[c] \in Nat
  <2>1. \A x \in Reach : Num[x] \in 1 .. Len(rpo)
    BY NumFacts
  <2> QED
    BY <1>1, <2>1
<1>3. Num[c] <= Num[b]
  BY <1>2 DEF Above
<1> QED
  BY <1>3 DEF Above

LEMMA MeetKeeps ==
  ASSUME Ready, NEW d, Tree(d), NEW b, NEW r, NEW k \in Nat \ {0}, Met(d, b, r, k - 1),
         \A j \in 1 .. k : pred[b][j] \in Blocks
  PROVE  Met(d, b, Meet(Num, d, r, pred[b][k]), k)
<1> DEFINE p == pred[b][k]
           q == Meet(Num, d, r, p)
<1>1. \A j \in 1 .. k : j \in 1 .. k - 1 \/ j = k
  OBVIOUS
<1>2. \A j \in 1 .. k - 1 : j \in 1 .. k
  OBVIOUS
<1>3. k \in 1 .. k /\ p \in Blocks
  OBVIOUS
<1>4. None \notin Done(d)
  <2>1. None \notin Blocks
    BY NumFacts
  <2> QED
    BY <2>1 DEF Done
<1>5. CASE d[p] = None
  <2>1. q = r
    BY <1>5 DEF Meet
  <2>2. CASE r = None
    <3>1. \A j \in 1 .. k : d[pred[b][j]] = None
      BY <1>1, <1>4, <1>5, <2>2 DEF Met
    <3> QED
      BY <2>1, <2>2, <3>1 DEF Met
  <2>3. CASE r # None
    <3>1. /\ r \in Done(d) /\ \E j \in 1 .. k - 1 : d[pred[b][j]] # None
          /\ \A j \in 1 .. k - 1 : d[pred[b][j]] # None => Above(d, r, pred[b][j])
          /\ \A z \in Reach :
               (\A j \in 1 .. k - 1 : d[pred[b][j]] # None => Dom(z, pred[b][j])) => Dom(z, r)
      BY <2>3 DEF Met
    <3>2. \A j \in 1 .. k : d[pred[b][j]] # None => Above(d, r, pred[b][j])
      BY <1>1, <1>5, <3>1
    <3>3. \A z \in Reach :
            (\A j \in 1 .. k : d[pred[b][j]] # None => Dom(z, pred[b][j])) => Dom(z, r)
      BY <1>2, <3>1
    <3>4. \E j \in 1 .. k : d[pred[b][j]] # None
      BY <1>2, <3>1
    <3> QED
      BY <2>1, <3>1, <3>2, <3>3, <3>4 DEF Met
  <2> QED
    BY <2>2, <2>3
<1>6. CASE d[p] # None /\ r = None
  <2>1. q = p
    BY <1>6 DEF Meet
  <2>2. p \in Done(d)
    BY <1>3, <1>6 DEF Done
  <2>3. Above(d, p, p)
    <3>1. p \in Reach
      BY <2>2 DEF Tree
    <3>2. Num[p] \in 1 .. Len(rpo)
      BY <3>1, NumFacts
    <3>3. Num[p] <= Num[p]
      BY <3>2
    <3> QED
      BY <3>3 DEF Above
  <2>4. \A j \in 1 .. k - 1 : d[pred[b][j]] = None
    BY <1>4, <1>6 DEF Met
  <2>5. \A j \in 1 .. k : d[pred[b][j]] # None => Above(d, p, pred[b][j])
    BY <1>1, <2>3, <2>4
  <2>6. \A z \in Reach :
          (\A j \in 1 .. k : d[pred[b][j]] # None => Dom(z, pred[b][j])) => Dom(z, p)
    BY <1>3, <1>6
  <2> HIDE DEF p, q
  <2>7. \E j \in 1 .. k : d[pred[b][j]] # None
    BY <1>3, <1>6 DEF p
  <2> QED
    BY <2>1, <2>2, <2>5, <2>6, <2>7 DEF Met, p, q
<1>7. CASE d[p] # None /\ r # None
  <2>1. q = Intersect(Num, d, r, p)
    BY <1>7 DEF Meet
  <2>2. p \in Done(d)
    BY <1>3, <1>7 DEF Done
  <2>3. /\ r \in Done(d)
        /\ \A j \in 1 .. k - 1 : d[pred[b][j]] # None => Above(d, r, pred[b][j])
        /\ \A z \in Reach :
             (\A j \in 1 .. k - 1 : d[pred[b][j]] # None => Dom(z, pred[b][j])) => Dom(z, r)
    BY <1>7 DEF Met
  <2>4. /\ q \in Done(d) /\ Above(d, q, r) /\ Above(d, q, p)
        /\ \A z \in Reach : Dom(z, r) /\ Dom(z, p) => Dom(z, q)
    BY <2>1, <2>2, <2>3, IntersectRight
  <2>5. ASSUME NEW j \in 1 .. k, d[pred[b][j]] # None
        PROVE  Above(d, q, pred[b][j])
    <3>1. CASE j = k
      BY <2>4, <3>1
    <3>2. CASE j \in 1 .. k - 1
      <4>1. Above(d, r, pred[b][j])
        BY <2>3, <2>5, <3>2
      <4>2. CASE pred[b][j] \in Done(d)
        <5> HIDE DEF q
        <5> QED
          BY <2>3, <2>4, <4>1, <4>2, AboveBoth
      <4>3. CASE pred[b][j] \notin Done(d)
        BY <2>5, <4>3 DEF Done
      <4> QED
        BY <4>2, <4>3
    <3> QED
      BY <1>1, <3>1, <3>2
  <2>6. ASSUME NEW z \in Reach,
               \A j \in 1 .. k : d[pred[b][j]] # None => Dom(z, pred[b][j])
        PROVE  Dom(z, q)
    <3>1. Dom(z, r) /\ Dom(z, p)
      BY <1>2, <1>3, <1>7, <2>3, <2>6
    <3> QED
      BY <2>4, <3>1
  <2>7. \E j \in 1 .. k : d[pred[b][j]] # None
    BY <1>3, <1>7
  <2> HIDE DEF q
  <2>8. Met(d, b, q, k)
    BY <2>4, <2>5, <2>6, <2>7 DEF Met
  <2> QED
    BY <2>8 DEF q
<1> QED
  BY <1>5, <1>6, <1>7

\* What NewIdom makes of the processed predecessors of b.
NewRight(d, b, q) ==
  IF \A p \in Range(pred[b]) : d[p] = None THEN q = d[b]
  ELSE /\ q \in Done(d)
       /\ \A p \in Range(pred[b]) : d[p] # None => Above(d, q, p)
       /\ \A z \in Reach :
            (\A p \in Range(pred[b]) : d[p] # None => Dom(z, p)) => Dom(z, q)

LEMMA NewIdomRight ==
  ASSUME Ready, NEW d, Tree(d), NEW b \in Blocks
  PROVE  NewRight(d, b, NewIdom(Num, d, b))
<1> DEFINE N == Len(pred[b])
           S == Done(d) \cup {None}
           T == [k \in 0 .. N |-> {r \in S : Met(d, b, r, k)}]
           step == [k \in 1 .. N |-> [r \in S |-> Meet(Num, d, r, pred[b][k])]]
           Is(g) == g = [k \in 0 .. N |->
                           IF k = 0 THEN None ELSE Meet(Num, d, g[k - 1], pred[b][k])]
           q == NewIdom(Num, d, b)
<1>1. N \in Nat /\ DOMAIN pred[b] = 1 .. N /\ \A k \in 1 .. N : pred[b][k] \in Blocks
  <2>1. IsSeq(pred[b]) /\ \A p \in Range(pred[b]) : p \in Blocks
    BY DEF Ready
  <2>2. N \in Nat /\ DOMAIN pred[b] = 1 .. N
    BY <2>1, DomainOfSeq
  <2> QED
    BY <2>1, <2>2 DEF Range
<1> HIDE DEF N
<1>2. None \in T[0]
  <2>1. Met(d, b, None, 0)
    BY DEF Met
  <2> QED
    BY <1>1, <2>1
<1>3. ASSUME NEW k \in 1 .. N, NEW r \in T[k - 1]
      PROVE  r \in S /\ Meet(Num, d, r, pred[b][k]) \in T[k]
  <2>1. k - 1 \in 0 .. N /\ k \in 0 .. N /\ k \in Nat \ {0}
    BY <1>1
  <2>2. r \in S /\ Met(d, b, r, k - 1)
    BY <2>1
  <2>3. \A j \in 1 .. k : pred[b][j] \in Blocks
    BY <1>1
  <2>4. Met(d, b, Meet(Num, d, r, pred[b][k]), k)
    BY <2>1, <2>2, <2>3, MeetKeeps
  <2>5. Meet(Num, d, r, pred[b][k]) \in S
    BY <2>4 DEF Met
  <2> QED
    BY <2>1, <2>2, <2>4, <2>5
<1> HIDE DEF T, S
<1>4. \E g : Is(g)
  <2>1. \A k \in 1 .. N : \A r \in T[k - 1] : step[k][r] \in T[k]
    BY <1>3
  <2> HIDE DEF step
  <2>2. PICK g : Follows(g, N, None, step) /\ \A k \in 0 .. N : g[k] \in T[k]
    BY <1>1, <1>2, <2>1, StepsExist
  <2>3. ASSUME NEW k \in 1 .. N
        PROVE  step[k][g[k - 1]] = Meet(Num, d, g[k - 1], pred[b][k])
    <3>1. k - 1 \in 0 .. N
      BY <1>1
    <3>2. g[k - 1] \in S
      BY <1>3, <2>2, <3>1
    <3> QED
      BY <3>2 DEF step
  <2>4. \A k \in 0 .. N : k # 0 => k \in 1 .. N
    BY <1>1
  <2>5. Is(g)
    BY <2>2, <2>3, <2>4 DEF Follows
  <2> QED
    BY <2>5
<1> DEFINE met == CHOOSE g : Is(g)
<1>5. Is(met)
  <2> HIDE DEF Is
  <2> QED
    BY <1>4
<1>6. q = IF met[N] = None THEN d[b] ELSE met[N]
  BY DEF NewIdom, N
<1> HIDE DEF met, q
<1>7. met[N] \in T[N]
  <2>1. ASSUME NEW k \in 1 .. N, met[k - 1] \in T[k - 1]
        PROVE  met[k] \in T[k]
    <3>1. k \in 0 .. N /\ k # 0
      BY <1>1
    <3>2. met[k] = Meet(Num, d, met[k - 1], pred[b][k])
      BY <1>5, <3>1
    <3> QED
      BY <1>3, <2>1, <3>2
  <2>2. met[0] = None
    BY <1>1, <1>5
  <2>3. \A k \in 0 .. N : met[k] \in T[k]
    <3> HIDE DEF Is
    <3> QED
      BY <1>1, <1>2, <2>1, <2>2, StepsStay
  <2> QED
    BY <1>1, <2>3
<1>8. Met(d, b, met[N], N)
  <2>1. N \in 0 .. N
    BY <1>1
  <2> QED
    BY <1>7, <2>1 DEF T
<1> DEFINE r == met[N]
<1> HIDE DEF r
<1>9. \A p : p \in Range(pred[b]) <=> \E j \in 1 .. N : pred[b][j] = p
  BY <1>1 DEF Range
<1>10. None \notin Done(d)
  BY NumFacts DEF Done
<1>11. CASE \A p \in Range(pred[b]) : d[p] = None
  <2>1. \A j \in 1 .. N : d[pred[b][j]] = None
    BY <1>9, <1>11
  <2>2. r = None
    BY <1>8, <2>1 DEF Met, r
  <2>3. NewRight(d, b, q)
    BY <1>6, <1>11, <2>2 DEF NewRight, r
  <2> QED
    BY <2>3 DEF q
<1>12. CASE ~ \A p \in Range(pred[b]) : d[p] = None
  <2>1. PICK j \in 1 .. N : d[pred[b][j]] # None
    BY <1>9, <1>12
  <2>2. /\ r \in Done(d)
        /\ \A i \in 1 .. N : d[pred[b][i]] # None => Above(d, r, pred[b][i])
        /\ \A z \in Reach :
             (\A i \in 1 .. N : d[pred[b][i]] # None => Dom(z, pred[b][i])) => Dom(z, r)
    BY <1>8, <2>1 DEF Met, r
  <2>3. q = r
    BY <1>6, <1>10, <2>2 DEF r
  <2>4. \A p \in Range(pred[b]) : d[p] # None => Above(d, r, p)
    BY <1>9, <2>2
  <2>5. \A z \in Reach :
          (\A p \in Range(pred[b]) : d[p] # None => Dom(z, p)) => Dom(z, r)
    <3> SUFFICES ASSUME NEW z \in Reach,
                        \A p \in Range(pred[b]) : d[p] # None => Dom(z, p)
                 PROVE  Dom(z, r)
      OBVIOUS
    <3>1. \A i \in 1 .. N : d[pred[b][i]] # None => Dom(z, pred[b][i])
      BY <1>9
    <3> QED
      BY <2>2, <3>1
  <2>6. NewRight(d, b, q)
    BY <1>12, <2>2, <2>3, <2>4, <2>5 DEF NewRight
  <2> QED
    BY <2>6 DEF q
<1> QED
  BY <1>11, <1>12

\* One block gets its place below processed predecessors.
LEMMA ImproveKeeps ==
  ASSUME Ready, NEW d, Tree(d), NEW k \in 1 .. Len(rpo),
         \A j \in 1 .. k - 1 : rpo[j] \in Done(d)
  PROVE  /\ Tree(Improve(Num, d, rpo[k]))
         /\ Done(Improve(Num, d, rpo[k])) = Done(d) \cup {rpo[k]}
<1> DEFINE b == rpo[k]
           q == NewIdom(Num, d, b)
           e == Improve(Num, d, b)
<1>1. /\ Len(rpo) \in Nat /\ b \in Reach /\ b \in Blocks /\ Num[b] = k
      /\ \A j \in 1 .. Len(rpo) : Num[rpo[j]] = j
      /\ \A x \in Reach : Num[x] \in 1 .. Len(rpo)
      /\ 1 \in Blocks /\ None \notin Blocks
  BY NumFacts
<1>2. d \in [Blocks -> Blocks \cup {None}] /\ d[1] = 1
  BY DEF Tree
<1>3. CASE b = 1
  <2>1. e = d
    BY <1>3 DEF Improve
  <2>2. 1 \in Done(d)
    BY <1>1, <1>2 DEF Done
  <2> QED
    BY <1>3, <2>1, <2>2
<1>4. CASE b # 1
  <2>1. PICK j \in 1 .. k - 1 : b \in Range(Succs(rpo[j]))
    <3>1. DOMAIN rpo = 1 .. Len(rpo) /\ InOrder(rpo)
      BY NumFacts DEF Ready
    <3>2. Follower(rpo, k)
      BY <1>4, <3>1 DEF InOrder
    <3>3. PICK i \in 1 .. Len(rpo) : i < k /\ b \in Range(Succs(rpo[i]))
      BY <3>1, <3>2 DEF Follower
    <3>4. i \in 1 .. k - 1
      BY <1>1, <3>3
    <3> QED
      BY <3>3, <3>4
  <2> DEFINE p == rpo[j]
  <2>2. p \in Done(d) /\ Num[p] = j /\ j < k
    BY <1>1
  <2>3. p \in Range(pred[b])
    BY <1>1, <2>1, <2>2 DEF Ready, Done
  <2>4. d[p] # None
    BY <2>2 DEF Done
  <2>5. NewRight(d, b, q)
    BY <1>1, NewIdomRight
  <2> HIDE DEF p, q, b
  <2>6. /\ q \in Done(d) /\ Above(d, q, p)
        /\ \A z \in Reach :
             (\A x \in Range(pred[b]) : d[x] # None => Dom(z, x)) => Dom(z, q)
    BY <2>3, <2>4, <2>5 DEF NewRight
  <2>7. Num[q] < Num[b]
    <3>1. Num[q] <= Num[p]
      BY <2>6 DEF Above
    <3>2. Num[q] \in 1 .. Len(rpo)
      BY <1>1, <2>6 DEF Tree
    <3> QED
      BY <1>1, <2>2, <3>1, <3>2
  <2>8. ASSUME NEW z \in Reach, SDom(z, b)
        PROVE  Dom(z, q)
    <3>1. \A x \in Range(pred[b]) : b \in Range(Succs(x))
      BY <1>1 DEF Ready
    <3>2. \A x \in Range(pred[b]) : Dom(z, x)
      BY <2>8, <3>1, DomOfPred DEF Ready
    <3> QED
      BY <2>6, <3>2
  <2>9. e = [d EXCEPT ![b] = q]
    BY <1>4 DEF Improve, q
  <2> HIDE DEF e
  <2>10. /\ q \in Blocks /\ q # None /\ e \in [Blocks -> Blocks \cup {None}] /\ e[1] = 1
         /\ e[b] = q /\ \A x \in Blocks : x # b => e[x] = d[x]
    BY <1>1, <1>2, <1>4, <2>6, <2>9 DEF Done
  <2>11. Done(e) = Done(d) \cup {b}
    BY <1>1, <2>10 DEF Done
  <2>12. \A x \in Done(e) : x \in Reach /\ e[x] \in Done(e)
    <3>1. \A x \in Done(d) : x \in Reach /\ d[x] \in Done(d) /\ x \in Blocks
      BY DEF Tree, Done
    <3> QED
      BY <1>1, <2>6, <2>10, <2>11, <3>1
  <2>13. ASSUME NEW x \in Done(e) \ {1}
         PROVE  Num[e[x]] < Num[x] /\ \A z \in Reach : SDom(z, x) => Dom(z, e[x])
    <3>1. CASE x = b
      BY <2>7, <2>8, <2>10, <3>1
    <3>2. CASE x # b
      <4>1. x \in Done(d) \ {1} /\ e[x] = d[x]
        BY <2>10, <2>11, <3>2 DEF Done
      <4> QED
        BY <4>1 DEF Tree
    <3> QED
      BY <3>1, <3>2
  <2>14. Tree(e)
    BY <2>10, <2>12, <2>13 DEF Tree
  <2> QED
    BY <2>11, <2>14 DEF e, b
<1> QED
  BY <1>3, <1>4 DEF e, b

\* The states of a sweep.
Swept(d, g) ==
  /\ g[0] = d
  /\ \A k \in 1 .. Len(rpo) : g[k] = Improve(Num, g[k - 1], rpo[k])
  /\ \A k \in 0 .. Len(rpo) :
       Tree(g[k]) /\ \A j \in 1 .. k : rpo[j] \in Done(g[k])

LEMMA SweepSteps ==
  ASSUME Ready, NEW d, Tree(d)
  PROVE  \E g : Swept(d, g) /\ Sweep(Num, d) = g[Len(rpo)]
<1> DEFINE N == Len(rpo)
           S == [Blocks -> Blocks \cup {None}]
           T == [k \in 0 .. N |-> {e \in S : Tree(e) /\ \A j \in 1 .. k : rpo[j] \in Done(e)}]
           step == [k \in 1 .. N |-> [e \in S |-> Improve(Num, e, rpo[k])]]
           Is(g) == g = [k \in 0 .. N |->
                           IF k = 0 THEN d ELSE Improve(Num, g[k - 1], rpo[k])]
<1>1. N \in Nat
  BY NumFacts
<1> HIDE DEF N
<1>2. d \in T[0]
  <2>1. d \in S
    BY DEF Tree
  <2> HIDE DEF S
  <2> QED
    BY <1>1, <2>1
<1>3. ASSUME NEW k \in 1 .. N, NEW e \in T[k - 1]
      PROVE  e \in S /\ Improve(Num, e, rpo[k]) \in T[k]
  <2> DEFINE f == Improve(Num, e, rpo[k])
  <2>1. k - 1 \in 0 .. N /\ k \in 0 .. N
    BY <1>1
  <2>2. e \in S /\ Tree(e) /\ \A j \in 1 .. k - 1 : rpo[j] \in Done(e)
    BY <2>1
  <2>3. Tree(f) /\ Done(f) = Done(e) \cup {rpo[k]}
    BY <2>2, ImproveKeeps DEF N
  <2>4. f \in S
    BY <2>3 DEF Tree
  <2> HIDE DEF f, S
  <2>5. \A j \in 1 .. k : rpo[j] \in Done(f)
    <3>1. \A j \in 1 .. k : j \in 1 .. k - 1 \/ j = k
      BY <1>1
    <3> QED
      BY <2>2, <2>3, <3>1
  <2>6. f \in T[k]
    BY <2>1, <2>3, <2>4, <2>5
  <2> QED
    BY <2>2, <2>6 DEF f
<1> HIDE DEF T, S
<1>4. \E g : Is(g)
  <2>1. \A k \in 1 .. N : \A e \in T[k - 1] : step[k][e] \in T[k]
    BY <1>3
  <2> HIDE DEF step
  <2>2. PICK g : Follows(g, N, d, step) /\ \A k \in 0 .. N : g[k] \in T[k]
    BY <1>1, <1>2, <2>1, StepsExist
  <2>3. ASSUME NEW k \in 1 .. N
        PROVE  step[k][g[k - 1]] = Improve(Num, g[k - 1], rpo[k])
    <3>1. k - 1 \in 0 .. N
      BY <1>1
    <3>2. g[k - 1] \in S
      BY <1>3, <2>2, <3>1
    <3> QED
      BY <3>2 DEF step
  <2>4. \A k \in 0 .. N : k # 0 => k \in 1 .. N
    BY <1>1
  <2>5. Is(g)
    BY <2>2, <2>3, <2>4 DEF Follows
  <2> QED
    BY <2>5
<1> DEFINE swept == CHOOSE g : Is(g)
<1>5. Is(swept)
  <2> HIDE DEF Is
  <2> QED
    BY <1>4
<1>6. Sweep(Num, d) = swept[N]
  BY DEF Sweep, N
<1> HIDE DEF swept
<1>7. swept[0] = d /\ \A k \in 1 .. N : swept[k] = Improve(Num, swept[k - 1], rpo[k])
  <2>1. 0 \in 0 .. N /\ \A k \in 1 .. N : k \in 0 .. N /\ k # 0
    BY <1>1
  <2> QED
    BY <1>5, <2>1
<1>8. \A k \in 0 .. N : swept[k] \in T[k]
  <2>1. ASSUME NEW k \in 1 .. N, swept[k - 1] \in T[k - 1]
        PROVE  swept[k] \in T[k]
    BY <1>3, <1>7, <2>1
  <2> HIDE DEF Is
  <2> QED
    BY <1>1, <1>2, <1>7, <2>1, StepsStay
<1>9. \A k \in 0 .. N : Tree(swept[k]) /\ \A j \in 1 .. k : rpo[j] \in Done(swept[k])
  BY <1>8 DEF T
<1>10. Swept(d, swept)
  BY <1>7, <1>9 DEF Swept, N
<1> QED
  BY <1>6, <1>10 DEF N

\* A sweep leaves a tree of all the reachable blocks.
LEMMA SweepRight ==
  ASSUME Ready, NEW d, Tree(d)
  PROVE  Tree(Sweep(Num, d)) /\ Done(Sweep(Num, d)) = Reach
<1>1. PICK g : Swept(d, g) /\ Sweep(Num, d) = g[Len(rpo)]
  BY SweepSteps
<1> DEFINE e == Sweep(Num, d)
<1> HIDE DEF e
<1>2. Len(rpo) \in 0 .. Len(rpo)
  BY NumFacts
<1>3. Tree(e) /\ \A j \in 1 .. Len(rpo) : rpo[j] \in Done(e)
  BY <1>1, <1>2 DEF Swept, e
<1>4. \A b \in Reach : b \in Done(e)
  BY <1>3, NumFacts
<1>5. Done(e) = Reach
  BY <1>3, <1>4 DEF Tree
<1> QED
  BY <1>3, <1>5 DEF e

\* When a sweep changes nothing, none of its steps does.
LEMMA SweepFixed ==
  ASSUME Ready, NEW d, Tree(d), Sweep(Num, d) = d, NEW b \in Reach \ {1}
  PROVE  NewIdom(Num, d, b) = d[b]
<1> DEFINE N == Len(rpo)
<1>1. PICK g : Swept(d, g) /\ d = g[N]
  BY SweepSteps
<1>2. N \in Nat /\ \A i, j \in 1 .. N : rpo[i] = rpo[j] => i = j
  BY NumFacts
<1>3. /\ g[0] = d
      /\ \A k \in 1 .. N : g[k] = Improve(Num, g[k - 1], rpo[k])
      /\ \A k \in 0 .. N : Tree(g[k])
  BY <1>1 DEF Swept
<1> HIDE DEF N
<1>4. ASSUME NEW k \in 1 .. N, NEW x \in Blocks, x # rpo[k]
      PROVE  g[k][x] = g[k - 1][x]
  <2>1. k - 1 \in 0 .. N
    BY <1>2
  <2>2. g[k - 1] \in [Blocks -> Blocks \cup {None}]
    BY <1>3, <2>1 DEF Tree
  <2> QED
    BY <1>3, <1>4, <2>2 DEF Improve
<1>5. ASSUME NEW x \in Blocks, NEW j \in 0 .. N
      PROVE  g[j][x] = d[x]
  <2>1. PICK i \in Nat : (\E m \in 1 .. N : rpo[m] = x /\ i = m) \/ (i = 0 /\ \A m \in 1 .. N : rpo[m] # x)
    <3>1. CASE \E m \in 1 .. N : rpo[m] = x
      <4>1. PICK m \in 1 .. N : rpo[m] = x
        BY <3>1
      <4>2. m \in Nat
        BY <1>2
      <4> QED
        BY <4>1, <4>2
    <3>2. CASE ~ \E m \in 1 .. N : rpo[m] = x
      BY <3>2
    <3> QED
      BY <3>1, <3>2
  <2>2. \A k \in 1 .. N : k # i => x # rpo[k]
    BY <1>2, <2>1
  <2> DEFINE h == [k \in 0 .. N |-> g[k][x]]
             lo == [k \in 0 .. N |-> IF k < i THEN {d[x]} ELSE {h[i]}]
  <2>3. i \in 0 .. N
    BY <1>2, <2>1
  <2>4. h[0] \in lo[0]
    BY <1>2, <1>3, <2>3
  <2>5. ASSUME NEW k \in 1 .. N, h[k - 1] \in lo[k - 1]
        PROVE  h[k] \in lo[k]
    <3>1. k \in 0 .. N /\ k - 1 \in 0 .. N
      BY <1>2
    <3>2. CASE k = i
      BY <3>1, <3>2
    <3>3. CASE k # i
      <4>1. h[k] = h[k - 1]
        BY <1>4, <2>2, <3>1, <3>3
      <4>2. k < i <=> k - 1 < i
        BY <1>2, <2>3, <3>3
      <4> HIDE DEF h
      <4> QED
        BY <2>5, <3>1, <4>1, <4>2
    <3> QED
      BY <3>2, <3>3
  <2> HIDE DEF h, lo
  <2>6. \A k \in 0 .. N : h[k] \in lo[k]
    BY <1>2, <2>4, <2>5, StepsStay
  <2>7. N \in 0 .. N /\ ~ (N < i)
    BY <1>2, <2>3
  <2>8. h[N] = h[i] /\ h[N] = d[x] /\ h[j] = g[j][x]
    <3>1. h[N] \in {h[i]}
      BY <2>6, <2>7 DEF lo
    <3> QED
      BY <1>1, <2>7, <3>1 DEF h
  <2>9. h[j] = d[x] \/ h[j] = h[i]
    BY <2>6, <2>7 DEF lo
  <2> QED
    BY <2>8, <2>9
<1>6. \A k \in 0 .. N : g[k] = d
  <2>1. \A k \in 0 .. N : g[k] \in [Blocks -> Blocks \cup {None}]
    BY <1>3 DEF Tree
  <2>2. d \in [Blocks -> Blocks \cup {None}]
    BY DEF Tree
  <2> QED
    BY <1>5, <2>1, <2>2
<1>7. PICK k \in 1 .. N : rpo[k] = b /\ b \in Blocks
  BY NumFacts DEF N
<1>8. d = Improve(Num, d, b)
  <2>1. k \in 0 .. N /\ k - 1 \in 0 .. N
    BY <1>2
  <2> QED
    BY <1>3, <1>6, <1>7, <2>1
<1>9. d = [d EXCEPT ![b] = NewIdom(Num, d, b)]
  BY <1>8 DEF Improve
<1> DEFINE q == NewIdom(Num, d, b)
<1> HIDE DEF q
<1>10. q = d[b]
  <2>1. d \in [Blocks -> Blocks \cup {None}]
    BY DEF Tree
  <2> QED
    BY <1>7, <1>9, <2>1 DEF q
<1> QED
  BY <1>10 DEF q

\* c is above x, or x itself.
Over(d, c, x) == \A U \in SUBSET Blocks : Upward(U, d) /\ x \in U => c \in U

\* A tree that a sweep leaves as it is has the immediate dominators: what is
\* not below the block above b is reached around that block.
LEMMA FixedRight ==
  ASSUME Ready, NEW d, Tree(d), Done(d) = Reach, Sweep(Num, d) = d, NEW b \in Reach \ {1}
  PROVE  /\ SDom(d[b], b)
         /\ \A a \in Reach : SDom(a, b) => Dom(a, d[b])
<1> DEFINE i == d[b]
           C == {x \in Reach : ~ Over(d, i, x)}
<1>1. \A a \in Reach : SDom(a, b) => Dom(a, i)
  BY DEF Tree
<1>2. i \in Reach /\ i # b
  <2>1. i \in Reach /\ Num[i] < Num[b]
    BY DEF Tree
  <2>2. Num[i] \in Nat /\ Num[b] \in Nat
    <3>1. Num[i] \in 1 .. Len(rpo) /\ Num[b] \in 1 .. Len(rpo)
      BY <2>1, NumFacts
    <3> QED
      BY <3>1
  <2> QED
    BY <2>1, <2>2
<1>3. CASE i = 1
  BY <1>1, <1>2, <1>3 DEF SDom, Dom
<1>4. CASE i # 1
  <2>1. Graph /\ 1 \in Reach /\ Reach \subseteq Blocks
    BY NumFacts DEF Ready
  <2>2. 1 \in C
    <3>1. {1} \in SUBSET Blocks /\ Upward({1}, d) /\ 1 \in {1} /\ i \notin {1}
      BY <1>4, <2>1 DEF Upward
    <3>2. ~ Over(d, i, 1)
      BY <3>1 DEF Over
    <3> QED
      BY <2>1, <3>2
  <2>3. b \notin C
    <3>1. Over(d, i, b)
      BY DEF Over, Upward
    <3> QED
      BY <3>1
  <2>4. ASSUME NEW x \in C, NEW t \in Range(Succs(x)) \ {i}
        PROVE  t \in C
    <3>1. x \in Reach /\ x \in Blocks /\ t \in Reach /\ t \in Blocks /\ ~ Over(d, i, x)
      BY <2>1, ReachFacts
    <3>2. CASE t = 1
      BY <2>2, <3>2
    <3>3. CASE t # 1
      <4>1. Over(d, d[t], x)
        <5>1. x \in Range(pred[t]) /\ d[x] # None
          BY <3>1 DEF Ready, Done
        <5>2. NewIdom(Num, d, t) = d[t]
          BY <3>1, <3>3, SweepFixed
        <5>3. NewRight(d, t, d[t])
          BY <3>1, <5>2, NewIdomRight
        <5> QED
          BY <5>1, <5>3 DEF NewRight, Above, Over
      <4>2. ASSUME Over(d, i, t)
            PROVE  Over(d, i, d[t])
        <5> SUFFICES ASSUME NEW U \in SUBSET Blocks, Upward(U, d), d[t] \in U
                     PROVE  i \in U
          BY DEF Over
        <5>1. U \cup {t} \in SUBSET Blocks /\ Upward(U \cup {t}, d)
          BY <3>1 DEF Upward
        <5>2. i \in U \cup {t}
          BY <4>2, <5>1 DEF Over
        <5> QED
          BY <5>2
      <4>3. ~ Over(d, i, t)
        <5> SUFFICES ASSUME Over(d, i, t) PROVE FALSE
          OBVIOUS
        <5>1. Over(d, i, x)
          BY <4>1, <4>2 DEF Over
        <5> QED
          BY <3>1, <5>1
      <4> QED
        BY <3>1, <4>3
    <3> QED
      BY <3>2, <3>3
  <2>5. C \in SUBSET Blocks
    BY <2>1
  <2> HIDE DEF C, i
  <2>6. ClosedUnder(C, {i})
    BY <2>4 DEF ClosedUnder
  <2>7. b \notin Reached({i})
    BY <2>1, <2>2, <2>3, <2>5, <2>6, ReachedWithin
  <2>8. SDom(i, b)
    BY <1>2, <2>7 DEF SDom, Dom
  <2> QED
    BY <1>1, <2>8 DEF i
<1> QED
  BY <1>3, <1>4

\* The sweeps of cmp_dom.
FirstTree == [b \in Blocks |-> IF b = 1 THEN 1 ELSE None]
IdomOf == Iterate(LAMBDA st : Settle(Num, st), [d |-> FirstTree, changed |-> TRUE], 64).d

LEMMA FirstTreeRight ==
  ASSUME Ready
  PROVE  Tree(FirstTree)
<1>1. 1 \in Blocks /\ None \notin Blocks /\ 1 \in Reach
  BY NumFacts
<1>2. Done(FirstTree) = {1}
  BY <1>1 DEF Done, FirstTree, None
<1> QED
  BY <1>1, <1>2 DEF Tree, FirstTree

\* After the first sweep there is a tree of all the reachable blocks.
LEMMA IdomRight ==
  ASSUME Ready
  PROVE  Tree(IdomOf) /\ Done(IdomOf) = Reach
<1> DEFINE N == 64
           first == [d |-> FirstTree, changed |-> TRUE]
           S == [d : [Blocks -> Blocks \cup {None}], changed : BOOLEAN]
           Full(st) == st.changed \/ Done(st.d) = Reach
           T == [k \in 0 .. N |-> {st \in S : Tree(st.d) /\ Full(st)
                                         /\ (k # 0 => Done(st.d) = Reach)}]
           step == [k \in 1 .. N |-> [st \in S |-> Settle(Num, st)]]
           Is(g) == g = [k \in 0 .. N |-> IF k = 0 THEN first ELSE Settle(Num, g[k - 1])]
<1>1. N \in Nat
  OBVIOUS
<1>2. first \in T[0]
  <2>1. FirstTree \in [Blocks -> Blocks \cup {None}] /\ Tree(FirstTree)
    BY FirstTreeRight DEF Tree
  <2> QED
    BY <2>1
<1>3. ASSUME NEW k \in 1 .. N, NEW st \in T[k - 1]
      PROVE  st \in S /\ Settle(Num, st) \in T[k]
  <2>1. k - 1 \in 0 .. N /\ k \in 0 .. N /\ k # 0
    OBVIOUS
  <2>2. st \in S /\ Tree(st.d) /\ Full(st)
    BY <2>1
  <2>3. CASE st.changed
    <3> DEFINE e == Sweep(Num, st.d)
               q == [d |-> e, changed |-> e # st.d]
    <3>1. Settle(Num, st) = q
      BY <2>3 DEF Settle
    <3>2. Tree(e) /\ Done(e) = Reach
      BY <2>2, SweepRight
    <3> HIDE DEF e
    <3>3. e \in [Blocks -> Blocks \cup {None}]
      BY <3>2 DEF Tree
    <3>4. q \in S /\ q.d = e
      BY <3>3
    <3> HIDE DEF q
    <3> QED
      BY <2>1, <2>2, <3>1, <3>2, <3>4
  <2>4. CASE ~ st.changed
    <3>1. Settle(Num, st) = st
      BY <2>4 DEF Settle
    <3> QED
      BY <2>1, <2>2, <2>4, <3>1
  <2> QED
    BY <2>3, <2>4
<1> HIDE DEF T, S, first, N
<1>4. \E g : Is(g)
  <2>1. \A k \in 1 .. N : \A st \in T[k - 1] : step[k][st] \in T[k]
    BY <1>3
  <2> HIDE DEF step
  <2>2. PICK g : Follows(g, N, first, step) /\ \A k \in 0 .. N : g[k] \in T[k]
    BY <1>1, <1>2, <2>1, StepsExist
  <2>3. ASSUME NEW k \in 1 .. N
        PROVE  step[k][g[k - 1]] = Settle(Num, g[k - 1])
    <3>1. k - 1 \in 0 .. N
      BY <1>1
    <3>2. g[k - 1] \in S
      BY <1>3, <2>2, <3>1
    <3> QED
      BY <3>2 DEF step
  <2>4. \A k \in 0 .. N : k # 0 => k \in 1 .. N
    BY <1>1
  <2>5. Is(g)
    BY <2>2, <2>3, <2>4 DEF Follows
  <2> QED
    BY <2>5
<1> DEFINE it == CHOOSE g : Is(g)
<1>5. Is(it)
  <2> HIDE DEF Is
  <2> QED
    BY <1>4
<1>6. IdomOf = it[N].d
  BY DEF IdomOf, Iterate, N, first
<1> HIDE DEF it
<1>7. it[N] \in T[N]
  <2>1. ASSUME NEW k \in 1 .. N, it[k - 1] \in T[k - 1]
        PROVE  it[k] \in T[k]
    <3>1. k \in 0 .. N /\ k # 0
      BY <1>1
    <3>2. it[k] = Settle(Num, it[k - 1])
      BY <1>5, <3>1
    <3> QED
      BY <1>3, <2>1, <3>2
  <2>2. it[0] = first
    BY <1>1, <1>5
  <2>3. \A k \in 0 .. N : it[k] \in T[k]
    <3> HIDE DEF Is
    <3> QED
      BY <1>1, <1>2, <2>1, <2>2, StepsStay
  <2> QED
    BY <1>1, <2>3
<1>8. Tree(it[N].d) /\ Done(it[N].d) = Reach
  <2>1. N \in 0 .. N /\ N # 0
    BY DEF N
  <2> QED
    BY <1>7, <2>1 DEF T
<1> QED
  BY <1>6, <1>8

---------------------------------------------------------------------------
(* cmp_df: where the runners go.                                           *)

AtTree == Ready /\ Tree(idom) /\ Done(idom) = Reach

\* Among reachable blocks a runner stays among them.
LEMMA RunnersReach ==
  ASSUME AtTree, NEW b \in Reach, NEW p \in Reach
  PROVE  IsSeq(Runners(b, p)) /\ Range(Runners(b, p)) \subseteq Reach
<1> DEFINE N == Len(M.blks)
           Stop(x) == x = idom[b] \/ x = None \/ x = idom[x]
           Up(s) == IF Stop(Last(s)) THEN s ELSE Append(s, idom[Last(s)])
           S == Seq(Reach) \ {<<>>}
           T == [k \in 0 .. N |-> S]
           step == [k \in 1 .. N |-> [s \in S |-> Up(s)]]
           Is(g) == g = [k \in 0 .. N |-> IF k = 0 THEN <<p>> ELSE Up(g[k - 1])]
           path == Iterate(Up, <<p>>, N)
<1>1. N \in Nat /\ \A x \in Reach : idom[x] \in Reach
  BY DEF AtTree, Ready, Graph, Tree
<1> HIDE DEF N
<1>2. <<p>> \in S
  OBVIOUS
<1>3. ASSUME NEW s \in S PROVE Up(s) \in S
  <2>1. s \in Seq(Reach) /\ Last(s) \in Reach
    BY DEF Last
  <2>2. Append(s, idom[Last(s)]) \in Seq(Reach) /\ Append(s, idom[Last(s)]) # <<>>
    BY <1>1, <2>1
  <2> QED
    BY <2>2
<1> HIDE DEF S, Up, Stop
<1>4. \E g : Is(g)
  <2>1. \A k \in 1 .. N : \A s \in T[k - 1] : step[k][s] \in T[k]
    BY <1>1, <1>3
  <2>2. <<p>> \in T[0]
    BY <1>1, <1>2
  <2> HIDE DEF step, T
  <2>3. PICK g : Follows(g, N, <<p>>, step) /\ \A k \in 0 .. N : g[k] \in T[k]
    BY <1>1, <2>1, <2>2, StepsExist
  <2>4. \A k \in 1 .. N : step[k][g[k - 1]] = Up(g[k - 1])
    BY <1>1, <2>3 DEF step, T
  <2>5. \A k \in 0 .. N : k # 0 => k \in 1 .. N
    BY <1>1
  <2>6. Is(g)
    BY <2>3, <2>4, <2>5 DEF Follows
  <2> QED
    BY <2>6
<1> DEFINE it == CHOOSE g : Is(g)
<1>5. Is(it)
  <2> HIDE DEF Is
  <2> QED
    BY <1>4
<1>6. path = it[N]
  BY DEF Iterate
<1> HIDE DEF it
<1>7. it[N] \in S
  <2>1. ASSUME NEW k \in 1 .. N, it[k - 1] \in S
        PROVE  it[k] \in S
    <3>1. k \in 0 .. N /\ k # 0
      BY <1>1
    <3>2. it[k] = Up(it[k - 1])
      BY <1>5, <3>1
    <3> QED
      BY <1>3, <2>1, <3>2
  <2>2. it[0] = <<p>>
    BY <1>1, <1>5
  <2> HIDE DEF Is
  <2>3. \A k \in 1 .. N : it[k - 1] \in T[k - 1] => it[k] \in T[k]
    BY <1>1, <2>1
  <2>4. it[0] \in T[0]
    BY <1>1, <1>2, <2>2
  <2> HIDE DEF T
  <2>5. \A k \in 0 .. N : it[k] \in T[k]
    BY <1>1, <2>3, <2>4, StepsStay
  <2> QED
    BY <1>1, <2>5 DEF T
<1>8. Runners(b, p) = IF Last(path) = idom[b] THEN Front(path) ELSE path
  BY DEF Runners, Stop, Up, N
<1> HIDE DEF path
<1>9. path \in Seq(Reach) /\ path # <<>>
  BY <1>6, <1>7 DEF S
<1>10. Front(path) \in Seq(Reach)
  BY <1>9 DEF Front
<1>11. Runners(b, p) \in Seq(Reach)
  BY <1>8, <1>9, <1>10
<1>12. Range(Runners(b, p)) \subseteq Reach
  BY <1>11 DEF Range
<1> QED
  BY <1>11, <1>12, SeqIsSeq

\* Below no tree the runner is the predecessor itself.
LEMMA RunnersDead ==
  ASSUME AtTree, NEW b \in Blocks \ Reach, NEW p \in Blocks \ Reach
  PROVE  Runners(b, p) = <<p>>
<1> DEFINE N == Len(M.blks)
           Stop(x) == x = idom[b] \/ x = None \/ x = idom[x]
           Up(s) == IF Stop(Last(s)) THEN s ELSE Append(s, idom[Last(s)])
           V == [k \in 0 .. N |-> IF k = 0 THEN <<p>> ELSE <<p, None>>]
           Is(g) == g = [k \in 0 .. N |-> IF k = 0 THEN <<p>> ELSE Up(g[k - 1])]
           path == Iterate(Up, <<p>>, N)
<1>1. N \in Nat \ {0}
  BY DEF AtTree, Ready, Graph
<1> HIDE DEF N
<1>2. idom[b] = None /\ idom[p] = None /\ p # None
  BY NumFacts DEF AtTree, Done
<1>3. Up(<<p>>) = <<p, None>>
  <2> DEFINE s == <<p>>
             t == <<p, None>>
  <2>1. s \in Seq({p, None}) /\ Len(s) = 1 /\ s[1] = p
    OBVIOUS
  <2>2. t \in Seq({p, None}) /\ Len(t) = 2 /\ t[1] = p /\ t[2] = None
    OBVIOUS
  <2> HIDE DEF s, t
  <2>3. Last(s) = p
    BY <2>1 DEF Last
  <2>4. Append(s, None) = t
    BY <2>1, <2>2
  <2>5. Up(s) = t
    BY <1>2, <2>3, <2>4
  <2> QED
    BY <2>5 DEF s, t
<1>4. Up(<<p, None>>) = <<p, None>>
  <2>1. Last(<<p, None>>) = None
    BY DEF Last
  <2> QED
    BY <2>1
<1> HIDE DEF Up, Stop
<1>5. Is(V)
  <2>1. \A k \in 1 .. N : k - 1 \in 0 .. N /\ (k = 1 <=> k - 1 = 0)
    BY <1>1
  <2>2. \A k \in 1 .. N : V[k - 1] = IF k = 1 THEN <<p>> ELSE <<p, None>>
    BY <2>1
  <2>3. \A k \in 0 .. N : k # 0 => k \in 1 .. N
    BY <1>1
  <2>4. \A k \in 0 .. N : V[k] = IF k = 0 THEN <<p>> ELSE Up(V[k - 1])
    BY <1>3, <1>4, <2>2, <2>3
  <2>5. V = [k \in 0 .. N |-> V[k]]
    OBVIOUS
  <2> HIDE DEF V
  <2> QED
    BY <2>4, <2>5
<1> DEFINE it == CHOOSE g : Is(g)
<1>6. Is(it)
  <2> HIDE DEF Is
  <2> QED
    BY <1>5
<1>7. path = it[N]
  BY DEF Iterate
<1> HIDE DEF it
<1>8. it[N] = <<p, None>>
  <2> DEFINE T == [k \in 0 .. N |-> {V[k]}]
  <2>1. ASSUME NEW k \in 1 .. N, it[k - 1] \in T[k - 1]
        PROVE  it[k] \in T[k]
    <3>1. k \in 0 .. N /\ k # 0 /\ k - 1 \in 0 .. N
      BY <1>1
    <3>2. it[k] = Up(it[k - 1]) /\ V[k] = Up(V[k - 1])
      <4> HIDE DEF V
      <4> QED
        BY <1>5, <1>6, <3>1
    <3> QED
      BY <2>1, <3>1, <3>2
  <2>2. it[0] \in T[0]
    BY <1>1, <1>6
  <2> HIDE DEF T, Is
  <2>3. \A k \in 0 .. N : it[k] \in T[k]
    BY <1>1, <2>1, <2>2, StepsStay
  <2> QED
    BY <1>1, <2>3 DEF T
<1>9. Runners(b, p) = IF Last(path) = idom[b] THEN Front(path) ELSE path
  BY DEF Runners, Stop, Up, N
<1> HIDE DEF path
<1>10. Last(<<p, None>>) = None /\ Front(<<p, None>>) = <<p>>
  <2> DEFINE u == <<p, None>>
  <2>1. u \in Seq({p, None}) /\ Len(u) = 2 /\ u[1] = p /\ u[2] = None
    OBVIOUS
  <2> HIDE DEF u
  <2>2. Front(u) \in Seq({p, None}) /\ Len(Front(u)) = 1 /\ Front(u)[1] = p
    BY <2>1 DEF Front
  <2>3. Front(u) = <<p>>
    BY <2>2
  <2>4. Last(u) = None
    BY <2>1 DEF Last
  <2> QED
    BY <2>3, <2>4 DEF u
<1> QED
  BY <1>2, <1>7, <1>8, <1>9, <1>10

\* No runner falls off the tree when the predecessors of reachable blocks are
\* all reachable.
LEMMA RunsInside ==
  ASSUME AtTree, \A b \in Reach : Range(pred[b]) \subseteq Reach, NEW k \in DOMAIN JoinRuns
  PROVE  JoinRuns[k][1] # None
<1> DEFINE n == Len(M.blks)
           One(b, j) == LET up == Runners(b, pred[b][j]) IN [i \in DOMAIN up |-> <<up[i], b>>]
           All(b) == [j \in DOMAIN pred[b] |-> One(b, j)]
           Of(b) == IF Len(pred[b]) < 2 THEN <<>> ELSE FlattenSeq(All(b))
           ss == [b \in Blocks |-> Of(b)]
           Good1(e) == e[1] # None
<1>1. /\ n \in Nat /\ Blocks = 1 .. n /\ None \notin Blocks
      /\ Reach \subseteq Blocks
  BY NumFacts DEF AtTree, Ready, Graph
<1>2. ASSUME NEW b \in Blocks
      PROVE  /\ IsSeq(pred[b]) /\ Len(pred[b]) \in Nat /\ DOMAIN pred[b] = 1 .. Len(pred[b])
             /\ \A p \in Range(pred[b]) : p \in Blocks /\ b \in Range(Succs(p))
  <2>1. IsSeq(pred[b]) /\ \A p \in Range(pred[b]) : p \in Blocks /\ b \in Range(Succs(p))
    BY DEF AtTree, Ready
  <2> QED
    BY <2>1, DomainOfSeq
<1>3. ASSUME NEW b \in Blocks, NEW p \in Range(pred[b])
      PROVE  IsSeq(Runners(b, p)) /\ Range(Runners(b, p)) \subseteq Blocks
  <2>1. CASE b \in Reach
    <3>1. p \in Reach
      BY <2>1
    <3> QED
      BY <1>1, <2>1, <3>1, RunnersReach
  <2>2. CASE b \notin Reach
    <3>1. p \in Blocks \ Reach
      BY <1>2, <2>2, ReachFacts DEF AtTree, Ready
    <3>2. Runners(b, p) = <<p>>
      BY <2>2, <3>1, RunnersDead
    <3>3. <<p>> \in Seq(Blocks) /\ Range(<<p>>) = {p}
      BY <3>1 DEF Range
    <3>4. IsSeq(<<p>>)
      BY <3>3, SeqIsSeq
    <3> QED
      BY <3>1, <3>2, <3>3, <3>4
  <2> QED
    BY <2>1, <2>2
<1>4. ASSUME NEW b \in Blocks, NEW j \in DOMAIN pred[b]
      PROVE  IsSeq(One(b, j)) /\ \A e \in Range(One(b, j)) : Good1(e)
  <2> DEFINE up == Runners(b, pred[b][j])
             u == One(b, j)
  <2>1. pred[b][j] \in Range(pred[b])
    BY DEF Range
  <2>2. IsSeq(up) /\ Range(up) \subseteq Blocks
    BY <1>3, <2>1
  <2>3. Len(up) \in Nat /\ DOMAIN up = 1 .. Len(up)
    BY <2>2, DomainOfSeq
  <2>4. u = [i \in DOMAIN up |-> <<up[i], b>>]
    OBVIOUS
  <2> HIDE DEF up, u
  <2>5. u = [i \in 1 .. Len(up) |-> u[i]]
    BY <2>3, <2>4
  <2>6. IsSeq(u)
    BY <2>3, <2>5, FunctionIsSeq
  <2>7. \A e \in Range(u) : Good1(e)
    <3> SUFFICES ASSUME NEW i \in DOMAIN u PROVE Good1(u[i])
      BY DEF Range
    <3>1. i \in DOMAIN up /\ u[i] = <<up[i], b>>
      BY <2>4
    <3>2. up[i] \in Blocks
      BY <2>2, <3>1 DEF Range
    <3> QED
      BY <1>1, <3>1, <3>2
  <2> QED
    BY <2>6, <2>7 DEF u
<1> HIDE DEF One, Good1
<1>5. ASSUME NEW b \in Blocks
      PROVE  IsSeq(Of(b)) /\ \A e \in Range(Of(b)) : Good1(e)
  <2>1. CASE Len(pred[b]) < 2
    <3>1. Of(b) = <<>> /\ Range(<<>>) = {}
      BY <2>1 DEF Range
    <3> HIDE DEF Of
    <3> QED
      BY <3>1, EmptyIsSeq
  <2>2. CASE ~ (Len(pred[b]) < 2)
    <3> DEFINE a == All(b)
    <3>1. Of(b) = FlattenSeq(a)
      BY <2>2
    <3>2. a = [j \in DOMAIN pred[b] |-> One(b, j)]
      OBVIOUS
    <3> HIDE DEF a, Of
    <3>3. a = [j \in 1 .. Len(pred[b]) |-> a[j]]
      BY <1>2, <3>2
    <3>4. IsSeq(a)
      BY <1>2, <3>3, FunctionIsSeq
    <3>5. \A j \in DOMAIN a : IsSeq(a[j]) /\ \A e \in Range(a[j]) : Good1(e)
      BY <1>4, <3>2
    <3>6. IsSeq(FlattenSeq(a)) /\ Range(FlattenSeq(a)) = UNION {Range(a[j]) : j \in DOMAIN a}
      BY <3>4, <3>5, FlatRange
    <3> QED
      BY <3>1, <3>5, <3>6
  <2> QED
    BY <2>1, <2>2
<1>6. JoinRuns = FlattenSeq(ss)
  BY DEF JoinRuns, One
<1> HIDE DEF Of, n
<1>7. IsSeq(ss) /\ DOMAIN ss = 1 .. n
  <2>1. ss = [b \in 1 .. n |-> ss[b]]
    BY <1>1
  <2> HIDE DEF ss
  <2> QED
    BY <1>1, <2>1, FunctionIsSeq
<1>8. \A b \in DOMAIN ss : IsSeq(ss[b]) /\ \A e \in Range(ss[b]) : Good1(e)
  BY <1>5
<1> HIDE DEF ss
<1>9. Range(FlattenSeq(ss)) = UNION {Range(ss[b]) : b \in DOMAIN ss}
  BY <1>7, <1>8, FlatRange
<1>10. JoinRuns[k] \in Range(JoinRuns)
  BY DEF Range
<1>11. Good1(JoinRuns[k])
  BY <1>6, <1>8, <1>9, <1>10
<1> QED
  BY <1>11 DEF Good1

---------------------------------------------------------------------------
(* The specification: what the passes have computed so far.                *)

\* Between mk_cfg and cmp_df nothing changes the procedure.
PassInv ==
  /\ ClosedInv
  /\ stage \in {"prm", "rpo", "dom", "df", "crashed"} =>
       lowered /\ Final(M) /\ pred = [t \in Blocks |-> PredsOf(Edges, t)]
  /\ stage \in {"dom", "df", "crashed"} => rpo = RpoOf
  /\ stage \in {"df", "crashed"} => idom = IdomOf
  /\ stage = "crashed" => \E k \in DOMAIN JoinRuns : JoinRuns[k][1] = None

\* What a pass computes is the same as long as nothing it reads changes.
LEMMA SameOrder ==
  ASSUME UNCHANGED M
  PROVE  Blocks' = Blocks /\ Edges' = Edges /\ RpoOf' = RpoOf
<1>1. Blocks' = Blocks
  BY DEF Blocks
<1>2. Edges' = Edges
  BY DEF Edges, Succs, Targets, LastOf, Blocks
<1>3. RpoOf' = RpoOf
  BY DEF RpoOf, Iterate, Pop, FirstWalk, Succs, Targets, LastOf, Blocks
<1> QED
  BY <1>1, <1>2, <1>3

LEMMA SamePreds ==
  ASSUME UNCHANGED M
  PROVE  [t \in Blocks |-> PredsOf(Edges, t)]' = [t \in Blocks |-> PredsOf(Edges, t)]
BY DEF PredsOf, Into, Edges, Succs, Targets, LastOf, Blocks

LEMMA SameTree ==
  ASSUME UNCHANGED <<M, pred, rpo>>
  PROVE  IdomOf' = IdomOf
BY DEF IdomOf, Iterate, Settle, Sweep, Improve, NewIdom, Meet, Intersect, Climb, Num,
  FirstTree, Blocks

LEMMA SameRuns ==
  ASSUME UNCHANGED <<M, pred, idom>>
  PROVE  JoinRuns' = JoinRuns
BY DEF JoinRuns, Runners, Iterate, Blocks

LEMMA PassInvKept ==
  ASSUME PassInv, [Next]_vars
  PROVE  PassInv'
<1>1. ClosedInv /\ ClosedInv'
  BY ClosedInvKept DEF PassInv
<1>2. ASSUME lowered, UNCHANGED lowVars, UNCHANGED <<pred, rpo, idom>>,
             stage \in {"prm", "rpo", "dom", "df", "crashed"},
             stage' \in {"prm", "rpo", "dom", "df", "crashed"} =>
               /\ stage' \in {"dom", "df", "crashed"} => stage \in {"dom", "df", "crashed"}
               /\ stage' \in {"df", "crashed"} => stage \in {"df", "crashed"}
               /\ stage' = "crashed" => \E k \in DOMAIN JoinRuns : JoinRuns[k][1] = None
      PROVE  PassInv'
  <2>1. M' = M /\ lowered'
    BY <1>2 DEF lowVars
  <2>2. Final(M) /\ pred = [t \in Blocks |-> PredsOf(Edges, t)]
    BY <1>2 DEF PassInv
  <2>3. Final(M') /\ pred' = [t \in Blocks |-> PredsOf(Edges, t)]'
    BY <1>2, <2>1, <2>2, SamePreds
  <2>4. RpoOf' = RpoOf /\ IdomOf' = IdomOf /\ JoinRuns' = JoinRuns
    BY <1>2, <2>1, SameOrder, SameTree, SameRuns
  <2> QED
    BY <1>1, <1>2, <2>1, <2>3, <2>4 DEF PassInv
<1>3. ASSUME stage' \notin {"prm", "rpo", "dom", "df", "crashed"}
      PROVE  PassInv'
  BY <1>1, <1>3 DEF PassInv
<1>4. CASE low_func /\ UNCHANGED <<m2rVars, runVars>>
  <2>1. ~ lowered
    BY <1>4 DEF low_func, Assign, Return, For, Copy, If, While, Case, Exit, Goto, Label,
      ThenDone, ElseDone, WhileDone, ForDone, BranchDone, NextBranch, Default, CaseDone,
      Finish, Statement, Resume
  <2>2. stage' = "cfg"
    BY <1>1, <1>4, <2>1 DEF ClosedInv, m2rVars
  <2> QED
    BY <1>3, <2>2
<1>5. CASE mk_cfg
  <2>1. /\ lowered /\ stage = "cfg" /\ stage' = "prm" /\ UNCHANGED lowVars
        /\ pred' = [t \in Blocks |-> PredsOf(Edges, t)]
    BY <1>5 DEF mk_cfg, Pass
  <2>2. M' = M /\ lowered' /\ Final(M)
    BY <1>1, <2>1 DEF lowVars, ClosedInv
  <2>3. [t \in Blocks |-> PredsOf(Edges, t)]' = [t \in Blocks |-> PredsOf(Edges, t)]
    BY <2>2, SamePreds
  <2> QED
    BY <1>1, <2>1, <2>2, <2>3 DEF PassInv
<1>6. CASE fnd_prm
  <2>1. PICK t \in {"done", "rpo"} : Pass("prm", t) /\ UNCHANGED <<pred, rpo, idom>>
    <3>1. \E found : /\ Pass("prm", IF found = <<>> THEN "done" ELSE "rpo")
                     /\ UNCHANGED <<pred, rpo, idom>>
      BY <1>6 DEF fnd_prm
    <3> QED
      BY <3>1
  <2>2. lowered /\ stage = "prm" /\ stage' = t /\ UNCHANGED lowVars
    BY <2>1 DEF Pass
  <2> QED
    BY <1>2, <1>3, <2>1, <2>2
<1>7. CASE mk_rpo
  <2>1. /\ lowered /\ stage = "rpo" /\ stage' = "dom" /\ UNCHANGED lowVars
        /\ rpo' = RpoOf /\ UNCHANGED pred
    BY <1>7 DEF mk_rpo, Pass, RpoOf, FirstWalk
  <2>2. M' = M /\ lowered' /\ Final(M) /\ pred = [t \in Blocks |-> PredsOf(Edges, t)]
    BY <2>1 DEF lowVars, PassInv
  <2>3. pred' = [t \in Blocks |-> PredsOf(Edges, t)]' /\ RpoOf' = RpoOf
    BY <2>1, <2>2, SamePreds, SameOrder
  <2> QED
    BY <1>1, <2>1, <2>2, <2>3 DEF PassInv
<1>8. CASE cmp_dom
  <2>1. lowered /\ stage = "dom" /\ stage' = "df" /\ UNCHANGED lowVars
    <3>1. Pass("dom", "df")
      BY <1>8, Zenon DEF cmp_dom
    <3> QED
      BY <3>1 DEF Pass
  <2>2. UNCHANGED <<pred, rpo>>
    BY <1>8, Zenon DEF cmp_dom
  <2>3. idom' = IdomOf
    BY <1>8 DEF cmp_dom, IdomOf, FirstTree
  <2>4. /\ M' = M /\ lowered' /\ Final(M) /\ rpo = RpoOf
        /\ pred = [t \in Blocks |-> PredsOf(Edges, t)]
    BY <2>1 DEF lowVars, PassInv
  <2>5. /\ pred' = [t \in Blocks |-> PredsOf(Edges, t)]'
        /\ RpoOf' = RpoOf /\ IdomOf' = IdomOf
    BY <2>2, <2>4, SamePreds, SameOrder, SameTree
  <2> QED
    BY <1>1, <2>1, <2>2, <2>3, <2>4, <2>5 DEF PassInv
<1>9. CASE cmp_df
  <2> DEFINE wild == \E k \in DOMAIN JoinRuns : JoinRuns[k][1] = None
  <2>1. Pass("df", IF wild THEN "crashed" ELSE "phi") /\ UNCHANGED <<pred, rpo, idom>>
    BY <1>9 DEF cmp_df
  <2> HIDE DEF wild
  <2>2. lowered /\ stage = "df" /\ UNCHANGED lowVars /\ stage' = IF wild THEN "crashed" ELSE "phi"
    BY <2>1 DEF Pass
  <2>3. CASE wild
    BY <1>2, <2>1, <2>2, <2>3 DEF wild
  <2>4. CASE ~ wild
    BY <1>3, <2>2, <2>4
  <2> QED
    BY <2>3, <2>4
<1>10. CASE ins_phi
  BY <1>3, <1>10 DEF ins_phi, Pass
<1>11. CASE ren_var
  BY <1>3, <1>11 DEF ren_var, Pass
<1>12. CASE rewrite
  BY <1>3, <1>12 DEF rewrite
<1>13. CASE Start
  BY <1>3, <1>13 DEF Start, Begin
<1>14. CASE Step
  BY <1>3, <1>14 DEF Step, m2rVars
<1>15. CASE UNCHANGED vars
  <2>1. UNCHANGED lowVars /\ UNCHANGED <<stage, pred, rpo, idom>>
    BY <1>15 DEF vars, m2rVars
  <2>2. CASE stage \in {"prm", "rpo", "dom", "df", "crashed"}
    BY <1>2, <2>1, <2>2 DEF PassInv
  <2>3. CASE stage \notin {"prm", "rpo", "dom", "df", "crashed"}
    BY <1>3, <2>1, <2>3
  <2> QED
    BY <2>2, <2>3
<1> QED
  BY <1>4, <1>5, <1>6, <1>7, <1>8, <1>9, <1>10, <1>11, <1>12, <1>13, <1>14, <1>15
  DEF Next, jir_m2r

\* What cmp_df starts from.
LEMMA AtTreeReady ==
  ASSUME PassInv, stage \in {"df", "crashed"}, PredsFit
  PROVE  AtTree
<1>1. /\ Final(M) /\ pred = [t \in Blocks |-> PredsOf(Edges, t)]
      /\ rpo = RpoOf /\ idom = IdomOf
  BY DEF PassInv
<1>2. Graph
  BY <1>1, FinalGraph
<1>3. \A t \in Blocks :
        /\ IsSeq(pred[t])
        /\ \A p \in Range(pred[t]) : p \in Blocks /\ t \in Range(Succs(p))
        /\ \A p \in Blocks : t \in Range(Succs(p)) => p \in Range(pred[t])
  BY <1>1, <1>2, PredsRight DEF PredsFit
<1>4. Ready
  BY <1>1, <1>2, <1>3, RpoRight DEF Ready
<1> QED
  BY <1>1, <1>4, IdomRight DEF AtTree

\* In every state the passes hold what they compute from the procedure.
THEOREM PassInvAlways == Spec => []PassInv
<1>1. Init => PassInv
  BY InitLow DEF Init, M2RInit, ClosedInv, PassInv
<1>2. PassInv /\ [Next]_vars => PassInv'
  BY PassInvKept
<1> QED
  BY <1>1, <1>2, PTL DEF Spec

\* cmp_dom finds the immediate dominator of every reachable block, once its
\* sweeps have settled and no block has more predecessors than the lists take.
THEOREM DomRightAlways == Spec => [](PredsFit /\ Settled => DomRight)
<1>1. ASSUME PassInv, PredsFit, Settled
      PROVE  DomRight
  <2> SUFFICES ASSUME stage = "df", NEW b \in Reach \ {1}
               PROVE  /\ SDom(idom[b], b)
                      /\ \A a \in Reach : SDom(a, b) => Dom(a, idom[b])
    BY DEF DomRight
  <2>1. AtTree
    BY <1>1, AtTreeReady
  <2> QED
    BY <1>1, <2>1, FixedRight DEF AtTree, Settled
<1>2. PassInv => (PredsFit /\ Settled => DomRight)
  BY <1>1
<1> QED
  BY <1>2, PassInvAlways, PTL

\* Whether or not the sweeps have settled, the tree holds every reachable block,
\* each behind the block above it, and no dominator is lost on the way up.
THEOREM NoDominatorLost ==
  Spec => [](PredsFit /\ stage = "df" =>
               \A b \in Reach \ {1} :
                 /\ idom[b] \in Reach /\ Num[idom[b]] < Num[b]
                 /\ \A a \in Reach : SDom(a, b) => Dom(a, idom[b]))
<1>1. ASSUME PassInv, PredsFit, stage = "df", NEW b \in Reach \ {1}
      PROVE  /\ idom[b] \in Reach /\ Num[idom[b]] < Num[b]
             /\ \A a \in Reach : SDom(a, b) => Dom(a, idom[b])
  <2>1. Tree(idom) /\ Done(idom) = Reach
    BY <1>1, AtTreeReady DEF AtTree
  <2> QED
    BY <2>1 DEF Tree
<1>2. PassInv => (PredsFit /\ stage = "df" =>
                    \A b \in Reach \ {1} :
                      /\ idom[b] \in Reach /\ Num[idom[b]] < Num[b]
                      /\ \A a \in Reach : SDom(a, b) => Dom(a, idom[b]))
  BY <1>1
<1> QED
  BY <1>2, PassInvAlways, PTL

\* cmp_df only runs out of its tables above an unreachable predecessor of a
\* reachable block, settled or not.
THEOREM CrashesOnlyOnDeadPredAlways == Spec => [](PredsFit => CrashesOnlyOnDeadPred)
<1>1. ASSUME PassInv, PredsFit
      PROVE  CrashesOnlyOnDeadPred
  <2> SUFFICES ASSUME stage = "crashed", \A b \in Reach : Range(pred[b]) \subseteq Reach
               PROVE  FALSE
    BY DEF CrashesOnlyOnDeadPred
  <2>1. AtTree
    BY <1>1, AtTreeReady
  <2>2. PICK k \in DOMAIN JoinRuns : JoinRuns[k][1] = None
    BY <1>1 DEF PassInv
  <2> QED
    BY <2>1, <2>2, RunsInside
<1>2. PassInv => (PredsFit => CrashesOnlyOnDeadPred)
  BY <1>1
<1> QED
  BY <1>2, PassInvAlways, PTL

---------------------------------------------------------------------------
(* Sequences put in a row, and ascending ones.                             *)

\* Where FlattenSeq puts the entries: off[k] entries come before those of k + 1.
Offsets(ss, off) ==
  /\ off \in [0 .. Len(ss) -> Nat] /\ off[0] = 0
  /\ \A k \in 1 .. Len(ss) : off[k] = off[k - 1] + Len(ss[k])
LEMMA OffsetsExist ==
  ASSUME NEW ss, IsSeq(ss), \A k \in DOMAIN ss : IsSeq(ss[k])
  PROVE  \E off : Offsets(ss, off)
<1> DEFINE N == Len(ss)
           T == [k \in 0 .. N |-> Nat]
           step == [k \in 1 .. N |-> [x \in Nat |-> x + Len(ss[k])]]
<1>1. N \in Nat /\ DOMAIN ss = 1 .. N
  BY DomainOfSeq
<1>2. \A k \in 1 .. N : Len(ss[k]) \in Nat
  BY <1>1, DomainOfSeq
<1>3. 0 \in T[0] /\ \A k \in 1 .. N : \A x \in T[k - 1] : step[k][x] \in T[k]
  <2>1. 0 \in 0 .. N /\ \A k \in 1 .. N : k - 1 \in 0 .. N /\ k \in 0 .. N
    BY <1>1
  <2>2. \A k \in 1 .. N : \A x \in Nat : step[k][x] \in Nat
    BY <1>2
  <2> HIDE DEF step, N
  <2> QED
    BY <2>1, <2>2
<1> HIDE DEF N, step
<1>4. PICK f : Follows(f, N, 0, step) /\ \A k \in 0 .. N : f[k] \in T[k]
  <2> HIDE DEF T
  <2> QED
    BY <1>1, <1>3, StepsExist
<1>5. f \in [0 .. N -> Nat] /\ f[0] = 0
  BY <1>1, <1>4 DEF Follows
<1>6. ASSUME NEW k \in 1 .. N PROVE f[k] = f[k - 1] + Len(ss[k])
  <2>1. k \in 0 .. N /\ k # 0 /\ k - 1 \in 0 .. N
    BY <1>1
  <2>2. f[k] = step[k][f[k - 1]] /\ f[k - 1] \in Nat
    BY <1>4, <1>5, <2>1 DEF Follows
  <2> QED
    BY <2>2 DEF step
<1> QED
  BY <1>5, <1>6 DEF Offsets, N

LEMMA OffsetsGrow ==
  ASSUME NEW ss, IsSeq(ss), \A k \in DOMAIN ss : IsSeq(ss[k]), NEW off, Offsets(ss, off),
         NEW j \in 0 .. Len(ss), NEW k \in 0 .. Len(ss), j <= k
  PROVE  off[j] <= off[k]
<1>1. Len(ss) \in Nat /\ DOMAIN ss = 1 .. Len(ss)
  BY DomainOfSeq
<1>2. \A i \in 1 .. Len(ss) : Len(ss[i]) \in Nat
  BY <1>1, DomainOfSeq
<1> DEFINE U == {i \in Nat : i <= Len(ss) /\ j <= i => off[j] <= off[i]}
<1>3. 0 \in U
  BY <1>1 DEF Offsets
<1>4. ASSUME NEW i \in Nat, i \in U PROVE i + 1 \in U
  <2> SUFFICES ASSUME i + 1 <= Len(ss), j <= i + 1 PROVE off[j] <= off[i + 1]
    OBVIOUS
  <2>1. CASE j = i + 1
    BY <1>1, <2>1 DEF Offsets
  <2>2. CASE j <= i
    <3>1. i + 1 \in 1 .. Len(ss) /\ (i + 1) - 1 = i /\ i \in 0 .. Len(ss) /\ i + 1 \in 0 .. Len(ss)
      BY <1>1
    <3>2. off[i + 1] = off[i] + Len(ss[i + 1]) /\ off[j] <= off[i]
      BY <1>4, <2>2, <3>1 DEF Offsets
    <3>3. off[i] \in Nat /\ off[j] \in Nat
      BY <3>1 DEF Offsets
    <3> QED
      BY <1>2, <3>1, <3>2, <3>3
  <2> QED
    BY <2>1, <2>2
<1>5. Nat \subseteq U
  <2> HIDE DEF U
  <2> QED
    BY <1>3, <1>4, Induction
<1> QED
  BY <1>1, <1>5

\* Every place belongs to one of the sequences.
LEMMA OffsetsCover ==
  ASSUME NEW ss, IsSeq(ss), \A k \in DOMAIN ss : IsSeq(ss[k]), NEW off, Offsets(ss, off),
         NEW i \in 1 .. off[Len(ss)]
  PROVE  \E k \in 1 .. Len(ss) : i \in off[k - 1] + 1 .. off[k]
<1>1. Len(ss) \in Nat /\ DOMAIN ss = 1 .. Len(ss)
  BY DomainOfSeq
<1>2. \A k \in 0 .. Len(ss) : off[k] \in Nat
  BY DEF Offsets
<1> DEFINE U == {n \in Nat : n <= Len(ss) /\ i <= off[n] =>
                    \E k \in 1 .. Len(ss) : i \in off[k - 1] + 1 .. off[k]}
<1>3. 0 \in U
  BY <1>1, <1>2 DEF Offsets
<1>4. ASSUME NEW n \in Nat, n \in U PROVE n + 1 \in U
  <2> SUFFICES ASSUME n + 1 <= Len(ss), i <= off[n + 1]
               PROVE  \E k \in 1 .. Len(ss) : i \in off[k - 1] + 1 .. off[k]
    OBVIOUS
  <2>1. n + 1 \in 1 .. Len(ss) /\ (n + 1) - 1 = n /\ n \in 0 .. Len(ss) /\ n + 1 \in 0 .. Len(ss)
    BY <1>1
  <2>2. CASE i <= off[n]
    BY <1>4, <2>1, <2>2
  <2>3. CASE ~ (i <= off[n])
    <3>1. i \in off[n] + 1 .. off[n + 1]
      BY <1>1, <1>2, <2>1, <2>3
    <3> QED
      BY <2>1, <3>1
  <2> QED
    BY <2>2, <2>3
<1>5. Nat \subseteq U
  <2> HIDE DEF U
  <2> QED
    BY <1>3, <1>4, Induction
<1> QED
  BY <1>1, <1>2, <1>5

\* FlattenSeq puts entry j of the k-th sequence at place off[k - 1] + j.
LEMMA FlatPlaces ==
  ASSUME NEW ss, IsSeq(ss), \A k \in DOMAIN ss : IsSeq(ss[k]), NEW off, Offsets(ss, off)
  PROVE  /\ IsSeq(FlattenSeq(ss)) /\ Len(FlattenSeq(ss)) = off[Len(ss)]
         /\ \A k \in 1 .. Len(ss) : \A j \in 1 .. Len(ss[k]) :
              /\ off[k - 1] + j \in DOMAIN FlattenSeq(ss)
              /\ FlattenSeq(ss)[off[k - 1] + j] = ss[k][j]
<1> DEFINE N == Len(ss)
<1>1. N \in Nat /\ DOMAIN ss = 1 .. N
  BY DomainOfSeq
<1>2. PICK g : Flattens(ss, g) /\ FlattenSeq(ss) = g[N]
  BY FlatSteps
<1> DEFINE At(n) == \A k \in 1 .. n : \A j \in 1 .. Len(ss[k]) : g[n][off[k - 1] + j] = ss[k][j]
           U == {n \in Nat : n <= N => IsSeq(g[n]) /\ Len(g[n]) = off[n] /\ At(n)}
<1>3. 0 \in U
  BY <1>1, <1>2, EmptyIsSeq DEF Flattens, Offsets
<1>4. ASSUME NEW n \in Nat, n \in U PROVE n + 1 \in U
  <2> SUFFICES ASSUME n + 1 <= N PROVE IsSeq(g[n + 1]) /\ Len(g[n + 1]) = off[n + 1] /\ At(n + 1)
    OBVIOUS
  <2>1. /\ n + 1 \in 1 .. N /\ (n + 1) - 1 = n /\ n <= N /\ n \in 0 .. N
        /\ \A k \in 1 .. n : k \in 1 .. N /\ k - 1 \in 0 .. N /\ k \in 0 .. N /\ k <= n
    BY <1>1
  <2>2. IsSeq(g[n + 1]) /\ g[n + 1] = g[n] \o ss[n + 1]
    BY <1>2, <2>1 DEF Flattens
  <2>3. IsSeq(g[n]) /\ Len(g[n]) = off[n] /\ At(n) /\ IsSeq(ss[n + 1])
    BY <1>1, <1>4, <2>1
  <2>4. off[n + 1] = off[n] + Len(ss[n + 1])
    BY <2>1 DEF Offsets
  <2>5. /\ Len(g[n + 1]) = off[n + 1]
        /\ \A i \in 1 .. off[n] : g[n + 1][i] = g[n][i]
        /\ \A j \in 1 .. Len(ss[n + 1]) : g[n + 1][off[n] + j] = ss[n + 1][j]
    <3> DEFINE h == g[n]
               t == ss[n + 1]
    <3>1. IsSeq(h) /\ IsSeq(t) /\ g[n + 1] = h \o t /\ Len(h) = off[n]
          /\ off[n + 1] = off[n] + Len(t)
      BY <2>2, <2>3, <2>4
    <3> HIDE DEF h, t, At
    <3>2. /\ Len(h \o t) = Len(h) + Len(t)
          /\ \A i \in 1 .. Len(h) : (h \o t)[i] = h[i]
          /\ \A j \in 1 .. Len(t) : (h \o t)[Len(h) + j] = t[j]
      <4>1. IsSeq(h) /\ IsSeq(t)
        BY ONLY <3>1
      <4> QED
        BY ONLY <4>1, ConcatAny
    <3>3. /\ Len(g[n + 1]) = off[n + 1]
          /\ \A i \in 1 .. off[n] : g[n + 1][i] = h[i]
          /\ \A j \in 1 .. Len(t) : g[n + 1][off[n] + j] = t[j]
      BY <3>1, <3>2
    <3> QED
      BY <3>3 DEF h, t
  <2>6. ASSUME NEW k \in 1 .. n, NEW j \in 1 .. Len(ss[k])
        PROVE  g[n + 1][off[k - 1] + j] = ss[k][j]
    <3>1. off[k] <= off[n] /\ off[k] = off[k - 1] + Len(ss[k])
      BY <2>1, OffsetsGrow DEF Offsets
    <3>2. off[k - 1] \in Nat /\ off[n] \in Nat /\ Len(ss[k]) \in Nat
      BY <1>1, <2>1, DomainOfSeq DEF Offsets
    <3>3. off[k - 1] + j \in 1 .. off[n]
      BY <3>1, <3>2
    <3> QED
      BY <2>3, <2>5, <3>3
  <2>7. \A k \in 1 .. n + 1 : k \in 1 .. n \/ k = n + 1
    OBVIOUS
  <2>8. At(n + 1)
    BY <2>1, <2>5, <2>6, <2>7
  <2> QED
    BY <2>2, <2>5, <2>8
<1>5. N \in U
  <2> HIDE DEF U
  <2> QED
    BY <1>1, <1>3, <1>4, Induction
<1>6. IsSeq(FlattenSeq(ss)) /\ Len(FlattenSeq(ss)) = off[N] /\ At(N)
  BY <1>1, <1>2, <1>5
<1>7. ASSUME NEW k \in 1 .. N, NEW j \in 1 .. Len(ss[k])
      PROVE  off[k - 1] + j \in DOMAIN FlattenSeq(ss)
  <2>1. k - 1 \in 0 .. N /\ k \in 0 .. N /\ N \in 0 .. N /\ k <= N
    BY <1>1
  <2>2. off[k] <= off[N] /\ off[k] = off[k - 1] + Len(ss[k])
    BY <2>1, OffsetsGrow DEF Offsets
  <2>3. off[k - 1] \in Nat /\ off[N] \in Nat /\ Len(ss[k]) \in Nat
    BY <1>1, <2>1, DomainOfSeq DEF Offsets
  <2>4. DOMAIN FlattenSeq(ss) = 1 .. off[N]
    BY <1>6, DomainOfSeq
  <2> QED
    BY <2>2, <2>3, <2>4
<1> QED
  BY <1>1, <1>2, <1>6, <1>7

\* What is kept of an ascending sequence is ascending.
Rising(s) == \A i, j \in DOMAIN s : i < j => s[i] < s[j]
LEMMA KeepRising ==
  ASSUME NEW s, IsSeq(s), Range(s) \subseteq Int, Rising(s), NEW U
  PROVE  Rising(Keep(s, U))
<1> DEFINE n == Len(s)
           Upto(k) == {s[i] : i \in 1 .. k}
           More(r, k) == IF s[k] \in U THEN Append(r, s[k]) ELSE r
           T == [k \in 0 .. n |-> {r \in Seq(Int) : Rising(r) /\ Range(r) \subseteq Upto(k)}]
           step == [k \in 1 .. n |-> [r \in Seq(Int) |-> More(r, k)]]
           Is(f) == f = [k \in 0 .. n |-> IF k = 0 THEN <<>>
                           ELSE IF s[k] \in U THEN Append(f[k - 1], s[k]) ELSE f[k - 1]]
<1>1. n \in Nat /\ DOMAIN s = 1 .. n /\ \A k \in 1 .. n : s[k] \in Int
  BY DomainOfSeq DEF Range
<1> HIDE DEF n
<1>3. ASSUME NEW k \in 1 .. n, NEW r \in T[k - 1]
      PROVE  More(r, k) \in T[k]
  <2>1. k - 1 \in 0 .. n /\ k \in 0 .. n /\ k \in Int
    BY <1>1
  <2>2. r \in Seq(Int) /\ Rising(r) /\ Range(r) \subseteq Upto(k - 1)
    <3> HIDE DEF Upto
    <3> QED
      BY <2>1
  <2>3. Upto(k - 1) \subseteq Upto(k) /\ s[k] \in Upto(k)
    BY <2>1
  <2>4. IsSeq(r) /\ Len(r) \in Nat /\ DOMAIN r = 1 .. Len(r)
    BY <2>2, SeqIsSeq, LenProperties
  <2>5. CASE s[k] \in U
    <3> DEFINE q == Append(r, s[k])
    <3>1. q \in Seq(Int) /\ Len(q) = Len(r) + 1 /\ DOMAIN q = 1 .. Len(r) + 1
          /\ (\A i \in 1 .. Len(r) : q[i] = r[i]) /\ q[Len(r) + 1] = s[k]
      <4>1. q \in Seq(Int)
        BY <1>1, <2>2, AppendProperties
      <4>2. /\ Len(q) = Len(r) + 1 /\ (\A i \in 1 .. Len(r) : q[i] = r[i]) /\ q[Len(r) + 1] = s[k]
        BY <2>4, AppendAny
      <4> QED
        BY <4>1, <4>2, LenProperties
    <3>2. Range(q) \subseteq Upto(k)
      <4>1. Range(q) = Range(r) \cup {s[k]}
        BY <2>4, AppendRange
      <4> HIDE DEF Upto, q
      <4> QED
        BY <2>2, <2>3, <4>1
    <3>3. \A x \in Upto(k - 1) : x < s[k]
      <4> SUFFICES ASSUME NEW i \in 1 .. k - 1 PROVE s[i] < s[k]
        OBVIOUS
      <4>1. i \in 1 .. n /\ i < k
        BY <1>1
      <4> QED
        BY <1>1, <4>1 DEF Rising
    <3>4. \A i \in 1 .. Len(r) : r[i] < s[k]
      <4>1. \A i \in 1 .. Len(r) : r[i] \in Upto(k - 1)
        <5> HIDE DEF Upto
        <5> QED
          BY <2>2, <2>4 DEF Range
      <4> HIDE DEF Upto
      <4> QED
        BY <3>3, <4>1
    <3>5. Rising(q)
      <4> SUFFICES ASSUME NEW i \in 1 .. Len(r) + 1, NEW j \in 1 .. Len(r) + 1, i < j
                   PROVE  q[i] < q[j]
        BY <3>1 DEF Rising
      <4> HIDE DEF q
      <4>1. i \in 1 .. Len(r)
        BY <2>4
      <4>2. CASE j = Len(r) + 1
        BY <3>1, <3>4, <4>1, <4>2
      <4>3. CASE j # Len(r) + 1
        <5>0. \A n0 \in Nat : \A j0 \in 1 .. n0 + 1 : j0 # n0 + 1 => j0 \in 1 .. n0
          OBVIOUS
        <5> HIDE DEF More, T, Upto
        <5>1. j \in 1 .. Len(r)
          BY ONLY <2>4, <4>3, <5>0, j \in 1 .. Len(r) + 1
        <5>2. r[i] < r[j]
          BY <2>2, <2>4, <4>1, <5>1 DEF Rising
        <5> QED
          BY <3>1, <4>1, <5>1, <5>2
      <4> QED
        BY <4>2, <4>3
    <3> HIDE DEF q
    <3>6. q \in T[k]
      <4> HIDE DEF Upto
      <4> QED
        BY <2>1, <3>1, <3>2, <3>5
    <3> QED
      BY <2>5, <3>6 DEF q
  <2>6. CASE s[k] \notin U
    <3>1. r \in T[k]
      <4> HIDE DEF Upto
      <4> QED
        BY <2>1, <2>2, <2>3
    <3> QED
      BY <2>6, <3>1
  <2> QED
    BY <2>5, <2>6
<1>4. <<>> \in T[0]
  <2>1. Range(<<>>) = {} /\ <<>> \in Seq(Int) /\ 0 \in 0 .. n /\ Rising(<<>>)
    BY <1>1 DEF Range, Rising
  <2> HIDE DEF Upto
  <2> QED
    BY <2>1
<1>5. \A k \in 0 .. n : T[k] \subseteq Seq(Int)
  OBVIOUS
<1> HIDE DEF T, Upto
<1>6. \E f : Is(f)
  <2>1. \A k \in 1 .. n : \A r \in T[k - 1] : step[k][r] \in T[k]
    <3> SUFFICES ASSUME NEW k \in 1 .. n, NEW r \in T[k - 1] PROVE step[k][r] \in T[k]
      OBVIOUS
    <3>1. k - 1 \in 0 .. n
      BY <1>1
    <3>2. r \in Seq(Int)
      BY <1>5, <3>1
    <3> HIDE DEF More
    <3> QED
      BY <1>3, <3>2
  <2> HIDE DEF step
  <2>2. PICK f : Follows(f, n, <<>>, step) /\ \A k \in 0 .. n : f[k] \in T[k]
    BY <1>1, <1>4, <2>1, StepsExist
  <2>3. ASSUME NEW k \in 1 .. n
        PROVE  step[k][f[k - 1]] = IF s[k] \in U THEN Append(f[k - 1], s[k]) ELSE f[k - 1]
    <3>1. k - 1 \in 0 .. n
      BY <1>1
    <3>2. f[k - 1] \in Seq(Int)
      BY <1>5, <2>2, <3>1
    <3> QED
      BY <3>2 DEF step
  <2>4. \A k \in 0 .. n : k # 0 => k \in 1 .. n
    BY <1>1
  <2>5. Is(f)
    BY <2>2, <2>3, <2>4 DEF Follows
  <2> QED
    BY <2>5
<1> DEFINE it == CHOOSE f : Is(f)
<1>7. Is(it)
  <2> HIDE DEF Is
  <2> QED
    BY <1>6
<1>8. Keep(s, U) = it[n]
  BY Zenon DEF Keep, n
<1> HIDE DEF it
<1>9. it[n] \in T[n]
  <2>1. ASSUME NEW k \in 1 .. n, it[k - 1] \in T[k - 1]
        PROVE  it[k] \in T[k]
    <3>1. k \in 0 .. n /\ k # 0
      BY <1>1
    <3>2. it[k] = More(it[k - 1], k)
      BY <1>7, <3>1
    <3> HIDE DEF More
    <3> QED
      BY <1>3, <2>1, <3>2
  <2>2. it[0] = <<>>
    BY <1>1, <1>7
  <2>3. \A k \in 0 .. n : it[k] \in T[k]
    <3> HIDE DEF Is
    <3> QED
      BY <1>1, <1>4, <2>1, <2>2, StepsStay
  <2> QED
    BY <1>1, <2>3
<1>10. n \in 0 .. n
  BY <1>1
<1> QED
  BY <1>8, <1>9, <1>10 DEF T

\* What is kept of a sequence without repetition has none.
LEMMA KeepInjective ==
  ASSUME NEW s, IsSeq(s), IsInjective(s), NEW U
  PROVE  IsInjective(Keep(s, U))
<1> DEFINE n == Len(s)
           X == Range(s)
           Upto(k) == {s[i] : i \in 1 .. k}
           More(r, k) == IF s[k] \in U THEN Append(r, s[k]) ELSE r
           T == [k \in 0 .. n |-> {r \in Seq(X) : IsInjective(r) /\ Range(r) \subseteq Upto(k)}]
           step == [k \in 1 .. n |-> [r \in Seq(X) |-> More(r, k)]]
           Is(f) == f = [k \in 0 .. n |-> IF k = 0 THEN <<>>
                           ELSE IF s[k] \in U THEN Append(f[k - 1], s[k]) ELSE f[k - 1]]
<1>1. n \in Nat /\ DOMAIN s = 1 .. n /\ \A k \in 1 .. n : s[k] \in X
  BY DomainOfSeq DEF Range
<1> HIDE DEF n, X
<1>3. ASSUME NEW k \in 1 .. n, NEW r \in T[k - 1]
      PROVE  More(r, k) \in T[k]
  <2>1. k - 1 \in 0 .. n /\ k \in 0 .. n /\ k \in Int
    BY <1>1
  <2>2. r \in Seq(X) /\ IsInjective(r) /\ Range(r) \subseteq Upto(k - 1)
    <3> HIDE DEF Upto
    <3> QED
      BY <2>1
  <2>3. Upto(k - 1) \subseteq Upto(k) /\ s[k] \in Upto(k)
    BY <2>1
  <2>4. IsSeq(r) /\ Len(r) \in Nat /\ DOMAIN r = 1 .. Len(r)
    BY <2>2, SeqIsSeq, LenProperties
  <2>5. CASE s[k] \in U
    <3> DEFINE q == Append(r, s[k])
    <3>1. q \in Seq(X) /\ Len(q) = Len(r) + 1 /\ DOMAIN q = 1 .. Len(r) + 1
          /\ (\A i \in 1 .. Len(r) : q[i] = r[i]) /\ q[Len(r) + 1] = s[k]
      <4>1. q \in Seq(X)
        BY <1>1, <2>2, AppendProperties
      <4>2. /\ Len(q) = Len(r) + 1 /\ (\A i \in 1 .. Len(r) : q[i] = r[i]) /\ q[Len(r) + 1] = s[k]
        BY <2>4, AppendAny
      <4> QED
        BY <4>1, <4>2, LenProperties
    <3>2. Range(q) \subseteq Upto(k)
      <4>1. Range(q) = Range(r) \cup {s[k]}
        BY <2>4, AppendRange
      <4> HIDE DEF Upto, q
      <4> QED
        BY <2>2, <2>3, <4>1
    <3>3. s[k] \notin Upto(k - 1)
      <4> SUFFICES ASSUME NEW i \in 1 .. k - 1 PROVE s[i] # s[k]
        OBVIOUS
      <4>1. i \in 1 .. n /\ i # k
        BY <1>1
      <4> QED
        BY <1>1, <4>1 DEF IsInjective
    <3>4. \A i \in 1 .. Len(r) : r[i] # s[k]
      <4>1. \A i \in 1 .. Len(r) : r[i] \in Upto(k - 1)
        <5> HIDE DEF Upto
        <5> QED
          BY <2>2, <2>4 DEF Range
      <4> HIDE DEF Upto
      <4> QED
        BY <3>3, <4>1
    <3>5. IsInjective(q)
      <4>0. \A i \in 1 .. Len(r) + 1 : i \in 1 .. Len(r) \/ i = Len(r) + 1
        BY <2>4
      <4>2. \A i, j \in 1 .. Len(r) : r[i] = r[j] => i = j
        BY <2>2, <2>4 DEF IsInjective
      <4> HIDE DEF q
      <4>3. \A i, j \in 1 .. Len(r) + 1 : q[i] = q[j] => i = j
        BY <3>1, <3>4, <4>0, <4>2
      <4> QED
        BY <3>1, <4>3 DEF IsInjective
    <3> HIDE DEF q
    <3>6. q \in T[k]
      <4> HIDE DEF Upto
      <4> QED
        BY <2>1, <3>1, <3>2, <3>5
    <3> QED
      BY <2>5, <3>6 DEF q
  <2>6. CASE s[k] \notin U
    <3>1. r \in T[k]
      <4> HIDE DEF Upto
      <4> QED
        BY <2>1, <2>2, <2>3
    <3> QED
      BY <2>6, <3>1
  <2> QED
    BY <2>5, <2>6
<1>4. <<>> \in T[0]
  <2>1. Range(<<>>) = {} /\ <<>> \in Seq(X) /\ 0 \in 0 .. n /\ IsInjective(<<>>)
    BY <1>1 DEF Range, IsInjective
  <2> HIDE DEF Upto
  <2> QED
    BY <2>1
<1>5. \A k \in 0 .. n : T[k] \subseteq Seq(X)
  OBVIOUS
<1> HIDE DEF T, Upto
<1>6. \E f : Is(f)
  <2>1. \A k \in 1 .. n : \A r \in T[k - 1] : step[k][r] \in T[k]
    <3> SUFFICES ASSUME NEW k \in 1 .. n, NEW r \in T[k - 1] PROVE step[k][r] \in T[k]
      OBVIOUS
    <3>1. k - 1 \in 0 .. n
      BY <1>1
    <3>2. r \in Seq(X)
      BY <1>5, <3>1
    <3> HIDE DEF More
    <3> QED
      BY <1>3, <3>2
  <2> HIDE DEF step
  <2>2. PICK f : Follows(f, n, <<>>, step) /\ \A k \in 0 .. n : f[k] \in T[k]
    BY <1>1, <1>4, <2>1, StepsExist
  <2>3. ASSUME NEW k \in 1 .. n
        PROVE  step[k][f[k - 1]] = IF s[k] \in U THEN Append(f[k - 1], s[k]) ELSE f[k - 1]
    <3>1. k - 1 \in 0 .. n
      BY <1>1
    <3>2. f[k - 1] \in Seq(X)
      BY <1>5, <2>2, <3>1
    <3> QED
      BY <3>2 DEF step
  <2>4. \A k \in 0 .. n : k # 0 => k \in 1 .. n
    BY <1>1
  <2>5. Is(f)
    BY <2>2, <2>3, <2>4 DEF Follows
  <2> QED
    BY <2>5
<1> DEFINE it == CHOOSE f : Is(f)
<1>7. Is(it)
  <2> HIDE DEF Is
  <2> QED
    BY <1>6
<1>8. Keep(s, U) = it[n]
  BY Zenon DEF Keep, n
<1> HIDE DEF it
<1>9. it[n] \in T[n]
  <2>1. ASSUME NEW k \in 1 .. n, it[k - 1] \in T[k - 1]
        PROVE  it[k] \in T[k]
    <3>1. k \in 0 .. n /\ k # 0
      BY <1>1
    <3>2. it[k] = More(it[k - 1], k)
      BY <1>7, <3>1
    <3> HIDE DEF More
    <3> QED
      BY <1>3, <2>1, <3>2
  <2>2. it[0] = <<>>
    BY <1>1, <1>7
  <2>3. \A k \in 0 .. n : it[k] \in T[k]
    <3> HIDE DEF Is
    <3> QED
      BY <1>1, <1>4, <2>1, <2>2, StepsStay
  <2> QED
    BY <1>1, <2>3
<1>10. n \in 0 .. n
  BY <1>1
<1> QED
  BY <1>8, <1>9, <1>10 DEF T

\* The least of a set of places is one of them.
LEMMA MinIn ==
  ASSUME NEW I \in SUBSET Nat, I # {}
  PROVE  Min(I) \in I
<1> DEFINE U == {n \in Nat : \A i \in I : i >= n}
<1>1. SUFFICES ASSUME ~ \E i \in I : \A j \in I : i <= j PROVE FALSE
  BY DEF Min
<1>2. 0 \in U
  OBVIOUS
<1>3. ASSUME NEW n \in Nat, n \in U PROVE n + 1 \in U
  BY <1>1, <1>3
<1>4. Nat \subseteq U
  <2> HIDE DEF U
  <2> QED
    BY <1>2, <1>3, Induction
<1>5. PICK i \in I : TRUE
  OBVIOUS
<1>6. i + 1 \in U
  BY <1>4
<1> QED
  BY <1>6

\* The numbers up to n, the blocks in their order, and what Prefix leaves.
LEMMA StepsFacts ==
  ASSUME NEW n \in Nat
  PROVE  /\ IsSeq(Steps(n)) /\ Len(Steps(n)) = n /\ DOMAIN Steps(n) = 1 .. n
         /\ Range(Steps(n)) = 1 .. n /\ Rising(Steps(n)) /\ IsInjective(Steps(n))
         /\ \A k \in 1 .. n : Steps(n)[k] = k
<1> DEFINE s == Steps(n)
<1>1. s = [k \in 1 .. n |-> k]
  BY DEF Steps
<1> HIDE DEF s
<1>2. s = [k \in 1 .. n |-> s[k]] /\ DOMAIN s = 1 .. n /\ \A k \in 1 .. n : s[k] = k
  BY <1>1
<1>3. IsSeq(s) /\ Len(s) = n
  BY <1>2, FunctionIsSeq
<1>4. Range(s) = 1 .. n /\ Rising(s) /\ IsInjective(s)
  BY <1>2 DEF Range, Rising, IsInjective
<1> QED
  BY <1>2, <1>3, <1>4 DEF s

LEMMA AscendingFacts ==
  ASSUME Graph, NEW S
  PROVE  /\ IsSeq(Ascending(S)) /\ Len(Ascending(S)) \in Nat
         /\ DOMAIN Ascending(S) = 1 .. Len(Ascending(S))
         /\ Range(Ascending(S)) = Blocks \cap S /\ IsInjective(Ascending(S))
<1>1. /\ Len(M.blks) \in Nat /\ Blocks = 1 .. Len(M.blks)
  BY DEF Graph
<1>2. IsSeq(Ascending(S)) /\ Range(Ascending(S)) = Blocks \cap S /\ IsInjective(Ascending(S))
  BY <1>1, StepsFacts, KeepFacts, KeepInjective DEF Ascending
<1> QED
  BY <1>2, DomainOfSeq

LEMMA PrefixFacts ==
  ASSUME NEW s, IsSeq(s), NEW n \in Nat
  PROVE  /\ IsSeq(Prefix(s, n)) /\ Len(Prefix(s, n)) <= n /\ Len(Prefix(s, n)) <= Len(s)
         /\ \A k \in DOMAIN Prefix(s, n) : k \in DOMAIN s /\ Prefix(s, n)[k] = s[k]
         /\ Range(Prefix(s, n)) \subseteq Range(s)
         /\ Len(s) <= n => DOMAIN Prefix(s, n) = DOMAIN s
<1> DEFINE l == Len(s)
           m == IF n < l THEN n ELSE l
           r == Prefix(s, n)
<1>1. l \in Nat /\ DOMAIN s = 1 .. l
  BY DomainOfSeq
<1>3. r = SubSeq(s, 1, m)
  BY DEF Prefix
<1>9. l = Len(s)
  OBVIOUS
<1> HIDE DEF l
<1>2. m \in 0 .. l /\ m <= n /\ (l <= n => m = l) /\ m <= l
  <2>1. CASE n < l
    BY <1>1, <2>1
  <2>2. CASE ~ (n < l)
    BY <1>1, <2>2
  <2> QED
    BY <2>1, <2>2
<1> HIDE DEF m, r
<1>4. IsSeq(r) /\ Len(r) = m /\ \A k \in 1 .. m : r[k] = s[k]
  BY <1>2, <1>3, <1>9, PrefixAny
<1>8. \A k \in 1 .. m : k \in 1 .. l
  BY <1>1, <1>2
<1>5. DOMAIN r = 1 .. m /\ \A k \in 1 .. m : k \in DOMAIN s
  BY <1>1, <1>4, <1>8, DomainOfSeq
<1>6. Range(r) \subseteq Range(s)
  BY <1>4, <1>5 DEF Range
<1> QED
  BY <1>1, <1>2, <1>4, <1>5, <1>6, <1>9 DEF r

---------------------------------------------------------------------------
(* mk_cfg: no block is twice in a list of predecessors, as the two ways of *)
(* a conditional branch lead to different blocks.                          *)

LEMMA SuccsInjective ==
  ASSUME Final(M), NEW b \in Blocks
  PROVE  IsInjective(Succs(b))
<1>1. PICK c : Good(M, c, {})
  BY DEF Final
<1>2. IsModule(M) /\ Within(M) /\ \A k \in DOMAIN M.insts : Made(M.insts[k])
  BY <1>1 DEF Good, Shaped
<1>3. IsInjective(<<>>)
  BY DEF IsInjective
<1>4. ASSUME M.blks[b].n_inst # 0 PROVE IsInjective(Succs(b))
  <2>1. /\ M.blks[b].first \in Nat \ {0} /\ M.blks[b].n_inst \in Nat /\ b \in DOMAIN M.blks
        /\ Len(M.insts) \in Nat /\ DOMAIN M.insts = 1 .. Len(M.insts)
    BY <1>2, Parts DEF Blocks
  <2>2. M.blks[b].first + M.blks[b].n_inst - 1 \in DOMAIN M.insts
    BY <1>2, <1>4, <2>1 DEF Within
  <2> DEFINE I == LastOf(M, b)
  <2>3. Made(I) /\ Succs(b) = Targets(I)
    BY <1>2, <1>4, <2>2 DEF LastOf, Succs
  <2> HIDE DEF I
  <2>4. CASE I.op = "br"
    <3> DEFINE x == I.ops[1]
    <3>1. Targets(I) = <<x>>
      BY <2>4 DEF Targets
    <3> HIDE DEF x
    <3>2. IsInjective(<<x>>)
      BY DEF IsInjective
    <3> QED
      BY <2>3, <3>1, <3>2
  <2>5. CASE I.op = "br_cond"
    <3> DEFINE x == I.ops[2]
               y == I.ops[3]
    <3>1. Targets(I) = <<x, y>> /\ x # y
      BY <2>3, <2>5 DEF Targets, Made
    <3> HIDE DEF x, y
    <3>2. IsInjective(<<x, y>>)
      BY <3>1 DEF IsInjective
    <3> QED
      BY <2>3, <3>1, <3>2
  <2>6. CASE I.op # "br" /\ I.op # "br_cond"
    BY <1>3, <2>3, <2>6 DEF Targets
  <2> QED
    BY <2>4, <2>5, <2>6
<1> QED
  BY <1>3, <1>4 DEF Succs

LEMMA EdgesInjective ==
  ASSUME Final(M)
  PROVE  IsInjective(Edges)
<1> DEFINE Out(b) == [k \in DOMAIN Succs(b) |-> <<b, Succs(b)[k]>>]
           ss == [b \in Blocks |-> Out(b)]
           n == Len(M.blks)
<1>1. n \in Nat /\ Blocks = 1 .. n /\ \A b \in Blocks : IsSeq(Succs(b))
  BY FinalGraph DEF Graph
<1>2. ASSUME NEW b \in Blocks
      PROVE  /\ IsSeq(Out(b)) /\ DOMAIN Out(b) = 1 .. Len(Out(b))
             /\ \A k \in DOMAIN Out(b) : Out(b)[k][1] = b
             /\ IsInjective(Out(b))
  <2>1. Len(Succs(b)) \in Nat /\ DOMAIN Succs(b) = 1 .. Len(Succs(b)) /\ IsInjective(Succs(b))
    BY <1>1, DomainOfSeq, SuccsInjective
  <2> DEFINE o == Out(b)
  <2>2. /\ DOMAIN o = 1 .. Len(Succs(b)) /\ o = [k \in 1 .. Len(Succs(b)) |-> o[k]]
        /\ \A k \in DOMAIN o : o[k] = <<b, Succs(b)[k]>>
    BY <2>1
  <2>3. IsInjective(o) /\ \A k \in DOMAIN o : o[k][1] = b
    <3>1. \A x, y : <<b, x>>[1] = b /\ (<<b, x>> = <<b, y>> => x = y)
      OBVIOUS
    <3> HIDE DEF o
    <3> QED
      BY <2>1, <2>2, <3>1 DEF IsInjective
  <2> HIDE DEF o
  <2>4. IsSeq(o) /\ Len(o) = Len(Succs(b))
    BY <2>1, <2>2, FunctionIsSeq
  <2> QED
    BY <2>2, <2>3, <2>4 DEF o
<1> HIDE DEF n, Out
<1>3. IsSeq(ss) /\ Len(ss) = n /\ DOMAIN ss = 1 .. n /\ \A b \in 1 .. n : ss[b] = Out(b)
  <2>1. ss = [b \in 1 .. n |-> ss[b]] /\ \A b \in 1 .. n : ss[b] = Out(b)
    BY <1>1
  <2> HIDE DEF ss
  <2> QED
    BY <1>1, <2>1, FunctionIsSeq
<1>4. Edges = FlattenSeq(ss)
  BY DEF Edges, Out
<1> HIDE DEF ss
<1>5. \A b \in DOMAIN ss : IsSeq(ss[b])
  BY <1>1, <1>2, <1>3
<1>6. PICK off : Offsets(ss, off)
  BY <1>3, <1>5, OffsetsExist
<1>7. /\ IsSeq(Edges) /\ Len(Edges) = off[n]
      /\ \A k \in 1 .. n : \A j \in 1 .. Len(ss[k]) : Edges[off[k - 1] + j] = ss[k][j]
  BY <1>3, <1>4, <1>5, <1>6, FlatPlaces
<1>8. \A k \in 0 .. n : off[k] \in Nat
  BY <1>3, <1>6 DEF Offsets
<1>9. DOMAIN Edges = 1 .. off[n]
  BY <1>7, DomainOfSeq
<1>10. ASSUME NEW i \in DOMAIN Edges
       PROVE  \E k \in 1 .. n : \E j \in 1 .. Len(Out(k)) :
                i = off[k - 1] + j /\ Edges[i] = Out(k)[j]
  <2>1. PICK k \in 1 .. n : i \in off[k - 1] + 1 .. off[k]
    BY <1>3, <1>5, <1>6, <1>9, OffsetsCover
  <2> DEFINE j == i - off[k - 1]
  <2>2. off[k] = off[k - 1] + Len(ss[k]) /\ k - 1 \in 0 .. n /\ k \in 0 .. n
    BY <1>1, <1>3, <1>6, <2>1 DEF Offsets
  <2>3. Len(ss[k]) \in Nat
    BY <1>3, <1>5, DomainOfSeq
  <2>4. j \in 1 .. Len(ss[k]) /\ i = off[k - 1] + j
    BY <1>8, <2>1, <2>2, <2>3
  <2> HIDE DEF j
  <2> QED
    BY <1>3, <1>7, <2>4
<1>11. ASSUME NEW i \in DOMAIN Edges, NEW h \in DOMAIN Edges, Edges[i] = Edges[h]
       PROVE  i = h
  <2>1. PICK k \in 1 .. n :
          \E j \in 1 .. Len(Out(k)) : i = off[k - 1] + j /\ Edges[i] = Out(k)[j]
    BY <1>10
  <2>2. PICK j \in 1 .. Len(Out(k)) : i = off[k - 1] + j /\ Edges[i] = Out(k)[j]
    BY <2>1
  <2>6. PICK l \in 1 .. n :
          \E m \in 1 .. Len(Out(l)) : h = off[l - 1] + m /\ Edges[h] = Out(l)[m]
    BY <1>10
  <2>7. PICK m \in 1 .. Len(Out(l)) : h = off[l - 1] + m /\ Edges[h] = Out(l)[m]
    BY <2>6
  <2>3. k \in Blocks /\ l \in Blocks
    BY <1>1
  <2>4. k = l
    BY <1>2, <1>11, <2>2, <2>7, <2>3
  <2>5. j = m
    BY <1>2, <1>11, <2>2, <2>7, <2>3, <2>4 DEF IsInjective
  <2> QED
    BY <2>2, <2>7, <2>4, <2>5
<1> QED
  BY <1>11 DEF IsInjective

LEMMA PredsInjective ==
  ASSUME Final(M), NEW t \in Blocks
  PROVE  IsInjective(PredsOf(Edges, t))
<1> DEFINE into == Into(Edges, t)
           from == [k \in DOMAIN into |-> into[k][1]]
           r == PredsOf(Edges, t)
<1>1. /\ IsSeq(into) /\ Range(into) \subseteq Blocks \X {t} /\ IsInjective(into)
  BY FinalGraph, EdgesAll, EdgesInjective, KeepFacts, KeepInjective DEF Into
<1>2. r = Prefix(from, MaxPreds)
  BY DEF PredsOf
<1> HIDE DEF into, r
<1>3. Len(into) \in Nat /\ DOMAIN into = 1 .. Len(into)
  BY <1>1, DomainOfSeq
<1>4. ASSUME NEW i \in DOMAIN into PROVE into[i] = <<into[i][1], t>>
  <2>1. into[i] \in Blocks \X {t}
    BY <1>1 DEF Range
  <2> QED
    BY <2>1
<1>5. IsSeq(from) /\ IsInjective(from)
  <2>1. from = [k \in 1 .. Len(into) |-> from[k]] /\ DOMAIN from = DOMAIN into
    BY <1>3
  <2>2. \A k \in DOMAIN into : into[k] = <<from[k], t>>
    BY <1>4
  <2> HIDE DEF from
  <2>3. IsSeq(from)
    BY <1>3, <2>1, FunctionIsSeq
  <2>4. ASSUME NEW i \in DOMAIN from, NEW j \in DOMAIN from, from[i] = from[j]
        PROVE  into[i] = into[j]
    <3>1. into[i] = <<from[i], t>> /\ into[j] = <<from[j], t>>
      BY <2>1, <2>2
    <3> QED
      BY <2>4, <3>1, Zenon
  <2>5. \A i, j \in DOMAIN into : into[i] = into[j] => i = j
    BY <1>1 DEF IsInjective
  <2>6. IsInjective(from)
    BY <2>1, <2>4, <2>5 DEF IsInjective
  <2> QED
    BY <2>3, <2>6
<1> HIDE DEF from
<1>6. \A k \in DOMAIN r : k \in DOMAIN from /\ r[k] = from[k]
  BY <1>2, <1>5, PrefixFacts, Mem2RegAssumption
<1>7. IsInjective(r)
  BY <1>5, <1>6 DEF IsInjective
<1> QED
  BY <1>7 DEF r

---------------------------------------------------------------------------
(* Strict dominance is transitive.                                         *)

LEMMA DomTrans ==
  ASSUME Ready, NEW a \in Reach, NEW b \in Reach, NEW c \in Reach, SDom(a, b), SDom(b, c)
  PROVE  SDom(a, c)
<1>1. /\ Graph /\ \A x \in Reach : Num[x] \in 1 .. Len(rpo)
      /\ \A x, y \in Reach : Num[x] = Num[y] => x = y
  BY NumFacts DEF Ready
<1>2. Num[a] <= Num[b] /\ Num[b] <= Num[c] /\ a # b /\ b # c
  BY DomBefore DEF SDom
<1>3. a # c
  BY <1>1, <1>2
<1>4. CASE a = 1
  BY <1>3, <1>4 DEF SDom, Dom
<1>5. CASE a # 1
  <2> DEFINE A == Reached({a})
             B == Reached({b})
             C == A \cap B
  <2>1. 1 \in A /\ A \subseteq Blocks /\ ClosedUnder(A, {a}) /\ b \notin A
    BY <1>1, <1>2, <1>5, ReachedFacts DEF SDom, Dom
  <2>2. b # 1 /\ c \notin B /\ 1 \in B /\ ClosedUnder(B, {b})
    BY <1>1, <1>2, <2>1, ReachedFacts DEF SDom, Dom
  <2> HIDE DEF A, B
  <2>3. ClosedUnder(C, {a}) /\ 1 \in C /\ C \in SUBSET Blocks
    BY <2>1, <2>2 DEF ClosedUnder
  <2>4. A \subseteq C
    <3> HIDE DEF C
    <3> QED
      BY <1>1, <2>3, ReachedWithin DEF A
  <2>5. c \notin A
    BY <2>2, <2>4
  <2> QED
    BY <1>3, <2>5 DEF SDom, Dom, A
<1> QED
  BY <1>4, <1>5

=============================================================================
