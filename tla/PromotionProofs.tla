-------------------------- MODULE PromotionProofs --------------------------
(***************************************************************************)
(* Proofs that jir_m2r preserves the procedure: run side by side, the      *)
(* procedure before and the one after take the same branches and return    *)
(* the same value.                                                         *)
(***************************************************************************)
EXTENDS RenameProofs

---------------------------------------------------------------------------
(* ren_var: exactly what it leaves.  The values the stacks show on top as  *)
(* the instructions of a block go by.                                      *)

\* What a stack shows, and a stack with one value more.
Tops(vs) == [v \in DOMAIN pvar |-> IF vs[v] = <<>> THEN ZeroC ELSE Last(vs[v])]
LEMMA TopsFacts ==
  ASSUME NEW st \in Walking
  PROVE  /\ Tops(st.val) \in [DOMAIN pvar -> Int]
         /\ \A v \in DOMAIN pvar : Current(st, v) = Tops(st.val)[v]
<1>1. \A v \in DOMAIN pvar : Current(st, v) = Tops(st.val)[v] /\ Current(st, v) \in Int
  BY CurrentFacts DEF Tops, Current
<1> QED
  BY <1>1 DEF Tops

LEMMA PushTops ==
  ASSUME NEW st \in Walking, NEW v \in DOMAIN pvar, NEW x \in Int
  PROVE  Tops(Push(st, v, x).val) = [Tops(st.val) EXCEPT ![v] = x]
<1> DEFINE r == Push(st, v, x)
           q == Append(st.val[v], x)
<1>1. st.val \in Stacks /\ st.val[v] \in Seq(Int) /\ DOMAIN st.val = DOMAIN pvar
  BY DEF Walking, Stacks
<1>2. r.val = [st.val EXCEPT ![v] = q]
  BY DEF Push, Walking
<1>3. q # <<>> /\ Last(q) = x
  <2>1. IsSeq(st.val[v])
    BY <1>1, SeqIsSeq
  <2>2. q # <<>> /\ IsSeq(q) /\ Len(q) = Len(st.val[v]) + 1 /\ q[Len(st.val[v]) + 1] = x
    BY <2>1, AppendAny
  <2> HIDE DEF q
  <2> QED
    BY <2>2 DEF Last
<1> HIDE DEF r, q
<1>4. \A w \in DOMAIN pvar : r.val[w] = IF w = v THEN q ELSE st.val[w]
  BY <1>1, <1>2
<1> DEFINE t == Tops(st.val)
           u == Tops(r.val)
<1>5. /\ t = [w \in DOMAIN pvar |-> t[w]] /\ u = [w \in DOMAIN pvar |-> u[w]]
      /\ \A w \in DOMAIN pvar : t[w] = IF st.val[w] = <<>> THEN ZeroC ELSE Last(st.val[w])
      /\ \A w \in DOMAIN pvar : u[w] = IF r.val[w] = <<>> THEN ZeroC ELSE Last(r.val[w])
  BY DEF Tops
<1> HIDE DEF t, u
<1>6. \A w \in DOMAIN pvar : u[w] = IF w = v THEN x ELSE t[w]
  BY <1>3, <1>4, <1>5
<1>7. u = [t EXCEPT ![v] = x]
  BY <1>5, <1>6
<1> QED
  BY <1>7 DEF t, u, r

\* The PHIs of a block, one after the other.
LEMMA PushSteps ==
  ASSUME Typed, NEW st \in Walking, NEW b \in Blocks
  PROVE  LET s == PhisOf(b) IN
         \E it : /\ it[0] = st /\ it[Len(s)] = PushPhis(st, b)
                 /\ \A k \in 0 .. Len(s) : it[k] \in Walking
                 /\ \A k \in 1 .. Len(s) :
                      /\ s[k] \in DOMAIN phi /\ phi[s[k]].blk = b /\ phi[s[k]].var \in DOMAIN pvar
                      /\ FakeId(s[k]) \in Int /\ IsFake(FakeId(s[k]))
                      /\ it[k] = Push(it[k - 1], phi[s[k]].var, FakeId(s[k]))
<1> DEFINE s == PhisOf(b)
           n == Len(s)
           Do(x, k) == Push(x, phi[s[k]].var, FakeId(s[k]))
           step == [k \in 1 .. n |-> [x \in Walking |-> Do(x, k)]]
           Is(f) == f = [k \in 0 .. n |-> IF k = 0 THEN st ELSE Do(f[k - 1], k)]
<1>1. n \in Nat
  BY PhisOfFacts
<1>2. ASSUME NEW k \in 1 .. n
      PROVE  /\ s[k] \in DOMAIN phi /\ phi[s[k]].blk = b /\ phi[s[k]].var \in DOMAIN pvar
             /\ FakeId(s[k]) \in Int /\ IsFake(FakeId(s[k]))
  <2> DEFINE p == s[k]
  <2>1. p \in DOMAIN phi /\ phi[p].blk = b
    BY PhisOfFacts DEF Range
  <2>2. phi[p] \in PhiRec /\ p \in Nat \ {0}
    BY <2>1, LenProperties DEF Typed
  <2>3. phi[p].var \in DOMAIN pvar
    BY <2>2 DEF PhiRec
  <2> HIDE DEF p
  <2>4. FakeId(p) \in Int /\ IsFake(FakeId(p))
    BY <2>2, Mem2RegAssumption DEF FakeId, IsFake
  <2> QED
    BY <2>1, <2>3, <2>4 DEF p
<1>3. \A k \in 1 .. n : \A x \in Walking : Do(x, k) \in Walking
  BY <1>2, PushFacts
<1> HIDE DEF Do, n
<1>4. PICK f : Is(f) /\ \A k \in 0 .. n : f[k] \in Walking
  <2>1. \A k \in 1 .. n : \A x \in Walking : step[k][x] = Do(x, k)
    OBVIOUS
  <2> HIDE DEF step
  <2>2. PICK f : Follows(f, n, st, step) /\ \A k \in 0 .. n : f[k] \in Walking
    <3>1. \A k \in 1 .. n : \A x \in Walking : step[k][x] \in Walking
      BY <1>3, <2>1
    <3> HIDE DEF Is
    <3> QED
      BY <1>1, <3>1, StepsWithin
  <2>3. \A k \in 0 .. n : k # 0 => k \in 1 .. n /\ k - 1 \in 0 .. n
    BY <1>1
  <2>4. \A k \in 0 .. n : k # 0 => step[k][f[k - 1]] = Do(f[k - 1], k)
    BY <2>1, <2>2, <2>3
  <2>5. Is(f)
    BY <2>2, <2>4 DEF Follows
  <2> QED
    BY <2>2, <2>5
<1> DEFINE it == CHOOSE g : Is(g)
<1>5. Is(it)
  <2> HIDE DEF Is
  <2> QED
    BY <1>4
<1>6. PushPhis(st, b) = it[n]
  BY Zenon DEF PushPhis, Through, Do, n
<1> HIDE DEF it
<1>7. it[0] = st /\ \A k \in 1 .. n : it[k] = Do(it[k - 1], k)
  <2>1. 0 \in 0 .. n /\ \A k \in 1 .. n : k \in 0 .. n /\ k # 0
    BY <1>1
  <2> QED
    BY <1>5, <2>1
<1>8. \A k \in 0 .. n : it[k] \in Walking
  <2> DEFINE T == [k \in 0 .. n |-> Walking]
  <2>1. \A k \in 1 .. n : k - 1 \in 0 .. n /\ k \in 0 .. n
    BY <1>1
  <2>2. it[0] \in T[0]
    BY <1>1, <1>7
  <2>3. \A k \in 1 .. n : it[k - 1] \in T[k - 1] => it[k] \in T[k]
    BY <1>3, <1>7, <2>1
  <2>4. \A k \in 0 .. n : T[k] = Walking
    OBVIOUS
  <2> HIDE DEF T, Is
  <2> QED
    BY <1>1, <2>2, <2>3, <2>4, StepsStay
<1> HIDE DEF Is
<1> QED
  BY <1>2, <1>6, <1>7, <1>8 DEF n, Do

\* What b starts with, coming with the values e: its PHIs come first.
Enters(g, e, b) ==
  /\ g \in [DOMAIN pvar -> Int]
  /\ \A v \in DOMAIN pvar :
       \/ \E p \in DOMAIN phi : phi[p].blk = b /\ phi[p].var = v /\ g[v] = FakeId(p)
       \/ g[v] = e[v] /\ ~ \E p \in DOMAIN phi : phi[p].blk = b /\ phi[p].var = v
LEMMA PushEnters ==
  ASSUME Typed, NEW st \in Walking, NEW b \in Blocks
  PROVE  Enters(Tops(PushPhis(st, b).val), Tops(st.val), b)
<1> DEFINE s == PhisOf(b)
           n == Len(s)
           e == Tops(st.val)
           Of(j, v) == phi[s[j]].var = v
           At(g, k, v) ==
             \/ \E j \in 1 .. k : Of(j, v) /\ g[v] = FakeId(s[j])
             \/ g[v] = e[v] /\ \A j \in 1 .. k : ~ Of(j, v)
           T == [k \in 0 .. n |-> {x \in Walking : \A v \in DOMAIN pvar : At(Tops(x.val), k, v)}]
<1>1. PICK it : /\ it[0] = st /\ it[Len(s)] = PushPhis(st, b)
                /\ \A k \in 0 .. Len(s) : it[k] \in Walking
                /\ \A k \in 1 .. Len(s) :
                     /\ s[k] \in DOMAIN phi /\ phi[s[k]].blk = b /\ phi[s[k]].var \in DOMAIN pvar
                     /\ FakeId(s[k]) \in Int /\ IsFake(FakeId(s[k]))
                     /\ it[k] = Push(it[k - 1], phi[s[k]].var, FakeId(s[k]))
  BY PushSteps
<1>2. n \in Nat /\ DOMAIN s = 1 .. n /\ Range(s) = {p \in DOMAIN phi : phi[p].blk = b}
  BY PhisOfFacts
<1> HIDE DEF n, s
<1>3. ASSUME NEW k \in 1 .. n, it[k - 1] \in T[k - 1] PROVE it[k] \in T[k]
  <2> DEFINE x == it[k - 1]
             w == phi[s[k]].var
             f == FakeId(s[k])
  <2>1. k - 1 \in 0 .. n /\ k \in 0 .. n /\ (k - 1) + 1 = k
    BY <1>2
  <2>2. x \in Walking /\ \A v \in DOMAIN pvar : At(Tops(x.val), k - 1, v)
    <3> HIDE DEF At
    <3> QED
      BY <1>3, <2>1
  <2>3. w \in DOMAIN pvar /\ f \in Int /\ it[k] = Push(x, w, f) /\ it[k] \in Walking
    BY <1>1, <2>1 DEF n
  <2> HIDE DEF x, w
  <2>4. Tops(it[k].val) = [Tops(x.val) EXCEPT ![w] = f]
    <3> HIDE DEF f
    <3> QED
      BY <2>2, <2>3, PushTops
  <2>5. Tops(x.val) \in [DOMAIN pvar -> Int]
    BY <2>2, TopsFacts
  <2> DEFINE g == Tops(x.val)
             h == Tops(it[k].val)
  <2>6. \A v \in DOMAIN pvar : h[v] = IF v = w THEN f ELSE g[v]
    <3> HIDE DEF f
    <3> QED
      BY <2>4, <2>5
  <2>7. ASSUME NEW v \in DOMAIN pvar PROVE At(h, k, v)
    <3>1. 1 .. k = (1 .. k - 1) \cup {k} /\ k \in 1 .. k
      BY <2>1
    <3>2. CASE v = w
      <4>1. Of(k, v) /\ h[v] = FakeId(s[k])
        BY <2>6, <3>2 DEF w
      <4> QED
        BY <3>1, <4>1
    <3>3. CASE v # w
      <4>1. h[v] = g[v] /\ ~ Of(k, v)
        BY <2>6, <3>3 DEF w
      <4>2. At(g, k - 1, v)
        BY <2>2
      <4> HIDE DEF g, h, Of
      <4> QED
        BY <3>1, <4>1, <4>2
    <3> QED
      BY <3>2, <3>3
  <2> HIDE DEF At
  <2> QED
    BY <2>1, <2>3, <2>7
<1>4. it[0] \in T[0]
  <2>1. \A v \in DOMAIN pvar : At(e, 0, v)
    <3>1. 1 .. 0 = {}
      OBVIOUS
    <3> QED
      BY <3>1
  <2>2. 0 \in 0 .. n
    BY <1>2
  <2> HIDE DEF At
  <2> QED
    BY <1>1, <2>1, <2>2 DEF e
<1>5. it[n] \in T[n]
  <2> HIDE DEF T
  <2>1. \A k \in 0 .. n : it[k] \in T[k]
    BY <1>2, <1>3, <1>4, StepsStay
  <2> QED
    BY <1>2, <2>1
<1> DEFINE h == Tops(PushPhis(st, b).val)
<1>6. PushPhis(st, b) \in Walking /\ \A v \in DOMAIN pvar : At(h, n, v)
  <2>1. n \in 0 .. n /\ it[n] = PushPhis(st, b)
    BY <1>1, <1>2 DEF n
  <2> HIDE DEF At, h
  <2> QED
    BY <1>5, <2>1 DEF h
<1>7. h \in [DOMAIN pvar -> Int]
  BY <1>6, TopsFacts
<1> HIDE DEF h, e
<1>8. /\ \A j \in 1 .. n : s[j] \in DOMAIN phi /\ phi[s[j]].blk = b
      /\ \A p \in DOMAIN phi : phi[p].blk = b => \E j \in 1 .. n : s[j] = p
  BY <1>2 DEF Range
<1>9. ASSUME NEW v \in DOMAIN pvar
      PROVE  \/ \E p \in DOMAIN phi : phi[p].blk = b /\ phi[p].var = v /\ h[v] = FakeId(p)
             \/ h[v] = e[v] /\ ~ \E p \in DOMAIN phi : phi[p].blk = b /\ phi[p].var = v
  <2>1. At(h, n, v)
    BY <1>6
  <2> QED
    BY <1>8, <2>1
<1> QED
  BY <1>7, <1>9 DEF Enters, e, h

\* What the instructions of a block do to the values on top: a store to a
\* promoted variable puts its operand there.
Puts(k) == M.insts[k].op = "store" /\ VarOf(M.insts[k], 2) # None
Put(g, k) == IF Puts(k) THEN [g EXCEPT ![VarOf(M.insts[k], 2)] = M.insts[k].ops[1]] ELSE g
\* The loads that are replaced, and all that dies.
Gets(k) == M.insts[k].op = "load" /\ VarOf(M.insts[k], 1) # None
Dies(k) == (M.insts[k].op = "alloca" /\ k \in Range(pvar)) \/ Puts(k) \/ Gets(k)
LEMMA RenameExact ==
  ASSUME Typed, NEW st \in Walking, NEW b \in Blocks, NEW k \in Home(M, b)
  PROVE  LET r == Rename(st, k) IN
         /\ Tops(r.val) = Put(Tops(st.val), k)
         /\ r.dead = IF Dies(k) THEN st.dead \cup {k} ELSE st.dead
         /\ r.repl = IF Gets(k) THEN With(st.repl, k, Tops(st.val)[VarOf(M.insts[k], 1)])
                     ELSE st.repl
<1> DEFINE I == M.insts[k]
           kill == [st EXCEPT !.dead = @ \cup {k}]
           r == Rename(st, k)
           v == VarOf(I, 2)
           u == VarOf(I, 1)
           A == IF k \in Range(pvar) THEN kill ELSE st
           B == Push(kill, v, I.ops[1])
           C == [kill EXCEPT !.repl = With(@, k, Current(st, u))]
<1>0. k \in DOMAIN M.insts
  BY FinalParts DEF Typed
<1>1. kill \in Walking /\ kill.val = st.val /\ kill.dead = st.dead \cup {k} /\ kill.repl = st.repl
  BY <1>0 DEF Walking
<1>2. r = CASE I.op = "alloca" -> A
            [] I.op = "store" /\ v # None -> B
            [] I.op = "load" /\ u # None -> C
            [] OTHER -> st
  BY Zenon DEF Rename
<1> HIDE DEF kill, r
<1>3. CASE I.op = "alloca"
  <2>1. r = A /\ ~ Puts(k) /\ ~ Gets(k)
    <3> HIDE DEF A, B, C, v, u
    <3>1. r = A
      BY <1>2, <1>3
    <3> QED
      BY <1>3, <3>1 DEF Puts, Gets
  <2> QED
    BY <1>1, <1>3, <2>1 DEF Dies, Put, r
<1>4. CASE I.op = "store" /\ v # None
  <2>1. r = B /\ Puts(k) /\ ~ Gets(k)
    <3>1. r = B
      <4> HIDE DEF A, B, C, v, u
      <4> QED
        BY <1>2, <1>4
    <3> HIDE DEF B
    <3> QED
      BY <1>4, <3>1 DEF Puts, Gets
  <2>2. v \in DOMAIN pvar
    BY <1>4, VarOfFacts
  <2>3. I.ops[1] \in Int
    <3>1. Made(I)
      BY <1>0, FinalParts DEF Typed, Shaped
    <3>2. TakesValue(I)
      <4>1. I.ops # <<>>
        BY <1>4, <3>1, EmptyIsSeq DEF Made
      <4> QED
        BY <1>4, <4>1 DEF TakesValue
    <3> QED
      BY <3>2, StoredFacts
  <2>4. Tops(B.val) = [Tops(kill.val) EXCEPT ![v] = I.ops[1]]
    <3> HIDE DEF v, I
    <3> QED
      BY <1>1, <2>2, <2>3, PushTops
  <2>5. B.dead = kill.dead /\ B.repl = kill.repl
    <3> HIDE DEF v, I
    <3> QED
      BY <1>1, <2>2, <2>3, PushFacts
  <2> HIDE DEF B
  <2> QED
    BY <1>1, <2>1, <2>4, <2>5 DEF Dies, Put, r
<1>5. CASE I.op = "load" /\ u # None
  <2>1. r = C /\ ~ Puts(k) /\ Gets(k)
    <3>1. r = C
      <4> HIDE DEF A, B, C, v, u
      <4> QED
        BY <1>2, <1>5
    <3> HIDE DEF C
    <3> QED
      BY <1>5, <3>1 DEF Puts, Gets
  <2>2. u \in DOMAIN pvar
    BY <1>5, VarOfFacts
  <2>3. Current(st, u) = Tops(st.val)[u]
    <3> HIDE DEF u
    <3> QED
      BY <2>2, TopsFacts
  <2> DEFINE N == With(st.repl, k, Tops(st.val)[u])
  <2>4. C = [kill EXCEPT !.repl = N]
    BY <1>1, <2>3, Zenon
  <2> HIDE DEF C, N, u
  <2>5. C.val = kill.val /\ C.dead = kill.dead /\ C.repl = N
    BY <1>1, <2>4 DEF Walking
  <2> QED
    BY <1>1, <2>1, <2>5 DEF Dies, Put, r, N, u
<1>6. CASE ~ (I.op = "alloca") /\ ~ (I.op = "store" /\ v # None) /\ ~ (I.op = "load" /\ u # None)
  <2>1. r = st
    <3> HIDE DEF A, B, C, v, u
    <3> QED
      BY <1>2, <1>6
  <2> QED
    BY <1>6, <2>1 DEF Dies, Put, Puts, Gets, r
<1> QED
  BY <1>3, <1>4, <1>5, <1>6

\* The instructions of a block, one after the other.
LEMMA BodySteps ==
  ASSUME Typed, NEW st \in Walking, NEW b \in Blocks
  PROVE  LET s == InstSeq(b) IN
         \E it : /\ it[0] = PushPhis(st, b) /\ it[Len(s)] = Body(st, b)
                 /\ \A k \in 0 .. Len(s) : it[k] \in Walking
                 /\ \A k \in 1 .. Len(s) : it[k] = Rename(it[k - 1], s[k])
<1> DEFINE s == InstSeq(b)
           n == Len(s)
           x0 == PushPhis(st, b)
           Do(x, k) == Rename(x, s[k])
           step == [k \in 1 .. n |-> [x \in Walking |-> Do(x, k)]]
           Is(f) == f = [k \in 0 .. n |-> IF k = 0 THEN x0 ELSE Do(f[k - 1], k)]
<1>1. n \in Nat /\ \A k \in 1 .. n : s[k] \in Home(M, b)
  <2>1. n = M.blks[b].n_inst /\ n \in Nat /\ DOMAIN s = 1 .. n /\ Range(s) = Home(M, b)
    BY InstSeqFacts, FinalParts DEF Typed
  <2> HIDE DEF s, n
  <2> QED
    BY <2>1 DEF Range
<1>2. x0 \in Walking
  BY PushPhisFacts
<1>3. \A k \in 1 .. n : \A x \in Walking : Do(x, k) \in Walking
  BY <1>1, RenameFacts
<1> HIDE DEF Do, n, x0
<1>4. PICK f : Is(f) /\ \A k \in 0 .. n : f[k] \in Walking
  <2>1. \A k \in 1 .. n : \A x \in Walking : step[k][x] = Do(x, k)
    OBVIOUS
  <2> HIDE DEF step
  <2>2. PICK f : Follows(f, n, x0, step) /\ \A k \in 0 .. n : f[k] \in Walking
    <3>1. \A k \in 1 .. n : \A x \in Walking : step[k][x] \in Walking
      BY <1>3, <2>1
    <3> HIDE DEF Is
    <3> QED
      BY <1>1, <1>2, <3>1, StepsWithin
  <2>3. \A k \in 0 .. n : k # 0 => k \in 1 .. n /\ k - 1 \in 0 .. n
    BY <1>1
  <2>4. \A k \in 0 .. n : k # 0 => step[k][f[k - 1]] = Do(f[k - 1], k)
    BY <2>1, <2>2, <2>3
  <2>5. Is(f)
    BY <2>2, <2>4 DEF Follows
  <2> QED
    BY <2>2, <2>5
<1> DEFINE it == CHOOSE g : Is(g)
<1>5. Is(it)
  <2> HIDE DEF Is
  <2> QED
    BY <1>4
<1>6. Body(st, b) = it[n]
  BY Zenon DEF Body, Through, Do, n, x0
<1> HIDE DEF it
<1>7. it[0] = x0 /\ \A k \in 1 .. n : it[k] = Do(it[k - 1], k)
  <2>1. 0 \in 0 .. n /\ \A k \in 1 .. n : k \in 0 .. n /\ k # 0
    BY <1>1
  <2> QED
    BY <1>5, <2>1
<1>8. \A k \in 0 .. n : it[k] \in Walking
  <2> DEFINE T == [k \in 0 .. n |-> Walking]
  <2>1. \A k \in 1 .. n : k - 1 \in 0 .. n /\ k \in 0 .. n
    BY <1>1
  <2>2. it[0] \in T[0]
    BY <1>1, <1>2, <1>7
  <2>3. \A k \in 1 .. n : it[k - 1] \in T[k - 1] => it[k] \in T[k]
    BY <1>3, <1>7, <2>1
  <2>4. \A k \in 0 .. n : T[k] = Walking
    OBVIOUS
  <2> HIDE DEF T, Is
  <2> QED
    BY <1>1, <2>2, <2>3, <2>4, StepsStay
<1> HIDE DEF Is
<1> QED
  BY <1>6, <1>7, <1>8 DEF n, Do, x0

\* g: the values on top after each instruction of block b, from the values e.
Nth(b, i) == M.blks[b].first + i - 1
Carried(g, e, b) ==
  /\ g \in [0 .. M.blks[b].n_inst -> [DOMAIN pvar -> Int]]
  /\ Enters(g[0], e, b)
  /\ \A i \in 1 .. M.blks[b].n_inst : g[i] = Put(g[i - 1], Nth(b, i))
\* Each promoted load of b is replaced by the value on top before it, all that
\* should die in b is dead, and nothing dies that should not.
GotOf(value, g, b) ==
  \A i \in 1 .. M.blks[b].n_inst :
    Gets(Nth(b, i)) =>
      Nth(b, i) \in DOMAIN value /\ value[Nth(b, i)] = g[i - 1][VarOf(M.insts[Nth(b, i)], 1)]
DiedOf(dead, b) == \A i \in 1 .. M.blks[b].n_inst : Dies(Nth(b, i)) => Nth(b, i) \in dead
OnlyDead(dead, value) == (\A k \in dead : Dies(k)) /\ (\A k \in DOMAIN value : Gets(k))

LEMMA BodyExact ==
  ASSUME Typed, NEW st \in Walking, NEW b \in Blocks
  PROVE  LET r == Body(st, b)
             n == M.blks[b].n_inst
         IN \E g : /\ Carried(g, Tops(st.val), b) /\ g[n] = Tops(r.val)
                   /\ GotOf(r.repl, g, b) /\ DiedOf(r.dead, b)
                   /\ OnlyDead(st.dead, st.repl) => OnlyDead(r.dead, r.repl)
                   /\ st.dead \subseteq r.dead
                   /\ \A k \in DOMAIN st.repl \ Home(M, b) :
                        k \in DOMAIN r.repl /\ r.repl[k] = st.repl[k]
<1> DEFINE s == InstSeq(b)
           n == M.blks[b].n_inst
           r == Body(st, b)
<1>1. /\ n \in Nat /\ Len(s) = n
      /\ \A k \in 1 .. n : s[k] = Nth(b, k) /\ Nth(b, k) \in Home(M, b)
  <2>1. n = Len(s) /\ n \in Nat /\ DOMAIN s = 1 .. n /\ Range(s) = Home(M, b)
        /\ \A k \in 1 .. n : s[k] = Nth(b, k)
    BY InstSeqFacts, FinalParts DEF Typed, Nth
  <2> HIDE DEF s, n
  <2> QED
    BY <2>1 DEF Range
<1>2. PICK it : /\ it[0] = PushPhis(st, b) /\ it[Len(s)] = Body(st, b)
                /\ \A k \in 0 .. Len(s) : it[k] \in Walking
                /\ \A k \in 1 .. Len(s) : it[k] = Rename(it[k - 1], s[k])
  BY BodySteps
<1> HIDE DEF n, s, r
<1> DEFINE g == [k \in 0 .. n |-> Tops(it[k].val)]
<1>3. \A k \in 0 .. n : g[k] = Tops(it[k].val) /\ it[k] \in Walking /\ g[k] \in [DOMAIN pvar -> Int]
  <2>1. \A k \in 0 .. n : it[k] \in Walking
    BY <1>1, <1>2
  <2> QED
    BY <2>1, TopsFacts
<1>4. g \in [0 .. n -> [DOMAIN pvar -> Int]]
  BY <1>3
<1> HIDE DEF g
<1>5. ASSUME NEW k \in 1 .. n
      PROVE  /\ g[k] = Put(g[k - 1], Nth(b, k))
             /\ it[k].dead = IF Dies(Nth(b, k)) THEN it[k - 1].dead \cup {Nth(b, k)} ELSE it[k - 1].dead
             /\ it[k].repl = IF Gets(Nth(b, k))
                               THEN With(it[k - 1].repl, Nth(b, k), g[k - 1][VarOf(M.insts[Nth(b, k)], 1)])
                               ELSE it[k - 1].repl
  <2>1. k \in 0 .. n /\ k - 1 \in 0 .. n
    BY <1>1
  <2>2. it[k - 1] \in Walking /\ it[k] = Rename(it[k - 1], Nth(b, k))
    BY <1>1, <1>2, <1>3, <2>1
  <2>3. Nth(b, k) \in Home(M, b)
    BY <1>1
  <2>4. g[k] = Tops(it[k].val) /\ g[k - 1] = Tops(it[k - 1].val)
    BY <1>3, <2>1
  <2> QED
    BY <2>2, <2>3, <2>4, RenameExact
<1>6. Enters(g[0], Tops(st.val), b)
  <2>1. 0 \in 0 .. n
    BY <1>1
  <2>2. g[0] = Tops(PushPhis(st, b).val)
    BY <1>2, <1>3, <2>1
  <2> QED
    BY <2>2, PushEnters
<1>7. Carried(g, Tops(st.val), b)
  BY <1>4, <1>5, <1>6 DEF Carried, n
<1>8. it[0].dead = st.dead /\ it[0].repl = st.repl
  BY <1>2, PushPhisFacts
<1> DEFINE At(k) ==
             /\ \A i \in 1 .. k : Gets(Nth(b, i)) =>
                  /\ Nth(b, i) \in DOMAIN it[k].repl
                  /\ it[k].repl[Nth(b, i)] = g[i - 1][VarOf(M.insts[Nth(b, i)], 1)]
             /\ \A i \in 1 .. k : Dies(Nth(b, i)) => Nth(b, i) \in it[k].dead
             /\ OnlyDead(st.dead, st.repl) => OnlyDead(it[k].dead, it[k].repl)
             /\ st.dead \subseteq it[k].dead
             /\ \A d \in DOMAIN st.repl \ Home(M, b) :
                  d \in DOMAIN it[k].repl /\ it[k].repl[d] = st.repl[d]
           U == {k \in Nat : k <= n => At(k)}
<1>9. 0 \in U
  <2>1. 1 .. 0 = {}
    OBVIOUS
  <2>2. At(0)
    BY <1>8, <2>1
  <2> HIDE DEF At
  <2> QED
    BY <2>2
<1>10. ASSUME NEW j \in Nat, j \in U PROVE j + 1 \in U
  <2> SUFFICES ASSUME j + 1 <= n PROVE At(j + 1)
    <3> HIDE DEF At
    <3> QED
      OBVIOUS
  <2> DEFINE k == j + 1
             d == Nth(b, k)
             x == it[j]
             y == it[k]
             z == g[j][VarOf(M.insts[d], 1)]
  <2>1. k \in 1 .. n /\ k - 1 = j /\ j \in 0 .. n /\ 1 .. k = (1 .. j) \cup {k}
    BY <1>1
  <2>2. At(j)
    <3> HIDE DEF At
    <3> QED
      BY <1>10, <2>1
  <2>3. /\ y.dead = IF Dies(d) THEN x.dead \cup {d} ELSE x.dead
        /\ y.repl = IF Gets(d) THEN With(x.repl, d, z) ELSE x.repl
    BY <1>5, <2>1
  <2>4. d \in Home(M, b) /\ d \in DOMAIN M.insts
    BY <1>1, <2>1, FinalParts DEF Typed
  <2>5. \A i \in 1 .. j : Nth(b, i) # d
    <3>1. \A i \in 1 .. j : i \in Int /\ k \in Int /\ i # k
      OBVIOUS
    <3>2. M.blks[b].first \in Nat
      BY FinalParts DEF Typed
    <3> HIDE DEF k
    <3> QED
      BY <3>1, <3>2 DEF Nth
  <2>6. x \in Walking
    BY <1>3, <2>1
  <2>7. Gets(d) => /\ DOMAIN y.repl = DOMAIN x.repl \cup {d} /\ y.repl[d] = z
                   /\ \A c \in DOMAIN x.repl : c # d => y.repl[c] = x.repl[c]
    BY <2>3 DEF With
  <2>8. ~ Gets(d) => y.repl = x.repl
    BY <2>3
  <2>9. x.dead \subseteq y.dead /\ (Dies(d) => d \in y.dead) /\ \A c \in y.dead : c \in x.dead \/ (c = d /\ Dies(d))
    BY <2>3
  <2> DEFINE N(i) == Nth(b, i)
             was(i) == g[i - 1][VarOf(M.insts[Nth(b, i)], 1)]
  <2>10. N(k) = d /\ was(k) = z
    BY <2>1
  <2>11. \A i \in 1 .. j : Gets(N(i)) => N(i) \in DOMAIN x.repl /\ x.repl[N(i)] = was(i)
    BY <2>2
  <2>12. \A i \in 1 .. j : N(i) # d
    BY <2>5
  <2>13. \A i \in 1 .. k : Gets(N(i)) => N(i) \in DOMAIN y.repl /\ y.repl[N(i)] = was(i)
    <3> HIDE DEF N, was, d, k, x, y, z
    <3> QED
      BY <2>1, <2>7, <2>8, <2>10, <2>11, <2>12
  <2>14. \A i \in 1 .. k : Dies(N(i)) => N(i) \in y.dead
    <3>1. \A i \in 1 .. j : Dies(N(i)) => N(i) \in x.dead
      BY <2>2
    <3> HIDE DEF N, was, d, k, x, y, z
    <3> QED
      BY <2>1, <2>9, <2>10, <3>1
  <2>15. OnlyDead(x.dead, x.repl) => OnlyDead(y.dead, y.repl)
    <3> HIDE DEF N, was, d, k, x, y, z
    <3> QED
      BY <2>7, <2>8, <2>9 DEF OnlyDead
  <2>16. \A c \in DOMAIN st.repl \ Home(M, b) : c \in DOMAIN y.repl /\ y.repl[c] = st.repl[c]
    <3>1. \A c \in DOMAIN st.repl \ Home(M, b) : c \in DOMAIN x.repl /\ x.repl[c] = st.repl[c] /\ c # d
      BY <2>2, <2>4
    <3> HIDE DEF N, was, d, k, x, y, z
    <3> QED
      BY <2>7, <2>8, <3>1
  <2>17. (OnlyDead(st.dead, st.repl) => OnlyDead(x.dead, x.repl)) /\ st.dead \subseteq x.dead
    BY <2>2
  <2>18. (OnlyDead(st.dead, st.repl) => OnlyDead(y.dead, y.repl)) /\ st.dead \subseteq y.dead
    <3> HIDE DEF N, was, d, k, x, y, z
    <3> QED
      BY <2>9, <2>15, <2>17
  <2> QED
    BY <2>13, <2>14, <2>16, <2>18
<1>11. At(n)
  <2>1. Nat \subseteq U
    <3> HIDE DEF U
    <3> QED
      BY <1>9, <1>10, Induction
  <2> HIDE DEF At
  <2> QED
    BY <1>1, <2>1
<1>12. n \in 0 .. n /\ it[n] = r /\ g[n] = Tops(r.val)
  BY <1>1, <1>2, <1>3 DEF r
<1>13. GotOf(r.repl, g, b) /\ DiedOf(r.dead, b)
  BY <1>11, <1>12 DEF GotOf, DiedOf, n
<1> QED
  BY <1>7, <1>11, <1>12, <1>13 DEF n, r

---------------------------------------------------------------------------
(* ren_var: the values that reach each block, G[b] being those on top in b *)
(* before its first instruction and after each.                            *)

Leaving(G, b) == G[b][M.blks[b].n_inst]
Inflow(G, b) == [v \in DOMAIN pvar |-> IF b = 1 THEN ZeroC ELSE Leaving(G, idom[b])[v]]
\* An operand of a PHI is what its predecessor leaves.
SentBy(ph, G, vis) ==
  \A p \in DOMAIN phi : \A q \in DOMAIN phi[p].ops :
    LET c == pred[phi[p].blk][q]
    IN ph[p].ops[q] = None \/ (c \in vis /\ ph[p].ops[q] = Leaving(G, c)[phi[p].var])
\* What the walk has done to the blocks vis.
TrailAt(G, vis, ph, dead, value) ==
  /\ \A b \in vis : Carried(G[b], Inflow(G, b), b) /\ GotOf(value, G[b], b) /\ DiedOf(dead, b)
  /\ OnlyDead(dead, value) /\ SentBy(ph, G, vis)
\* A block is entered with the values the block above it leaves on top.
Poised(W, vs, G) ==
  \A i \in Entries(W) :
    \/ (\A j \in i + 1 .. Len(W) : W[j].blk # None) /\ Tops(vs) = Inflow(G, W[i].blk)
    \/ \E j \in i + 1 .. Len(W) :
         /\ W[j].blk = None /\ Tops(W[j].val) = Inflow(G, W[i].blk)
         /\ \A l \in i + 1 .. j - 1 : W[l].blk # None

LEMMA PoisedPopped ==
  ASSUME NEW W \in Seq(Frame), W # <<>>, W[Len(W)].blk = None, NEW W2, Popped(W, W2),
         NEW vs, NEW G, Poised(W, vs, G)
  PROVE  Poised(W2, W[Len(W)].val, G)
<1> DEFINE n == Len(W)
<1>1. /\ n \in Nat \ {0} /\ DOMAIN W = 1 .. n
      /\ DOMAIN W2 = 1 .. n - 1 /\ Len(W2) = n - 1 /\ \A i \in 1 .. n - 1 : W2[i] = W[i]
  BY FrontFrames, LenProperties DEF Popped
<1>2. W[n].blk = None
  OBVIOUS
<1>3. Entries(W2) = Entries(W) /\ \A i \in Entries(W) : i \in 1 .. n - 1 /\ W2[i] = W[i]
  BY <1>1, <1>2, PoppedFacts DEF Entries
<1> HIDE DEF n
<1> SUFFICES ASSUME NEW i \in Entries(W)
             PROVE  \/ (\A j \in i + 1 .. n - 1 : W2[j].blk # None) /\ Tops(W[n].val) = Inflow(G, W[i].blk)
                    \/ \E j \in i + 1 .. n - 1 :
                         /\ W2[j].blk = None /\ Tops(W2[j].val) = Inflow(G, W[i].blk)
                         /\ \A l \in i + 1 .. j - 1 : W2[l].blk # None
  BY <1>1, <1>3 DEF Poised, n
<1>4. i \in 1 .. n - 1 /\ n \in i + 1 .. n
  BY <1>1, <1>3
<1>5. PICK j \in i + 1 .. n :
        /\ W[j].blk = None /\ Tops(W[j].val) = Inflow(G, W[i].blk)
        /\ \A l \in i + 1 .. j - 1 : W[l].blk # None
  BY <1>2, <1>4 DEF Poised, n
<1>6. \A l \in i + 1 .. n - 1 : W2[l] = W[l]
  BY <1>1, <1>4
<1>7. CASE j = n
  BY <1>5, <1>6, <1>7
<1>8. CASE j # n
  <2>1. j \in i + 1 .. n - 1 /\ \A l \in i + 1 .. j - 1 : l \in i + 1 .. n - 1
    BY <1>1, <1>4, <1>8
  <2> QED
    BY <1>5, <1>6, <2>1
<1> QED
  BY <1>7, <1>8

\* What flows into the blocks still to be entered is the same; vs is what flows
\* into those below b.
SameInflow(W, G, G2) == \A i \in Entries(W) : Inflow(G2, W[i].blk) = Inflow(G, W[i].blk)
FlowsBelow(b, vs, G) == \A c \in Below(b) : Tops(vs) = Inflow(G, c)
LEMMA PoisedEntered ==
  ASSUME Typed, TreeRight, NEW W \in Seq(Frame), W # <<>>, NEW b \in Reach, W[Len(W)].blk = b,
         NEW W2, NEW vs, Entered(W, W2, b, vs), NEW G, Poised(W, vs, G), NEW G2,
         SameInflow(W, G, G2), NEW v2, FlowsBelow(b, v2, G2)
  PROVE  Tops(vs) = Inflow(G, b) /\ Poised(W2, v2, G2)
<1> DEFINE n == Len(W)
           m == Len(W2)
           F(c) == Inflow(G, c)
           F2(c) == Inflow(G2, c)
           E == Entries(W) \cap (1 .. n - 1)
<1>1. /\ n \in Nat \ {0} /\ DOMAIN W = 1 .. n
      /\ DOMAIN W2 = 1 .. m /\ m \in Nat /\ n <= m
      /\ \A i \in 1 .. n - 1 : W2[i] = W[i]
  BY FrontFrames, LenProperties DEF Entered
<1>2. b # None /\ W[n].blk = b /\ W2[n].blk = None /\ W2[n].val = vs
  <2>1. b \in Blocks /\ None \notin Blocks
    BY NumFacts DEF TreeRight
  <2> QED
    BY <2>1 DEF Entered
<1>3. \A i \in n + 1 .. m : W2[i].blk \in Below(b) /\ W2[i].blk # None
  <2>1. \A c \in Below(b) : c # None
    BY NumFacts DEF TreeRight, Below
  <2> QED
    BY <2>1 DEF Entered
<1>4. \A i \in Entries(W) : F2(W[i].blk) = F(W[i].blk)
  BY DEF SameInflow
<1>5. \A c \in Below(b) : Tops(v2) = F2(c)
  BY DEF FlowsBelow
<1>6. \A i \in Entries(W) :
        \/ (\A j \in i + 1 .. n : W[j].blk # None) /\ Tops(vs) = F(W[i].blk)
        \/ \E j \in i + 1 .. n :
             /\ W[j].blk = None /\ Tops(W[j].val) = F(W[i].blk)
             /\ \A l \in i + 1 .. j - 1 : W[l].blk # None
  BY DEF Poised
<1> HIDE DEF n, m, F, F2
<1>7. /\ 1 .. n = (1 .. n - 1) \cup {n} /\ n \notin 1 .. n - 1
      /\ 1 .. m = ((1 .. n - 1) \cup {n}) \cup (n + 1 .. m)
      /\ n \notin n + 1 .. m /\ \A i \in 1 .. n - 1 : i \notin n + 1 .. m
  BY <1>1
<1>8. Entries(W2) = E \cup (n + 1 .. m) /\ n \in Entries(W)
  BY <1>1, <1>2, <1>3, <1>7 DEF Entries
<1>9. Tops(vs) = F(b)
  <2>1. ~ \E j \in n + 1 .. n : TRUE
    BY <1>1
  <2> QED
    BY <1>2, <1>6, <1>8, <2>1
<1>10. ASSUME NEW i \in E
       PROVE  \E j \in i + 1 .. m :
                 /\ W2[j].blk = None /\ Tops(W2[j].val) = F2(W2[i].blk)
                 /\ \A l \in i + 1 .. j - 1 : W2[l].blk # None
  <2>1. i \in 1 .. n - 1 /\ i \in Entries(W) /\ n \in i + 1 .. m /\ n \in i + 1 .. n
    BY <1>1
  <2>2. /\ \A l \in i + 1 .. n - 1 : W2[l] = W[l] /\ l \in i + 1 .. n
        /\ W2[i] = W[i] /\ F2(W2[i].blk) = F(W[i].blk)
    BY <1>1, <1>4, <2>1
  <2>3. CASE (\A j \in i + 1 .. n : W[j].blk # None) /\ Tops(vs) = F(W[i].blk)
    <3>1. \A l \in i + 1 .. n - 1 : W2[l].blk # None
      BY <2>2, <2>3
    <3> QED
      BY <1>2, <2>1, <2>2, <2>3, <3>1
  <2>4. CASE \E j \in i + 1 .. n :
               /\ W[j].blk = None /\ Tops(W[j].val) = F(W[i].blk)
               /\ \A l \in i + 1 .. j - 1 : W[l].blk # None
    <3>1. PICK j \in i + 1 .. n :
            /\ W[j].blk = None /\ Tops(W[j].val) = F(W[i].blk)
            /\ \A l \in i + 1 .. j - 1 : W[l].blk # None
      BY <2>4
    <3>2. j # n
      BY <1>2, <3>1
    <3>3. j \in i + 1 .. n - 1 /\ j \in i + 1 .. m /\ \A l \in i + 1 .. j - 1 : l \in i + 1 .. n - 1
      BY <1>1, <2>1, <3>2
    <3> QED
      BY <2>2, <3>1, <3>3
  <2> QED
    BY <1>6, <2>1, <2>3, <2>4
<1>11. ASSUME NEW i \in n + 1 .. m
       PROVE  (\A j \in i + 1 .. m : W2[j].blk # None) /\ Tops(v2) = F2(W2[i].blk)
  <2>1. \A j \in i + 1 .. m : j \in n + 1 .. m
    BY <1>1
  <2> QED
    BY <1>3, <1>5, <2>1
<1> HIDE DEF E
<1>12. \A i \in Entries(W2) :
         \/ (\A j \in i + 1 .. m : W2[j].blk # None) /\ Tops(v2) = F2(W2[i].blk)
         \/ \E j \in i + 1 .. m :
              /\ W2[j].blk = None /\ Tops(W2[j].val) = F2(W2[i].blk)
              /\ \A l \in i + 1 .. j - 1 : W2[l].blk # None
  BY <1>8, <1>10, <1>11
<1> QED
  BY <1>9, <1>12 DEF Poised, F, F2, m

\* A place in a block is in no other block.
LEMMA NthFacts ==
  ASSUME Typed, NEW b \in Blocks, NEW i \in 1 .. M.blks[b].n_inst
  PROVE  /\ Nth(b, i) \in Home(M, b) /\ Nth(b, i) \in DOMAIN M.insts
         /\ \A c \in Blocks : c # b => Nth(b, i) \notin Home(M, c)
<1>1. /\ M.blks[b].first \in Nat \ {0} /\ M.blks[b].n_inst \in Nat
      /\ Home(M, b) \subseteq DOMAIN M.insts
      /\ \A c \in Blocks : c # b => Home(M, b) \cap Home(M, c) = {}
  BY FinalParts DEF Typed, Shaped
<1>2. Nth(b, i) \in Home(M, b)
  <2> DEFINE F == M.blks[b].first
             N == M.blks[b].n_inst
  <2>1. F \in Nat /\ N \in Nat /\ i \in 1 .. N
    BY <1>1
  <2> HIDE DEF F, N
  <2>2. F + i - 1 \in F .. F + N - 1
    BY <2>1
  <2> QED
    BY <2>2 DEF Nth, Home, F, N
<1> QED
  BY <1>1, <1>2

\* The blocks entered before keep what they have when b is entered.
PerBlock(G) == G = [c \in Blocks |-> G[c]]
TreeAbove(vis, b) == \A c \in (vis \cup {b}) \ {1} : idom[c] \in vis
KeptOutside(value, value2, b) ==
  \A k \in DOMAIN value \ Home(M, b) : k \in DOMAIN value2 /\ value2[k] = value[k]
SentFrom(ph, ph2, b, g) ==
  \A p \in DOMAIN phi : \A q \in DOMAIN phi[p].ops :
    \/ ph2[p].ops[q] = ph[p].ops[q]
    \/ pred[phi[p].blk][q] = b /\ ph2[p].ops[q] = g[M.blks[b].n_inst][phi[p].var]
InflowsKept(vis, G, G2) ==
  \A c \in Blocks : c = 1 \/ idom[c] \in vis => Inflow(G2, c) = Inflow(G, c)
LEMMA TrailEntered ==
  ASSUME Typed, TreeRight, NEW vis \in SUBSET Reach, NEW b \in Reach, b \notin vis,
         NEW G, PerBlock(G), TreeAbove(vis, b),
         NEW ph, NEW dead, NEW value, TrailAt(G, vis, ph, dead, value),
         NEW g, Carried(g, Inflow(G, b), b),
         NEW ph2, NEW dead2, NEW value2,
         GotOf(value2, g, b), DiedOf(dead2, b), OnlyDead(dead2, value2), dead \subseteq dead2,
         KeptOutside(value, value2, b), SentFrom(ph, ph2, b, g)
  PROVE  LET G2 == [G EXCEPT ![b] = g] IN
         /\ PerBlock(G2) /\ G2[b] = g
         /\ TrailAt(G2, vis \cup {b}, ph2, dead2, value2)
         /\ InflowsKept(vis, G, G2)
<1> DEFINE G2 == [G EXCEPT ![b] = g]
<1>1. b \in Blocks /\ vis \subseteq Blocks
  BY FinalGraph, ReachFacts DEF Typed
<1>2. PerBlock(G2) /\ G2[b] = g /\ \A c \in Blocks : c # b => G2[c] = G[c]
  BY <1>1 DEF PerBlock
<1> HIDE DEF G2
<1>3. \A c \in vis : G2[c] = G[c] /\ Leaving(G2, c) = Leaving(G, c)
  BY <1>1, <1>2 DEF Leaving
<1>4. ASSUME NEW c \in Blocks, c = 1 \/ idom[c] \in vis PROVE Inflow(G2, c) = Inflow(G, c)
  BY <1>3, <1>4 DEF Inflow
<1>5. ASSUME NEW c \in vis
      PROVE  Carried(G2[c], Inflow(G2, c), c) /\ GotOf(value2, G2[c], c) /\ DiedOf(dead2, c)
  <2>1. Carried(G[c], Inflow(G, c), c) /\ GotOf(value, G[c], c) /\ DiedOf(dead, c)
    BY DEF TrailAt
  <2>2. Inflow(G2, c) = Inflow(G, c) /\ G2[c] = G[c]
    BY <1>1, <1>3, <1>4 DEF TreeAbove
  <2>3. c \in Blocks /\ c # b
    BY <1>1
  <2>4. \A i \in 1 .. M.blks[c].n_inst : Nth(c, i) \notin Home(M, b)
    BY <1>1, <2>3, NthFacts
  <2>5. GotOf(value2, G[c], c)
    BY <2>1, <2>4 DEF GotOf, KeptOutside
  <2>6. DiedOf(dead2, c)
    BY <2>1 DEF DiedOf
  <2> QED
    BY <2>1, <2>2, <2>5, <2>6
<1>6. Carried(G2[b], Inflow(G2, b), b) /\ GotOf(value2, G2[b], b) /\ DiedOf(dead2, b)
  <2>1. Inflow(G2, b) = Inflow(G, b)
    BY <1>1, <1>4 DEF TreeAbove
  <2> QED
    BY <1>2, <2>1
<1>7. SentBy(ph2, G2, vis \cup {b})
  <2> SUFFICES ASSUME NEW p \in DOMAIN phi, NEW q \in DOMAIN phi[p].ops
               PROVE  LET c == pred[phi[p].blk][q]
                      IN \/ ph2[p].ops[q] = None
                         \/ c \in vis \cup {b} /\ ph2[p].ops[q] = Leaving(G2, c)[phi[p].var]
    BY DEF SentBy
  <2> DEFINE c == pred[phi[p].blk][q]
  <2>1. ph[p].ops[q] = None \/ (c \in vis /\ ph[p].ops[q] = Leaving(G, c)[phi[p].var])
    BY DEF TrailAt, SentBy
  <2>2. Leaving(G2, b) = g[M.blks[b].n_inst]
    BY <1>2 DEF Leaving
  <2> HIDE DEF c
  <2>3. \/ ph2[p].ops[q] = ph[p].ops[q]
        \/ c = b /\ ph2[p].ops[q] = g[M.blks[b].n_inst][phi[p].var]
    BY DEF c, SentFrom
  <2> QED
    BY <1>3, <2>1, <2>2, <2>3 DEF c
<1>8. TrailAt(G2, vis \cup {b}, ph2, dead2, value2)
  BY <1>5, <1>6, <1>7 DEF TrailAt
<1> QED
  BY <1>2, <1>4, <1>8 DEF G2, InflowsKept

\* The walk over the dominator tree: what the blocks it has entered, vis, have
\* on top.
ExactInv(st) ==
  \E vis \in SUBSET Reach : \E G :
    /\ PerBlock(G) /\ Visited(st.work, vis)
    /\ TrailAt(G, vis, st.phi, st.dead, st.repl) /\ Poised(st.work, st.val, G)
LEMMA ExactKeeps ==
  ASSUME Typed, TreeRight, NEW st \in Walking, SamePhis(st.phi), ExactInv(st)
  PROVE  ExactInv(Walk(st))
<1> DEFINE r == Walk(st)
           W == st.work
           n == Len(W)
           top == W[n]
           b == top.blk
<1>0. PICK vis \in SUBSET Reach :
        \E G : /\ PerBlock(G) /\ Visited(W, vis)
               /\ TrailAt(G, vis, st.phi, st.dead, st.repl) /\ Poised(W, st.val, G)
  BY DEF ExactInv
<1>1. PICK G :
        /\ PerBlock(G) /\ Visited(W, vis)
        /\ TrailAt(G, vis, st.phi, st.dead, st.repl) /\ Poised(W, st.val, G)
  BY <1>0
<1>2. W \in Seq(Frame) /\ st.val \in Stacks
  BY DEF Walking
<1>3. CASE W = <<>>
  <2>1. r = st
    BY <1>3, WalkFacts
  <2> QED
    BY <2>1
<1>4. CASE W # <<>> /\ b = None
  <2>1. /\ Popped(W, r.work) /\ r.val = top.val
        /\ r.phi = st.phi /\ r.dead = st.dead /\ r.repl = st.repl
    BY <1>4, WalkFacts
  <2> HIDE DEF r, W
  <2>2. Visited(r.work, vis)
    BY <1>1, <1>2, <1>4, <2>1, PoppedFacts
  <2>3. Poised(r.work, top.val, G)
    BY <1>1, <1>2, <1>4, <2>1, PoisedPopped
  <2>4. ExactInv(r)
    BY <1>1, <2>1, <2>2, <2>3 DEF ExactInv
  <2> QED
    BY <2>4 DEF r
<1>5. CASE W # <<>> /\ b # None
  <2>1. n \in Entries(W)
    BY <1>2, <1>5, FrontFrames DEF Entries
  <2>2. b \in Reach \ vis /\ b \in Listed(W, vis)
    BY <1>1, <2>1 DEF Visited, Listed
  <2>3. /\ Entered(W, r.work, b, st.val)
        /\ \E s \in Walking :
             /\ s.val = st.val /\ s.dead = st.dead /\ s.repl = st.repl
             /\ r.val = Body(s, b).val /\ r.dead = Body(s, b).dead
             /\ r.repl = Body(s, b).repl /\ Sent(st.phi, r.phi, b, Body(s, b))
    BY <1>5, WalkFacts
  <2>4. PICK s \in Walking :
             /\ s.val = st.val /\ s.dead = st.dead /\ s.repl = st.repl
             /\ r.val = Body(s, b).val /\ r.dead = Body(s, b).dead
             /\ r.repl = Body(s, b).repl /\ Sent(st.phi, r.phi, b, Body(s, b))
    BY <2>3
  <2> HIDE DEF r, W
  <2>5. b \in Blocks
    BY <2>2, FinalGraph, ReachFacts DEF Typed
  <2> DEFINE y == Body(s, b)
             N == M.blks[b].n_inst
  <2>6. PICK g : /\ Carried(g, Tops(st.val), b) /\ g[N] = Tops(y.val)
                 /\ GotOf(y.repl, g, b) /\ DiedOf(y.dead, b)
                 /\ OnlyDead(st.dead, st.repl) => OnlyDead(y.dead, y.repl)
                 /\ st.dead \subseteq y.dead
                 /\ \A k \in DOMAIN st.repl \ Home(M, b) :
                      k \in DOMAIN y.repl /\ y.repl[k] = st.repl[k]
    <3> HIDE DEF b
    <3>1. \E g : /\ Carried(g, Tops(s.val), b) /\ g[N] = Tops(y.val)
                 /\ GotOf(y.repl, g, b) /\ DiedOf(y.dead, b)
                 /\ OnlyDead(s.dead, s.repl) => OnlyDead(y.dead, y.repl)
                 /\ s.dead \subseteq y.dead
                 /\ \A k \in DOMAIN s.repl \ Home(M, b) :
                      k \in DOMAIN y.repl /\ y.repl[k] = s.repl[k]
      BY <2>5, BodyExact
    <3> QED
      BY <2>4, <3>1
  <2>7. y \in Walking /\ \A v \in DOMAIN pvar : Current(y, v) = Tops(y.val)[v]
    BY <2>5, BodyFacts, TopsFacts
  <2> DEFINE G2 == [G EXCEPT ![b] = g]
  <2>8. /\ PerBlock(G2) /\ G2[b] = g
        /\ Tops(st.val) = Inflow(G, b)
        /\ TrailAt(G2, vis \cup {b}, r.phi, r.dead, r.repl)
        /\ InflowsKept(vis, G, G2)
    <3>1. Tops(st.val) = Inflow(G, b)
      <4>1. (\A j \in n + 1 .. n : W[j].blk # None) /\ Tops(st.val) = Inflow(G, W[n].blk)
        <5>1. ~ \E j \in n + 1 .. n : TRUE
          BY <1>2, LenProperties
        <5> QED
          BY <1>1, <2>1, <5>1 DEF Poised
      <4> QED
        BY <4>1
    <3>2. TreeAbove(vis, b)
      BY <1>1, <2>2 DEF Visited, Listed, TreeAbove
    <3>3. SentFrom(st.phi, r.phi, b, g)
      <4>1. \A p \in DOMAIN phi : phi[p].var \in DOMAIN pvar
        <5>1. \A p \in DOMAIN phi : phi[p] \in PhiRec
          BY LenProperties DEF Typed
        <5> QED
          BY <5>1 DEF PhiRec
      <4>2. Sent(st.phi, r.phi, b, y)
        BY <2>4
      <4> HIDE DEF y, b
      <4> QED
        BY <2>6, <2>7, <4>1, <4>2 DEF Sent, SentFrom
    <3>4. OnlyDead(st.dead, st.repl)
      BY <1>1 DEF TrailAt
    <3>5. /\ GotOf(r.repl, g, b) /\ DiedOf(r.dead, b) /\ OnlyDead(r.dead, r.repl)
          /\ st.dead \subseteq r.dead /\ Carried(g, Inflow(G, b), b)
          /\ KeptOutside(st.repl, r.repl, b)
      BY <2>4, <2>6, <3>1, <3>4 DEF KeptOutside
    <3>6. b \in Reach /\ b \notin vis
      BY <2>2
    <3> HIDE DEF b, y
    <3> QED
      BY <1>1, <3>1, <3>2, <3>3, <3>5, <3>6, TrailEntered
  <2> HIDE DEF G2, b
  <2>9. FlowsBelow(b, r.val, G2)
    <3> SUFFICES ASSUME NEW c \in Below(b) PROVE Tops(r.val) = Inflow(G2, c)
      BY DEF FlowsBelow
    <3>1. c # 1 /\ idom[c] = b
      BY DEF Below
    <3>2. Leaving(G2, b) = Tops(r.val)
      BY <2>4, <2>6, <2>8 DEF Leaving
    <3>3. Tops(r.val) = [v \in DOMAIN pvar |-> Tops(r.val)[v]]
      BY DEF Tops
    <3> QED
      BY <3>1, <3>2, <3>3 DEF Inflow
  <2>10. SameInflow(W, G, G2)
    <3> SUFFICES ASSUME NEW i \in Entries(W) PROVE Inflow(G2, W[i].blk) = Inflow(G, W[i].blk)
      BY DEF SameInflow
    <3>1. W[i].blk \in Reach /\ W[i].blk \in Listed(W, vis)
      BY <1>1 DEF Visited, Listed
    <3>2. W[i].blk = 1 \/ idom[W[i].blk] \in vis
      BY <1>1, <3>1 DEF Visited
    <3>3. W[i].blk \in Blocks
      BY <3>1, FinalGraph, ReachFacts DEF Typed
    <3> QED
      BY <2>8, <3>2, <3>3 DEF InflowsKept
  <2>11. Visited(r.work, vis \cup {b}) /\ Poised(r.work, r.val, G2)
    <3>1. W[Len(W)].blk = b /\ b \in Reach /\ Entered(W, r.work, b, st.val) /\ W # <<>>
      BY <1>5, <2>2, <2>3 DEF b
    <3>2. Visited(r.work, vis \cup {b})
      BY <1>1, <1>2, <3>1, EnteredWork
    <3>3. Poised(r.work, r.val, G2)
      BY <1>1, <1>2, <2>9, <2>10, <3>1, PoisedEntered
    <3> QED
      BY <3>2, <3>3
  <2>12. vis \cup {b} \in SUBSET Reach
    BY <2>2
  <2>13. ExactInv(r)
    BY <2>8, <2>11, <2>12 DEF ExactInv
  <2> QED
    BY <2>13 DEF r
<1> QED
  BY <1>3, <1>4, <1>5

LEMMA ExactFirst ==
  ASSUME Typed, Unfilled, TreeRight
  PROVE  ExactInv(FirstFrame)
<1> DEFINE e == [blk |-> 1, val |-> <<>>]
           W == <<e>>
           st == FirstFrame
           G == [c \in Blocks |-> <<>>]
<1>1. 1 \in Reach
  BY FinalGraph, ReachFacts DEF Typed
<1>2. e.blk = 1 /\ Len(W) = 1 /\ W[1] = e /\ DOMAIN W = {1}
  OBVIOUS
<1>3. /\ st.work = W /\ st.val = [v \in DOMAIN pvar |-> <<>>] /\ st.phi = phi
      /\ st.dead = {} /\ st.repl = <<>>
  BY DEF FirstFrame
<1> HIDE DEF e
<1>4. Entries(W) = {1}
  BY <1>2 DEF Entries, None
<1>5. Visited(W, {})
  <2>1. Listed(W, {}) = {1}
    BY <1>2, <1>4 DEF Listed
  <2> QED
    BY <1>1, <1>2, <1>4, <2>1 DEF Visited
<1>6. PerBlock(G)
  BY DEF PerBlock
<1>7. TrailAt(G, {}, st.phi, st.dead, st.repl)
  BY <1>3 DEF TrailAt, OnlyDead, SentBy, Unfilled
<1>8. Poised(W, st.val, G)
  <2>1. Tops(st.val) = Inflow(G, 1)
    BY <1>3 DEF Tops, Inflow
  <2>2. \A j \in 1 + 1 .. 1 : FALSE
    OBVIOUS
  <2> HIDE DEF G, st, W
  <2> QED
    BY <1>2, <1>4, <2>1, <2>2 DEF Poised
<1> HIDE DEF G, W, st
<1> QED
  BY <1>3, <1>5, <1>6, <1>7, <1>8 DEF ExactInv, st

\* ren_var: every reachable block has been entered, with the values the block
\* above it leaves.
LEMMA RenamedExact ==
  ASSUME Typed, Unfilled, TreeRight
  PROVE  \E G : PerBlock(G) /\ TrailAt(G, Reach, Renamed.phi, Renamed.dead, Renamed.repl)
<1> DEFINE n == 2 * Len(M.blks)
           Do(x, k) == Walk(x)
           S == {x \in Walking : SamePhis(x.phi) /\ ExactInv(x)}
           step == [k \in 1 .. n |-> [x \in S |-> Do(x, k)]]
           Is(f) == f = [k \in 0 .. n |-> IF k = 0 THEN FirstFrame ELSE Do(f[k - 1], k)]
<1>1. n \in Nat
  BY FinalParts DEF Typed
<1>2. FirstFrame \in S
  BY ExactFirst, FirstFrameFacts
<1>3. \A k \in 1 .. n : \A x \in S : Do(x, k) \in S
  BY WalkFacts, ExactKeeps
<1> HIDE DEF Do, n, S
<1>4. PICK f : Is(f) /\ \A k \in 0 .. n : f[k] \in S
  <2>1. \A k \in 1 .. n : \A x \in S : step[k][x] = Do(x, k)
    OBVIOUS
  <2> HIDE DEF step
  <2>2. PICK f : Follows(f, n, FirstFrame, step) /\ \A k \in 0 .. n : f[k] \in S
    <3>1. \A k \in 1 .. n : \A x \in S : step[k][x] \in S
      BY <1>3, <2>1
    <3> HIDE DEF Is
    <3> QED
      BY <1>1, <1>2, <3>1, StepsWithin
  <2>3. \A k \in 0 .. n : k # 0 => k \in 1 .. n /\ k - 1 \in 0 .. n
    BY <1>1
  <2>4. \A k \in 0 .. n : k # 0 => step[k][f[k - 1]] = Do(f[k - 1], k)
    BY <2>1, <2>2, <2>3
  <2>5. Is(f)
    BY <2>2, <2>4 DEF Follows
  <2> QED
    BY <2>2, <2>5
<1> DEFINE it == CHOOSE g : Is(g)
<1>5. Is(it)
  <2> HIDE DEF Is
  <2> QED
    BY <1>4
<1>6. Renamed = it[n]
  BY Zenon DEF Renamed, Iterate, Do, n
<1> HIDE DEF it
<1>7. it[0] = FirstFrame /\ \A k \in 1 .. n : it[k] = Do(it[k - 1], k)
  <2>1. 0 \in 0 .. n /\ \A k \in 1 .. n : k \in 0 .. n /\ k # 0
    BY <1>1
  <2> QED
    BY <1>5, <2>1
<1>8. Renamed \in S
  <2> DEFINE T == [k \in 0 .. n |-> S]
  <2>1. \A k \in 1 .. n : k - 1 \in 0 .. n /\ k \in 0 .. n
    BY <1>1
  <2>2. it[0] \in T[0]
    BY <1>1, <1>2, <1>7
  <2>3. \A k \in 1 .. n : it[k - 1] \in T[k - 1] => it[k] \in T[k]
    BY <1>3, <1>7, <2>1
  <2>4. \A k \in 0 .. n : T[k] = S
    OBVIOUS
  <2>5. n \in 0 .. n
    BY <1>1
  <2> HIDE DEF T, Is
  <2> QED
    BY <1>1, <1>6, <2>2, <2>3, <2>4, <2>5, StepsStay
<1>9. ExactInv(Renamed) /\ Renamed.work = <<>>
  <2>1. ExactInv(Renamed)
    BY <1>8 DEF S
  <2> QED
    BY <2>1, RenameRight
<1>0. PICK vis \in SUBSET Reach :
         \E G : /\ PerBlock(G) /\ Visited(Renamed.work, vis)
                /\ TrailAt(G, vis, Renamed.phi, Renamed.dead, Renamed.repl)
  BY <1>9 DEF ExactInv
<1>10. PICK G :
         /\ PerBlock(G) /\ Visited(Renamed.work, vis)
         /\ TrailAt(G, vis, Renamed.phi, Renamed.dead, Renamed.repl)
  BY <1>0
<1>11. vis = Reach
  BY <1>9, <1>10, VisitedAll
<1> QED
  BY <1>10, <1>11

\* Every value that reaches an instruction is defined before it.
CarriedAll(G) == \A b \in Reach : Carried(G[b], Inflow(G, b), b)
LEMMA CarriedWithin ==
  ASSUME Typed, NEW b \in Reach, NEW g, NEW e, Carried(g, e, b), NEW v \in DOMAIN pvar,
         e[v] \in Int => Supplied(e[v], b, 0), e[v] \in Int,
         NEW i \in 0 .. M.blks[b].n_inst
  PROVE  g[i][v] \in Int /\ Supplied(g[i][v], b, Nth(b, i + 1))
<1> DEFINE n == M.blks[b].n_inst
           F == M.blks[b].first
           U == {j \in Nat : j <= n => Supplied(g[j][v], b, Nth(b, j + 1))}
<1>1. b \in Blocks /\ n \in Nat /\ F \in Nat \ {0}
  BY FinalGraph, ReachFacts, FinalParts DEF Typed
<1>2. \A j \in 0 .. n : g[j] \in [DOMAIN pvar -> Int] /\ g[j][v] \in Int
  BY DEF Carried
<1>3. \A j \in Int : Nth(b, j) = F + j - 1
  BY DEF Nth
<1>4. 0 \in U
  <2>1. g[0][v] \in Int /\ Enters(g[0], e, b)
    BY <1>1, <1>2 DEF Carried
  <2>2. CASE \E p \in DOMAIN phi : phi[p].blk = b /\ phi[p].var = v /\ g[0][v] = FakeId(p)
    <3>1. PICK p \in DOMAIN phi : phi[p].blk = b /\ g[0][v] = FakeId(p)
      BY <2>2
    <3>2. p \in Nat \ {0}
      BY <3>1, LenProperties DEF Typed
    <3>3. IsFake(FakeId(p)) /\ Where(FakeId(p), b)
      BY <3>1, <3>2, Mem2RegAssumption DEF IsFake, FakeId, Where
    <3>4. Supplied(g[0][v], b, Nth(b, 0 + 1))
      BY <3>1, <3>3 DEF Supplied, Defined
    <3> QED
      BY <3>4
  <2>3. CASE g[0][v] = e[v]
    <3>1. Nth(b, 0 + 1) = F
      BY <1>1, <1>3
    <3>2. Supplied(g[0][v], b, F)
      BY <1>1, <2>1, <2>3, SuppliedLater
    <3> QED
      BY <3>1, <3>2
  <2> QED
    BY <2>1, <2>2, <2>3 DEF Enters
<1>5. ASSUME NEW j \in Nat, j \in U PROVE j + 1 \in U
  <2> SUFFICES ASSUME j + 1 <= n PROVE Supplied(g[j + 1][v], b, Nth(b, (j + 1) + 1))
    OBVIOUS
  <2> DEFINE k == Nth(b, j + 1)
             l == Nth(b, (j + 1) + 1)
             I == M.insts[k]
  <2>1. j + 1 \in 1 .. n /\ j \in 0 .. n /\ j + 1 \in 0 .. n /\ (j + 1) - 1 = j
    BY <1>1
  <2>2. k = F + j /\ l = F + j + 1 /\ k \in Int /\ l \in Int /\ k <= l
    BY <1>1, <1>3
  <2>3. k \in Home(M, b) /\ k \in DOMAIN M.insts
    BY <1>1, <2>1, NthFacts
  <2>4. Supplied(g[j][v], b, k)
    BY <1>5, <2>1
  <2>5. g[j + 1] = Put(g[j], k)
    BY <2>1 DEF Carried
  <2>6. g[j] \in [DOMAIN pvar -> Int] /\ g[j][v] \in Int /\ g[j + 1][v] \in Int
    BY <1>2, <2>1
  <2> HIDE DEF k, l
  <2>7. CASE Puts(k) /\ VarOf(I, 2) = v
    <3>1. g[j + 1][v] = I.ops[1]
      BY <2>5, <2>6, <2>7 DEF Put
    <3>2. Made(I)
      BY <2>3, FinalParts DEF Typed, Shaped
    <3>3. TakesValue(I)
      <4>1. I.op = "store"
        BY <2>7 DEF Puts
      <4>2. Len(I.ops) = 2
        BY <3>2, <4>1 DEF Made
      <4>3. I.ops # <<>>
        <5>1. Len(<<>>) # 2
          BY EmptyIsSeq
        <5> QED
          BY <4>2, <5>1, Zenon
      <4> QED
        BY <4>1, <4>3 DEF TakesValue
    <3>4. Supplied(g[j + 1][v], b, k)
      BY <1>1, <2>3, <3>1, <3>3, StoredFacts
    <3> HIDE DEF I
    <3> QED
      BY <2>2, <2>6, <3>4, SuppliedLater DEF l
  <2>8. CASE ~ (Puts(k) /\ VarOf(I, 2) = v)
    <3>1. g[j + 1][v] = g[j][v]
      BY <2>5, <2>6, <2>8 DEF Put
    <3>2. Supplied(g[j + 1][v], b, k)
      BY <2>4, <3>1
    <3> HIDE DEF I
    <3> QED
      BY <2>2, <2>6, <3>2, SuppliedLater DEF l
  <2> QED
    BY <2>7, <2>8
<1>6. Nat \subseteq U
  <2> HIDE DEF U
  <2> QED
    BY <1>4, <1>5, Induction
<1> QED
  BY <1>1, <1>2, <1>6

LEMMA TrailSupplied ==
  ASSUME Typed, TreeRight, NEW G, CarriedAll(G), NEW b \in Reach
  PROVE  \A v \in DOMAIN pvar :
           /\ Inflow(G, b)[v] \in Int /\ Supplied(Inflow(G, b)[v], b, 0)
           /\ \A i \in 0 .. M.blks[b].n_inst :
                G[b][i][v] \in Int /\ Supplied(G[b][i][v], b, Nth(b, i + 1))
<1> DEFINE Fine(c) == \A v \in DOMAIN pvar :
                        /\ Inflow(G, c)[v] \in Int /\ Supplied(Inflow(G, c)[v], c, 0)
                        /\ \A i \in 0 .. M.blks[c].n_inst :
                             G[c][i][v] \in Int /\ Supplied(G[c][i][v], c, Nth(c, i + 1))
           U == {k \in Nat : \A c \in Reach : Num[c] <= k => Fine(c)}
<1>1. \A c \in Reach : Num[c] \in Nat /\ Num[c] # 0
  BY NumFacts DEF TreeRight
<1>2. \A c \in Reach : c \in Blocks /\ M.blks[c].n_inst \in Nat
  BY FinalGraph, ReachFacts, FinalParts DEF Typed
<1>3. 0 \in U
  BY <1>1
<1>4. ASSUME NEW k \in Nat, k \in U PROVE k + 1 \in U
  <2> SUFFICES ASSUME NEW c \in Reach, Num[c] <= k + 1 PROVE Fine(c)
    BY <1>4
  <2>1. ASSUME NEW v \in DOMAIN pvar
        PROVE  Inflow(G, c)[v] \in Int /\ Supplied(Inflow(G, c)[v], c, 0)
    <3>1. CASE c = 1
      <4>1. Inflow(G, c)[v] = ZeroC
        BY <3>1 DEF Inflow
      <4>2. ZeroC \in Int /\ IsConst(ZeroC)
        BY DEF ZeroC, MkConst, IsConst
      <4> QED
        BY <4>1, <4>2 DEF Supplied
    <3>2. CASE c # 1
      <4> DEFINE d == idom[c]
                 N == M.blks[d].n_inst
      <4>1. d \in Reach /\ SDom(d, c) /\ Num[d] < Num[c]
        BY <3>2 DEF TreeRight
      <4>2. Num[d] <= k
        BY <1>1, <4>1
      <4>3. Fine(d)
        BY <1>4, <4>1, <4>2
      <4>4. Inflow(G, c)[v] = G[d][N][v]
        BY <3>2 DEF Inflow, Leaving
      <4> HIDE DEF d
      <4>5. N \in 0 .. N
        BY <1>2, <4>1
      <4>6. G[d][N][v] \in Int /\ Supplied(G[d][N][v], d, Nth(d, N + 1))
        BY <4>3, <4>5
      <4> QED
        BY <4>1, <4>4, <4>6, SuppliedBelow
    <3> QED
      BY <3>1, <3>2
  <2>2. Carried(G[c], Inflow(G, c), c)
    BY DEF CarriedAll
  <2>3. ASSUME NEW v \in DOMAIN pvar, NEW i \in 0 .. M.blks[c].n_inst
        PROVE  G[c][i][v] \in Int /\ Supplied(G[c][i][v], c, Nth(c, i + 1))
    BY <2>1, <2>2, CarriedWithin
  <2> QED
    BY <2>1, <2>3
<1>5. Nat \subseteq U
  <2> HIDE DEF U
  <2> QED
    BY <1>3, <1>4, Induction
<1> QED
  BY <1>1, <1>5

---------------------------------------------------------------------------
(* The specification: what rewrite finds.                                  *)

\* What the walk has done stays true when the PHIs stay where they are.
LEMMA TrailNext ==
  ASSUME UNCHANGED <<M, pred, rpo, idom, pvar>>, Typed, SamePhis(phi'),
         NEW G, PerBlock(G), NEW ph, NEW dead, NEW value, TrailAt(G, Reach, ph, dead, value)
  PROVE  PerBlock(G)' /\ TrailAt(G, Reach, ph, dead, value)'
<1>1. Blocks' = Blocks /\ Reach' = Reach
  BY SameKnown
<1>2. /\ DOMAIN phi' = DOMAIN phi
      /\ \A p \in DOMAIN phi : phi'[p].blk = phi[p].blk /\ phi'[p].var = phi[p].var
                               /\ DOMAIN phi'[p].ops = DOMAIN phi[p].ops
  BY DEF SamePhis
<1>3. PerBlock(G)'
  BY <1>1 DEF PerBlock
<1>4. \A g, e, b : Enters(g, e, b) => Enters(g, e, b)'
  BY <1>2 DEF Enters
<1>5. \A k : (Puts(k)' <=> Puts(k)) /\ (Gets(k)' <=> Gets(k)) /\ (Dies(k)' <=> Dies(k))
             /\ \A g : Put(g, k)' = Put(g, k)
  BY DEF Puts, Gets, Dies, Put, VarOf
<1>6. \A b, i : Nth(b, i)' = Nth(b, i)
  BY DEF Nth
<1>7. \A g, e, b : Carried(g, e, b) => Carried(g, e, b)'
  BY <1>4, <1>5, <1>6 DEF Carried
<1>8. \A v, g, b : GotOf(v, g, b) => GotOf(v, g, b)'
  BY <1>5, <1>6 DEF GotOf, VarOf
<1>9. \A d, b : DiedOf(d, b) => DiedOf(d, b)'
  BY <1>5, <1>6 DEF DiedOf
<1>10. \A b : Inflow(G, b)' = Inflow(G, b) /\ Leaving(G, b)' = Leaving(G, b)
  BY DEF Inflow, Leaving
<1>11. OnlyDead(dead, value)'
  BY <1>5 DEF OnlyDead, TrailAt
<1>12. SentBy(ph, G, Reach) => SentBy(ph, G, Reach)'
  BY <1>1, <1>2, <1>10 DEF SentBy
<1> QED BY <1>1, <1>3, <1>7, <1>8, <1>9, <1>10, <1>11, <1>12 DEF TrailAt

Trail == \E G : PerBlock(G) /\ TrailAt(G, Reach, phi, repl.dead, repl.value)
PromInv ==
  /\ stage \notin {"done", "run"} => EntryInv
  /\ stage \in {"rpo", "dom", "df", "phi", "ren", "rewrite"} => PvarRight
  /\ stage \in {"phi", "ren", "rewrite"} => (AtTree => df \in Frontiers)
  /\ stage \in {"ren", "rewrite"} => (AtTree => PhisSpread(phi))
  /\ stage = "rewrite" => (TreeRight => Trail)

LEMMA SameEntry ==
  ASSUME UNCHANGED lowVars
  PROVE  EntryInv => EntryInv'
BY DEF lowVars, EntryInv, Laid, FramedAll, Aimed

LEMMA SameAtTree ==
  ASSUME UNCHANGED <<M, pred, rpo, idom>>
  PROVE  AtTree' = AtTree /\ Frontiers' = Frontiers /\ Graph' = Graph
<1>1. Blocks' = Blocks /\ Edges' = Edges /\ RpoOf' = RpoOf
  BY SameOrder
<1>2. \A av : Reached(av)' = Reached(av)
  BY <1>1 DEF Reached, Iterate, Succs, Targets, LastOf
<1>3. Reach' = Reach /\ \A a, b : SDom(a, b)' <=> SDom(a, b)
  BY <1>2 DEF Reach, SDom, Dom
<1>4. \A a, b : Dom(a, b)' <=> Dom(a, b)
  BY <1>2 DEF Dom
<1>5. \A b : Succs(b)' = Succs(b)
  BY <1>1 DEF Succs, Targets, LastOf
<1>6. Ready' = Ready /\ Graph' = Graph
  BY <1>1, <1>3, <1>5 DEF Ready, Graph, InOrder, Follower
<1>7. Num' = Num
  BY DEF Num
<1>8. \A d : Done(d)' = Done(d)
  BY <1>1 DEF Done
<1>9. Tree(idom)' = Tree(idom)
  BY <1>1, <1>3, <1>4, <1>7, <1>8 DEF Tree
<1>10. AtTree' = AtTree
  BY <1>3, <1>6, <1>8, <1>9 DEF AtTree
<1>11. Frontiers' = Frontiers
  BY <1>1 DEF Frontiers
<1> QED BY <1>6, <1>10, <1>11

\* A pass changes neither what it is given nor what is known of it.
LEMMA PassKeeps ==
  ASSUME RenInv, PromInv, UNCHANGED lowVars, stage \notin {"done", "run"},
         stage' \in {"phi", "ren", "rewrite"}, UNCHANGED <<pvar, pred, rpo, idom>>,
         stage \in {"df", "phi", "ren", "rewrite"}
  PROVE  EntryInv' /\ PvarRight' /\ AtTree' = AtTree /\ Frontiers' = Frontiers /\ M' = M
<1>1. EntryInv'
  BY SameEntry DEF PromInv
<1>2. M' = M
  BY DEF lowVars
<1>3. PvarRight'
  BY <1>2 DEF PromInv, PvarRight
<1> QED BY <1>1, <1>2, <1>3, SameAtTree

LEMMA PromInvKept ==
  ASSUME RenInv, PromInv, [Next]_vars
  PROVE  PromInv'
<1>1. CASE low_func /\ UNCHANGED <<m2rVars, runVars>>
  <2>1. ~ lowered
    BY <1>1 DEF low_func, Assign, Return, For, Copy, If, While, Case, Exit, Goto, Label,
      ThenDone, ElseDone, WhileDone, ForDone, BranchDone, NextBranch, Default, CaseDone,
      Finish, Statement, Resume
  <2>2. stage = "cfg" /\ stage' = "cfg"
    BY <1>1, <2>1 DEF RenInv, PassInv, ClosedInv, m2rVars
  <2>3. EntryInv'
    BY <1>1, <2>2, EntryStep DEF PromInv
  <2> QED BY <2>2, <2>3 DEF PromInv
<1>2. CASE mk_cfg
  <2>1. stage = "cfg" /\ stage' = "prm" /\ UNCHANGED lowVars
    BY <1>2 DEF mk_cfg, Pass
  <2>2. EntryInv'
    BY <2>1, SameEntry DEF PromInv
  <2> QED BY <2>1, <2>2 DEF PromInv
<1>3. CASE fnd_prm
  <2>1. /\ stage = "prm" /\ UNCHANGED lowVars /\ pvar' = Found
        /\ stage' \in {"done", "rpo"}
    BY <1>3 DEF fnd_prm, Found, Pass
  <2>2. EntryInv /\ EntryInv'
    BY <2>1, SameEntry DEF PromInv
  <2>3. PvarRight'
    <3> DEFINE found == Found
    <3>1. IsModule(M)
      BY <2>2 DEF EntryInv, Laid
    <3>2. /\ IsSeq(found) /\ IsInjective(found)
          /\ \A v \in DOMAIN found :
               found[v] \in DOMAIN M.insts /\ M.insts[found[v]].op = "alloca" /\ found[v] > NParams
      BY <3>1, FoundRight
    <3>3. M' = M /\ pvar' = found
      BY <2>1 DEF lowVars
    <3> HIDE DEF found
    <3> QED BY <3>2, <3>3 DEF PvarRight
  <2> QED BY <2>1, <2>2, <2>3 DEF PromInv
<1>4. CASE mk_rpo
  <2>1. stage = "rpo" /\ stage' = "dom" /\ UNCHANGED lowVars /\ pvar' = pvar
    BY <1>4 DEF mk_rpo, Pass
  <2>2. EntryInv' /\ PvarRight'
    BY <2>1, SameEntry DEF PromInv, PvarRight, lowVars
  <2> QED BY <2>1, <2>2 DEF PromInv
<1>5. CASE cmp_dom
  <2>1. stage = "dom" /\ stage' = "df" /\ UNCHANGED lowVars
    <3>1. Pass("dom", "df")
      BY <1>5, Zenon DEF cmp_dom
    <3> QED BY <3>1 DEF Pass
  <2>2. pvar' = pvar
    BY <1>5, Zenon DEF cmp_dom
  <2>3. EntryInv' /\ PvarRight'
    BY <2>1, <2>2, SameEntry DEF PromInv, PvarRight, lowVars
  <2> QED BY <2>1, <2>3 DEF PromInv
<1>6. CASE cmp_df
  <2> DEFINE wild == \E k \in DOMAIN JoinRuns : JoinRuns[k][1] = None
  <2>1. /\ stage = "df" /\ UNCHANGED lowVars /\ UNCHANGED <<pvar, pred, rpo, idom>>
        /\ stage' = IF wild THEN "crashed" ELSE "phi"
        /\ df' = IF wild THEN df ELSE JoinFrontiers
    BY <1>6 DEF cmp_df, Pass, JoinFrontiers
  <2>2. CASE wild
    <3>1. EntryInv'
      BY <2>1, SameEntry DEF PromInv
    <3> QED BY <2>1, <2>2, <3>1 DEF PromInv
  <2>3. CASE ~ wild
    <3> HIDE DEF wild
    <3>1. stage' = "phi" /\ df' = JoinFrontiers
      BY <2>1, <2>3
    <3>2. EntryInv' /\ PvarRight' /\ AtTree' = AtTree /\ Frontiers' = Frontiers
      BY <2>1, <3>1, PassKeeps
    <3>3. AtTree => df' \in Frontiers
      <4>1. Final(M)
        BY <2>1 DEF RenInv, PassInv
      <4>2. Laid(M)
        BY <2>1 DEF PromInv, EntryInv
      <4> QED BY <3>1, <4>1, <4>2, JoinFrontiersRight
    <3> QED BY <3>1, <3>2, <3>3 DEF PromInv
  <2> QED BY <2>2, <2>3
<1>7. CASE ins_phi
  <2>1. /\ stage = "phi" /\ stage' = "ren" /\ UNCHANGED lowVars
        /\ UNCHANGED <<pred, rpo, idom, pvar, df>> /\ phi' = NewPhis
    BY <1>7 DEF ins_phi, Pass, NewPhis
  <2>2. EntryInv' /\ PvarRight' /\ AtTree' = AtTree /\ Frontiers' = Frontiers /\ M' = M
    BY <2>1, PassKeeps
  <2>3. AtTree => df \in Frontiers /\ PhisSpread(NewPhis)
    <3>1. Graph /\ IsSeq(pvar)
      <4>1. Final(M) /\ IsSeq(pvar)
        BY <2>1 DEF RenInv
      <4> QED BY <4>1, FinalGraph
    <3> QED BY <2>1, <3>1, NewPhisSpread DEF PromInv
  <2>4. PhisSpread(NewPhis) => PhisSpread(phi)'
    <3> DEFINE ph == NewPhis
    <3>1. phi' = ph
      BY <2>1
    <3> HIDE DEF ph
    <3>2. UNCHANGED <<M, pvar, df>>
      BY <2>1, <2>2
    <3>3. PhisSpread(ph) => PhisSpread(phi)'
      BY <3>1, <3>2 DEF PhisSpread, HasPhi, StoresTo, DfOf, Blocks, Insts
    <3> QED BY <3>3 DEF ph
  <2> QED BY <2>1, <2>2, <2>3, <2>4 DEF PromInv
<1>8. CASE ren_var
  <2>1. /\ stage = "ren" /\ stage' = "rewrite" /\ UNCHANGED lowVars
        /\ UNCHANGED <<pred, rpo, idom, pvar, df>>
        /\ phi' = Renamed.phi /\ repl' = [dead |-> Renamed.dead, value |-> Renamed.repl]
    <3>1. stage = "ren" /\ stage' = "rewrite" /\ UNCHANGED lowVars
          /\ UNCHANGED <<pred, rpo, idom, pvar, df>>
      BY <1>8 DEF ren_var, Pass
    <3>2. phi' = Renamed.phi /\ repl' = [dead |-> Renamed.dead, value |-> Renamed.repl]
      BY <1>8 DEF ren_var, Renamed, FirstFrame
    <3> QED BY <3>1, <3>2
  <2>2. EntryInv' /\ PvarRight' /\ AtTree' = AtTree /\ Frontiers' = Frontiers /\ M' = M
    BY <2>1, PassKeeps
  <2>3. Typed /\ Unfilled /\ SamePhis(phi')
    <3>1. Typed /\ Unfilled
      BY <2>1 DEF RenInv
    <3>2. SamePhis(Renamed.phi)
      BY <3>1, RenameRight
    <3> QED BY <2>1, <3>1, <3>2
  <2>4. AtTree => df \in Frontiers /\ PhisSpread(phi)
    BY <2>1 DEF PromInv
  <2>5. PhisSpread(phi) => PhisSpread(phi)'
    <3>1. DOMAIN phi' = DOMAIN phi
          /\ \A p \in DOMAIN phi : phi'[p].blk = phi[p].blk /\ phi'[p].var = phi[p].var
      BY <2>3 DEF SamePhis
    <3>2. \A b, v : HasPhi(phi, b, v)' <=> HasPhi(phi, b, v)
      BY <3>1 DEF HasPhi
    <3>3. UNCHANGED <<M, pvar, df>>
      BY <2>1, <2>2
    <3> QED BY <3>1, <3>2, <3>3 DEF PhisSpread, StoresTo, DfOf, Blocks, Insts
  <2>6. TreeRight' => Trail'
    <3> SUFFICES ASSUME TreeRight PROVE Trail'
      BY <2>1, <2>2, <2>3, SameKnown
    <3>1. PICK G : PerBlock(G) /\ TrailAt(G, Reach, Renamed.phi, Renamed.dead, Renamed.repl)
      BY <2>3, RenamedExact
    <3> DEFINE ph == Renamed.phi
               dead == Renamed.dead
               value == Renamed.repl
    <3>2. phi' = ph /\ repl'.dead = dead /\ repl'.value = value
      BY <2>1
    <3>3. PerBlock(G) /\ TrailAt(G, Reach, ph, dead, value)
      BY <3>1
    <3> HIDE DEF ph, dead, value
    <3>4. UNCHANGED <<M, pred, rpo, idom, pvar>>
      BY <2>1, <2>2
    <3>5. PICK ph1, dead1, value1 : ph1 = ph /\ dead1 = dead /\ value1 = value
      OBVIOUS
    <3>6. PerBlock(G)' /\ TrailAt(G, Reach, ph1, dead1, value1)'
      BY <2>3, <3>3, <3>4, <3>5, TrailNext
    <3>7. ph1 = phi' /\ dead1 = repl'.dead /\ value1 = repl'.value
      BY <3>2, <3>5
    <3>8. TrailAt(G, Reach, phi, repl.dead, repl.value)'
      BY <3>6, <3>7 DEF TrailAt, SentBy
    <3> QED BY <3>6, <3>8 DEF Trail
  <2> QED BY <2>1, <2>2, <2>4, <2>5, <2>6 DEF PromInv
<1>9. CASE rewrite
  <2>1. stage' = "done"
    BY <1>9 DEF rewrite
  <2> QED BY <2>1 DEF PromInv
<1>10. CASE Start
  <2>1. stage' = "run"
    BY <1>10 DEF Start, Begin
  <2> QED BY <2>1 DEF PromInv
<1>11. CASE Step
  <2>1. stage' = "run"
    BY <1>11 DEF Step, m2rVars
  <2> QED BY <2>1 DEF PromInv
<1>12. CASE UNCHANGED vars
  <2>1. UNCHANGED lowVars /\ UNCHANGED <<stage, pred, pvar, rpo, idom, df, phi, repl>>
    BY <1>12 DEF vars, m2rVars
  <2>2. UNCHANGED M
    BY <2>1 DEF lowVars
  <2>3. EntryInv => EntryInv'
    BY <2>1, SameEntry
  <2>4. PvarRight => PvarRight'
    BY <2>1, <2>2 DEF PvarRight
  <2>5. AtTree' = AtTree /\ Frontiers' = Frontiers
    BY <2>1, <2>2, SameAtTree
  <2>6. PhisSpread(phi) => PhisSpread(phi)'
    BY <2>1, <2>2 DEF PhisSpread, HasPhi, StoresTo, DfOf, Blocks, Insts
  <2>7. stage = "rewrite" => (TreeRight' => Trail')
    <3> SUFFICES ASSUME stage = "rewrite" PROVE TreeRight' => Trail'
      OBVIOUS
    <3>1. Typed
      BY DEF RenInv, Rewritable
    <3>2. SamePhis(phi')
      BY <2>1, <3>1 DEF SamePhis, Typed
    <3>3. UNCHANGED <<M, pred, rpo, idom, pvar>>
      BY <2>1, <2>2
    <3>4. TreeRight' = TreeRight
      BY <3>2, <3>3, SameKnown
    <3>5. ASSUME TreeRight PROVE Trail'
      <4>1. PICK G : PerBlock(G) /\ TrailAt(G, Reach, phi, repl.dead, repl.value)
        BY <3>5 DEF PromInv, Trail
      <4>2. PICK ph1, dead1, value1 : ph1 = phi /\ dead1 = repl.dead /\ value1 = repl.value
        OBVIOUS
      <4>3. PerBlock(G)' /\ TrailAt(G, Reach, ph1, dead1, value1)'
        BY <3>1, <3>2, <3>3, <4>1, <4>2, TrailNext
      <4>4. ph1 = phi' /\ dead1 = repl'.dead /\ value1 = repl'.value
        BY <2>1, <4>2
      <4>5. TrailAt(G, Reach, phi, repl.dead, repl.value)'
        BY <4>3, <4>4 DEF TrailAt, SentBy
      <4> QED BY <4>3, <4>5 DEF Trail
    <3> QED BY <3>4, <3>5
  <2> QED BY <2>1, <2>3, <2>4, <2>5, <2>6, <2>7 DEF PromInv
<1> QED
  BY <1>1, <1>2, <1>3, <1>4, <1>5, <1>6, <1>7, <1>8, <1>9, <1>10, <1>11, <1>12
  DEF Next, jir_m2r

---------------------------------------------------------------------------
(* Where a block has no PHI for a variable, every way into it brings the   *)
(* value that the block above it in the tree leaves.                       *)

LEMMA VarOfRight ==
  ASSUME NEW I, NEW slot, VarOf(I, slot) # None
  PROVE  VarOf(I, slot) \in DOMAIN pvar /\ pvar[VarOf(I, slot)] = I.ops[slot]
<1>1. \E v \in DOMAIN pvar : pvar[v] = I.ops[slot]
  BY DEF VarOf
<1>2. VarOf(I, slot) = CHOOSE v \in DOMAIN pvar : pvar[v] = I.ops[slot]
  BY <1>1 DEF VarOf
<1> QED BY <1>1, <1>2

\* A block without PHI and store of a variable leaves what comes in.
LEMMA QuietBlock ==
  ASSUME Typed, NEW b \in Blocks, NEW g, NEW e, Carried(g, e, b), NEW v \in DOMAIN pvar,
         ~ HasPhi(phi, b, v), ~ StoresTo(b, pvar[v])
  PROVE  g[M.blks[b].n_inst][v] = e[v]
<1> DEFINE n == M.blks[b].n_inst
           T == [k \in 0 .. n |-> {h \in [DOMAIN pvar -> Int] : h[v] = e[v]}]
<1>1. n \in Nat /\ Insts(b) = Home(M, b)
  BY FinalParts DEF Typed
<1>2. /\ g \in [0 .. n -> [DOMAIN pvar -> Int]]
      /\ Enters(g[0], e, b) /\ \A i \in 1 .. n : g[i] = Put(g[i - 1], Nth(b, i))
  BY DEF Carried
<1>3. g[0] \in T[0]
  <2>1. g[0] \in [DOMAIN pvar -> Int]
    BY <1>1, <1>2
  <2>2. g[0][v] = e[v]
    BY <1>2 DEF Enters, HasPhi
  <2> QED BY <1>1, <2>1, <2>2
<1>4. ASSUME NEW i \in 1 .. n, g[i - 1] \in T[i - 1]
      PROVE  g[i] \in T[i]
  <2> DEFINE k == Nth(b, i)
             h == g[i - 1]
  <2>1. i \in 0 .. n /\ i - 1 \in 0 .. n
    BY <1>1
  <2>2. g[i] \in [DOMAIN pvar -> Int] /\ h \in [DOMAIN pvar -> Int] /\ h[v] = e[v]
    BY <1>2, <1>4, <2>1
  <2>3. k \in Insts(b)
    BY <1>1, NthFacts
  <2>4. g[i] = Put(h, k)
    BY <1>2
  <2> HIDE DEF k, h
  <2>5. g[i][v] = h[v]
    <3>1. CASE Puts(k)
      <4> DEFINE w == VarOf(M.insts[k], 2)
      <4>1. M.insts[k].op = "store" /\ w # None
        BY <3>1 DEF Puts
      <4>2. w \in DOMAIN pvar /\ pvar[w] = M.insts[k].ops[2]
        BY <4>1, VarOfRight
      <4>3. w # v
        BY <2>3, <4>1, <4>2 DEF StoresTo
      <4>4. g[i] = [h EXCEPT ![w] = M.insts[k].ops[1]]
        BY <2>4, <3>1 DEF Put
      <4> HIDE DEF w
      <4> QED BY <2>2, <4>3, <4>4
    <3>2. CASE ~ Puts(k)
      BY <3>2, <2>4 DEF Put
    <3> QED BY <3>1, <3>2
  <2> QED BY <2>1, <2>2, <2>5
<1>5. \A i \in 0 .. n : g[i] \in T[i]
  <2> HIDE DEF T, n
  <2> QED BY <1>1, <1>3, <1>4, StepsStay
<1>6. n \in 0 .. n
  BY <1>1
<1> QED BY <1>5, <1>6

\* What rewrite has to rely on.
Ground(G) ==
  /\ Renaming /\ ChainsFit /\ Laid(M) /\ PvarRight
  /\ AtTree /\ Sweep(Num, idom) = idom
  /\ df \in Frontiers /\ FrontiersRead /\ PhisSpread(phi)
  /\ PerBlock(G) /\ TrailAt(G, Reach, phi, repl.dead, repl.value)

LEMMA GroundParts ==
  ASSUME NEW G, Ground(G)
  PROVE  /\ Final(M) /\ Typed /\ Rewritable /\ TreeRight /\ Ready /\ Graph /\ NumbersFit
         /\ Reach \subseteq Blocks /\ 1 \in Reach /\ CarriedAll(G)
         /\ \A b \in Blocks : 1 \notin Range(Succs(b))
         /\ \A b \in Reach \ {1} :
              /\ idom[b] \in Reach /\ SDom(idom[b], b) /\ Num[idom[b]] < Num[b]
              /\ \A a \in Reach : SDom(a, b) => Dom(a, idom[b])
<1>1. Final(M) /\ Typed /\ Rewritable /\ TreeRight /\ Ready /\ Graph /\ NumbersFit
  BY DEF Ground, Renaming, Rewritable, Typed, TreeRight, Ready
<1>2. Reach \subseteq Blocks /\ 1 \in Reach
  BY <1>1, ReachFacts
<1>3. CarriedAll(G)
  BY DEF Ground, CarriedAll, TrailAt
<1>4. \A b \in Blocks : 1 \notin Range(Succs(b))
  BY <1>1, NoWayBack DEF Ground
<1>5. \A b \in Reach \ {1} : idom[b] \in Reach /\ SDom(idom[b], b) /\ Num[idom[b]] < Num[b]
  BY <1>1 DEF TreeRight
<1>6. \A b \in Reach \ {1} : \A a \in Reach : SDom(a, b) => Dom(a, idom[b])
  BY <1>1, FixedRight DEF Ground, AtTree
<1> QED BY <1>1, <1>2, <1>3, <1>4, <1>5, <1>6

LEMMA SameAbove ==
  ASSUME NEW G, Ground(G), NEW p \in Reach, NEW t \in Range(Succs(p)), NEW v \in DOMAIN pvar,
         ~ HasPhi(phi, t, v)
  PROVE  /\ t \in Reach \ {1} /\ idom[t] \in Reach
         /\ Leaving(G, p)[v] = Leaving(G, idom[t])[v]
<1> DEFINE d == idom[t]
           Same(x) == Leaving(G, x)[v] = Leaving(G, d)[v]
<1>1. /\ Final(M) /\ Typed /\ TreeRight /\ Ready /\ Graph
      /\ Reach \subseteq Blocks /\ 1 \in Reach /\ CarriedAll(G)
      /\ \A b \in Reach \ {1} :
           /\ idom[b] \in Reach /\ SDom(idom[b], b) /\ Num[idom[b]] < Num[b]
           /\ \A a \in Reach : SDom(a, b) => Dom(a, idom[b])
  BY GroundParts
<1>2. t \in Reach /\ t # 1
  BY <1>1, GroundParts, ReachFacts
<1>3. d \in Reach /\ SDom(d, t) /\ Dom(d, p)
  <2>1. d \in Reach /\ SDom(d, t)
    BY <1>1, <1>2
  <2> QED BY <1>1, <2>1, DomOfPred
<1> HIDE DEF d
\* A block strictly below d, above p, has t in its frontier.
<1>4. ASSUME NEW x \in Reach, x # d, Dom(d, x), Dom(x, p)
      PROVE  ~ HasPhi(phi, x, v) /\ ~ StoresTo(x, pvar[v])
  <2>1. ~ SDom(x, t)
    <3> SUFFICES ASSUME SDom(x, t) PROVE FALSE
      OBVIOUS
    <3>1. Dom(x, d)
      BY <1>1, <1>2 DEF d
    <3>2. Num[x] <= Num[d] /\ Num[d] <= Num[x]
      BY <1>1, <1>3, <1>4, <3>1, DomBefore
    <3>3. Num[x] \in Int /\ Num[d] \in Int
      BY <1>1, <1>3, NumFacts
    <3>4. Num[x] = Num[d]
      BY <3>2, <3>3
    <3> QED BY <1>1, <1>3, <1>4, <3>4, NumFacts
  <2>2. t \in Frontier(x)
    BY <1>2, <1>4, <2>1 DEF Frontier
  <2>3. t \in Range(DfOf(df, x))
    BY <2>2 DEF Ground, FrontiersRead
  <2>4. x \in Blocks
    BY <1>1
  <2> QED BY <2>3, <2>4 DEF Ground, PhisSpread
<1> DEFINE U == {n \in Nat : \A x \in Reach :
                   Num[x] <= n /\ Dom(d, x) /\ Dom(x, p) => Same(x)}
<1>5. \A x \in Reach : Num[x] \in Nat \ {0}
  <2>1. \A x \in Reach : Num[x] \in 1 .. Len(rpo) /\ Len(rpo) \in Nat
    BY <1>1, NumFacts
  <2> QED BY <2>1
<1>6. 0 \in U
  <2> SUFFICES ASSUME NEW x \in Reach, Num[x] <= 0 PROVE FALSE
    OBVIOUS
  <2>1. Num[x] \in Nat \ {0}
    BY <1>5
  <2> QED BY <2>1
<1>7. ASSUME NEW n \in Nat, n \in U
      PROVE  n + 1 \in U
  <2> SUFFICES ASSUME NEW x \in Reach, Num[x] <= n + 1, Dom(d, x), Dom(x, p)
               PROVE  Same(x)
    OBVIOUS
  <2>1. CASE x = d
    BY <2>1
  <2>2. CASE x # d
    <3> DEFINE y == idom[x]
    <3>1. x # 1
      <4> SUFFICES ASSUME x = 1 PROVE FALSE
        OBVIOUS
      <4>1. 1 \in Reached({d})
        BY <1>1, ReachedFacts
      <4> QED BY <4>1, <2>2 DEF Dom
    <3>2. y \in Reach /\ SDom(y, x) /\ Num[y] < Num[x] /\ Dom(d, y)
      <4>1. SDom(d, x)
        BY <2>2 DEF SDom
      <4> QED BY <3>1, <4>1, <1>1, <1>3
    <3>3. Dom(y, p)
      <4>1. CASE x = p
        BY <3>2, <4>1 DEF SDom
      <4>2. CASE x # p
        <5>1. SDom(x, p)
          BY <4>2 DEF SDom
        <5>2. SDom(y, p)
          BY <5>1, <3>2, <1>1, DomTrans
        <5> QED BY <5>2 DEF SDom
      <4> QED BY <4>1, <4>2
    <3>4. Num[y] <= n
      <4>1. Num[x] \in Nat /\ Num[y] \in Nat
        BY <1>5, <3>2
      <4> QED BY <4>1, <3>2
    <3>5. Same(y)
      BY <3>2, <3>3, <3>4, <1>7
    <3>6. ~ HasPhi(phi, x, v) /\ ~ StoresTo(x, pvar[v])
      BY <1>4, <2>2
    <3>7. Carried(G[x], Inflow(G, x), x) /\ x \in Blocks
      BY <1>1 DEF CarriedAll
    <3>8. Leaving(G, x)[v] = Inflow(G, x)[v]
      BY <1>1, <3>6, <3>7, QuietBlock DEF Leaving
    <3>9. Inflow(G, x)[v] = Leaving(G, y)[v]
      BY <3>1 DEF Inflow
    <3> QED BY <3>5, <3>8, <3>9
  <2> QED BY <2>1, <2>2
<1>8. Nat \subseteq U
  <2> HIDE DEF U
  <2> QED BY <1>6, <1>7, Induction
<1>9. Same(p)
  <2>1. Num[p] \in U
    BY <1>5, <1>8
  <2>2. Num[p] <= Num[p]
    BY <1>5
  <2>3. Dom(p, p)
    BY DEF Dom
  <2> QED BY <2>1, <2>2, <2>3, <1>3
<1> QED BY <1>2, <1>3, <1>9 DEF d

---------------------------------------------------------------------------
(* rewrite: everything that is kept has one place, and what an operand     *)
(* becomes is the place of its value.                                      *)

Heads(b) == Len(PhisOf(b))
Kept(b) == Keep(InstSeq(b), DOMAIN M.insts \ repl.dead)
LEMMA CodeSplit ==
  ASSUME Rewritable, NEW b \in Blocks
  PROVE  /\ Heads(b) \in Nat /\ IsSeq(Kept(b)) /\ Len(Kept(b)) \in Nat
         /\ SizeOf(b) = Heads(b) + Len(Kept(b))
         /\ \A j \in 1 .. Heads(b) : NewCode(b)[j] = FakeId(PhisOf(b)[j])
         /\ \A j \in 1 .. Len(Kept(b)) : NewCode(b)[Heads(b) + j] = Kept(b)[j]
<1> DEFINE here == PhisOf(b)
           A == [k \in DOMAIN here |-> FakeId(here[k])]
           B == Kept(b)
           m == Len(here)
<1>1. IsSeq(here) /\ m \in Nat /\ DOMAIN here = 1 .. m
  BY PhisOfFacts DEF Rewritable
<1>2. IsSeq(InstSeq(b))
  BY InstSeqFacts DEF Rewritable
<1>3. IsSeq(B)
  BY <1>2, KeepFacts DEF Kept, B
<1>4. Len(B) \in Nat
  BY <1>3, DomainOfSeq
<1>5. NewCode(b) = A \o B
  BY DEF NewCode, Kept, B
<1> HIDE DEF here, m, B
<1>6. IsSeq(A) /\ Len(A) = m /\ \A k \in 1 .. m : A[k] = FakeId(here[k])
  <2>1. A = [k \in 1 .. m |-> A[k]] /\ \A k \in 1 .. m : A[k] = FakeId(here[k])
    BY <1>1
  <2> HIDE DEF A
  <2> QED BY <1>1, <2>1, FunctionIsSeq
<1> HIDE DEF A
<1>7. /\ Len(A \o B) = m + Len(B)
      /\ \A k \in 1 .. m : (A \o B)[k] = A[k]
      /\ \A k \in 1 .. Len(B) : (A \o B)[m + k] = B[k]
  <2>1. /\ Len(A \o B) = Len(A) + Len(B)
        /\ \A k \in 1 .. Len(A) : (A \o B)[k] = A[k]
        /\ \A k \in 1 .. Len(B) : (A \o B)[Len(A) + k] = B[k]
    <3>1. IsSeq(A) /\ IsSeq(B)
      BY <1>3, <1>6
    <3> QED BY ONLY <3>1, ConcatAny
  <2> QED BY <1>6, <2>1
<1>8. m = Heads(b) /\ here = PhisOf(b) /\ B = Kept(b)
  BY DEF m, here, Heads, B
<1>9. Len(NewCode(b)) = m + Len(B)
  BY <1>5, <1>7
<1> QED BY <1>1, <1>3, <1>4, <1>5, <1>6, <1>7, <1>8, <1>9 DEF SizeOf

\* What the code of a block has, and that no number is both a PHI's and an
\* instruction's.
LEMMA KeptFacts ==
  ASSUME Rewritable, NumbersFit, NEW b \in Blocks
  PROVE  /\ Range(Kept(b)) = Home(M, b) \ repl.dead /\ IsInjective(Kept(b))
         /\ IsInjective(PhisOf(b)) /\ DOMAIN PhisOf(b) = 1 .. Heads(b)
         /\ DOMAIN Kept(b) = 1 .. Len(Kept(b))
         /\ Range(PhisOf(b)) = {p \in DOMAIN phi : phi[p].blk = b}
         /\ DOMAIN phi \subseteq Nat \ {0}
         /\ \A p \in DOMAIN phi : IsFake(FakeId(p)) /\ FakeId(p) \in Nat
         /\ \A c \in Blocks : \A k \in Home(M, c) :
              k \in DOMAIN M.insts /\ k \in Nat \ {0} /\ ~ IsFake(k)
<1>1. /\ IsSeq(InstSeq(b)) /\ Range(InstSeq(b)) = Home(M, b) /\ Rising(InstSeq(b))
      /\ DOMAIN InstSeq(b) = 1 .. M.blks[b].n_inst
      /\ \A c \in Blocks : Home(M, c) \subseteq DOMAIN M.insts
      /\ DOMAIN M.insts = 1 .. Len(M.insts)
      /\ Len(M.insts) \in Nat /\ M.blks[b].n_inst \in Nat /\ M.blks[b].first \in Nat
      /\ \A k \in 1 .. M.blks[b].n_inst : InstSeq(b)[k] = M.blks[b].first + k - 1
  BY InstSeqFacts, FinalParts DEF Rewritable, Typed
<1>2. Range(Kept(b)) = Home(M, b) \cap (DOMAIN M.insts \ repl.dead)
  BY <1>1, KeepFacts DEF Kept
<1>3. IsInjective(InstSeq(b))
  BY <1>1 DEF IsInjective
<1>4. IsInjective(Kept(b))
  BY <1>1, <1>3, KeepInjective DEF Kept
<1>5. Len(phi) \in Nat /\ DOMAIN phi = 1 .. Len(phi)
  BY LenProperties DEF Rewritable, Typed
<1>6. IsInjective(PhisOf(b))
  BY <1>5, StepsFacts, KeepInjective DEF PhisOf
<1>7. DOMAIN Kept(b) = 1 .. Len(Kept(b))
  BY CodeSplit, DomainOfSeq
<1>8. DOMAIN PhisOf(b) = 1 .. Heads(b) /\ Range(PhisOf(b)) = {p \in DOMAIN phi : phi[p].blk = b}
  BY PhisOfFacts DEF Rewritable, Heads
<1>9. \A p \in DOMAIN phi : IsFake(FakeId(p)) /\ FakeId(p) \in Nat
  BY <1>5, Mem2RegAssumption DEF IsFake, FakeId
<1>10. \A k \in DOMAIN M.insts : k \in Nat \ {0} /\ ~ IsFake(k)
  BY <1>1, Mem2RegAssumption DEF NumbersFit, IsFake
<1> QED BY <1>1, <1>2, <1>4, <1>5, <1>6, <1>7, <1>8, <1>9, <1>10

LEMMA CodeOnce ==
  ASSUME Rewritable, NumbersFit, NEW b \in Blocks, NEW i \in 1 .. SizeOf(b),
         NEW j \in 1 .. SizeOf(b), NewCode(b)[i] = NewCode(b)[j]
  PROVE  i = j
<1> DEFINE h == Heads(b)
           n == Len(Kept(b))
           c == NewCode(b)
<1>1. /\ h \in Nat /\ n \in Nat /\ SizeOf(b) = h + n
      /\ \A x \in 1 .. h : c[x] = FakeId(PhisOf(b)[x])
      /\ \A x \in 1 .. n : c[h + x] = Kept(b)[x]
  BY CodeSplit
<1>2. /\ \A x \in 1 .. h : PhisOf(b)[x] \in DOMAIN phi
      /\ \A x, y \in 1 .. h : PhisOf(b)[x] = PhisOf(b)[y] => x = y
  <2> DEFINE s == PhisOf(b)
  <2>1. DOMAIN s = 1 .. h /\ IsInjective(s) /\ Range(s) \subseteq DOMAIN phi
    BY KeptFacts
  <2> HIDE DEF s, h
  <2>2. /\ \A x \in 1 .. h : s[x] \in DOMAIN phi
        /\ \A x, y \in 1 .. h : s[x] = s[y] => x = y
    BY <2>1 DEF Range, IsInjective
  <2> QED BY <2>2 DEF s
<1>3. /\ \A x \in 1 .. n : Kept(b)[x] \in Home(M, b)
      /\ \A x, y \in 1 .. n : Kept(b)[x] = Kept(b)[y] => x = y
  BY KeptFacts DEF Range, IsInjective
<1>4. /\ \A x \in 1 .. h : IsFake(c[x])
      /\ \A x \in 1 .. n : ~ IsFake(c[h + x])
  BY <1>1, <1>2, <1>3, KeptFacts
<1>5. \A p, q \in DOMAIN phi : FakeId(p) = FakeId(q) => p = q
  BY KeptFacts, Mem2RegAssumption DEF FakeId
<1>6. NewCode(b)[i] = NewCode(b)[j]
  OBVIOUS
<1>7. i \in 1 .. h + n /\ j \in 1 .. h + n
  BY <1>1
<1> HIDE DEF h, n, c
<1>8. \A x \in 1 .. h + n : x \in 1 .. h \/ (x - h \in 1 .. n /\ x = h + (x - h))
  BY <1>1
<1>9. c[i] = c[j]
  BY <1>6 DEF c
<1>10. CASE i \in 1 .. h /\ j \in 1 .. h
  BY <1>1, <1>2, <1>5, <1>9, <1>10
<1>11. CASE i - h \in 1 .. n /\ i = h + (i - h) /\ j - h \in 1 .. n /\ j = h + (j - h)
  <2>1. i - h = j - h
    BY <1>1, <1>3, <1>9, <1>11
  <2> QED BY <1>1, <1>7, <2>1
<1>12. CASE i \in 1 .. h /\ j - h \in 1 .. n /\ j = h + (j - h)
  BY <1>4, <1>9, <1>12
<1>13. CASE j \in 1 .. h /\ i - h \in 1 .. n /\ i = h + (i - h)
  BY <1>4, <1>9, <1>13
<1> QED BY <1>7, <1>8, <1>10, <1>11, <1>12, <1>13

LEMMA OrderOnce ==
  ASSUME Rewritable, NumbersFit, NEW y \in DOMAIN Order, NEW z \in DOMAIN Order,
         Order[y] = Order[z]
  PROVE  y = z
<1>1. PICK b \in Blocks : y \in Spot(b)
  BY PlacesFacts
<1>2. PICK c \in Blocks : z \in Spot(c)
  BY PlacesFacts
<1>3. PICK i \in 1 .. SizeOf(b) : y = FirstOf(b) + i - 1
  BY <1>1, PlacesFacts
<1>4. PICK j \in 1 .. SizeOf(c) : z = FirstOf(c) + j - 1
  BY <1>2, PlacesFacts
<1>5. Order[y] = NewCode(b)[i] /\ Order[z] = NewCode(c)[j]
  BY <1>3, <1>4, PlacesFacts
<1> DEFINE x == Order[y]
<1>6. x \in Range(NewCode(b)) /\ x \in Range(NewCode(c))
  <2>1. i \in DOMAIN NewCode(b) /\ j \in DOMAIN NewCode(c)
    BY CodeFacts DEF SizeOf
  <2> QED BY <1>5, <2>1 DEF Range
<1> HIDE DEF x
<1>7. \A d \in Blocks : x \in Range(NewCode(d)) =>
        (\E p \in DOMAIN phi : phi[p].blk = d /\ x = FakeId(p)) \/ x \in Home(M, d)
  BY CodeFacts
<1>8. b = c
  <2>1. CASE x \in Home(M, b) /\ x \in Home(M, c)
    BY <2>1, FinalParts DEF Rewritable, Typed, Shaped, Blocks
  <2>2. CASE (\E p \in DOMAIN phi : phi[p].blk = b /\ x = FakeId(p)) /\ x \in Home(M, c)
    BY <2>2, KeptFacts
  <2>3. CASE (\E p \in DOMAIN phi : phi[p].blk = c /\ x = FakeId(p)) /\ x \in Home(M, b)
    BY <2>3, KeptFacts
  <2>4. CASE /\ \E p \in DOMAIN phi : phi[p].blk = b /\ x = FakeId(p)
             /\ \E p \in DOMAIN phi : phi[p].blk = c /\ x = FakeId(p)
    <3>1. \A p, q \in DOMAIN phi : FakeId(p) = FakeId(q) => p = q
      BY KeptFacts, Mem2RegAssumption DEF FakeId
    <3> QED BY <2>4, <3>1
  <2> QED BY <1>6, <1>7, <2>1, <2>2, <2>3, <2>4
<1>9. i = j
  BY <1>5, <1>8, CodeOnce
<1> QED BY <1>3, <1>4, <1>8, <1>9

\* The place that remap looks up.
LEMMA PlaceIs ==
  ASSUME Rewritable, NumbersFit, NEW z \in DOMAIN Order
  PROVE  SelectInSeq(Order, LAMBDA y : y = Order[z]) = z /\ z \in Nat \ {0}
<1> DEFINE x == Order[z]
           s == SelectInSeq(Order, LAMBDA y : y = x)
<1>1. IsSeq(Order) /\ Len(Order) \in Nat /\ DOMAIN Order = 1 .. Len(Order)
  BY PlacesFacts
<1>2. x \in Range(Order)
  BY DEF Range
<1> HIDE DEF x
<1>3. s # 0 /\ s \in DOMAIN Order /\ Order[s] = x
  BY <1>1, <1>2, SlotFacts
<1> HIDE DEF s
<1>4. s = z
  BY <1>3, OrderOnce DEF x
<1> QED BY <1>1, <1>4 DEF s, x

\* The chain of replacements that remap follows, link by link.
LEMMA ChainSteps ==
  ASSUME NEW x
  PROVE  \E f : /\ f[0] = x /\ f[MaxChase] = Iterate(Chase, x, MaxChase)
                /\ \A j \in 1 .. MaxChase : f[j] = Chase(f[j - 1])
<1> DEFINE n == MaxChase
           Do(y, j) == Chase(y)
           S == {x} \cup {repl.value[v] : v \in DOMAIN repl.value}
           step == [j \in 1 .. n |-> [y \in S |-> Do(y, j)]]
           Is(f) == f = [j \in 0 .. n |-> IF j = 0 THEN x ELSE Do(f[j - 1], j)]
<1>1. n \in Nat
  BY Mem2RegAssumption
<1>2. ASSUME NEW j \in 1 .. n, NEW y \in S PROVE Do(y, j) \in S
  BY <1>2 DEF Chase
<1> HIDE DEF Do, n, S
<1>3. \E f : Is(f)
  <2>1. x \in S
    BY DEF S
  <2>2. ASSUME NEW j \in 1 .. n, NEW y \in S PROVE step[j][y] \in S
    BY <1>2
  <2> HIDE DEF step
  <2>3. PICK f : Follows(f, n, x, step) /\ \A j \in 0 .. n : f[j] \in S
    BY <1>1, <2>1, <2>2, StepsWithin
  <2>4. ASSUME NEW j \in 1 .. n PROVE step[j][f[j - 1]] = Do(f[j - 1], j)
    <3>1. j - 1 \in 0 .. n
      BY <1>1
    <3>2. f[j - 1] \in S
      BY <2>3, <3>1
    <3> QED BY <3>2 DEF step
  <2>5. \A j \in 0 .. n : j # 0 => j \in 1 .. n
    BY <1>1
  <2>6. Is(f)
    BY <2>3, <2>4, <2>5 DEF Follows
  <2> QED BY <2>6
<1> DEFINE it == CHOOSE f : Is(f)
<1>4. Is(it)
  <2> HIDE DEF Is
  <2> QED BY <1>3, Zenon
<1>5. Iterate(Chase, x, MaxChase) = it[n]
  BY Zenon DEF Iterate, Do, n
<1> HIDE DEF it
<1>6. it[0] = x /\ \A j \in 1 .. n : it[j] = Do(it[j - 1], j)
  BY <1>1, <1>4
<1>7. \A j \in 1 .. MaxChase : it[j] = Chase(it[j - 1])
  BY <1>6 DEF Do, n
<1> QED BY <1>5, <1>6, <1>7 DEF n

LEMMA ChainEnds ==
  /\ \A x : x \notin DOMAIN repl.value => Iterate(Chase, x, MaxChase) = x
  /\ ChainsFit => \A x \in DOMAIN repl.value :
       Iterate(Chase, x, MaxChase) = Iterate(Chase, repl.value[x], MaxChase)
<1> DEFINE n == MaxChase
<1>1. n \in Nat
  BY Mem2RegAssumption
<1>2. n \in 0 .. n
  BY <1>1
<1>3. ASSUME NEW x, x \notin DOMAIN repl.value PROVE Iterate(Chase, x, n) = x
  <2>1. PICK f : /\ f[0] = x /\ f[n] = Iterate(Chase, x, n)
                 /\ \A j \in 1 .. n : f[j] = Chase(f[j - 1])
    BY ChainSteps
  <2> DEFINE T == [j \in 0 .. n |-> {x}]
  <2>2. ASSUME NEW j \in 1 .. n, f[j - 1] \in T[j - 1] PROVE f[j] \in T[j]
    <3>1. j \in 0 .. n /\ j - 1 \in 0 .. n
      BY <1>1
    <3>2. f[j - 1] = x
      BY <2>2, <3>1
    <3>3. f[j] = x
      BY <1>3, <2>1, <3>2 DEF Chase
    <3> QED BY <3>1, <3>3
  <2>3. f[0] \in T[0]
    BY <1>1, <2>1
  <2> HIDE DEF T
  <2>4. f[n] \in T[n]
    BY <1>1, <1>2, <2>2, <2>3, StepsStay
  <2> QED BY <1>2, <2>1, <2>4 DEF T
<1>4. ASSUME ChainsFit, NEW x \in DOMAIN repl.value
      PROVE  Iterate(Chase, x, n) = Iterate(Chase, repl.value[x], n)
  <2> DEFINE y == repl.value[x]
  <2>1. PICK f : /\ f[0] = x /\ f[n] = Iterate(Chase, x, n)
                 /\ \A j \in 1 .. n : f[j] = Chase(f[j - 1])
    BY ChainSteps
  <2>2. PICK g : /\ g[0] = y /\ g[n] = Iterate(Chase, y, n)
                 /\ \A j \in 1 .. n : g[j] = Chase(g[j - 1])
    BY ChainSteps
  <2> DEFINE T == [j \in 0 .. n |-> {Chase(f[j])}]
  <2>3. ASSUME NEW j \in 1 .. n, g[j - 1] \in T[j - 1] PROVE g[j] \in T[j]
    <3>1. j \in 0 .. n /\ j - 1 \in 0 .. n
      BY <1>1
    <3>2. g[j - 1] = Chase(f[j - 1])
      BY <2>3, <3>1
    <3>3. g[j] = Chase(f[j])
      BY <2>1, <2>2, <3>2
    <3> QED BY <3>1, <3>3
  <2>4. g[0] \in T[0]
    <3>1. y = Chase(x)
      BY DEF Chase
    <3> QED BY <1>1, <2>1, <2>2, <3>1
  <2> HIDE DEF T, y
  <2>5. g[n] \in T[n]
    BY <1>1, <1>2, <2>3, <2>4, StepsStay
  <2>6. g[n] = Chase(f[n])
    BY <1>2, <2>5 DEF T
  <2>7. f[n] \notin DOMAIN repl.value
    BY <1>4, <2>1 DEF ChainsFit
  <2>8. Chase(f[n]) = f[n]
    BY <2>7 DEF Chase
  <2> QED BY <2>1, <2>2, <2>6, <2>8 DEF y
<1> QED BY <1>3, <1>4

\* remap takes what is not replaced to its place, and a replaced load where
\* what replaces it goes.
LEMMA RemapEnds ==
  ASSUME Rewritable, NumbersFit
  PROVE  /\ \A x : x \notin DOMAIN repl.value /\ IsConst(x) => remap(Order, x) = x
         /\ \A z \in DOMAIN Order :
              Order[z] \notin DOMAIN repl.value /\ ~ IsConst(Order[z]) => remap(Order, Order[z]) = z
         /\ ChainsFit => \A x \in DOMAIN repl.value :
              remap(Order, x) = remap(Order, repl.value[x])
<1>1. ASSUME NEW x, x \notin DOMAIN repl.value, IsConst(x) PROVE remap(Order, x) = x
  BY <1>1, ChainEnds DEF remap
<1>2. ASSUME NEW z \in DOMAIN Order, Order[z] \notin DOMAIN repl.value, ~ IsConst(Order[z])
      PROVE  remap(Order, Order[z]) = z
  <2> DEFINE x == Order[z]
  <2>1. Iterate(Chase, x, MaxChase) = x
    BY <1>2, ChainEnds
  <2>2. SelectInSeq(Order, LAMBDA y : y = x) = z /\ z \in Nat \ {0}
    BY PlaceIs
  <2> HIDE DEF x
  <2>3. ~ IsConst(x)
    BY <1>2 DEF x
  <2>4. remap(Order, x) = z
    BY <2>1, <2>2, <2>3 DEF remap
  <2> QED BY <2>4 DEF x
<1>3. ASSUME ChainsFit, NEW x \in DOMAIN repl.value
      PROVE  remap(Order, x) = remap(Order, repl.value[x])
  <2> DEFINE Goes(w) == LET new == IF IsConst(w) THEN 0 ELSE SelectInSeq(Order, LAMBDA y : y = w)
                        IN IF new = 0 THEN w ELSE new
  <2>1. \A y : remap(Order, y) = Goes(Iterate(Chase, y, MaxChase))
    BY Zenon DEF remap
  <2>2. Iterate(Chase, x, MaxChase) = Iterate(Chase, repl.value[x], MaxChase)
    BY <1>3, ChainEnds
  <2> HIDE DEF Goes
  <2> QED BY <2>1, <2>2, Zenon
<1> QED BY <1>1, <1>2, <1>3

\* Where the kept entries of a sequence go: cnt[i] of the first i are kept.
Counts(cnt, s, U) ==
  /\ cnt \in [0 .. Len(s) -> Nat] /\ cnt[0] = 0 /\ cnt[Len(s)] = Len(Keep(s, U))
  /\ \A i \in 1 .. Len(s) :
       /\ s[i] \in U => /\ cnt[i] = cnt[i - 1] + 1 /\ cnt[i] \in 1 .. Len(Keep(s, U))
                        /\ Keep(s, U)[cnt[i]] = s[i]
       /\ s[i] \notin U => cnt[i] = cnt[i - 1]
LEMMA KeepSteps ==
  ASSUME NEW s, IsSeq(s), NEW U
  PROVE  \E cnt : Counts(cnt, s, U)
<1> DEFINE n == Len(s)
           X == Range(s)
           Y == Seq(X)
           More(r, k) == IF s[k] \in U THEN Append(r, s[k]) ELSE r
           step == [k \in 1 .. n |-> [r \in Y |-> More(r, k)]]
           Is(f) == f = [k \in 0 .. n |-> IF k = 0 THEN <<>>
                           ELSE IF s[k] \in U THEN Append(f[k - 1], s[k]) ELSE f[k - 1]]
<1>1. n \in Nat /\ DOMAIN s = 1 .. n /\ \A k \in 1 .. n : s[k] \in X
  BY DomainOfSeq DEF Range
<1> HIDE DEF n, X
<1>2. ASSUME NEW k \in 1 .. n, NEW r \in Y PROVE More(r, k) \in Y
  BY <1>1, AppendProperties
<1>3. <<>> \in Y
  OBVIOUS
<1> HIDE DEF Y
<1>4. \E f : Is(f)
  <2>1. \A k \in 1 .. n : \A r \in Y : step[k][r] \in Y
    BY <1>2
  <2> HIDE DEF step
  <2>2. PICK f : Follows(f, n, <<>>, step) /\ \A k \in 0 .. n : f[k] \in Y
    BY <1>1, <1>3, <2>1, StepsWithin
  <2>3. ASSUME NEW k \in 1 .. n
        PROVE  step[k][f[k - 1]] = IF s[k] \in U THEN Append(f[k - 1], s[k]) ELSE f[k - 1]
    <3>1. k - 1 \in 0 .. n
      BY <1>1
    <3>2. f[k - 1] \in Y
      BY <2>2, <3>1
    <3> QED BY <3>2 DEF step
  <2>4. \A k \in 0 .. n : k # 0 => k \in 1 .. n
    BY <1>1
  <2>5. Is(f)
    BY <2>2, <2>3, <2>4 DEF Follows
  <2> QED BY <2>5
<1> DEFINE it == CHOOSE f : Is(f)
<1>5. Is(it)
  <2> HIDE DEF Is
  <2> QED BY <1>4, Zenon
<1>6. Keep(s, U) = it[n]
  BY Zenon DEF Keep, n
<1> HIDE DEF it
<1>7. it[0] = <<>> /\ \A k \in 1 .. n : it[k] = More(it[k - 1], k)
  <2>1. ASSUME NEW k \in 1 .. n PROVE it[k] = More(it[k - 1], k)
    <3>1. k \in 0 .. n /\ k # 0
      BY <1>1
    <3> QED BY <1>5, <3>1
  <2>2. it[0] = <<>>
    BY <1>1, <1>5
  <2> QED BY <2>1, <2>2
<1> HIDE DEF More
<1>8. \A k \in 0 .. n : it[k] \in Y
  <2> DEFINE T == [k \in 0 .. n |-> Y]
  <2>1. ASSUME NEW k \in 1 .. n, it[k - 1] \in T[k - 1] PROVE it[k] \in T[k]
    <3>1. k \in 0 .. n /\ k - 1 \in 0 .. n
      BY <1>1
    <3> QED BY <1>2, <1>7, <2>1, <3>1
  <2>2. it[0] \in T[0]
    BY <1>1, <1>3, <1>7
  <2>3. \A k \in 0 .. n : T[k] = Y
    OBVIOUS
  <2> HIDE DEF T
  <2>4. \A k \in 0 .. n : it[k] \in T[k]
    BY <1>1, <2>1, <2>2, StepsStay
  <2> QED BY <2>3, <2>4
<1> DEFINE cnt == [k \in 0 .. n |-> Len(it[k])]
<1>9. cnt \in [0 .. n -> Nat] /\ cnt[0] = 0 /\ cnt[n] = Len(Keep(s, U))
  <2>1. \A k \in 0 .. n : Len(it[k]) \in Nat
    BY <1>8, LenProperties DEF Y
  <2>2. 0 \in 0 .. n /\ n \in 0 .. n /\ Len(it[0]) = 0
    BY <1>1, <1>7
  <2> QED BY <1>6, <2>1, <2>2
<1>10. ASSUME NEW k \in 1 .. n
       PROVE  /\ s[k] \in U => /\ cnt[k] = cnt[k - 1] + 1 /\ it[k][cnt[k]] = s[k]
                               /\ \A j \in 1 .. cnt[k - 1] : it[k][j] = it[k - 1][j]
              /\ s[k] \notin U => cnt[k] = cnt[k - 1] /\ it[k] = it[k - 1]
  <2>1. k \in 0 .. n /\ k - 1 \in 0 .. n
    BY <1>1
  <2> DEFINE r == it[k - 1]
  <2>2. it[k] = More(r, k) /\ cnt[k] = Len(it[k]) /\ cnt[k - 1] = Len(r)
    BY <1>7, <2>1
  <2>3. IsSeq(r)
    BY <1>8, <2>1, SeqIsSeq DEF Y
  <2> HIDE DEF r, cnt
  <2>4. CASE s[k] \in U
    <3>1. it[k] = Append(r, s[k])
      BY <2>2, <2>4 DEF More
    <3>2. /\ Len(it[k]) = Len(r) + 1 /\ it[k][Len(r) + 1] = s[k]
          /\ \A j \in 1 .. Len(r) : it[k][j] = r[j]
      BY <2>3, <3>1, AppendAny
    <3> QED BY <2>2, <2>4, <3>2 DEF r
  <2>5. CASE s[k] \notin U
    BY <2>2, <2>5 DEF More, r
  <2> QED BY <2>4, <2>5
<1> HIDE DEF cnt
<1> DEFINE In(r, m, k) == \A i \in 1 .. k : s[i] \in U => cnt[i] \in 1 .. m /\ r[cnt[i]] = s[i]
           T == [k \in 0 .. n |-> {x \in {it[k]} : In(it[k], cnt[k], k)}]
<1>11. ASSUME NEW k \in 1 .. n, it[k - 1] \in T[k - 1] PROVE it[k] \in T[k]
  <2>1. k \in 0 .. n /\ k - 1 \in 0 .. n /\ k \in Int
    BY <1>1
  <2>2. In(it[k - 1], cnt[k - 1], k - 1)
    <3> HIDE DEF In
    <3> QED BY <1>11, <2>1
  <2>3. cnt[k] \in Nat /\ cnt[k - 1] \in Nat
    BY <1>9, <2>1
  <2>4. \A i \in 1 .. k : i \in 1 .. k - 1 \/ i = k
    BY <2>1
  <2>5. In(it[k], cnt[k], k)
    <3> SUFFICES ASSUME NEW i \in 1 .. k, s[i] \in U
                 PROVE  cnt[i] \in 1 .. cnt[k] /\ it[k][cnt[i]] = s[i]
      OBVIOUS
    <3>1. CASE i = k
      <4>1. cnt[k] = cnt[k - 1] + 1 /\ it[k][cnt[k]] = s[k]
        BY <1>10, <3>1
      <4> QED BY <2>3, <3>1, <4>1
    <3>2. CASE i \in 1 .. k - 1
      <4>1. cnt[i] \in 1 .. cnt[k - 1] /\ it[k - 1][cnt[i]] = s[i]
        BY <2>2, <3>2
      <4>2. CASE s[k] \in U
        <5>1. cnt[k] = cnt[k - 1] + 1 /\ \A j \in 1 .. cnt[k - 1] : it[k][j] = it[k - 1][j]
          BY <1>10, <4>2
        <5> QED BY <2>3, <4>1, <5>1
      <4>3. CASE s[k] \notin U
        BY <1>10, <4>1, <4>3
      <4> QED BY <4>2, <4>3
    <3> QED BY <2>4, <3>1, <3>2
  <2> HIDE DEF In
  <2> QED BY <2>1, <2>5
<1>12. it[0] \in T[0]
  <2>1. 0 \in 0 .. n
    BY <1>1
  <2>2. In(it[0], cnt[0], 0)
    OBVIOUS
  <2> HIDE DEF In
  <2> QED BY <2>1, <2>2
<1>13. In(it[n], cnt[n], n)
  <2>1. n \in 0 .. n
    BY <1>1
  <2> HIDE DEF T
  <2>2. \A k \in 0 .. n : it[k] \in T[k]
    BY <1>1, <1>11, <1>12, StepsStay
  <2>3. it[n] \in T[n]
    BY <2>1, <2>2
  <2> HIDE DEF In
  <2> QED BY <2>1, <2>3 DEF T
<1>14. Counts(cnt, s, U)
  <2>1. \A i \in 1 .. n :
          /\ s[i] \in U => /\ cnt[i] = cnt[i - 1] + 1 /\ cnt[i] \in 1 .. Len(Keep(s, U))
                           /\ Keep(s, U)[cnt[i]] = s[i]
          /\ s[i] \notin U => cnt[i] = cnt[i - 1]
    BY <1>6, <1>9, <1>10, <1>13
  <2> QED BY <1>9, <2>1 DEF Counts, n
<1> QED BY <1>14

\* The places of the PHIs and of the instructions of a block: cnt[i] of its
\* first i instructions are kept.
Counting(cnt, b) ==
  /\ cnt \in [0 .. M.blks[b].n_inst -> Nat] /\ cnt[0] = 0
  /\ SizeOf(b) = Heads(b) + cnt[M.blks[b].n_inst]
  /\ \A i \in 1 .. M.blks[b].n_inst :
       LET k == Nth(b, i)
           z == FirstOf(b) + Heads(b) + cnt[i] - 1
       IN /\ k \in repl.dead => cnt[i] = cnt[i - 1]
          /\ k \notin repl.dead =>
               /\ cnt[i] = cnt[i - 1] + 1 /\ z \in Spot(b) /\ z \in DOMAIN Order
               /\ Order[z] = k /\ After.insts[z] = NewInst(Order, k)
LEMMA FirstOfNat ==
  ASSUME Rewritable, NEW b \in Blocks
  PROVE  FirstOf(b) \in Nat \ {0} /\ SizeOf(b) \in Nat
<1>1. b - 1 \in 0 .. Len(M.blks)
  BY OffFacts
<1>2. Off[b - 1] \in Nat
  BY <1>1, OffFacts
<1> QED BY <1>2, FirstOfRight, OffFacts

LEMMA CountingExists ==
  ASSUME Rewritable, NumbersFit, NEW b \in Blocks
  PROVE  \E cnt : Counting(cnt, b)
<1> DEFINE n == M.blks[b].n_inst
           s == InstSeq(b)
           U == DOMAIN M.insts \ repl.dead
           h == Heads(b)
           F == FirstOf(b)
<1>1. /\ IsSeq(s) /\ Len(s) = n /\ \A i \in 1 .. n : s[i] = Nth(b, i)
  BY InstSeqFacts DEF Rewritable, Nth
<1>2. Typed
  BY DEF Rewritable
<1>3. \A i \in 1 .. n : Nth(b, i) \in DOMAIN M.insts
  BY <1>2, NthFacts
<1>4. h \in Nat /\ SizeOf(b) = h + Len(Kept(b)) /\ F \in Nat \ {0}
      /\ Len(Kept(b)) \in Nat /\ \A j \in 1 .. Len(Kept(b)) : NewCode(b)[h + j] = Kept(b)[j]
  BY CodeSplit, FirstOfNat
<1>5. PICK cnt : Counts(cnt, s, U)
  BY <1>1, KeepSteps
<1>6. /\ cnt \in [0 .. n -> Nat] /\ cnt[0] = 0 /\ cnt[n] = Len(Kept(b))
      /\ \A i \in 1 .. n :
           /\ Nth(b, i) \in U => /\ cnt[i] = cnt[i - 1] + 1 /\ cnt[i] \in 1 .. Len(Kept(b))
                                 /\ Kept(b)[cnt[i]] = Nth(b, i)
           /\ Nth(b, i) \notin U => cnt[i] = cnt[i - 1]
  <2>1. Kept(b) = Keep(s, U)
    BY DEF Kept
  <2> HIDE DEF s, U, n
  <2> QED BY <1>1, <1>5, <2>1 DEF Counts
<1> HIDE DEF n, s, h, F
<1>7. ASSUME NEW i \in 1 .. n, Nth(b, i) \notin repl.dead
      PROVE  LET k == Nth(b, i)
                 z == F + h + cnt[i] - 1
             IN /\ cnt[i] = cnt[i - 1] + 1 /\ z \in Spot(b) /\ z \in DOMAIN Order
                /\ Order[z] = k /\ After.insts[z] = NewInst(Order, k)
  <2> DEFINE k == Nth(b, i)
             j == h + cnt[i]
             z == F + j - 1
  <2>1. cnt[i] = cnt[i - 1] + 1 /\ cnt[i] \in 1 .. Len(Kept(b)) /\ Kept(b)[cnt[i]] = k
    BY <1>3, <1>6, <1>7
  <2>2. j \in 1 .. SizeOf(b) /\ NewCode(b)[j] = k
    BY <1>4, <2>1
  <2>3. F + h + cnt[i] - 1 = z
    BY <1>4, <2>1
  <2> HIDE DEF j, k
  <2>4. z \in Spot(b) /\ z \in DOMAIN Order /\ Order[z] = k
    BY <2>2, PlacesFacts DEF F
  <2> HIDE DEF z
  <2>5. After.insts[z] = NewInst(Order, k)
    BY <2>4, AfterFacts
  <2> QED BY <2>1, <2>3, <2>4, <2>5 DEF k
<1>8. \A i \in 1 .. n : Nth(b, i) \in repl.dead => cnt[i] = cnt[i - 1]
  BY <1>6
<1>9. SizeOf(b) = h + cnt[n]
  BY <1>4, <1>6
<1> HIDE DEF U
<1>10. Counting(cnt, b)
  BY <1>6, <1>7, <1>8, <1>9 DEF Counting, n, h, F
<1> QED BY <1>10

LEMMA HeadPlaces ==
  ASSUME Rewritable, NumbersFit, NEW b \in Blocks, NEW j \in 1 .. Heads(b)
  PROVE  LET z == FirstOf(b) + j - 1
             p == PhisOf(b)[j]
         IN /\ z \in Spot(b) /\ z \in DOMAIN Order /\ Order[z] = FakeId(p)
            /\ After.insts[z] = NewInst(Order, FakeId(p))
            /\ p \in DOMAIN phi /\ phi[p].blk = b
<1> DEFINE z == FirstOf(b) + j - 1
           p == PhisOf(b)[j]
<1>1. j \in 1 .. SizeOf(b) /\ NewCode(b)[j] = FakeId(p)
  BY CodeSplit
<1>2. z \in Spot(b) /\ z \in DOMAIN Order /\ Order[z] = FakeId(p)
  BY <1>1, PlacesFacts
<1>3. p \in Range(PhisOf(b))
  BY KeptFacts DEF Range
<1> HIDE DEF z, p
<1>4. p \in DOMAIN phi /\ phi[p].blk = b
  BY <1>3, KeptFacts
<1> QED BY <1>2, <1>4, AfterFacts DEF z, p

\* What dies in a reachable block, and that only promoted loads are replaced.
LEMMA DeadFacts ==
  ASSUME NEW G, Ground(G)
  PROVE  /\ \A k \in DOMAIN repl.value : k \in repl.dead /\ k \in DOMAIN M.insts /\ Gets(k)
         /\ \A b \in Reach : \A i \in 1 .. M.blks[b].n_inst :
              /\ Nth(b, i) \in repl.dead <=> Dies(Nth(b, i))
              /\ Gets(Nth(b, i)) =>
                   /\ Nth(b, i) \in DOMAIN repl.value
                   /\ repl.value[Nth(b, i)] = G[b][i - 1][VarOf(M.insts[Nth(b, i)], 1)]
         /\ \A p \in DOMAIN phi : FakeId(p) \notin DOMAIN repl.value /\ ~ IsConst(FakeId(p))
         /\ \A x : IsConst(x) => x \notin DOMAIN repl.value
<1>1. /\ Rewritable /\ NumbersFit /\ Final(M) /\ Typed /\ Reach \subseteq Blocks /\ 1 \in Reach
      /\ Renaming /\ \A b \in Reach : GotOf(repl.value, G[b], b) /\ DiedOf(repl.dead, b)
      /\ OnlyDead(repl.dead, repl.value)
  BY GroundParts DEF Ground, TrailAt
<1>2. \A b \in Reach : \A i \in 1 .. M.blks[b].n_inst :
        /\ Nth(b, i) \in repl.dead <=> Dies(Nth(b, i))
        /\ Gets(Nth(b, i)) =>
             /\ Nth(b, i) \in DOMAIN repl.value
             /\ repl.value[Nth(b, i)] = G[b][i - 1][VarOf(M.insts[Nth(b, i)], 1)]
  BY <1>1 DEF GotOf, DiedOf, OnlyDead
<1>3. ASSUME NEW k \in DOMAIN repl.value
      PROVE  k \in repl.dead /\ k \in DOMAIN M.insts /\ Gets(k)
  <2>1. Gets(k)
    BY <1>1 DEF OnlyDead
  <2>2. PICK c \in Reach : k \in Home(M, c)
    BY <1>1 DEF Renaming, ReplRight, ReplacedIn
  <2>3. M.blks[c].first \in Nat /\ M.blks[c].n_inst \in Nat /\ Home(M, c) \subseteq DOMAIN M.insts
    BY <1>1, FinalParts
  <2> DEFINE i == k - M.blks[c].first + 1
  <2>4. i \in 1 .. M.blks[c].n_inst /\ k = Nth(c, i)
    BY <2>2, <2>3 DEF Home, Nth
  <2> HIDE DEF i
  <2>5. Dies(Nth(c, i))
    BY <2>1, <2>4 DEF Dies
  <2> QED BY <1>2, <2>1, <2>2, <2>3, <2>4, <2>5
<1>4. \A k \in DOMAIN M.insts : k \in Nat \ {0} /\ ~ IsFake(k)
  BY <1>1, FinalParts, Mem2RegAssumption DEF NumbersFit, IsFake
<1>5. \A p \in DOMAIN phi : IsFake(FakeId(p)) /\ FakeId(p) \in Nat
  BY <1>1, KeptFacts
<1>6. \A x : IsConst(x) => x \notin DOMAIN repl.value
  BY <1>3, <1>4 DEF IsConst
<1> QED BY <1>2, <1>3, <1>4, <1>5, <1>6 DEF IsConst

\* What remap makes of the values kept in their places.
LEMMA RemapKept ==
  ASSUME NEW G, Ground(G)
  PROVE  /\ \A x : IsConst(x) => remap(Order, x) = x
         /\ \A z \in DOMAIN Order : \A p \in DOMAIN phi :
              Order[z] = FakeId(p) => remap(Order, Order[z]) = z
         /\ \A z \in DOMAIN Order :
              Order[z] \in DOMAIN M.insts \ repl.dead => remap(Order, Order[z]) = z
         /\ \A x \in DOMAIN repl.value : remap(Order, x) = remap(Order, repl.value[x])
<1>1. Rewritable /\ NumbersFit /\ ChainsFit /\ Final(M)
  BY GroundParts DEF Ground
<1>2. \A k \in DOMAIN M.insts : ~ IsConst(k)
  BY <1>1, FinalParts DEF IsConst
<1> QED BY <1>1, <1>2, DeadFacts, RemapEnds

\* The allocas of block 1 that stay: none goes up, and the parameters' stay
\* where they are.
LEMMA EntryPlaces ==
  ASSUME NEW G, Ground(G)
  PROVE  /\ Heads(1) = 0 /\ FirstOf(1) = 1 /\ M.blks[1].first = 1
         /\ \A i : Nth(1, i) = 1 + i - 1
<1>1. Rewritable /\ NumbersFit /\ 1 \in Blocks /\ Laid(M) /\ PhisSpread(phi)
  BY GroundParts DEF Ground, Laid, Blocks
<1>2. Heads(1) = 0
  <2>1. Heads(1) \in Nat
    BY <1>1, CodeSplit
  <2>2. SUFFICES ASSUME 1 \in 1 .. Heads(1) PROVE FALSE
    BY <2>1
  <2>3. PhisOf(1)[1] \in DOMAIN phi /\ phi[PhisOf(1)[1]].blk = 1
    BY <1>1, <2>2, HeadPlaces
  <2> QED BY <1>1, <2>3 DEF PhisSpread
<1>3. FirstOf(1) = 1
  <2>1. Off[0] = 0 /\ FirstOf(1) = Off[1 - 1] + 1
    BY <1>1, OffFacts, FirstOfRight
  <2>2. 1 - 1 = 0
    OBVIOUS
  <2> QED BY <2>1, <2>2
<1> QED BY <1>1, <1>2, <1>3 DEF Laid, Nth

LEMMA LocalPlaces ==
  ASSUME NEW G, Ground(G), NEW a \in Locals, a \notin Range(pvar)
  PROVE  LET z == remap(Order, a)
         IN /\ z \in DOMAIN Order /\ Order[z] = a /\ z \in DOMAIN M.insts /\ a \in DOMAIN M.insts
            /\ a <= NParams => z = a
<1> DEFINE n == M.blks[1].n_inst
           d == Len(Decls)
           z == remap(Order, a)
<1>1. /\ Rewritable /\ NumbersFit /\ 1 \in Blocks /\ Laid(M) /\ PvarRight /\ 1 \in Reach
      /\ Final(M)
  BY GroundParts DEF Ground, Laid, Blocks
<1>2. /\ Heads(1) = 0 /\ FirstOf(1) = 1
  BY EntryPlaces
<1>3. /\ d \in Nat /\ n \in Nat /\ d <= n /\ Len(M.insts) \in Nat /\ d <= Len(M.insts)
      /\ DOMAIN M.insts = 1 .. Len(M.insts)
      /\ \A k \in 1 .. d : M.insts[k] = low_decl(k)
      /\ NParams \in Nat /\ NParams <= d
  BY <1>1, DeclsFacts, FinalParts, Mem2RegAssumption, LoweringAssumption DEF Laid
<1>4. a \in 1 .. d /\ M.insts[a] = Inst("alloca", <<>>)
  <2>1. PICK v \in 1 .. NVars : a = Loc(v)
    BY DEF Locals
  <2> QED BY <1>3, <2>1, DeclsFacts
<1> HIDE DEF n, d
<1>5. \A i \in 1 .. n : Nth(1, i) = i
  <2>1. \A i \in 1 .. n : 1 + i - 1 = i
    BY <1>3
  <2> QED BY <2>1, EntryPlaces
<1>6. PICK cnt : Counting(cnt, 1)
  BY <1>1, CountingExists
<1>7. /\ cnt \in [0 .. n -> Nat] /\ cnt[0] = 0
      /\ \A i \in 1 .. n :
           /\ i \in repl.dead => cnt[i] = cnt[i - 1]
           /\ i \notin repl.dead =>
                LET y == FirstOf(1) + Heads(1) + cnt[i] - 1 IN
                /\ cnt[i] = cnt[i - 1] + 1
                /\ y \in DOMAIN Order /\ Order[y] = i
  <2>1. \A i \in 1 .. n :
           /\ Nth(1, i) \in repl.dead => cnt[i] = cnt[i - 1]
           /\ Nth(1, i) \notin repl.dead =>
                LET y == FirstOf(1) + Heads(1) + cnt[i] - 1 IN
                /\ cnt[i] = cnt[i - 1] + 1
                /\ y \in DOMAIN Order /\ Order[y] = Nth(1, i)
    BY <1>6 DEF Counting, n
  <2> QED BY <1>5, <1>6, <2>1 DEF Counting, n
<1>8. \A i \in 1 .. n : i \in repl.dead => Dies(i)
  <2>1. \A i \in 1 .. M.blks[1].n_inst : Nth(1, i) \in repl.dead <=> Dies(Nth(1, i))
    BY <1>1, DeadFacts
  <2> QED BY <1>5, <2>1 DEF n
<1>9. a \notin repl.dead
  <2>1. ~ Dies(a)
    BY <1>4 DEF Dies, Puts, Gets, Inst
  <2> QED BY <1>3, <1>4, <1>8, <2>1
<1>10. \A i \in 1 .. n : i <= NParams => i \notin repl.dead
  <2> SUFFICES ASSUME NEW i \in 1 .. n, i <= NParams, Dies(i) PROVE FALSE
    BY <1>8
  <2>1. M.insts[i] = low_decl(i)
    BY <1>3
  <2>2. \A v \in DOMAIN pvar : pvar[v] \in Int /\ pvar[v] > NParams
    BY <1>1, <1>3 DEF PvarRight
  <2>3. CASE \E v \in 1 .. NVars : Loc(v) = i
    <3>1. M.insts[i].op = "alloca"
      BY <2>1, <2>3 DEF low_decl, Inst
    <3>2. i \in Range(pvar)
      BY <3>1 DEF Dies, Puts, Gets
    <3>3. PICK v \in DOMAIN pvar : pvar[v] = i
      BY <3>2 DEF Range
    <3> QED BY <1>3, <2>2, <3>3
  <2>4. CASE ~ \E v \in 1 .. NVars : Loc(v) = i
    <3>1. M.insts[i].op = "store" /\ M.insts[i].ops[2] = i - 1
      BY <2>1, <2>4 DEF low_decl, Store, Inst
    <3>2. VarOf(M.insts[i], 2) # None
      BY <3>1 DEF Dies, Puts, Gets
    <3>3. PICK v \in DOMAIN pvar : pvar[v] = i - 1
      BY <3>1, <3>2, VarOfRight
    <3> QED BY <1>3, <2>2, <3>3
  <2> QED BY <2>3, <2>4
<1> DEFINE T == [i \in 0 .. n |-> {x \in Nat : x <= i /\ (i <= NParams => x = i)}]
<1>11. \A i \in 0 .. n : cnt[i] \in T[i]
  <2>1. ASSUME NEW i \in 1 .. n, cnt[i - 1] \in T[i - 1] PROVE cnt[i] \in T[i]
    <3>1. i - 1 \in 0 .. n /\ i \in 0 .. n
      BY <1>3
    <3>2. cnt[i - 1] \in Nat /\ cnt[i - 1] <= i - 1 /\ (i - 1 <= NParams => cnt[i - 1] = i - 1)
      BY <2>1, <3>1
    <3>3. cnt[i] \in Nat /\ cnt[i] <= i
      BY <1>7, <3>1, <3>2
    <3>4. i <= NParams => cnt[i] = i
      BY <1>3, <1>7, <1>10, <3>1, <3>2
    <3> QED BY <3>1, <3>3, <3>4
  <2>2. cnt[0] \in T[0]
    BY <1>3, <1>7
  <2> HIDE DEF T
  <2> QED BY <1>3, <2>1, <2>2, StepsStay
<1>12. cnt[a] \in Nat /\ cnt[a] <= a /\ (a <= NParams => cnt[a] = a)
  <2>1. a \in 0 .. n
    BY <1>3, <1>4
  <2> QED BY <1>11, <2>1
<1>13. cnt[a] \in DOMAIN Order /\ Order[cnt[a]] = a
  <2>1. a \in 1 .. n /\ FirstOf(1) + Heads(1) + cnt[a] - 1 = cnt[a]
    BY <1>2, <1>3, <1>4, <1>12
  <2> QED BY <1>7, <1>9, <2>1
<1>14. z = cnt[a]
  <2>1. Order[cnt[a]] \in DOMAIN M.insts \ repl.dead
    BY <1>3, <1>4, <1>9, <1>13
  <2>2. remap(Order, Order[cnt[a]]) = cnt[a]
    BY <1>13, <2>1, RemapKept
  <2> QED BY <1>13, <2>2
<1>15. cnt[a] # 0
  <2>1. DOMAIN Order = 1 .. Len(Order) /\ Len(Order) \in Nat
    BY <1>1, PlacesFacts
  <2> QED BY <1>13, <2>1
<1> HIDE DEF z
<1> QED BY <1>3, <1>4, <1>12, <1>13, <1>14, <1>15 DEF z

---------------------------------------------------------------------------
(* The run of a block before and after rewrite, side by side.              *)

LEMMA AfterDomain ==
  ASSUME Rewritable
  PROVE  /\ DOMAIN After.insts = 1 .. Len(After.insts) /\ Len(After.insts) \in Nat
         /\ DOMAIN Order \subseteq DOMAIN After.insts
<1> DEFINE A == [k \in DOMAIN Order |-> NewInst(Order, Order[k])]
           m == Len(M.insts) - Len(Order)
           B == [k \in 1 .. m |-> Inst("nop", <<>>)]
           n == Len(Order)
<1>1. n \in Nat /\ DOMAIN Order = 1 .. n /\ Len(After.insts) \in Nat /\ n <= Len(After.insts)
  BY PlacesFacts, AfterFacts
<1>2. m \in Int
  <2>1. Len(M.insts) \in Nat
    BY FinalParts DEF Rewritable, Typed
  <2> QED BY <1>1, <2>1
<1> HIDE DEF n, m
<1>3. IsSeq(A)
  <2>1. A = [k \in 1 .. n |-> A[k]]
    BY <1>1
  <2> HIDE DEF A
  <2> QED BY <1>1, <2>1, FunctionIsSeq
<1>4. IsSeq(B)
  <2>1. CASE m \in Nat
    <3>1. B = [k \in 1 .. m |-> B[k]]
      OBVIOUS
    <3> HIDE DEF B
    <3> QED BY <2>1, <3>1, FunctionIsSeq
  <2>2. CASE m \notin Nat
    <3>1. 1 .. m = {}
      BY <1>2, <2>2
    <3>2. B = [k \in {} |-> Inst("nop", <<>>)]
      BY <3>1
    <3>3. B = <<>>
      BY <3>2
    <3> QED BY <3>3, EmptyIsSeq
  <2> QED BY <2>1, <2>2
<1>5. After.insts = A \o B
  BY DEF After, A, B, m
<1> HIDE DEF A, B
<1>6. IsSeq(After.insts)
  <2>1. IsSeq(A \o B)
    BY ONLY <1>3, <1>4, ConcatAny
  <2> QED BY <1>5, <2>1
<1>7. DOMAIN After.insts = 1 .. Len(After.insts)
  BY <1>6, DomainOfSeq
<1> QED BY <1>1, <1>7

\* What an operand x of the procedure before is worth after it, w being the
\* values in the places.
Now(w, x) == Value(w, Identity(After), remap(Order, x))
LEMMA NowFacts ==
  ASSUME NEW G, Ground(G), NEW b \in Reach, NEW k \in Int, NEW x \in Int, Supplied(x, b, k)
  PROVE  LET y == remap(Order, x)
         IN /\ y # None
            /\ (IsConst(y) /\ y \in Int) \/ (~ IsConst(y) /\ y \in DOMAIN Order)
            /\ \A w : Now(w, x) = IF IsConst(y) THEN y ELSE w[y]
            /\ ~ IsConst(y) => \E d \in Reach : y \in Spot(d) /\ (d = b \/ SDom(d, b))
<1> DEFINE y == remap(Order, x)
<1>1. /\ Renaming /\ ChainsFit /\ Rewritable
  BY GroundParts DEF Ground
<1>2. \/ IsConst(y)
      \/ y \in DOMAIN Order /\ \E d \in Reach : y \in Spot(d) /\ (d = b \/ SDom(d, b))
  BY <1>1, RemapFacts
<1>3. DOMAIN Order = 1 .. Len(Order) /\ Len(Order) \in Nat
  BY <1>1, PlacesFacts
<1>4. IsConst(y) => y \in Int
  <2> DEFINE u == Iterate(Chase, x, MaxChase)
             s == SelectInSeq(Order, LAMBDA q : q = u)
  <2>1. u \in Int
    BY <1>1, ChainFacts
  <2>2. y = LET new == IF IsConst(u) THEN 0 ELSE s IN IF new = 0 THEN u ELSE new
    BY DEF remap
  <2>3. s \in Int
    <3>1. IsSeq(Order)
      BY <1>1, PlacesFacts
    <3> HIDE DEF u
    <3>2. (s = 0 /\ u \notin Range(Order)) \/ (s # 0 /\ s \in DOMAIN Order /\ Order[s] = u)
      BY ONLY <3>1, SlotFacts
    <3> QED BY <1>3, <3>2
  <2> HIDE DEF u, s, y
  <2> QED BY <2>1, <2>2, <2>3
<1> HIDE DEF y
<1>5. ~ IsConst(y) => y \in DOMAIN Order
  BY <1>2
<1>6. y # None
  BY <1>3, <1>5 DEF None, IsConst
<1>7. \A w : Now(w, x) = IF IsConst(y) THEN y ELSE w[y]
  <2>1. y \in DOMAIN Order => Identity(After)[y] = y
    BY <1>1, AfterDomain DEF Identity
  <2> QED BY <1>5, <2>1 DEF Now, Value, y
<1> QED BY <1>2, <1>4, <1>5, <1>6, <1>7 DEF y

\* The instructions of a block, one after the other.
Begun(mm, vv) == [mem |-> mm, val |-> vv, out |-> None, to |-> <<>>, stop |-> FALSE]
RunIs(it, m, lc, b, mm, vv) ==
  LET n == m.blks[b].n_inst IN
  /\ it[0] = Begun(mm, vv) /\ it[n] = RunBlock(m, lc, b, mm, vv)
  /\ \A k \in 1 .. n : it[k] = Exec(m, lc, it[k - 1], m.blks[b].first + k - 1)
LEMMA RunSteps ==
  ASSUME NEW m, NEW lc, NEW b, m.blks[b].n_inst \in Nat, NEW mm, NEW vv
  PROVE  \E it : RunIs(it, m, lc, b, mm, vv)
<1> DEFINE s == [k \in 1 .. m.blks[b].n_inst |-> m.blks[b].first + k - 1]
           n == Len(s)
           x0 == [mem |-> mm, val |-> vv, out |-> None, to |-> <<>>, stop |-> FALSE]
           Do(x, k) == Exec(m, lc, x, s[k])
           Is(f) == f = [k \in 0 .. n |-> IF k = 0 THEN x0 ELSE Do(f[k - 1], k)]
           Upto(f, k) == /\ f = [j \in 0 .. k |-> f[j]] /\ f[0] = x0
                         /\ \A j \in 1 .. k : f[j] = Do(f[j - 1], j)
           U == {k \in Nat : k <= n => \E f : Upto(f, k)}
<1>1. /\ n = m.blks[b].n_inst /\ n \in Nat
      /\ \A k \in 1 .. n : s[k] = m.blks[b].first + k - 1
  <2>1. s = [k \in 1 .. m.blks[b].n_inst |-> s[k]]
        /\ \A k \in 1 .. m.blks[b].n_inst : s[k] = m.blks[b].first + k - 1
    OBVIOUS
  <2> HIDE DEF s
  <2>2. n = m.blks[b].n_inst
    BY <2>1, FunctionIsSeq
  <2> QED BY <2>1, <2>2
<1> HIDE DEF s, n, Do, x0
<1>5. 0 \in U
  <2> DEFINE f == [j \in 0 .. 0 |-> x0]
  <2>1. f = [j \in 0 .. 0 |-> f[j]] /\ f[0] = x0 /\ 1 .. 0 = {}
    OBVIOUS
  <2> HIDE DEF f
  <2> QED BY <2>1
<1>6. ASSUME NEW k \in Nat, k \in U PROVE k + 1 \in U
  <2> SUFFICES ASSUME k + 1 <= n PROVE \E f : Upto(f, k + 1)
    OBVIOUS
  <2>1. PICK f : Upto(f, k)
    BY <1>1, <1>6
  <2> DEFINE g == [j \in 0 .. k + 1 |-> IF j <= k THEN f[j] ELSE Do(f[k], k + 1)]
  <2>2. g = [j \in 0 .. k + 1 |-> g[j]] /\ g[0] = x0
    BY <2>1
  <2>3. ASSUME NEW j \in 1 .. k + 1 PROVE g[j] = Do(g[j - 1], j)
    <3>1. j \in 0 .. k + 1 /\ j - 1 \in 0 .. k + 1 /\ j - 1 <= k
      OBVIOUS
    <3>2. g[j - 1] = f[j - 1] /\ g[j] = IF j <= k THEN f[j] ELSE Do(f[k], k + 1)
      BY <3>1
    <3> HIDE DEF g
    <3>3. CASE j <= k
      <4>1. j \in 1 .. k
        BY <3>3
      <4>2. f[j] = Do(f[j - 1], j)
        BY <2>1, <4>1
      <4>3. g[j] = f[j] /\ g[j - 1] = f[j - 1]
        BY <3>2, <3>3
      <4> QED BY <4>2, <4>3, Zenon
    <3>4. CASE ~ (j <= k)
      <4>1. j = k + 1 /\ j - 1 = k
        BY <3>4
      <4>2. g[j] = Do(f[k], k + 1) /\ g[j - 1] = f[k]
        BY <3>2, <3>4, <4>1
      <4> QED BY <4>1, <4>2, Zenon
    <3> QED BY <3>3, <3>4
  <2> HIDE DEF g
  <2> QED BY <2>2, <2>3
<1>7. \E f : Is(f)
  <2>1. n \in U
    <3> HIDE DEF U
    <3> QED BY <1>1, <1>5, <1>6, Induction
  <2>2. PICK f : Upto(f, n)
    BY <1>1, <2>1
  <2>0. \A k \in 0 .. n : k # 0 => k \in 1 .. n
    BY <1>1
  <2>3. \A k \in 0 .. n : f[k] = IF k = 0 THEN x0 ELSE Do(f[k - 1], k)
    BY <2>0, <2>2
  <2>4. Is(f)
    BY <2>2, <2>3
  <2> HIDE DEF Is
  <2> QED BY <2>4
<1> DEFINE it == CHOOSE f : Is(f)
<1>8. Is(it)
  <2> HIDE DEF Is
  <2> QED BY <1>7
<1>9. RunBlock(m, lc, b, mm, vv) = it[n]
  BY Zenon DEF RunBlock, Through, Do, n, s, x0
<1> HIDE DEF it
<1>10. it[0] = x0
  BY <1>1, <1>8
<1>11. ASSUME NEW k \in 1 .. n PROVE it[k] = Exec(m, lc, it[k - 1], m.blks[b].first + k - 1)
  <2>1. k \in 0 .. n /\ k # 0
    BY <1>1
  <2>2. it[k] = Do(it[k - 1], k) /\ s[k] = m.blks[b].first + k - 1
    BY <1>1, <1>8, <2>1
  <2> QED BY <2>2, Zenon DEF Do
<1>12. x0 = Begun(mm, vv)
  BY DEF x0, Begun
<1>13. RunIs(it, m, lc, b, mm, vv)
  BY <1>1, <1>9, <1>10, <1>11, <1>12 DEF RunIs
<1> QED BY <1>13

\* What each kind of instruction does.
SetMem(r, a, u) == [r EXCEPT !.mem[a] = u]
SetVal(r, d, u) == [r EXCEPT !.val[d] = u]
Returns(r, u) == [r EXCEPT !.out = u, !.stop = TRUE]
Takes(r, t) == [r EXCEPT !.to = t, !.stop = TRUE]
LEMMA ExecOf ==
  ASSUME NEW m, NEW lc, NEW r, NEW k
  PROVE  LET I == m.insts[k]
             arg == Value(r.val, lc, I.ops[1])
             e == Exec(m, lc, r, k)
         IN /\ r.stop => e = r
            /\ ~ r.stop =>
                 /\ I.op = "store" => e = SetMem(r, I.ops[2], arg)
                 /\ I.op = "load" => e = SetVal(r, lc[k], r.mem[I.ops[1]])
                 /\ I.op = "add" => e = SetVal(r, lc[k], Incremented(arg))
                 /\ I.op = "ret" /\ I.ops # <<>> => e = Returns(r, arg)
                 /\ I.op \in {"br", "br_cond"} \/ (I.op = "ret" /\ I.ops = <<>>) =>
                      e = Takes(r, Targets(I))
                 /\ I.op \in {"alloca", "phi", "nop"} => e = r
<1> DEFINE I == m.insts[k]
           arg == Value(r.val, lc, I.ops[1])
           e == Exec(m, lc, r, k)
           A == SetMem(r, I.ops[2], arg)
           B == SetVal(r, lc[k], r.mem[I.ops[1]])
           C == SetVal(r, lc[k], Incremented(arg))
           D == Returns(r, arg)
           E == Takes(r, Targets(I))
<1>1. e = IF r.stop THEN r
          ELSE CASE I.op = "store" -> A [] I.op = "load" -> B [] I.op = "add" -> C
                 [] I.op = "ret" /\ I.ops # <<>> -> D
                 [] I.op \in Terminators /\ ~ (I.op = "ret" /\ I.ops # <<>>) -> E
                 [] OTHER -> r
  BY Zenon DEF Exec, SetMem, SetVal, Returns, Takes
<1> HIDE DEF A, B, C, D, E, e, I
<1>2. /\ r.stop => e = r
      /\ ~ r.stop =>
           /\ I.op = "store" => e = A
           /\ I.op = "load" => e = B
           /\ I.op = "add" => e = C
           /\ I.op = "ret" /\ I.ops # <<>> => e = D
           /\ I.op \in {"br", "br_cond"} \/ (I.op = "ret" /\ I.ops = <<>>) => e = E
           /\ I.op \in {"alloca", "phi", "nop"} => e = r
  BY <1>1 DEF Terminators
<1> QED BY <1>2, Zenon DEF A, B, C, D, E, e, I

\* An instruction of a reachable block, and the operands it reads.
LEMMA CodeOf ==
  ASSUME NEW G, Ground(G), NEW b \in Reach, NEW i \in 1 .. M.blks[b].n_inst
  PROVE  LET k == Nth(b, i)
             I == M.insts[k]
         IN /\ b \in Blocks /\ k \in DOMAIN M.insts /\ k \in Home(M, b) /\ k \in Nat \ {0}
            /\ ~ IsFake(k) /\ Nth(b, i + 1) = k + 1 /\ i - 1 \in 0 .. M.blks[b].n_inst
            /\ I.op \in LowOps
            /\ I.op = "store" => I.ops[2] \in Locals /\ I.ops # <<>>
            /\ I.op = "load" => I.ops[1] \in Locals
            /\ I.op \in {"load", "add"} => I.ops # <<>>
            /\ TakesValue(I) =>
                 /\ I.ops[1] \in Int /\ Supplied(I.ops[1], b, k)
                 /\ Constant(I.ops[1]) \/ (I.ops[1] \in Values(M, b) /\ I.ops[1] < k)
<1> DEFINE k == Nth(b, i)
           I == M.insts[k]
<1>1. Final(M) /\ Typed /\ Rewritable /\ NumbersFit /\ Laid(M) /\ b \in Blocks
  BY GroundParts DEF Ground
<1>2. k \in Home(M, b) /\ k \in DOMAIN M.insts
  BY <1>1, NthFacts
<1>3. k \in Nat \ {0} /\ ~ IsFake(k)
  BY <1>1, <1>2, KeptFacts
<1>4. M.blks[b].first \in Nat \ {0} /\ M.blks[b].n_inst \in Nat /\ Shaped(M)
  BY <1>1, FinalParts
<1>5. Nth(b, i + 1) = k + 1 /\ i - 1 \in 0 .. M.blks[b].n_inst
  BY <1>4 DEF Nth
<1>6. Made(I) /\ Fed(M, b, k)
  BY <1>1, <1>2, <1>4 DEF Shaped, Blocks
<1>7. Aimed(I)
  BY <1>1, <1>2 DEF Laid
<1>8. I.op = "store" => I.ops # <<>>
  <2> DEFINE c == I.ops
  <2>1. I.op = "store" => Len(c) = 2
    BY <1>6 DEF Made
  <2>2. Len(<<>>) = 0
    OBVIOUS
  <2> HIDE DEF c
  <2>3. I.op = "store" => c # <<>>
    BY <2>1, <2>2
  <2> QED BY <2>3 DEF c
<1>9. TakesValue(I) =>
        /\ I.ops[1] \in Int /\ Supplied(I.ops[1], b, k)
        /\ Constant(I.ops[1]) \/ (I.ops[1] \in Values(M, b) /\ I.ops[1] < k)
  BY <1>1, <1>2, <1>6, StoredFacts DEF Fed
<1>10. I.op \in LowOps /\ (I.op = "store" => I.ops[2] \in Locals)
       /\ (I.op = "load" => I.ops[1] \in Locals)
       /\ (I.op \in {"load", "add"} => I.ops # <<>>)
  BY <1>6, <1>7 DEF Made, Aimed
<1> QED BY <1>1, <1>2, <1>3, <1>5, <1>8, <1>9, <1>10

\* What the two runs hold: the promoted variables and the values that replace
\* them, the locals that stay, and what the block has computed.
Agree(u, w) == u = Undef \/ u = w
Tracked(G, b, i, mm, w) == \A v \in DOMAIN pvar : Agree(mm[pvar[v]], Now(w, G[b][i][v]))
Resident(mm, m2) == \A a \in Locals \ Range(pvar) : Agree(mm[a], m2[remap(Order, a)])
Computed(b, i, vv, w) == \A k \in Values(M, b) : k < Nth(b, i + 1) => Agree(vv[k], Now(w, k))

\* A value that is put in its place changes nothing that was known before.
Stable(b, k, w, w2) == \A x \in Int : Supplied(x, b, k) => Now(w2, x) = Now(w, x)
LEMMA StableAt ==
  ASSUME NEW G, Ground(G), NEW b \in Reach, NEW k \in Home(M, b), k \in Int,
         NEW z \in Spot(b), Order[z] = k, NEW w \in [DOMAIN After.insts -> Int], NEW y
  PROVE  Stable(b, k, w, [w EXCEPT ![z] = y])
<1>1. Renaming /\ ChainsFit /\ Rewritable /\ Reach \subseteq Blocks
  BY GroundParts DEF Ground
<1> SUFFICES ASSUME NEW x \in Int, Supplied(x, b, k)
             PROVE  Now([w EXCEPT ![z] = y], x) = Now(w, x)
  BY DEF Stable
<1> DEFINE u == remap(Order, x)
<1>2. \A w2 : Now(w2, x) = IF IsConst(u) THEN u ELSE w2[u]
  BY NowFacts
<1>3. IsConst(u) \/ NowDefined(u, b, z)
  BY <1>1, OperandDefined
<1>4. IsConst(u) \/ u # z
  <2> SUFFICES ASSUME NowDefined(u, b, z), u = z PROVE FALSE
    BY <1>3
  <2>1. PICK d \in Reach : z \in Spot(d) /\ (SDom(d, b) \/ (d = b /\ z < z))
    BY DEF NowDefined
  <2>2. z \in Int
    <3>1. FirstOf(b) \in Nat /\ SizeOf(b) \in Nat
      BY <1>1, FirstOfNat
    <3> QED BY <3>1 DEF Spot
  <2>3. d # b
    BY <2>1, <2>2 DEF SDom
  <2> QED BY <1>1, <2>1, <2>3, PlacesFacts
<1>5. ~ IsConst(u) => u \in DOMAIN w
  <2>1. DOMAIN Order \subseteq DOMAIN After.insts
    BY <1>1, AfterDomain
  <2> QED BY <2>1, NowFacts
<1> HIDE DEF u
<1> QED BY <1>2, <1>4, <1>5

LEMMA TrackedKept ==
  ASSUME NEW G, Ground(G), NEW b \in Reach, NEW i \in 1 .. M.blks[b].n_inst, ~ Puts(Nth(b, i)),
         NEW mm, NEW w, Tracked(G, b, i - 1, mm, w), NEW w2, Stable(b, Nth(b, i), w, w2)
  PROVE  Tracked(G, b, i, mm, w2)
<1>1. Typed /\ TreeRight /\ CarriedAll(G)
  BY GroundParts
<1>2. G[b][i] = G[b][i - 1]
  BY <1>1 DEF CarriedAll, Carried, Put
<1>3. i - 1 \in 0 .. M.blks[b].n_inst /\ (i - 1) + 1 = i
  BY CodeOf
<1>4. \A v \in DOMAIN pvar : G[b][i - 1][v] \in Int /\ Supplied(G[b][i - 1][v], b, Nth(b, i))
  BY <1>1, <1>3, TrailSupplied
<1>5. \A v \in DOMAIN pvar : Now(w2, G[b][i][v]) = Now(w, G[b][i - 1][v])
  BY <1>2, <1>4 DEF Stable
<1> QED BY <1>5 DEF Tracked

LEMMA ComputedKept ==
  ASSUME NEW G, Ground(G), NEW b \in Reach, NEW i \in 1 .. M.blks[b].n_inst,
         NEW vv, NEW w, Computed(b, i - 1, vv, w), NEW w2, Stable(b, Nth(b, i), w, w2),
         NEW v2, \A j \in Values(M, b) : j < Nth(b, i) => v2[j] = vv[j],
         Nth(b, i) \in Values(M, b) => Agree(v2[Nth(b, i)], Now(w2, Nth(b, i)))
  PROVE  Computed(b, i, v2, w2)
<1> DEFINE k == Nth(b, i)
<1>1. Nth(b, i + 1) = k + 1 /\ k \in Int /\ Nth(b, (i - 1) + 1) = k /\ b \in Blocks
  BY CodeOf
<1>2. Final(M) /\ Typed
  BY GroundParts
<1> SUFFICES ASSUME NEW j \in Values(M, b), j < k + 1 PROVE Agree(v2[j], Now(w2, j))
  BY <1>1 DEF Computed
<1>3. j \in Int
  BY <1>1, <1>2, FinalParts DEF Values, Home
<1> HIDE DEF k
<1>4. j < k \/ j = k
  BY <1>1, <1>3
<1>5. CASE j < k
  <2>1. Supplied(j, b, k)
    BY <1>5 DEF Supplied, Defined, Where
  <2>2. Now(w2, j) = Now(w, j)
    BY <1>3, <2>1 DEF Stable, k
  <2> QED BY <1>1, <1>5, <2>2 DEF Computed, k
<1> QED BY <1>4, <1>5 DEF k

\* An operand is worth the same on both sides, as far as it is known.
LEMMA OperandAgrees ==
  ASSUME NEW G, Ground(G), NEW b \in Reach, NEW i \in 1 .. M.blks[b].n_inst,
         TakesValue(M.insts[Nth(b, i)]), NEW vv \in [DOMAIN M.insts -> Int],
         NEW w \in [DOMAIN After.insts -> Int], Computed(b, i - 1, vv, w)
  PROVE  LET x == M.insts[Nth(b, i)].ops[1]
         IN /\ Agree(Value(vv, Identity(M), x), Now(w, x))
            /\ Value(vv, Identity(M), x) \in Int /\ Now(w, x) \in Int
<1> DEFINE k == Nth(b, i)
           x == M.insts[k].ops[1]
<1>1. /\ k \in Int /\ Nth(b, (i - 1) + 1) = k /\ b \in Blocks
      /\ x \in Int /\ Supplied(x, b, k) /\ (Constant(x) \/ (x \in Values(M, b) /\ x < k))
  BY CodeOf
<1>2. Final(M) /\ Typed /\ Rewritable /\ NumbersFit
  BY GroundParts DEF Ground
<1> HIDE DEF k, x
<1>3. Now(w, x) \in Int
  <2> DEFINE y == remap(Order, x)
  <2>1. Now(w, x) = IF IsConst(y) THEN y ELSE w[y]
    BY <1>1, NowFacts
  <2>2. (IsConst(y) /\ y \in Int) \/ (~ IsConst(y) /\ y \in DOMAIN Order)
    BY <1>1, NowFacts
  <2> HIDE DEF y
  <2>3. DOMAIN Order \subseteq DOMAIN After.insts
    BY <1>2, AfterDomain
  <2> QED BY <2>1, <2>2, <2>3
<1>4. CASE Constant(x)
  <2>1. remap(Order, x) = x
    BY <1>4, RemapKept DEF Constant
  <2>2. Now(w, x) = x /\ Value(vv, Identity(M), x) = x
    BY <1>4, <2>1 DEF Now, Value, Constant
  <2> QED BY <1>1, <1>3, <2>2 DEF Agree, x, k
<1>5. CASE x \in Values(M, b) /\ x < k
  <2>1. x \in DOMAIN M.insts /\ ~ IsConst(x)
    <3>1. x \in Home(M, b)
      BY <1>5 DEF Values
    <3>2. x \in DOMAIN M.insts /\ x \in Nat \ {0}
      BY <1>1, <1>2, <3>1, KeptFacts
    <3> QED BY <3>2 DEF IsConst
  <2>2. Identity(M)[x] = x
    BY <2>1 DEF Identity
  <2>3. Value(vv, Identity(M), x) = vv[x]
    BY <2>1, <2>2 DEF Value
  <2>4. Agree(vv[x], Now(w, x))
    BY <1>1, <1>5 DEF Computed
  <2>5. vv[x] \in Int
    BY <2>1
  <2> QED BY <1>3, <2>3, <2>4, <2>5 DEF x, k
<1> QED BY <1>1, <1>4, <1>5

\* What a run of a block goes through, with places D for its values.
Ways == {<<>>} \cup {Succs(b) : b \in Blocks}
Runs(D) ==
  [mem : [DOMAIN M.insts -> Int], val : [D -> Int], out : Int, to : Ways, stop : BOOLEAN]
LEMMA SetMemParts ==
  ASSUME NEW D, NEW r \in Runs(D), NEW u \in Int, NEW a \in DOMAIN M.insts
  PROVE  LET q == SetMem(r, a, u)
         IN /\ q \in Runs(D) /\ q.mem = [r.mem EXCEPT ![a] = u]
            /\ q.val = r.val /\ q.out = r.out /\ q.to = r.to /\ q.stop = r.stop
<1> DEFINE A == DOMAIN M.insts
           W == Ways
           B == BOOLEAN
<1> HIDE DEF A, W, B
<1>1. Runs(D) = [mem : [A -> Int], val : [D -> Int], out : Int, to : W, stop : B]
  BY DEF Runs, A, W, B
<1>2. a \in A
  BY DEF A
<1> QED BY <1>1, <1>2 DEF SetMem

LEMMA SetValParts ==
  ASSUME NEW D, NEW r \in Runs(D), NEW u \in Int, NEW d \in D
  PROVE  LET q == SetVal(r, d, u)
         IN /\ q \in Runs(D) /\ q.val = [r.val EXCEPT ![d] = u]
            /\ q.mem = r.mem /\ q.out = r.out /\ q.to = r.to /\ q.stop = r.stop
<1> DEFINE A == DOMAIN M.insts
           W == Ways
           B == BOOLEAN
<1> HIDE DEF A, W, B
<1>1. Runs(D) = [mem : [A -> Int], val : [D -> Int], out : Int, to : W, stop : B]
  BY DEF Runs, A, W, B
<1> QED BY <1>1 DEF SetVal

LEMMA StopParts ==
  ASSUME NEW D, NEW r \in Runs(D)
  PROVE  LET q == [r EXCEPT !.stop = TRUE]
         IN /\ q \in Runs(D) /\ q.mem = r.mem /\ q.val = r.val /\ q.out = r.out
            /\ q.to = r.to /\ q.stop = TRUE
<1> DEFINE X == [DOMAIN M.insts -> Int]
           Y == [D -> Int]
           W == Ways
           B == BOOLEAN
<1> HIDE DEF X, Y, W, B
<1>1. Runs(D) = [mem : X, val : Y, out : Int, to : W, stop : B]
  BY DEF Runs, X, Y, W, B
<1>2. ASSUME NEW yes \in B
      PROVE  LET q == [r EXCEPT !.stop = yes]
             IN /\ q \in Runs(D) /\ q.mem = r.mem /\ q.val = r.val /\ q.out = r.out
                /\ q.to = r.to /\ q.stop = yes
  BY <1>1
<1> QED BY <1>2, Zenon DEF B

LEMMA ReturnsParts ==
  ASSUME NEW D, NEW r \in Runs(D), NEW u \in Int
  PROVE  LET q == Returns(r, u)
         IN /\ q \in Runs(D) /\ q.mem = r.mem /\ q.val = r.val /\ q.out = u
            /\ q.to = r.to /\ q.stop = TRUE
<1> DEFINE f == [r EXCEPT !.out = u]
           e == [f EXCEPT !.stop = TRUE]
<1>1. f \in Runs(D) /\ f.mem = r.mem /\ f.val = r.val /\ f.out = u /\ f.to = r.to
  BY DEF Runs
<1> HIDE DEF f
<1>2. /\ e \in Runs(D) /\ e.mem = f.mem /\ e.val = f.val /\ e.out = f.out
      /\ e.to = f.to /\ e.stop = TRUE
  BY <1>1, StopParts, Zenon
<1> QED BY <1>1, <1>2, Zenon DEF f, Returns

LEMMA TakesParts ==
  ASSUME NEW D, NEW r \in Runs(D), NEW t \in Ways
  PROVE  LET q == Takes(r, t)
         IN /\ q \in Runs(D) /\ q.mem = r.mem /\ q.val = r.val /\ q.out = r.out
            /\ q.to = t /\ q.stop = TRUE
<1> DEFINE f == [r EXCEPT !.to = t]
           e == [f EXCEPT !.stop = TRUE]
<1>1. f \in Runs(D) /\ f.mem = r.mem /\ f.val = r.val /\ f.out = r.out /\ f.to = t
  BY DEF Runs
<1> HIDE DEF f
<1>2. /\ e \in Runs(D) /\ e.mem = f.mem /\ e.val = f.val /\ e.out = f.out
      /\ e.to = f.to /\ e.stop = TRUE
  BY <1>1, StopParts, Zenon
<1> QED BY <1>1, <1>2, Zenon DEF f, Takes

\* The two runs after i instructions of block b.
Alike(G, b, i, r, s) ==
  /\ r \in Runs(DOMAIN M.insts) /\ s \in Runs(DOMAIN After.insts)
  /\ Tracked(G, b, i, r.mem, s.val) /\ Resident(r.mem, s.mem) /\ Computed(b, i, r.val, s.val)
  /\ Agree(r.out, s.out) /\ r.to = s.to /\ r.to \in {<<>>, Succs(b)}
  /\ i < M.blks[b].n_inst => ~ r.stop /\ ~ s.stop /\ r.to = <<>>
\* Instruction k of the procedure before has place z after it.
PutAt(b, k, z) ==
  z \in Spot(b) /\ z \in DOMAIN Order /\ Order[z] = k /\ After.insts[z] = NewInst(Order, k)
JumpsEnd ==
  \A b \in Blocks : \A i \in 1 .. M.blks[b].n_inst - 1 : M.insts[Nth(b, i)].op \notin Terminators

LEMMA NewCodeOf ==
  ASSUME NEW G, Ground(G), NEW b \in Reach, NEW i \in 1 .. M.blks[b].n_inst,
         NEW z, PutAt(b, Nth(b, i), z)
  PROVE  LET I == M.insts[Nth(b, i)]
             J == After.insts[z]
         IN /\ J.op = I.op /\ Targets(J) = Targets(I) /\ (J.ops = <<>> <=> I.ops = <<>>)
            /\ I.op = "store" => J.ops[2] = remap(Order, I.ops[2])
            /\ I.op = "load" => J.ops[1] = remap(Order, I.ops[1])
            /\ \A w : TakesValue(I) => Value(w, Identity(After), J.ops[1]) = Now(w, I.ops[1])
            /\ z \in DOMAIN After.insts /\ Identity(After)[z] = z
<1> DEFINE k == Nth(b, i)
           I == M.insts[k]
           J == After.insts[z]
<1>1. /\ k \in DOMAIN M.insts /\ ~ IsFake(k) /\ b \in Blocks /\ k \in Home(M, b)
      /\ I.op = "store" => I.ops # <<>>
  BY CodeOf
<1>2. Final(M) /\ Rewritable
  BY GroundParts DEF Ground
<1>3. J = NewInst(Order, k)
  BY DEF PutAt
<1>4. /\ J.op = I.op /\ DOMAIN J.ops = DOMAIN I.ops /\ Targets(J) = Targets(I)
      /\ I.ops = <<>> => J.ops = <<>>
      /\ TakesValue(I) => J.ops[1] = remap(Order, I.ops[1])
  BY <1>1, <1>2, <1>3, NewInstFacts
<1>5. Shaped(M) /\ DOMAIN M.insts = 1 .. Len(M.insts)
  BY <1>2, FinalParts
<1>6. Made(I)
  BY <1>1, <1>5 DEF Shaped
<1>7. J.ops = <<>> => I.ops = <<>>
  <2> DEFINE c == I.ops
  <2>1. IsSeq(c)
    BY <1>6 DEF Made
  <2> HIDE DEF c
  <2>2. c # <<>> => 1 \in DOMAIN c
    BY <2>1, DomainOfSeq
  <2>3. I.ops # <<>> => 1 \in DOMAIN I.ops
    BY <2>2 DEF c
  <2>4. J.ops = <<>> => DOMAIN J.ops = {}
    OBVIOUS
  <2> HIDE DEF I, J
  <2> QED BY <1>4, <2>3, <2>4
<1>8. I.op \in {"store", "load"} => J.ops = [j \in DOMAIN I.ops |-> remap(Order, I.ops[j])]
  <2>1. ASSUME I.op \in {"store", "load"}
        PROVE  NewInst(Order, k) = [I EXCEPT !.ops = [j \in DOMAIN @ |-> remap(Order, @[j])]]
    BY <1>1, <2>1 DEF NewInst
  <2>2. I = [op |-> I.op, ops |-> I.ops]
    BY <1>6 DEF Made, Inst
  <2> DEFINE c == I.ops
             e == [j \in DOMAIN c |-> remap(Order, c[j])]
  <2>3. I.op \in {"store", "load"} => J = [I EXCEPT !.ops = e]
    BY <1>3, <2>1
  <2> HIDE DEF c, e, J, I
  <2>4. I.op \in {"store", "load"} => J.ops = e
    BY <2>2, <2>3
  <2> QED BY <2>4 DEF e, c
<1>9. /\ I.op = "store" => 2 \in DOMAIN I.ops
      /\ I.op = "load" => 1 \in DOMAIN I.ops
  <2> DEFINE c == I.ops
  <2>1. I.op = "store" => IsSeq(c) /\ Len(c) = 2
    BY <1>6 DEF Made
  <2>2. IsSeq(c) /\ Len(c) = 2 => DOMAIN c = 1 .. 2
    BY ONLY DomainOfSeq
  <2>3. IsSeq(c) /\ (I.op = "load" => c # <<>>)
    BY <1>6, CodeOf DEF Made
  <2>4. IsSeq(c) /\ c # <<>> => 1 \in DOMAIN c
    BY ONLY DomainOfSeq
  <2>5. I.op = "store" => 2 \in DOMAIN c
    BY <2>1, <2>2
  <2> HIDE DEF I
  <2> QED BY <2>3, <2>4, <2>5
<1>10. z \in DOMAIN After.insts /\ Identity(After)[z] = z
  BY <1>2, AfterDomain DEF Identity, PutAt
<1> QED BY <1>4, <1>7, <1>8, <1>9, <1>10 DEF Now, Value

\* What is at hand when instruction i of block b is run on both sides.
Abreast(G, b, i, r, s) ==
  Ground(G) /\ b \in Reach /\ i \in 1 .. M.blks[b].n_inst /\ Alike(G, b, i - 1, r, s)
LEMMA AbreastFacts ==
  ASSUME NEW G, NEW b, NEW i, NEW r, NEW s, Abreast(G, b, i, r, s)
  PROVE  /\ r \in Runs(DOMAIN M.insts) /\ s \in Runs(DOMAIN After.insts)
         /\ r.mem \in [DOMAIN M.insts -> Int] /\ r.val \in [DOMAIN M.insts -> Int]
         /\ s.mem \in [DOMAIN M.insts -> Int] /\ s.val \in [DOMAIN After.insts -> Int]
         /\ ~ r.stop /\ ~ s.stop /\ r.to = <<>> /\ s.to = <<>> /\ Agree(r.out, s.out)
         /\ Tracked(G, b, i - 1, r.mem, s.val) /\ Resident(r.mem, s.mem)
         /\ Computed(b, i - 1, r.val, s.val)
         /\ Identity(M)[Nth(b, i)] = Nth(b, i) /\ Locals \subseteq DOMAIN M.insts
         /\ Range(pvar) \subseteq DOMAIN M.insts
<1>1. i - 1 < M.blks[b].n_inst
  <2>1. M.blks[b].n_inst \in Nat
    BY GroundParts, FinalParts DEF Abreast
  <2> QED BY <2>1 DEF Abreast
<1>2. /\ r \in Runs(DOMAIN M.insts) /\ s \in Runs(DOMAIN After.insts)
      /\ Tracked(G, b, i - 1, r.mem, s.val) /\ Resident(r.mem, s.mem)
      /\ Computed(b, i - 1, r.val, s.val) /\ Agree(r.out, s.out) /\ r.to = s.to
      /\ ~ r.stop /\ ~ s.stop /\ r.to = <<>>
  BY <1>1, Zenon DEF Abreast, Alike
<1>3. /\ r.mem \in [DOMAIN M.insts -> Int] /\ r.val \in [DOMAIN M.insts -> Int]
      /\ s.mem \in [DOMAIN M.insts -> Int] /\ s.val \in [DOMAIN After.insts -> Int]
  BY <1>2 DEF Runs
<1>4. Identity(M)[Nth(b, i)] = Nth(b, i)
  BY CodeOf DEF Identity, Abreast
<1>5. Locals \subseteq DOMAIN M.insts
  <2>1. Laid(M) /\ IsModule(M)
    BY DEF Abreast, Ground, Laid
  <2>2. DOMAIN M.insts = 1 .. Len(M.insts) /\ Len(M.insts) \in Nat
    BY <2>1, Parts
  <2> QED BY <2>1, <2>2, DeclsFacts DEF Laid, Locals
<1>6. Range(pvar) \subseteq DOMAIN M.insts
  BY DEF Abreast, Ground, PvarRight, Range
<1> QED BY <1>2, <1>3, <1>4, <1>5, <1>6

\* A value is worth what is in its place.
LEMMA NowPlace ==
  ASSUME NEW G, Ground(G), NEW b, NEW k \in DOMAIN M.insts \ repl.dead, NEW z, PutAt(b, k, z),
         NEW w
  PROVE  Now(w, k) = w[z]
<1>1. remap(Order, k) = z /\ z \in DOMAIN Order
  BY RemapKept DEF PutAt
<1>2. DOMAIN Order \subseteq DOMAIN After.insts /\ z \in Nat
  BY <1>1, GroundParts, AfterDomain
<1> QED BY <1>1, <1>2 DEF Now, Value, Identity, IsConst

\* Both sides compute a value.
LEMMA AlikeValue ==
  ASSUME NEW G, NEW b, NEW i, NEW r, NEW s, Abreast(G, b, i, r, s),
         Nth(b, i) \notin repl.dead, ~ Puts(Nth(b, i)), NEW z, PutAt(b, Nth(b, i), z),
         NEW u \in Int, NEW y \in Int, Agree(u, y)
  PROVE  Alike(G, b, i, SetVal(r, Nth(b, i), u), SetVal(s, z, y))
<1> DEFINE k == Nth(b, i)
           r2 == SetVal(r, k, u)
           s2 == SetVal(s, z, y)
<1>1. /\ r \in Runs(DOMAIN M.insts) /\ s \in Runs(DOMAIN After.insts)
      /\ r.val \in [DOMAIN M.insts -> Int] /\ s.val \in [DOMAIN After.insts -> Int]
      /\ ~ r.stop /\ ~ s.stop /\ r.to = <<>> /\ s.to = <<>> /\ Agree(r.out, s.out)
      /\ Tracked(G, b, i - 1, r.mem, s.val) /\ Resident(r.mem, s.mem)
      /\ Computed(b, i - 1, r.val, s.val)
  BY AbreastFacts
<1>2. Ground(G) /\ b \in Reach /\ i \in 1 .. M.blks[b].n_inst
  BY DEF Abreast
<1>3. k \in DOMAIN M.insts /\ k \in Home(M, b) /\ k \in Int
  BY <1>2, CodeOf
<1>4. z \in DOMAIN After.insts /\ z \in Spot(b) /\ Order[z] = k
  BY <1>2, GroundParts, AfterDomain DEF PutAt
<1>5. /\ r2 \in Runs(DOMAIN M.insts) /\ r2.val = [r.val EXCEPT ![k] = u]
      /\ r2.mem = r.mem /\ r2.out = r.out /\ r2.to = r.to /\ r2.stop = r.stop
  BY <1>1, <1>3, SetValParts
<1>6. /\ s2 \in Runs(DOMAIN After.insts) /\ s2.val = [s.val EXCEPT ![z] = y]
      /\ s2.mem = s.mem /\ s2.out = s.out /\ s2.to = s.to /\ s2.stop = s.stop
  BY <1>1, <1>4, SetValParts
<1> HIDE DEF k, r2, s2
<1>7. Stable(b, k, s.val, s2.val)
  <2>1. Stable(b, k, s.val, [s.val EXCEPT ![z] = y])
    BY <1>1, <1>2, <1>3, <1>4, StableAt
  <2> QED BY <1>6, <2>1, Zenon
<1> USE DEF k
<1>8. Tracked(G, b, i, r2.mem, s2.val)
  BY <1>1, <1>2, <1>5, <1>7, TrackedKept
<1>9. Agree(r2.val[k], Now(s2.val, k))
  <2>1. Now(s2.val, k) = s2.val[z]
    BY <1>2, <1>3, NowPlace
  <2>2. s2.val[z] = y /\ r2.val[k] = u
    BY <1>1, <1>3, <1>4, <1>5, <1>6
  <2> QED BY <2>1, <2>2
<1>10. \A j \in Values(M, b) : j < k => r2.val[j] = r.val[j]
  <2>1. \A j \in Values(M, b) : j \in DOMAIN M.insts
    BY <1>2, GroundParts, FinalParts DEF Values
  <2> QED BY <1>1, <1>3, <1>5, <2>1
<1>11. Computed(b, i, r2.val, s2.val)
  BY <1>1, <1>2, <1>7, <1>9, <1>10, ComputedKept
<1>12. Alike(G, b, i, r2, s2)
  BY <1>1, <1>5, <1>6, <1>8, <1>11, Zenon DEF Alike
<1> QED BY <1>12 DEF k, r2, s2

\* Neither side computes a value or writes a promoted variable.
LEMMA AlikeSame ==
  ASSUME NEW G, NEW b, NEW i, NEW r, NEW s, Abreast(G, b, i, r, s),
         ~ Puts(Nth(b, i)), Nth(b, i) \notin Values(M, b)
  PROVE  Tracked(G, b, i, r.mem, s.val) /\ Computed(b, i, r.val, s.val)
<1>1. Ground(G) /\ b \in Reach /\ i \in 1 .. M.blks[b].n_inst
  BY DEF Abreast
<1>2. Tracked(G, b, i - 1, r.mem, s.val) /\ Computed(b, i - 1, r.val, s.val)
  BY AbreastFacts
<1>3. Stable(b, Nth(b, i), s.val, s.val)
  BY DEF Stable
<1> QED BY <1>1, <1>2, <1>3, TrackedKept, ComputedKept

LEMMA AlikeLoad ==
  ASSUME NEW G, NEW b, NEW i, NEW r, NEW s, Abreast(G, b, i, r, s),
         NEW I, I = M.insts[Nth(b, i)], I.op = "load", NEW s2,
         IF Nth(b, i) \in repl.dead THEN s2 = s
         ELSE \E z : PutAt(b, Nth(b, i), z) /\ s2 = Exec(After, Identity(After), s, z)
  PROVE  Alike(G, b, i, Exec(M, Identity(M), r, Nth(b, i)), s2)
<1> DEFINE k == Nth(b, i)
           a == I.ops[1]
           u == r.mem[a]
           r2 == SetVal(r, k, u)
<1>1. /\ r \in Runs(DOMAIN M.insts) /\ s \in Runs(DOMAIN After.insts)
      /\ r.mem \in [DOMAIN M.insts -> Int] /\ r.val \in [DOMAIN M.insts -> Int]
      /\ s.mem \in [DOMAIN M.insts -> Int] /\ s.val \in [DOMAIN After.insts -> Int]
      /\ ~ r.stop /\ ~ s.stop /\ r.to = <<>> /\ s.to = <<>> /\ Agree(r.out, s.out)
      /\ Tracked(G, b, i - 1, r.mem, s.val) /\ Resident(r.mem, s.mem)
      /\ Computed(b, i - 1, r.val, s.val)
      /\ Identity(M)[k] = k /\ Locals \subseteq DOMAIN M.insts
  BY AbreastFacts
<1>2. Ground(G) /\ b \in Reach /\ i \in 1 .. M.blks[b].n_inst
  BY DEF Abreast
<1>3. /\ k \in DOMAIN M.insts /\ k \in Home(M, b) /\ k \in Int /\ a \in Locals
  BY <1>2, CodeOf
<1>4. Exec(M, Identity(M), r, k) = r2
  BY <1>1, ExecOf
<1>5. ~ Puts(k) /\ (k \in repl.dead <=> Gets(k))
  <2>1. k \in repl.dead <=> Dies(k)
    BY <1>2, DeadFacts
  <2> QED BY <2>1 DEF Puts, Dies
<1>6. u \in Int
  BY <1>1, <1>3
<1>7. CASE Gets(k)
  <2> DEFINE v == VarOf(I, 1)
             x == G[b][i - 1][v]
  <2>1. v \in DOMAIN pvar /\ pvar[v] = a
    BY <1>7, VarOfRight DEF Gets
  <2>2. k \in DOMAIN repl.value /\ repl.value[k] = x
    BY <1>2, <1>7, DeadFacts
  <2>3. Now(s.val, k) = Now(s.val, x)
    BY <1>2, <2>2, RemapKept DEF Now
  <2>4. Agree(r.mem[a], Now(s.val, k))
    BY <1>1, <2>1, <2>3 DEF Tracked
  <2>5. /\ r2 \in Runs(DOMAIN M.insts) /\ r2.val = [r.val EXCEPT ![k] = u]
        /\ r2.mem = r.mem /\ r2.out = r.out /\ r2.to = r.to /\ r2.stop = r.stop
    <3> HIDE DEF u
    <3> QED BY <1>1, <1>3, <1>6, SetValParts
  <2> HIDE DEF r2
  <2>6. Stable(b, k, s.val, s.val)
    BY DEF Stable
  <2>7. Tracked(G, b, i, r2.mem, s.val)
    BY <1>1, <1>2, <1>5, <2>5, <2>6, TrackedKept
  <2>8. Agree(r2.val[k], Now(s.val, k))
    BY <1>1, <1>3, <2>4, <2>5
  <2>9. \A j \in Values(M, b) : j < k => r2.val[j] = r.val[j]
    <3>1. \A j \in Values(M, b) : j \in DOMAIN M.insts
      BY <1>2, GroundParts, FinalParts DEF Values
    <3> QED BY <1>1, <1>3, <2>5, <3>1
  <2>10. Computed(b, i, r2.val, s.val)
    BY <1>1, <1>2, <2>6, <2>8, <2>9, ComputedKept
  <2>11. s2 = s
    BY <1>5, <1>7
  <2>12. Alike(G, b, i, r2, s)
    BY <1>1, <2>5, <2>7, <2>10, Zenon DEF Alike
  <2> QED BY <1>4, <2>11, <2>12
<1>8. CASE ~ Gets(k)
  <2>1. PICK z : PutAt(b, k, z) /\ s2 = Exec(After, Identity(After), s, z)
    BY <1>5, <1>8
  <2> DEFINE y == s.mem[remap(Order, a)]
  <2>2. s2 = SetVal(s, z, y)
    <3>1. /\ After.insts[z].op = "load" /\ After.insts[z].ops[1] = remap(Order, a)
          /\ Identity(After)[z] = z
      BY <1>2, <2>1, NewCodeOf
    <3> QED BY <1>1, <2>1, <3>1, ExecOf
  <2>3. a \notin Range(pvar)
    <3>1. VarOf(I, 1) = None
      BY <1>8 DEF Gets
    <3>2. DOMAIN pvar = 1 .. Len(pvar) /\ Len(pvar) \in Nat
      BY <1>2, DomainOfSeq DEF Ground, PvarRight
    <3>3. ~ \E v \in DOMAIN pvar : pvar[v] = a
      BY <3>1, <3>2 DEF VarOf, None
    <3> QED BY <3>3 DEF Range
  <2>4. Agree(r.mem[a], y)
    BY <1>1, <1>3, <2>3 DEF Resident
  <2>5. y \in Int
    <3>1. remap(Order, a) \in DOMAIN M.insts
      BY <1>2, <1>3, <2>3, LocalPlaces
    <3> QED BY <1>1, <3>1
  <2>6. Alike(G, b, i, r2, SetVal(s, z, y))
    BY <1>5, <1>6, <1>8, <2>1, <2>4, <2>5, AlikeValue
  <2> QED BY <1>4, <2>2, <2>6
<1> QED BY <1>7, <1>8

LEMMA NewOperand ==
  ASSUME NEW G, Ground(G), NEW b \in Reach, NEW i \in 1 .. M.blks[b].n_inst,
         NEW z, PutAt(b, Nth(b, i), z), TakesValue(M.insts[Nth(b, i)])
  PROVE  After.insts[z].ops[1] = remap(Order, M.insts[Nth(b, i)].ops[1])
<1>1. After.insts[z] = NewInst(Order, Nth(b, i))
  BY DEF PutAt
<1>2. Nth(b, i) \in DOMAIN M.insts /\ ~ IsFake(Nth(b, i)) /\ Final(M)
  BY CodeOf, GroundParts
<1> QED BY <1>1, <1>2, NewInstFacts

LEMMA AlikeAdd ==
  ASSUME NEW G, NEW b, NEW i, NEW r, NEW s, Abreast(G, b, i, r, s),
         NEW I, I = M.insts[Nth(b, i)], I.op = "add", NEW z, PutAt(b, Nth(b, i), z)
  PROVE  /\ Nth(b, i) \notin repl.dead
         /\ Alike(G, b, i, Exec(M, Identity(M), r, Nth(b, i)), Exec(After, Identity(After), s, z))
<1> DEFINE k == Nth(b, i)
           p == Value(r.val, Identity(M), I.ops[1])
           q == Now(s.val, I.ops[1])
<1>1. /\ r.val \in [DOMAIN M.insts -> Int] /\ s.val \in [DOMAIN After.insts -> Int]
      /\ ~ r.stop /\ ~ s.stop /\ Computed(b, i - 1, r.val, s.val) /\ Identity(M)[k] = k
  BY AbreastFacts
<1>2. Ground(G) /\ b \in Reach /\ i \in 1 .. M.blks[b].n_inst
  BY DEF Abreast
<1>3. ~ Puts(k) /\ k \notin repl.dead
  <2>1. k \in repl.dead <=> Dies(k)
    BY <1>2, DeadFacts
  <2> QED BY <2>1 DEF Puts, Gets, Dies
<1>4. TakesValue(I)
  BY <1>2, CodeOf DEF TakesValue
<1>5. Agree(p, q) /\ p \in Int /\ q \in Int
  BY <1>1, <1>2, <1>4, OperandAgrees
<1>6. Exec(M, Identity(M), r, k) = SetVal(r, k, Incremented(p))
  BY <1>1, ExecOf
<1>7. Exec(After, Identity(After), s, z) = SetVal(s, z, Incremented(q))
  <2>1. /\ After.insts[z].op = "add" /\ Identity(After)[z] = z
        /\ Value(s.val, Identity(After), After.insts[z].ops[1]) = q
    BY <1>2, <1>4, NewCodeOf
  <2> QED BY <1>1, <2>1, ExecOf
<1>8. Agree(Incremented(p), Incremented(q)) /\ Incremented(p) \in Int /\ Incremented(q) \in Int
  <2> HIDE DEF p, q
  <2> QED BY <1>5 DEF Agree, Incremented, Undef
<1> HIDE DEF p, q
<1> QED BY <1>3, <1>6, <1>7, <1>8, AlikeValue

LEMMA AlikeStore ==
  ASSUME NEW G, NEW b, NEW i, NEW r, NEW s, Abreast(G, b, i, r, s),
         NEW I, I = M.insts[Nth(b, i)], I.op = "store", NEW s2,
         IF Nth(b, i) \in repl.dead THEN s2 = s
         ELSE \E z : PutAt(b, Nth(b, i), z) /\ s2 = Exec(After, Identity(After), s, z)
  PROVE  Alike(G, b, i, Exec(M, Identity(M), r, Nth(b, i)), s2)
<1> DEFINE k == Nth(b, i)
           a == I.ops[2]
           x == I.ops[1]
           u == Value(r.val, Identity(M), x)
           y == Now(s.val, x)
           r2 == SetMem(r, a, u)
<1>1. /\ r \in Runs(DOMAIN M.insts) /\ s \in Runs(DOMAIN After.insts)
      /\ r.mem \in [DOMAIN M.insts -> Int] /\ r.val \in [DOMAIN M.insts -> Int]
      /\ s.mem \in [DOMAIN M.insts -> Int] /\ s.val \in [DOMAIN After.insts -> Int]
      /\ ~ r.stop /\ ~ s.stop /\ r.to = <<>> /\ s.to = <<>> /\ Agree(r.out, s.out)
      /\ Tracked(G, b, i - 1, r.mem, s.val) /\ Resident(r.mem, s.mem)
      /\ Computed(b, i - 1, r.val, s.val)
      /\ Locals \subseteq DOMAIN M.insts
  BY AbreastFacts
<1>2. Ground(G) /\ b \in Reach /\ i \in 1 .. M.blks[b].n_inst
  BY DEF Abreast
<1>3. /\ k \in DOMAIN M.insts /\ k \in Home(M, b) /\ k \in Int /\ a \in Locals
      /\ TakesValue(I) /\ x \in Int /\ Supplied(x, b, k) /\ i - 1 \in 0 .. M.blks[b].n_inst
  BY <1>2, CodeOf DEF TakesValue
<1>4. Agree(u, y) /\ u \in Int /\ y \in Int
  BY <1>1, <1>2, <1>3, OperandAgrees
<1>5. Exec(M, Identity(M), r, k) = r2
  BY <1>1, ExecOf
<1>6. k \in repl.dead <=> Puts(k)
  <2>1. k \in repl.dead <=> Dies(k)
    BY <1>2, DeadFacts
  <2> QED BY <2>1 DEF Gets, Dies
<1>7. /\ r2 \in Runs(DOMAIN M.insts) /\ r2.mem = [r.mem EXCEPT ![a] = u]
      /\ r2.val = r.val /\ r2.out = r.out /\ r2.to = r.to /\ r2.stop = r.stop
  <2> HIDE DEF u
  <2> QED BY <1>1, <1>3, <1>4, SetMemParts
<1> HIDE DEF r2, u, y
<1>8. k \notin Values(M, b)
  BY DEF Values, ValueOps
<1>9. Stable(b, k, s.val, s.val)
  BY DEF Stable
<1>10. Computed(b, i, r2.val, s.val)
  BY <1>1, <1>2, <1>7, <1>8, <1>9, ComputedKept
<1>11. CASE Puts(k)
  <2> DEFINE v == VarOf(I, 2)
             g == G[b][i - 1]
  <2>1. v \in DOMAIN pvar /\ pvar[v] = a
    BY <1>11, VarOfRight DEF Puts
  <2>2. G[b][i] = [g EXCEPT ![v] = x] /\ g \in [DOMAIN pvar -> Int]
    <3>1. CarriedAll(G)
      BY <1>2, GroundParts
    <3>2. /\ G[b] \in [0 .. M.blks[b].n_inst -> [DOMAIN pvar -> Int]]
          /\ G[b][i] = Put(g, k)
      BY <1>2, <3>1 DEF CarriedAll, Carried
    <3> QED BY <1>3, <1>11, <3>2 DEF Put
  <2>3. \A w \in DOMAIN pvar : w # v => pvar[w] # a /\ pvar[w] \in DOMAIN M.insts
    BY <1>2, <2>1 DEF Ground, PvarRight, IsInjective
  <2>4. ASSUME NEW w \in DOMAIN pvar PROVE Agree(r2.mem[pvar[w]], Now(s.val, G[b][i][w]))
    <3>1. CASE w = v
      <4>1. r2.mem[pvar[w]] = u /\ G[b][i][w] = x
        BY <1>1, <1>3, <1>7, <2>1, <2>2, <3>1
      <4> QED BY <1>4, <4>1 DEF y
    <3>2. CASE w # v
      <4>1. r2.mem[pvar[w]] = r.mem[pvar[w]] /\ G[b][i][w] = g[w]
        BY <1>1, <1>3, <1>7, <2>2, <2>3, <3>2
      <4> QED BY <1>1, <4>1 DEF Tracked
    <3> QED BY <3>1, <3>2
  <2>5. Tracked(G, b, i, r2.mem, s.val)
    BY <2>4 DEF Tracked
  <2>6. Resident(r2.mem, s.mem)
    <3>1. a \in Range(pvar)
      BY <2>1 DEF Range
    <3> QED BY <1>1, <1>7, <3>1 DEF Resident
  <2>7. s2 = s
    BY <1>6, <1>11
  <2>8. Alike(G, b, i, r2, s)
    BY <1>1, <1>7, <1>10, <2>5, <2>6, Zenon DEF Alike
  <2> QED BY <1>5, <2>7, <2>8
<1>12. CASE ~ Puts(k)
  <2>1. PICK z : PutAt(b, k, z) /\ s2 = Exec(After, Identity(After), s, z)
    BY <1>6, <1>12
  <2> DEFINE c == remap(Order, a)
             s3 == SetMem(s, c, y)
  <2>2. s2 = s3
    <3>1. /\ After.insts[z].op = "store" /\ After.insts[z].ops[2] = c
      BY <1>2, <2>1, NewCodeOf
    <3>3. Value(s.val, Identity(After), After.insts[z].ops[1]) = y
      <4>1. PutAt(b, k, z) /\ TakesValue(M.insts[k])
        BY <1>3, <2>1
      <4>2. After.insts[z].ops[1] = remap(Order, M.insts[k].ops[1])
        BY <1>2, <4>1, NewOperand
      <4> QED BY <4>2 DEF y, Now
    <3> QED BY <1>1, <2>1, <3>1, <3>3, ExecOf
  <2>3. a \notin Range(pvar)
    <3>1. VarOf(I, 2) = None
      BY <1>12 DEF Puts
    <3>2. DOMAIN pvar = 1 .. Len(pvar) /\ Len(pvar) \in Nat
      BY <1>2, DomainOfSeq DEF Ground, PvarRight
    <3>3. ~ \E v \in DOMAIN pvar : pvar[v] = a
      BY <3>1, <3>2 DEF VarOf, None
    <3> QED BY <3>3 DEF Range
  <2>4. c \in DOMAIN M.insts /\ c \in DOMAIN Order /\ Order[c] = a
    BY <1>2, <1>3, <2>3, LocalPlaces
  <2> HIDE DEF c
  <2>5. /\ s3 \in Runs(DOMAIN After.insts) /\ s3.mem = [s.mem EXCEPT ![c] = y]
        /\ s3.val = s.val /\ s3.out = s.out /\ s3.to = s.to /\ s3.stop = s.stop
    BY <1>1, <1>4, <2>4, SetMemParts
  <2> HIDE DEF s3
  <2>6. Tracked(G, b, i, r2.mem, s.val)
    <3>1. Tracked(G, b, i, r.mem, s.val)
      BY <1>1, <1>2, <1>9, <1>12, TrackedKept
    <3>2. \A v \in DOMAIN pvar : r2.mem[pvar[v]] = r.mem[pvar[v]]
      BY <1>1, <1>2, <1>7, <2>3 DEF Range, Ground, PvarRight
    <3> QED BY <3>1, <3>2 DEF Tracked
  <2>7. Resident(r2.mem, s3.mem)
    <3> SUFFICES ASSUME NEW d \in Locals \ Range(pvar)
                 PROVE  Agree(r2.mem[d], s3.mem[remap(Order, d)])
      BY DEF Resident
    <3>1. d \in DOMAIN M.insts /\ remap(Order, d) \in DOMAIN M.insts /\ Order[remap(Order, d)] = d
      BY <1>2, LocalPlaces
    <3>2. CASE d = a
      <4>1. r2.mem[d] = u
        BY <1>1, <1>3, <1>7, <3>2
      <4>2. s3.mem[remap(Order, d)] = y
        BY <1>1, <2>4, <2>5, <3>2 DEF c
      <4> QED BY <1>4, <4>1, <4>2
    <3>3. CASE d # a
      <4>1. r2.mem[d] = r.mem[d]
        BY <1>1, <1>7, <3>1, <3>3
      <4>2. s3.mem[remap(Order, d)] = s.mem[remap(Order, d)]
        BY <1>1, <2>4, <2>5, <3>1, <3>3
      <4> QED BY <1>1, <4>1, <4>2 DEF Resident
    <3> QED BY <3>2, <3>3
  <2>8. Alike(G, b, i, r2, s3)
    BY <1>1, <1>7, <1>10, <2>5, <2>6, <2>7, Zenon DEF Alike
  <2> QED BY <1>5, <2>2, <2>8
<1> QED BY <1>11, <1>12

LEMMA AlikeAlloca ==
  ASSUME NEW G, NEW b, NEW i, NEW r, NEW s, Abreast(G, b, i, r, s),
         NEW I, I = M.insts[Nth(b, i)], I.op = "alloca", NEW s2,
         IF Nth(b, i) \in repl.dead THEN s2 = s
         ELSE \E z : PutAt(b, Nth(b, i), z) /\ s2 = Exec(After, Identity(After), s, z)
  PROVE  Alike(G, b, i, Exec(M, Identity(M), r, Nth(b, i)), s2)
<1> DEFINE k == Nth(b, i)
<1>1. /\ r \in Runs(DOMAIN M.insts) /\ s \in Runs(DOMAIN After.insts)
      /\ ~ r.stop /\ ~ s.stop /\ r.to = <<>> /\ s.to = <<>> /\ Agree(r.out, s.out)
      /\ Resident(r.mem, s.mem)
  BY AbreastFacts
<1>2. Ground(G) /\ b \in Reach /\ i \in 1 .. M.blks[b].n_inst
  BY DEF Abreast
<1>3. Exec(M, Identity(M), r, k) = r
  BY <1>1, ExecOf
<1>4. s2 = s
  <2>1. ASSUME NEW z, PutAt(b, k, z) PROVE Exec(After, Identity(After), s, z) = s
    <3>1. After.insts[z].op = "alloca"
      BY <1>2, <2>1, NewCodeOf
    <3> QED BY <1>1, <3>1, ExecOf
  <2> QED BY <2>1
<1>5. ~ Puts(k) /\ k \notin Values(M, b)
  BY DEF Puts, Values, ValueOps
<1>6. Tracked(G, b, i, r.mem, s.val) /\ Computed(b, i, r.val, s.val)
  BY <1>5, AlikeSame
<1>7. Alike(G, b, i, r, s)
  BY <1>1, <1>6, Zenon DEF Alike
<1> QED BY <1>3, <1>4, <1>7

LEMMA AlikeEnd ==
  ASSUME NEW G, NEW b, NEW i, NEW r, NEW s, Abreast(G, b, i, r, s), JumpsEnd,
         M.insts[Nth(b, i)].op \in Terminators, NEW z, PutAt(b, Nth(b, i), z)
  PROVE  Alike(G, b, i, Exec(M, Identity(M), r, Nth(b, i)), Exec(After, Identity(After), s, z))
<1> DEFINE k == Nth(b, i)
           I == M.insts[k]
           J == After.insts[z]
           n == M.blks[b].n_inst
           r2 == Exec(M, Identity(M), r, k)
           s2 == Exec(After, Identity(After), s, z)
<1>1. /\ r \in Runs(DOMAIN M.insts) /\ s \in Runs(DOMAIN After.insts)
      /\ r.val \in [DOMAIN M.insts -> Int] /\ s.val \in [DOMAIN After.insts -> Int]
      /\ ~ r.stop /\ ~ s.stop /\ r.to = <<>> /\ s.to = <<>> /\ Agree(r.out, s.out)
      /\ Resident(r.mem, s.mem) /\ Computed(b, i - 1, r.val, s.val)
  BY AbreastFacts
<1>2. Ground(G) /\ b \in Reach /\ i \in 1 .. n
  BY DEF Abreast
<1>3. b \in Blocks /\ n \in Nat /\ M.blks[b].first \in Nat
  BY <1>2, CodeOf, GroundParts, FinalParts
<1>4. i = n
  <2>1. ~ (i \in 1 .. n - 1)
    BY <1>3 DEF JumpsEnd
  <2> HIDE DEF n
  <2> QED BY <1>2, <1>3, <2>1
<1>5. /\ J.op = I.op /\ Targets(J) = Targets(I) /\ (J.ops = <<>> <=> I.ops = <<>>)
  BY <1>2, NewCodeOf
<1>6. ~ Puts(k) /\ k \notin Values(M, b)
  BY DEF Puts, Values, ValueOps, Terminators
<1>7. Tracked(G, b, i, r.mem, s.val) /\ Computed(b, i, r.val, s.val)
  BY <1>6, AlikeSame
<1>8. CASE I.op = "ret" /\ I.ops # <<>>
  <2> DEFINE u == Value(r.val, Identity(M), I.ops[1])
             y == Now(s.val, I.ops[1])
  <2>1. TakesValue(I)
    BY <1>8 DEF TakesValue
  <2>2. Agree(u, y) /\ u \in Int /\ y \in Int
    BY <1>1, <1>2, <2>1, OperandAgrees
  <2>3. Value(s.val, Identity(After), J.ops[1]) = y
    <3>1. J.ops[1] = remap(Order, I.ops[1])
      BY <1>2, <2>1, NewOperand
    <3> QED BY <3>1 DEF Now
  <2>4. r2 = Returns(r, u)
    BY <1>1, <1>8, ExecOf
  <2>5. s2 = Returns(s, y)
    <3>1. J.op = "ret" /\ J.ops # <<>>
      BY <1>5, <1>8
    <3> HIDE DEF y
    <3> QED BY <1>1, <2>3, <3>1, ExecOf
  <2> HIDE DEF u, y, r2, s2, k, n
  <2> DEFINE r3 == Returns(r, u)
             s3 == Returns(s, y)
  <2>6. /\ r3 \in Runs(DOMAIN M.insts) /\ r3.mem = r.mem /\ r3.val = r.val /\ r3.out = u
        /\ r3.to = r.to /\ r3.stop = TRUE
    BY <1>1, <2>2, ReturnsParts
  <2>7. /\ s3 \in Runs(DOMAIN After.insts) /\ s3.mem = s.mem /\ s3.val = s.val /\ s3.out = y
        /\ s3.to = s.to /\ s3.stop = TRUE
    BY <1>1, <2>2, ReturnsParts
  <2> HIDE DEF r3, s3
  <2>8. ~ (i < n)
    BY <1>3, <1>4
  <2>9. r3.to = s3.to /\ r3.to \in {<<>>, Succs(b)}
    BY <1>1, <2>6, <2>7
  <2>10. Alike(G, b, i, r3, s3)
    BY <1>1, <1>7, <2>2, <2>6, <2>7, <2>8, <2>9, Zenon DEF Alike, n
  <2> QED BY <2>4, <2>5, <2>10 DEF k, r2, s2, r3, s3
<1>9. CASE ~ (I.op = "ret" /\ I.ops # <<>>)
  <2> DEFINE t == Targets(I)
  <2>1. t = Succs(b)
    <3>1. Nth(b, n) = M.blks[b].first + n - 1
      BY DEF Nth
    <3>2. n # 0
      BY <1>2, <1>3
    <3> HIDE DEF n
    <3>3. LastOf(M, b) = I
      BY <1>4, <3>1 DEF LastOf, n
    <3> QED BY <3>2, <3>3 DEF Succs, n
  <2>2. t \in Ways
    BY <1>3, <2>1 DEF Ways
  <2>3. I.op \in {"br", "br_cond"} \/ (I.op = "ret" /\ I.ops = <<>>)
    BY <1>9 DEF Terminators
  <2>4. r2 = Takes(r, t)
    BY <1>1, <2>3, ExecOf
  <2>5. s2 = Takes(s, t)
    <3>1. J.op \in {"br", "br_cond"} \/ (J.op = "ret" /\ J.ops = <<>>)
      BY <1>5, <2>3
    <3>2. s2 = Takes(s, Targets(J))
      BY <1>1, <3>1, ExecOf
    <3> QED BY <1>5, <3>2
  <2> HIDE DEF t, r2, s2, k, n
  <2> DEFINE r3 == Takes(r, t)
             s3 == Takes(s, t)
  <2>6. /\ r3 \in Runs(DOMAIN M.insts) /\ r3.mem = r.mem /\ r3.val = r.val /\ r3.out = r.out
        /\ r3.to = t /\ r3.stop = TRUE
    BY <1>1, <2>2, TakesParts
  <2>7. /\ s3 \in Runs(DOMAIN After.insts) /\ s3.mem = s.mem /\ s3.val = s.val /\ s3.out = s.out
        /\ s3.to = t /\ s3.stop = TRUE
    BY <1>1, <2>2, TakesParts
  <2> HIDE DEF r3, s3
  <2>8. ~ (i < n)
    BY <1>3, <1>4
  <2>9. r3.to = s3.to /\ r3.to \in {<<>>, Succs(b)}
    BY <2>1, <2>6, <2>7
  <2>10. Alike(G, b, i, r3, s3)
    BY <1>1, <1>7, <2>6, <2>7, <2>8, <2>9, Zenon DEF Alike, n
  <2> QED BY <2>4, <2>5, <2>10 DEF k, r2, s2, r3, s3
<1> QED BY <1>8, <1>9

\* One instruction, on the side after it only when it is kept.
LEMMA ExecAlike ==
  ASSUME NEW G, NEW b, NEW i, NEW r, NEW s, Abreast(G, b, i, r, s), JumpsEnd, NEW s2,
         IF Nth(b, i) \in repl.dead THEN s2 = s
         ELSE \E z : PutAt(b, Nth(b, i), z) /\ s2 = Exec(After, Identity(After), s, z)
  PROVE  Alike(G, b, i, Exec(M, Identity(M), r, Nth(b, i)), s2)
<1> DEFINE k == Nth(b, i)
           I == M.insts[k]
<1>1. Ground(G) /\ b \in Reach /\ i \in 1 .. M.blks[b].n_inst
  BY DEF Abreast
<1>2. I.op \in LowOps
  BY <1>1, CodeOf
<1>3. CASE I.op = "load"
  BY <1>3, AlikeLoad
<1>4. CASE I.op = "store"
  BY <1>4, AlikeStore
<1>5. CASE I.op = "alloca"
  BY <1>5, AlikeAlloca
<1>6. I.op \in {"add", "br", "br_cond", "ret"} => k \notin repl.dead
  <2>1. k \in repl.dead <=> Dies(k)
    BY <1>1, DeadFacts
  <2> QED BY <2>1 DEF Dies, Gets, Puts
<1>7. CASE I.op \in {"add", "br", "br_cond", "ret"}
  <2>1. PICK z : PutAt(b, k, z) /\ s2 = Exec(After, Identity(After), s, z)
    BY <1>6, <1>7
  <2>2. CASE I.op = "add"
    BY <2>1, <2>2, AlikeAdd
  <2>3. CASE I.op \in {"br", "br_cond", "ret"}
    BY <2>1, <2>3, AlikeEnd DEF Terminators
  <2> QED BY <1>7, <2>2, <2>3
<1> QED BY <1>2, <1>3, <1>4, <1>5, <1>7 DEF LowOps

LEMMA BegunRuns ==
  ASSUME NEW D, NEW mm \in [DOMAIN M.insts -> Int], NEW vv \in [D -> Int]
  PROVE  Begun(mm, vv) \in Runs(D)
<1> DEFINE X == [DOMAIN M.insts -> Int]
           Y == [D -> Int]
           W == Ways
<1>1. <<>> \in W /\ None \in Int
  BY DEF Ways, None
<1> HIDE DEF X, Y, W
<1>2. Runs(D) = [mem : X, val : Y, out : Int, to : W, stop : BOOLEAN]
  BY DEF Runs, X, Y, W
<1>3. mm \in X /\ vv \in Y
  BY DEF X, Y
<1> QED BY <1>1, <1>2, <1>3, Zenon DEF Begun

\* The PHIs at the head of a block do nothing when it is run.
LEMMA HeadsQuiet ==
  ASSUME NEW G, Ground(G), NEW b \in Reach, NEW jt, NEW c,
         jt[0] = c, \A k \in 1 .. SizeOf(b) :
           jt[k] = Exec(After, Identity(After), jt[k - 1], FirstOf(b) + k - 1)
  PROVE  jt[Heads(b)] = c
<1> DEFINE h == Heads(b)
           U == {j \in Nat : j <= h => jt[j] = c}
<1>1. Rewritable /\ NumbersFit /\ b \in Blocks /\ Typed
  BY GroundParts DEF Ground
<1>2. h \in Nat /\ SizeOf(b) \in Nat /\ h <= SizeOf(b)
  <2>1. h \in Nat /\ Len(Kept(b)) \in Nat /\ SizeOf(b) = h + Len(Kept(b))
    BY <1>1, CodeSplit
  <2> QED BY <2>1
<1>3. ASSUME NEW j \in Nat, j \in U PROVE j + 1 \in U
  <2> SUFFICES ASSUME j + 1 <= h PROVE jt[j + 1] = c
    OBVIOUS
  <2> DEFINE z == FirstOf(b) + (j + 1) - 1
  <2>1. j + 1 \in 1 .. h /\ j + 1 \in 1 .. SizeOf(b) /\ (j + 1) - 1 = j
    BY <1>2
  <2>2. jt[j] = c
    BY <1>2, <1>3
  <2>3. /\ After.insts[z] = NewInst(Order, FakeId(PhisOf(b)[j + 1]))
        /\ PhisOf(b)[j + 1] \in DOMAIN phi
    BY <1>1, <2>1, HeadPlaces
  <2>4. After.insts[z].op = "phi"
    BY <1>1, <2>3, NewPhiFacts
  <2>5. jt[j + 1] = Exec(After, Identity(After), c, z)
    BY <2>1, <2>2
  <2> HIDE DEF z
  <2> QED BY <2>4, <2>5, ExecOf
<1>4. 0 \in U
  OBVIOUS
<1>5. Nat \subseteq U
  <2> HIDE DEF U
  <2> QED BY <1>3, <1>4, Induction
<1> QED BY <1>2, <1>5

LEMMA BlockAlike ==
  ASSUME NEW G, Ground(G), JumpsEnd, NEW b \in Reach,
         NEW mm \in [DOMAIN M.insts -> Int], NEW vv \in [DOMAIN M.insts -> Int],
         NEW m2 \in [DOMAIN M.insts -> Int], NEW w \in [DOMAIN After.insts -> Int],
         Tracked(G, b, 0, mm, w), Resident(mm, m2)
  PROVE  Alike(G, b, M.blks[b].n_inst, RunBlock(M, Identity(M), b, mm, vv),
               RunBlock(After, Identity(After), b, m2, w))
<1> DEFINE n == M.blks[b].n_inst
           h == Heads(b)
<1>1. /\ Rewritable /\ NumbersFit /\ b \in Blocks /\ Typed /\ Final(M)
      /\ n \in Nat /\ M.blks[b].first \in Nat \ {0}
  BY GroundParts, FinalParts DEF Ground
<1>2. /\ h \in Nat /\ SizeOf(b) \in Nat /\ FirstOf(b) \in Nat
      /\ After.blks[b].first = FirstOf(b) /\ After.blks[b].n_inst = SizeOf(b)
  BY <1>1, CodeSplit, FirstOfNat, AfterFacts
<1>3. PICK it : /\ it[0] = Begun(mm, vv) /\ it[n] = RunBlock(M, Identity(M), b, mm, vv)
                /\ \A k \in 1 .. n : it[k] = Exec(M, Identity(M), it[k - 1], M.blks[b].first + k - 1)
  <2>1. \A m, lc : m.blks[b].n_inst \in Nat => \E it : RunIs(it, m, lc, b, mm, vv)
    BY RunSteps
  <2>2. PICK it : RunIs(it, M, Identity(M), b, mm, vv)
    BY <1>1, <2>1
  <2> QED BY <2>2, Zenon DEF RunIs
<1>4. PICK jt : /\ jt[0] = Begun(m2, w)
                /\ jt[SizeOf(b)] = RunBlock(After, Identity(After), b, m2, w)
                /\ \A k \in 1 .. SizeOf(b) :
                     jt[k] = Exec(After, Identity(After), jt[k - 1], FirstOf(b) + k - 1)
  <2>1. \A m, lc : m.blks[b].n_inst \in Nat => \E f : RunIs(f, m, lc, b, m2, w)
    BY RunSteps
  <2>2. PICK f : RunIs(f, After, Identity(After), b, m2, w)
    BY <1>2, <2>1
  <2>3. /\ f[0] = Begun(m2, w)
        /\ f[After.blks[b].n_inst] = RunBlock(After, Identity(After), b, m2, w)
        /\ \A k \in 1 .. After.blks[b].n_inst :
             f[k] = Exec(After, Identity(After), f[k - 1], After.blks[b].first + k - 1)
    BY <2>2, Zenon DEF RunIs
  <2> QED BY <1>2, <2>3
<1>5. jt[h] = Begun(m2, w)
  BY <1>4, HeadsQuiet
<1>6. PICK cnt : Counting(cnt, b)
  BY <1>1, CountingExists
<1>7. cnt \in [0 .. n -> Nat] /\ cnt[0] = 0 /\ SizeOf(b) = h + cnt[n]
  BY <1>6 DEF Counting
<1> DEFINE U == {i \in Nat : i <= n => Alike(G, b, i, it[i], jt[h + cnt[i]])}
<1>8. 0 \in U
  <2> DEFINE r == Begun(mm, vv)
             s == Begun(m2, w)
  <2>1. r \in Runs(DOMAIN M.insts) /\ s \in Runs(DOMAIN After.insts)
    BY BegunRuns
  <2>2. /\ r.mem = mm /\ r.val = vv /\ r.out = None /\ r.to = <<>> /\ r.stop = FALSE
        /\ s.mem = m2 /\ s.val = w /\ s.out = None /\ s.to = <<>> /\ s.stop = FALSE
    BY Zenon DEF Begun
  <2>3. Computed(b, 0, r.val, s.val)
    <3>1. \A k \in Values(M, b) : ~ (k < Nth(b, 0 + 1))
      BY <1>1 DEF Values, Home, Nth
    <3> QED BY <3>1 DEF Computed
  <2>4. Agree(r.out, s.out)
    BY <2>2 DEF Agree, None, Undef
  <2> HIDE DEF r, s
  <2>5. Alike(G, b, 0, r, s)
    BY <2>1, <2>2, <2>3, <2>4, Zenon DEF Alike
  <2>6. h + cnt[0] = h
    BY <1>2, <1>7
  <2> QED BY <1>3, <1>5, <2>5, <2>6 DEF r, s
<1>9. ASSUME NEW j \in Nat, j \in U PROVE j + 1 \in U
  <2> SUFFICES ASSUME j + 1 <= n PROVE Alike(G, b, j + 1, it[j + 1], jt[h + cnt[j + 1]])
    OBVIOUS
  <2> DEFINE i == j + 1
             k == Nth(b, i)
             r == it[j]
             s == jt[h + cnt[j]]
             s2 == jt[h + cnt[i]]
  <2>1. i \in 1 .. n /\ i - 1 = j /\ j <= n /\ j \in 0 .. n /\ i \in 0 .. n
    BY <1>1
  <2>2. Abreast(G, b, i, r, s)
    BY <1>9, <2>1 DEF Abreast
  <2>3. it[i] = Exec(M, Identity(M), r, k)
    <3>1. it[i] = Exec(M, Identity(M), it[i - 1], M.blks[b].first + i - 1)
      BY <1>3, <2>1
    <3>2. k = M.blks[b].first + i - 1
      BY DEF Nth
    <3> HIDE DEF k, i
    <3> QED BY <2>1, <3>1, <3>2, Zenon
  <2>4. CASE k \in repl.dead
    <3>1. cnt[i] = cnt[i - 1]
      BY <1>6, <2>1, <2>4 DEF Counting
    <3>2. s2 = s
      BY <2>1, <3>1
    <3>3. Alike(G, b, i, Exec(M, Identity(M), r, k), s2)
      BY <2>2, <2>4, <3>2, ExecAlike
    <3> QED BY <2>3, <3>3
  <2>5. CASE k \notin repl.dead
    <3> DEFINE z == FirstOf(b) + h + cnt[i] - 1
    <3>1. cnt[i] = cnt[i - 1] + 1 /\ PutAt(b, k, z)
      BY <1>6, <2>1, <2>5 DEF Counting, PutAt
    <3>2. cnt[i] \in Nat /\ cnt[j] \in Nat /\ cnt[i] = cnt[j] + 1
      BY <1>7, <2>1, <3>1
    <3>3. z \in FirstOf(b) .. (FirstOf(b) + SizeOf(b) - 1)
      BY <3>1 DEF PutAt, Spot
    <3> DEFINE l == h + cnt[i]
    <3>4. l \in 1 .. SizeOf(b) /\ l - 1 = h + cnt[j] /\ z = FirstOf(b) + l - 1
      BY <1>2, <3>2, <3>3
    <3>5. jt[l] = Exec(After, Identity(After), jt[l - 1], FirstOf(b) + l - 1)
      BY <1>4, <3>4
    <3>6. s2 = Exec(After, Identity(After), s, z)
      <4> HIDE DEF z
      <4>1. jt[l - 1] = s
        BY <3>4
      <4> HIDE DEF l, s
      <4>2. jt[l] = Exec(After, Identity(After), s, z)
        BY <3>4, <3>5, <4>1
      <4> QED BY <4>2 DEF l
    <3> HIDE DEF z
    <3>7. Alike(G, b, i, Exec(M, Identity(M), r, k), s2)
      BY <2>2, <2>5, <3>1, <3>6, ExecAlike
    <3> QED BY <2>3, <3>7
  <2> QED BY <2>4, <2>5
<1>10. Nat \subseteq U
  <2> HIDE DEF U
  <2> QED BY <1>8, <1>9, Induction
<1>11. Alike(G, b, n, it[n], jt[h + cnt[n]])
  BY <1>1, <1>10
<1> QED BY <1>3, <1>4, <1>7, <1>11

---------------------------------------------------------------------------
(* phi_cpy on the way from b to t: each PHI of t gets what b leaves.       *)

\* The PHIs at the head of t.
LEMMA HeadsOnly ==
  ASSUME NEW G, Ground(G), NEW t \in Blocks, NEW z \in Spot(t), After.insts[z].op = "phi"
  PROVE  \E p \in DOMAIN phi :
           /\ phi[p].blk = t /\ z \in DOMAIN Order /\ Order[z] = FakeId(p)
           /\ After.insts[z] = NewInst(Order, FakeId(p))
<1>1. Final(M) /\ Typed /\ Rewritable /\ NumbersFit
  BY GroundParts DEF Ground
<1>2. PICK j \in 1 .. SizeOf(t) : z = FirstOf(t) + j - 1
  BY <1>1, PlacesFacts
<1>3. z \in DOMAIN Order /\ Order[z] = NewCode(t)[j]
  BY <1>1, <1>2, PlacesFacts
<1>4. /\ Heads(t) \in Nat /\ Len(Kept(t)) \in Nat /\ SizeOf(t) = Heads(t) + Len(Kept(t))
      /\ \A l \in 1 .. Len(Kept(t)) : NewCode(t)[Heads(t) + l] = Kept(t)[l]
  BY <1>1, CodeSplit
<1>5. After.insts[z] = NewInst(Order, Order[z])
  BY <1>1, <1>3, AfterFacts
<1>6. CASE j <= Heads(t)
  <2>1. j \in 1 .. Heads(t)
    BY <1>4, <1>6
  <2> QED BY <1>1, <1>2, <2>1, HeadPlaces
<1>7. CASE ~ (j <= Heads(t))
  <2> DEFINE l == j - Heads(t)
             k == Kept(t)[l]
  <2>1. l \in 1 .. Len(Kept(t)) /\ Heads(t) + l = j
    BY <1>4, <1>7
  <2>2. Order[z] = k
    BY <1>3, <1>4, <2>1
  <2>3. k \in Home(M, t)
    <3>1. DOMAIN Kept(t) = 1 .. Len(Kept(t)) /\ Range(Kept(t)) = Home(M, t) \ repl.dead
      BY <1>1, KeptFacts
    <3> HIDE DEF l
    <3> QED BY <2>1, <3>1 DEF Range
  <2>4. k \in DOMAIN M.insts /\ ~ IsFake(k)
    BY <1>1, <2>3, KeptFacts
  <2> HIDE DEF k
  <2>5. M.insts[k].op \in LowOps
    BY <1>1, <2>4, FinalParts DEF Shaped, Made
  <2>6. After.insts[z].op = M.insts[k].op
    BY <1>1, <1>5, <2>2, <2>4, NewInstFacts
  <2> QED BY <2>5, <2>6 DEF LowOps
<1> QED BY <1>6, <1>7

\* No PHI has more operands than an instruction has slots.
SlotsFit ==
  \A p \in DOMAIN phi :
    Cardinality({b \in Blocks : phi[p].blk \in Range(Succs(b))}) <= OpSlots
LEMMA PredsShort ==
  ASSUME NEW G, Ground(G), SlotsFit, NEW p \in DOMAIN phi
  PROVE  Len(pred[phi[p].blk]) <= OpSlots /\ Len(pred[phi[p].blk]) \in Nat
<1> DEFINE t == phi[p].blk
           s == pred[t]
           S == {b \in Blocks : t \in Range(Succs(b))}
<1>1. Final(M) /\ Typed /\ Ready /\ TreeRight
  BY GroundParts
<1>2. t \in Blocks
  <2>1. phi[p] \in PhiRec
    BY <1>1, LenProperties DEF Typed
  <2> QED BY <2>1 DEF PhiRec
<1>3. IsSeq(s) /\ IsInjective(s) /\ Range(s) = S
  BY <1>1, <1>2 DEF Ready, TreeRight
<1>4. Blocks = 1 .. Len(M.blks) /\ Len(M.blks) \in Nat
  BY <1>1, FinalParts
<1>5. IsFiniteSet(Blocks)
  BY <1>4, FS_Interval
<1>6. IsFiniteSet(S)
  BY <1>5, FS_Subset
<1>7. Cardinality(S) <= OpSlots
  BY DEF SlotsFit
<1> HIDE DEF S, s, t
<1>8. Len(s) \in Nat /\ DOMAIN s = 1 .. Len(s)
  BY <1>3, DomainOfSeq
<1>9. IsFiniteSet(1 .. Len(s)) /\ Cardinality(1 .. Len(s)) = Len(s)
  <2>1. ASSUME NEW m \in Nat PROVE IsFiniteSet(1 .. m) /\ Cardinality(1 .. m) = m
    <3>1. IsFiniteSet(1 .. m) /\ Cardinality(1 .. m) = IF 1 > m THEN 0 ELSE m - 1 + 1
      BY FS_Interval
    <3> QED BY <3>1
  <2> QED BY <1>8, <2>1
<1>10. s \in Injection(1 .. Len(s), S)
  <2>1. s \in [1 .. Len(s) -> S]
    <3>1. s = [k \in DOMAIN s |-> s[k]]
      BY <1>3 DEF IsSeq
    <3> QED BY <1>3, <1>8, <3>1 DEF Range
  <2> QED BY <1>3, <1>8, <2>1 DEF Injection, IsInjective
<1>11. Cardinality(1 .. Len(s)) <= Cardinality(S)
  BY <1>6, <1>9, <1>10, FS_Injection
<1>12. Cardinality(S) \in Nat /\ OpSlots \in Nat
  BY <1>6, FS_CardinalityType, Mem2RegAssumption
<1>13. Len(s) <= OpSlots
  BY <1>7, <1>8, <1>9, <1>11, <1>12
<1> QED BY <1>8, <1>13 DEF s, t

\* The operand of a PHI for the way from b: what b leaves, remapped.
SlotOf(b, t) == SelectInSeq(pred[t], LAMBDA q : q = b)
LEMMA PhiSource ==
  ASSUME NEW G, Ground(G), SlotsFit, NEW b \in Reach, NEW t \in Range(Succs(b)),
         NEW p \in DOMAIN phi, phi[p].blk = t
  PROVE  LET J == NewInst(Order, FakeId(p))
             x == Leaving(G, b)[phi[p].var]
         IN /\ SlotOf(b, t) # 0 /\ SlotOf(b, t) \in DOMAIN J.ops
            /\ J.ops[SlotOf(b, t)] = remap(Order, x) /\ remap(Order, x) # None
            /\ phi[p].var \in DOMAIN pvar
<1> DEFINE slot == SlotOf(b, t)
           v == phi[p].var
           c == phi[p].ops
           x == Leaving(G, b)[v]
           J == NewInst(Order, FakeId(p))
           n == M.blks[b].n_inst
<1>1. /\ Final(M) /\ Typed /\ Ready /\ TreeRight /\ Renaming /\ ChainsFit /\ CarriedAll(G)
      /\ b \in Blocks
  BY GroundParts DEF Ground
<1>2. phi[p] \in PhiRec /\ p \in Nat \ {0}
  BY <1>1, LenProperties DEF Typed
<1>3. t \in Blocks /\ v \in DOMAIN pvar /\ c \in Seq(Int) /\ DOMAIN c = DOMAIN pred[t]
  BY <1>1, <1>2 DEF PhiRec, Typed
<1>4. slot # 0 /\ slot \in DOMAIN pred[t] /\ pred[t][slot] = b
  <2>1. IsSeq(pred[t]) /\ b \in Range(pred[t])
    BY <1>1, <1>3 DEF Ready
  <2>2. (slot = 0 /\ b \notin Range(pred[t])) \/ (slot # 0 /\ slot \in DOMAIN pred[t] /\ pred[t][slot] = b)
    BY <2>1, SlotFacts DEF SlotOf
  <2> QED BY <2>1, <2>2
<1> HIDE DEF slot
<1>5. Len(pred[t]) <= OpSlots /\ Len(pred[t]) \in Nat
  BY PredsShort
<1>6. Prefix(c, OpSlots) = c
  <2>1. IsSeq(c) /\ IsSeq(pred[t])
    BY <1>1, <1>3, SeqIsSeq DEF Ready
  <2>2. DOMAIN c = 1 .. Len(c) /\ Len(c) \in Nat /\ DOMAIN pred[t] = 1 .. Len(pred[t])
    BY <2>1, DomainOfSeq
  <2>3. Len(c) <= OpSlots
    <3>1. ASSUME NEW i \in Nat, NEW j \in Nat, 1 .. i = 1 .. j PROVE i <= j
      <4>1. i = 0 \/ i \in 1 .. j
        BY <3>1
      <4> QED BY <4>1
    <3>2. Len(c) <= Len(pred[t])
      BY <1>3, <1>5, <2>2, <3>1
    <3> DEFINE i == Len(c)
               j == Len(pred[t])
    <3>3. i <= j /\ j <= OpSlots /\ i \in Nat /\ j \in Nat
      BY <1>5, <2>2, <3>2
    <3> HIDE DEF i, j
    <3>4. i <= OpSlots
      BY <3>3, Mem2RegAssumption
    <3> QED BY <3>4 DEF i
  <2>4. /\ IsSeq(Prefix(c, OpSlots)) /\ DOMAIN Prefix(c, OpSlots) = DOMAIN c
        /\ \A k \in DOMAIN Prefix(c, OpSlots) : Prefix(c, OpSlots)[k] = c[k]
    BY <2>1, <2>3, PrefixFacts, Mem2RegAssumption
  <2> DEFINE d == Prefix(c, OpSlots)
  <2> HIDE DEF d, c
  <2>5. d = [k \in DOMAIN d |-> d[k]] /\ c = [k \in DOMAIN c |-> c[k]]
    BY <2>1, <2>4 DEF IsSeq, d
  <2> QED BY <2>4, <2>5 DEF d
<1>7. J = Inst("phi", [k \in DOMAIN c |-> remap(Order, c[k])])
  <2>1. IsFake(FakeId(p)) /\ FakeId(p) - FakeBase = p
    BY <1>2, Mem2RegAssumption DEF IsFake, FakeId
  <2> QED BY <1>6, <2>1 DEF NewInst
<1>8. slot \in DOMAIN J.ops /\ J.ops[slot] = remap(Order, c[slot])
  <2>1. J.ops = [k \in DOMAIN c |-> remap(Order, c[k])]
    BY <1>7 DEF Inst
  <2> HIDE DEF J, c
  <2> QED BY <1>3, <1>4, <2>1
<1>9. c[slot] = x
  <2>1. SentBy(phi, G, Reach) /\ Filled(phi, b, t)
    BY <1>1, <1>3 DEF Ground, TrailAt, Renaming
  <2>2. c[slot] # None
    BY <1>3, <1>4, <2>1 DEF Filled
  <2> QED BY <1>3, <1>4, <2>1, <2>2 DEF SentBy
<1>10. remap(Order, x) # None
  <2>1. n \in Nat /\ M.blks[b].first \in Nat
    BY <1>1, FinalParts
  <2>2. x \in Int /\ Supplied(x, b, Nth(b, n + 1))
    <3>1. Typed /\ TreeRight /\ CarriedAll(G) /\ v \in DOMAIN pvar
      BY <1>1, <1>3
    <3>2. x = G[b][n][v] /\ n \in 0 .. n
      BY <2>1 DEF Leaving
    <3> HIDE DEF v
    <3>3. \A i \in 0 .. M.blks[b].n_inst :
            G[b][i][v] \in Int /\ Supplied(G[b][i][v], b, Nth(b, i + 1))
      BY <3>1, TrailSupplied
    <3> HIDE DEF x
    <3> QED BY <3>2, <3>3
  <2>3. Nth(b, n + 1) \in Int
    BY <2>1 DEF Nth
  <2> HIDE DEF x
  <2> QED BY <2>2, <2>3, NowFacts
<1> QED BY <1>3, <1>4, <1>8, <1>9, <1>10 DEF slot

\* The PHIs of a block of module m, and where each takes its value from.
Copied(m, t) ==
  Keep([k \in 1 .. m.blks[t].n_inst |-> m.blks[t].first + k - 1],
       {k \in DOMAIN m.insts : m.insts[k].op = "phi"})
CopySource(m, lc, slot, w, ops) ==
  IF slot \in DOMAIN ops /\ ops[slot] # None THEN Value(w, lc, ops[slot]) ELSE Undef
CopyRun(it, m, lc, b, t, w) ==
  LET s == Copied(m, t) IN
  /\ it[0] = w /\ it[Len(s)] = phi_cpy(m, lc, w, b, t)
  /\ \A k \in 1 .. Len(s) :
       it[k] = [it[k - 1] EXCEPT ![lc[s[k]]] =
                 CopySource(m, lc, SlotOf(b, t), it[k - 1], m.insts[s[k]].ops)]
LEMMA CopySteps ==
  ASSUME NEW m, NEW lc, NEW b, NEW t, NEW w, SlotOf(b, t) # 0, Len(Copied(m, t)) \in Nat
  PROVE  \E it : CopyRun(it, m, lc, b, t, w)
<1> DEFINE slot == SlotOf(b, t)
           s == Copied(m, t)
           n == Len(s)
           x0 == w
           src(x, ops) == IF slot \in DOMAIN ops /\ ops[slot] # None
                            THEN Value(x, lc, ops[slot]) ELSE Undef
           Do(x, k) == [x EXCEPT ![lc[s[k]]] = src(x, m.insts[s[k]].ops)]
           Is(f) == f = [k \in 0 .. n |-> IF k = 0 THEN x0 ELSE Do(f[k - 1], k)]
           Upto(f, k) == /\ f = [j \in 0 .. k |-> f[j]] /\ f[0] = x0
                         /\ \A j \in 1 .. k : f[j] = Do(f[j - 1], j)
           U == {k \in Nat : k <= n => \E f : Upto(f, k)}
<1>1. n \in Nat
  OBVIOUS
<1> HIDE DEF s, n, Do, x0, slot
<1>5. 0 \in U
  <2> DEFINE f == [j \in 0 .. 0 |-> x0]
  <2>1. f = [j \in 0 .. 0 |-> f[j]] /\ f[0] = x0 /\ 1 .. 0 = {}
    OBVIOUS
  <2> HIDE DEF f
  <2> QED BY <2>1
<1>6. ASSUME NEW k \in Nat, k \in U PROVE k + 1 \in U
  <2> SUFFICES ASSUME k + 1 <= n PROVE \E f : Upto(f, k + 1)
    OBVIOUS
  <2>1. PICK f : Upto(f, k)
    BY <1>1, <1>6
  <2> DEFINE g == [j \in 0 .. k + 1 |-> IF j <= k THEN f[j] ELSE Do(f[k], k + 1)]
  <2>2. g = [j \in 0 .. k + 1 |-> g[j]] /\ g[0] = x0
    BY <2>1
  <2>3. ASSUME NEW j \in 1 .. k + 1 PROVE g[j] = Do(g[j - 1], j)
    <3>1. j \in 0 .. k + 1 /\ j - 1 \in 0 .. k + 1 /\ j - 1 <= k
      OBVIOUS
    <3>2. g[j - 1] = f[j - 1] /\ g[j] = IF j <= k THEN f[j] ELSE Do(f[k], k + 1)
      BY <3>1
    <3> HIDE DEF g
    <3>3. CASE j <= k
      <4>1. j \in 1 .. k
        BY <3>3
      <4>2. f[j] = Do(f[j - 1], j)
        BY <2>1, <4>1
      <4>3. g[j] = f[j] /\ g[j - 1] = f[j - 1]
        BY <3>2, <3>3
      <4> QED BY <4>2, <4>3, Zenon
    <3>4. CASE ~ (j <= k)
      <4>1. j = k + 1 /\ j - 1 = k
        BY <3>4
      <4>2. g[j] = Do(f[k], k + 1) /\ g[j - 1] = f[k]
        BY <3>2, <3>4, <4>1
      <4> QED BY <4>1, <4>2, Zenon
    <3> QED BY <3>3, <3>4
  <2> HIDE DEF g
  <2> QED BY <2>2, <2>3
<1>7. \E f : Is(f)
  <2>1. n \in U
    <3> HIDE DEF U
    <3> QED BY <1>1, <1>5, <1>6, Induction
  <2>2. PICK f : Upto(f, n)
    BY <1>1, <2>1
  <2>0. \A k \in 0 .. n : k # 0 => k \in 1 .. n
    BY <1>1
  <2>3. \A k \in 0 .. n : f[k] = IF k = 0 THEN x0 ELSE Do(f[k - 1], k)
    BY <2>0, <2>2
  <2>4. Is(f)
    BY <2>2, <2>3
  <2> HIDE DEF Is
  <2> QED BY <2>4
<1> DEFINE it == CHOOSE f : Is(f)
<1>8. Is(it)
  <2> HIDE DEF Is
  <2> QED BY <1>7
<1>9. phi_cpy(m, lc, w, b, t) = it[n]
  <2>1. slot # 0
    BY DEF slot
  <2> QED BY <2>1, Zenon DEF phi_cpy, Through, Copied, SlotOf, Do, n, s, x0, slot
<1> HIDE DEF it
<1>10. it[0] = x0
  BY <1>1, <1>8
<1>11. ASSUME NEW k \in 1 .. n
       PROVE  it[k] = [it[k - 1] EXCEPT ![lc[s[k]]] =
                        CopySource(m, lc, slot, it[k - 1], m.insts[s[k]].ops)]
  <2>1. k \in 0 .. n /\ k # 0
    BY <1>1
  <2>2. it[k] = Do(it[k - 1], k)
    BY <1>1, <1>8, <2>1
  <2> QED BY <2>2, Zenon DEF Do, CopySource
<1>12. CopyRun(it, m, lc, b, t, w)
  BY <1>1, <1>9, <1>10, <1>11, Zenon DEF x0, n, s, slot, CopyRun
<1> QED BY <1>12

\* The PHIs of t are copied in the order of their places.
LEMMA CopiedFacts ==
  ASSUME NEW G, Ground(G), NEW t \in Blocks
  PROVE  LET s == Copied(After, t) IN
         /\ Len(s) \in Nat /\ DOMAIN s = 1 .. Len(s) /\ Rising(s) /\ IsInjective(s)
         /\ Range(s) = {z \in Spot(t) : After.insts[z].op = "phi"}
         /\ Spot(t) \subseteq DOMAIN After.insts /\ Spot(t) \subseteq Int
<1> DEFINE n == After.blks[t].n_inst
           q == [k \in 1 .. n |-> After.blks[t].first + k - 1]
           U == {k \in DOMAIN After.insts : After.insts[k].op = "phi"}
           s == Keep(q, U)
<1>1. Rewritable
  BY GroundParts
<1>2. FirstOf(t) \in Nat /\ SizeOf(t) \in Nat /\ n = SizeOf(t) /\ After.blks[t].first = FirstOf(t)
  BY <1>1, FirstOfNat, AfterFacts
<1>3. Spot(t) \subseteq DOMAIN After.insts /\ Spot(t) \subseteq Int
  <2>1. Spot(t) \subseteq DOMAIN Order
    BY <1>1, PlacesFacts
  <2>2. DOMAIN Order \subseteq DOMAIN After.insts
    BY <1>1, AfterDomain
  <2> QED BY <1>2, <2>1, <2>2 DEF Spot
<1>4. /\ q = [k \in 1 .. n |-> q[k]] /\ \A k \in 1 .. n : q[k] = FirstOf(t) + k - 1
  BY <1>2
<1> HIDE DEF q, n
<1>5. DOMAIN q = 1 .. n /\ n \in Nat
  BY <1>2, <1>4
<1>6. IsSeq(q)
  BY <1>4, <1>5, FunctionIsSeq
<1>7. Range(q) = Spot(t)
  <2>1. ASSUME NEW z \in Spot(t) PROVE z \in Range(q)
    <3> DEFINE k == z - FirstOf(t) + 1
    <3>1. k \in 1 .. n /\ q[k] = z
      BY <1>2, <1>4 DEF Spot
    <3> QED BY <1>5, <3>1 DEF Range
  <2>2. ASSUME NEW z \in Range(q) PROVE z \in Spot(t)
    BY <1>2, <1>4, <1>5 DEF Range, Spot
  <2> QED BY <2>1, <2>2
<1>8. Rising(q) /\ IsInjective(q)
  BY <1>2, <1>4, <1>5 DEF Rising, IsInjective
<1>9. Rising(s) /\ IsInjective(s)
  BY <1>3, <1>6, <1>7, <1>8, KeepRising, KeepInjective
<1>10. IsSeq(s) /\ Range(s) = Spot(t) \cap U
  BY <1>6, <1>7, KeepFacts
<1>11. Copied(After, t) = s
  BY Zenon DEF Copied, s, q, U, n
<1> HIDE DEF s
<1>12. Len(s) \in Nat /\ DOMAIN s = 1 .. Len(s)
  BY <1>10, DomainOfSeq
<1> QED BY <1>3, <1>9, <1>10, <1>11, <1>12

\* No PHI takes the value of one that is copied before it.
OrderFree ==
  \A b \in Blocks : \A j, k \in Spot(b) :
    After.insts[j].op = "phi" /\ After.insts[k].op = "phi" /\ j < k =>
      j \notin Range(After.insts[k].ops)
\* The value that the PHI at z gets on the way from b.
Brought(b, t, z, w) ==
  CopySource(After, Identity(After), SlotOf(b, t), w, After.insts[z].ops)
\* w and x differ at most in the PHIs of t before z.
AgreeBut(t, z, w, x) ==
  \A u \in DOMAIN Order :
    ~ (u \in Spot(t) /\ After.insts[u].op = "phi" /\ u < z) => x[u] = w[u]
LEMMA BroughtFacts ==
  ASSUME NEW G, Ground(G), SlotsFit, OrderFree, NEW b \in Reach, NEW t \in Range(Succs(b)),
         NEW z \in Spot(t), NEW p \in DOMAIN phi, phi[p].blk = t,
         After.insts[z] = NewInst(Order, FakeId(p)), After.insts[z].op = "phi"
  PROVE  LET y == Leaving(G, b)[phi[p].var]
         IN /\ \A x : Brought(b, t, z, x) = Now(x, y)
            /\ \A x \in [DOMAIN After.insts -> Int] : Now(x, y) \in Int
            /\ \A w, x : AgreeBut(t, z, w, x) => Now(x, y) = Now(w, y)
<1> DEFINE y == Leaving(G, b)[phi[p].var]
           r == remap(Order, y)
           ops == After.insts[z].ops
           n == M.blks[b].n_inst
<1>1. /\ SlotOf(b, t) \in DOMAIN ops /\ ops[SlotOf(b, t)] = r /\ r # None
      /\ phi[p].var \in DOMAIN pvar
  BY PhiSource
<1>2. \A x : Brought(b, t, z, x) = Now(x, y)
  <2> HIDE DEF ops, r
  <2>1. \A x : Brought(b, t, z, x) = Value(x, Identity(After), ops[SlotOf(b, t)])
    BY <1>1 DEF Brought, CopySource, ops
  <2> QED BY <1>1, <2>1, Zenon DEF Now, r
<1>3. Final(M) /\ Typed /\ TreeRight /\ CarriedAll(G) /\ b \in Blocks /\ t \in Blocks /\ Rewritable
  <2>1. Final(M) /\ Typed /\ TreeRight /\ CarriedAll(G) /\ b \in Blocks /\ Rewritable
    BY GroundParts
  <2>2. t \in Blocks
    BY <2>1, GroundParts DEF Graph
  <2> QED BY <2>1, <2>2
<1>4. y \in Int /\ Supplied(y, b, Nth(b, n + 1)) /\ Nth(b, n + 1) \in Int
  <2>1. n \in Nat /\ M.blks[b].first \in Nat
    BY <1>3, FinalParts
  <2> QED BY <1>1, <1>3, <2>1, TrailSupplied DEF Leaving, Nth
<1>5. /\ (IsConst(r) /\ r \in Int) \/ (~ IsConst(r) /\ r \in DOMAIN Order)
      /\ \A w : Now(w, y) = IF IsConst(r) THEN r ELSE w[r]
  <2> HIDE DEF y
  <2> QED BY <1>4, NowFacts
<1>6. ~ IsConst(r) => ~ (r \in Spot(t) /\ After.insts[r].op = "phi" /\ r < z)
  <2>1. r \in Range(ops)
    BY <1>1 DEF Range
  <2> HIDE DEF r, ops
  <2> QED BY <1>3, <2>1 DEF OrderFree, ops
<1>7. DOMAIN Order \subseteq DOMAIN After.insts
  BY <1>3, AfterDomain
<1> HIDE DEF y, r
<1>8. \A x \in [DOMAIN After.insts -> Int] : Now(x, y) \in Int
  BY <1>5, <1>7
<1>9. \A w, x : AgreeBut(t, z, w, x) => Now(x, y) = Now(w, y)
  BY <1>5, <1>6 DEF AgreeBut
<1> QED BY <1>2, <1>8, <1>9 DEF y

\* One after the other, the PHIs of t get what they would get all at once.
AllBrought(b, t, w) ==
  [z \in DOMAIN After.insts |->
     IF z \in Spot(t) /\ After.insts[z].op = "phi" THEN Brought(b, t, z, w) ELSE w[z]]
LEMMA CopiesAtOnce ==
  ASSUME NEW G, Ground(G), SlotsFit, OrderFree, NEW b \in Reach, NEW t \in Range(Succs(b)),
         NEW w \in [DOMAIN After.insts -> Int], t \in Blocks, SlotOf(b, t) # 0
  PROVE  phi_cpy(After, Identity(After), w, b, t) = AllBrought(b, t, w)
<1> DEFINE s == Copied(After, t)
           n == Len(s)
           D == DOMAIN After.insts
           V(z) == Brought(b, t, z, w)
           Copying(k) == {s[l] : l \in 1 .. k}
           X(k) == [z \in D |-> IF z \in Copying(k) THEN V(z) ELSE w[z]]
<1>1. /\ n \in Nat /\ DOMAIN s = 1 .. n /\ Rising(s) /\ IsInjective(s)
      /\ Range(s) = {z \in Spot(t) : After.insts[z].op = "phi"}
      /\ Spot(t) \subseteq D /\ Spot(t) \subseteq Int
  BY CopiedFacts
<1>2. \A k \in 1 .. n :
        /\ s[k] \in Spot(t) /\ After.insts[s[k]].op = "phi" /\ s[k] \in D /\ s[k] \in Int
        /\ Identity(After)[s[k]] = s[k]
  <2>1. \A k \in 1 .. n : s[k] \in Range(s)
    BY <1>1 DEF Range
  <2> QED BY <1>1, <2>1 DEF Identity
<1>3. DOMAIN Order \subseteq D
  BY GroundParts, AfterDomain
<1>4. PICK it : CopyRun(it, After, Identity(After), b, t, w)
  BY <1>1, CopySteps
<1>40. it[0] = w /\ it[n] = phi_cpy(After, Identity(After), w, b, t)
  BY <1>4, Zenon DEF CopyRun
<1>41. ASSUME NEW k \in 1 .. n
       PROVE  it[k] = [it[k - 1] EXCEPT ![Identity(After)[s[k]]] =
                CopySource(After, Identity(After), SlotOf(b, t), it[k - 1], After.insts[s[k]].ops)]
  BY <1>4, Zenon DEF CopyRun
<1> HIDE DEF s, n, D
<1>5. ASSUME NEW k \in 1 .. n
      PROVE  it[k] = [it[k - 1] EXCEPT ![s[k]] = Brought(b, t, s[k], it[k - 1])]
  <2> DEFINE d == Identity(After)[s[k]]
             y == CopySource(After, Identity(After), SlotOf(b, t), it[k - 1], After.insts[s[k]].ops)
  <2>1. it[k] = [it[k - 1] EXCEPT ![d] = y]
    BY <1>41, Zenon
  <2>2. d = s[k]
    BY <1>2, Zenon
  <2>3. y = Brought(b, t, s[k], it[k - 1])
    BY Zenon DEF Brought
  <2> HIDE DEF d, y
  <2> QED BY <2>1, <2>2, <2>3
<1> DEFINE U == {k \in Nat : k <= n => it[k] = X(k)}
<1>6. 0 \in U
  <2>1. Copying(0) = {}
    OBVIOUS
  <2>2. w = [z \in D |-> w[z]]
    BY DEF D
  <2> QED BY <1>40, <2>1, <2>2
<1>7. ASSUME NEW k \in Nat, k \in U PROVE k + 1 \in U
  <2> SUFFICES ASSUME k + 1 <= n PROVE it[k + 1] = X(k + 1)
    OBVIOUS
  <2> DEFINE x == it[k]
             z == s[k + 1]
  <2>1. k + 1 \in 1 .. n /\ (k + 1) - 1 = k /\ x = X(k)
    BY <1>1, <1>7
  <2>2. it[k + 1] = [x EXCEPT ![z] = Brought(b, t, z, x)]
    BY <1>5, <2>1
  <2>3. z \in Spot(t) /\ After.insts[z].op = "phi" /\ z \in D
    BY <1>2, <2>1
  <2>4. AgreeBut(t, z, w, x)
    <3> SUFFICES ASSUME NEW u \in DOMAIN Order, x[u] # w[u]
                 PROVE  u \in Spot(t) /\ After.insts[u].op = "phi" /\ u < z
      BY DEF AgreeBut
    <3>1. u \in D /\ u \in Copying(k)
      BY <1>3, <2>1
    <3>2. PICK l \in 1 .. k : u = s[l]
      BY <3>1
    <3>3. l \in 1 .. n /\ l < k + 1
      BY <2>1, <1>1
    <3>4. s[l] < s[k + 1]
      BY <1>1, <2>1, <3>3 DEF Rising
    <3> QED BY <1>2, <3>2, <3>3, <3>4
  <2>5. PICK p \in DOMAIN phi : phi[p].blk = t /\ After.insts[z] = NewInst(Order, FakeId(p))
    BY <2>3, HeadsOnly
  <2>6. Brought(b, t, z, x) = V(z)
    <3> DEFINE y == Leaving(G, b)[phi[p].var]
    <3>1. \A c : Brought(b, t, z, c) = Now(c, y)
      BY <2>3, <2>5, BroughtFacts
    <3>2. \A c, d : AgreeBut(t, z, c, d) => Now(d, y) = Now(c, y)
      BY <2>3, <2>5, BroughtFacts
    <3> HIDE DEF y
    <3> QED BY <2>4, <3>1, <3>2
  <2>7. Copying(k + 1) = Copying(k) \cup {z}
    BY <2>1
  <2>8. [x EXCEPT ![z] = V(z)] = X(k + 1)
    <3> HIDE DEF z, Copying, V
    <3>1. x = [u \in D |-> IF u \in Copying(k) THEN V(u) ELSE w[u]]
      BY <2>1
    <3> HIDE DEF x
    <3>2. [x EXCEPT ![z] = V(z)] = [u \in D |-> IF u = z THEN V(z) ELSE x[u]]
      BY <3>1
    <3>3. \A u \in D : (IF u = z THEN V(z) ELSE x[u]) = IF u \in Copying(k + 1) THEN V(u) ELSE w[u]
      BY <2>7, <3>1
    <3> QED BY <3>2, <3>3
  <2> HIDE DEF X, x, z, V
  <2> QED BY <2>2, <2>6, <2>8
<1>8. it[n] = X(n)
  <2>1. Nat \subseteq U
    <3> HIDE DEF U
    <3> QED BY <1>6, <1>7, Induction
  <2> HIDE DEF X
  <2> QED BY <1>1, <2>1
<1>9. X(n) = AllBrought(b, t, w)
  <2>1. \A z : z \in Copying(n) <=> z \in Spot(t) /\ After.insts[z].op = "phi"
    <3>1. Copying(n) = Range(s)
      BY <1>1 DEF Range
    <3> QED BY <1>1, <3>1
  <2> HIDE DEF Copying
  <2> QED BY <2>1 DEF AllBrought, D
<1> QED BY <1>40, <1>8, <1>9

\* After the copies, t starts with what b left.
LEMMA FlowAlike ==
  ASSUME NEW G, Ground(G), SlotsFit, OrderFree, NEW b \in Reach, NEW t \in Range(Succs(b)),
         NEW mm, NEW w \in [DOMAIN After.insts -> Int], Tracked(G, b, M.blks[b].n_inst, mm, w)
  PROVE  LET w2 == phi_cpy(After, Identity(After), w, b, t)
         IN w2 \in [DOMAIN After.insts -> Int] /\ t \in Reach /\ Tracked(G, t, 0, mm, w2)
<1> DEFINE w2 == AllBrought(b, t, w)
           n == M.blks[b].n_inst
           D == DOMAIN After.insts
<1>1. /\ Final(M) /\ Typed /\ TreeRight /\ CarriedAll(G) /\ Rewritable /\ NumbersFit /\ Ready
      /\ b \in Blocks /\ t \in Blocks /\ t \in Reach /\ t # 1 /\ idom[t] \in Reach
      /\ SDom(idom[t], t) /\ Reach \subseteq Blocks
  <2>1. /\ Final(M) /\ Typed /\ TreeRight /\ CarriedAll(G) /\ Rewritable /\ NumbersFit /\ Ready
        /\ Graph /\ Reach \subseteq Blocks /\ b \in Blocks /\ 1 \notin Range(Succs(b))
    BY GroundParts
  <2>2. t \in Blocks /\ t \in Reach /\ t # 1
    BY <2>1, ReachFacts
  <2>3. idom[t] \in Reach /\ SDom(idom[t], t)
    BY <2>2, GroundParts
  <2> QED BY <2>1, <2>2, <2>3
<1>2. SlotOf(b, t) # 0
  <2>1. IsSeq(pred[t]) /\ b \in Range(pred[t])
    BY <1>1 DEF Ready
  <2>2. (SlotOf(b, t) = 0 /\ b \notin Range(pred[t]))
          \/ (SlotOf(b, t) # 0 /\ SlotOf(b, t) \in DOMAIN pred[t] /\ pred[t][SlotOf(b, t)] = b)
    BY <2>1, SlotFacts DEF SlotOf
  <2> QED BY <2>1, <2>2
<1>3. phi_cpy(After, Identity(After), w, b, t) = w2
  BY <1>1, <1>2, CopiesAtOnce
<1>4. DOMAIN Order \subseteq D
  BY <1>1, AfterDomain
<1>5. \A z \in D : w2[z] = IF z \in Spot(t) /\ After.insts[z].op = "phi"
                             THEN Brought(b, t, z, w) ELSE w[z]
  BY DEF AllBrought
<1>6. w2 \in [D -> Int]
  <2>1. ASSUME NEW z \in Spot(t), After.insts[z].op = "phi"
        PROVE  Brought(b, t, z, w) \in Int
    <3>1. PICK p \in DOMAIN phi : phi[p].blk = t /\ After.insts[z] = NewInst(Order, FakeId(p))
      BY <1>1, <2>1, HeadsOnly
    <3> DEFINE y == Leaving(G, b)[phi[p].var]
    <3>2. \A c : Brought(b, t, z, c) = Now(c, y)
      BY <2>1, <3>1, BroughtFacts
    <3>3. Now(w, y) \in Int
      BY <2>1, <3>1, BroughtFacts
    <3> HIDE DEF y
    <3> QED BY <3>2, <3>3
  <2>2. w2 = [z \in D |-> w2[z]]
    BY DEF AllBrought
  <2> HIDE DEF w2
  <2>3. \A z \in D : w2[z] \in Int
    BY <1>5, <2>1
  <2> QED BY <2>2, <2>3
<1>7. ASSUME NEW v \in DOMAIN pvar
      PROVE  Now(w2, G[t][0][v]) = Now(w, Leaving(G, b)[v])
  <2> DEFINE y == Leaving(G, b)[v]
             x == G[t][0][v]
  <2>1. Enters(G[t][0], Inflow(G, t), t)
    BY <1>1 DEF CarriedAll, Carried
  <2>2. CASE \E p \in DOMAIN phi : phi[p].blk = t /\ phi[p].var = v /\ x = FakeId(p)
    <3>1. PICK p \in DOMAIN phi : phi[p].blk = t /\ phi[p].var = v /\ x = FakeId(p)
      BY <2>2
    <3>2. PICK j \in 1 .. Heads(t) : PhisOf(t)[j] = p
      <4>1. Range(PhisOf(t)) = {q \in DOMAIN phi : phi[q].blk = t} /\ DOMAIN PhisOf(t) = 1 .. Heads(t)
        BY <1>1, KeptFacts
      <4> QED BY <3>1, <4>1 DEF Range
    <3> DEFINE z == FirstOf(t) + j - 1
    <3>3. /\ z \in Spot(t) /\ z \in DOMAIN Order /\ Order[z] = FakeId(p)
          /\ After.insts[z] = NewInst(Order, FakeId(p))
      BY <1>1, <3>2, HeadPlaces
    <3>4. After.insts[z].op = "phi"
      BY <1>1, <3>3, NewPhiFacts
    <3>5. remap(Order, x) = z /\ ~ IsConst(z)
      <4>1. remap(Order, FakeId(p)) = z
        BY <3>3, RemapKept
      <4>2. z \in Nat
        BY <1>1, <3>3, PlacesFacts
      <4> QED BY <3>1, <4>1, <4>2 DEF IsConst
    <3> HIDE DEF z
    <3>6. Now(w2, x) = w2[z]
      <4>1. Identity(After)[z] = z
        BY <1>4, <3>3 DEF Identity
      <4> HIDE DEF w2, x
      <4> QED BY <3>5, <4>1 DEF Now, Value
    <3>7. w2[z] = Brought(b, t, z, w)
      BY <1>4, <1>5, <3>3, <3>4
    <3>8. Brought(b, t, z, w) = Now(w, y)
      BY <3>1, <3>3, <3>4, BroughtFacts
    <3> QED BY <3>6, <3>7, <3>8
  <2>3. CASE x = Inflow(G, t)[v] /\ ~ \E p \in DOMAIN phi : phi[p].blk = t /\ phi[p].var = v
    <3> DEFINE d == idom[t]
               k == Nth(d, M.blks[d].n_inst + 1)
               r == remap(Order, y)
    <3>1. ~ HasPhi(phi, t, v)
      BY <2>3 DEF HasPhi
    <3>2. y = Leaving(G, d)[v]
      BY <3>1, SameAbove
    <3>3. x = y
      BY <1>1, <2>3, <3>2 DEF Inflow
    <3>4. M.blks[d].n_inst \in Nat /\ M.blks[d].first \in Nat
      BY <1>1, FinalParts
    <3>5. y \in Int /\ Supplied(y, d, k) /\ k \in Int
      BY <1>1, <3>2, <3>4, TrailSupplied DEF Leaving, Nth
    <3> HIDE DEF x, y, k
    <3>6. /\ \A c : Now(c, y) = IF IsConst(r) THEN r ELSE c[r]
          /\ ~ IsConst(r) => r \in DOMAIN Order /\ \E a \in Reach : r \in Spot(a) /\ (a = d \/ SDom(a, d))
      BY <1>1, <3>5, NowFacts
    <3>7. ~ IsConst(r) => r \notin Spot(t)
      <4> SUFFICES ASSUME NEW a \in Reach, r \in Spot(a), a = d \/ SDom(a, d), r \in Spot(t)
                   PROVE  FALSE
        BY <3>6
      <4>1. SDom(a, t)
        BY <1>1, DomTrans
      <4>2. a # t
        BY <4>1 DEF SDom
      <4> HIDE DEF r
      <4> QED BY <1>1, <4>2, PlacesFacts
    <3> HIDE DEF r, w2
    <3>8. ~ IsConst(r) => w2[r] = w[r]
      BY <1>4, <1>5, <3>6, <3>7
    <3>9. Now(w2, y) = Now(w, y)
      BY <3>6, <3>8
    <3> QED BY <3>3, <3>9 DEF x, y
  <2> QED BY <2>1, <2>2, <2>3 DEF Enters
<1>8. Tracked(G, t, 0, mm, w2)
  <2> HIDE DEF w2
  <2> SUFFICES ASSUME NEW v \in DOMAIN pvar PROVE Agree(mm[pvar[v]], Now(w2, G[t][0][v]))
    BY DEF Tracked
  <2>1. Agree(mm[pvar[v]], Now(w, Leaving(G, b)[v]))
    BY DEF Tracked, Leaving
  <2> QED BY <1>7, <2>1
<1> HIDE DEF w2
<1> QED BY <1>1, <1>3, <1>6, <1>8

---------------------------------------------------------------------------
(* The two programs together: what the one holds when it enters a block,   *)
(* and what the other does.                                                *)

\* phi_cpy, the predecessors being P.
Sends(P, m, lc, vv, b, t) ==
  LET slot == SelectInSeq(P[t], LAMBDA q : q = b)
      src(w, ops) == IF slot \in DOMAIN ops /\ ops[slot] # None
                       THEN Value(w, lc, ops[slot]) ELSE Undef
      phis == Keep([k \in 1 .. m.blks[t].n_inst |-> m.blks[t].first + k - 1],
                   {k \in DOMAIN m.insts : m.insts[k].op = "phi"})
  IN IF slot = 0 THEN vv
     ELSE Through(LAMBDA w, k : [w EXCEPT ![lc[k]] = src(w, m.insts[k].ops)], vv, phis)
LEMMA SendsIs ==
  ASSUME NEW m, NEW lc, NEW vv, NEW b, NEW t
  PROVE  phi_cpy(m, lc, vv, b, t) = Sends(pred, m, lc, vv, b, t)
BY Zenon DEF phi_cpy, Sends

NoValues(m) == [k \in DOMAIN m.insts |-> Undef]
Called(m) == [a \in DOMAIN m.insts |-> Argument(a)]
\* The states in A are those of the programs mo and mn, run together from their
\* start: whichever branch they take, they return the same.
Mirrors(A, mo, mn, P) ==
  /\ <<1, Called(mo), Called(mo), NoValues(mn)>> \in A
  /\ \A b, mm, m2, w : <<b, mm, m2, w>> \in A =>
       LET r == RunBlock(mo, Identity(mo), b, mm, NoValues(mo))
           s == RunBlock(mn, Identity(mn), b, m2, w)
       IN /\ Agree(r.out, s.out)
          /\ \A t \in Range(r.to) :
               <<t, r.mem, s.mem, Sends(P, mn, Identity(mn), s.val, b, t)>> \in A

Twins(G) ==
  {q \in Reach \X [DOMAIN M.insts -> Int] \X [DOMAIN M.insts -> Int] \X [DOMAIN After.insts -> Int] :
     Tracked(G, q[1], 0, q[2], q[4]) /\ Resident(q[2], q[3])}
LEMMA TwinsOf ==
  ASSUME NEW G, NEW b, NEW mm, NEW m2, NEW w
  PROVE  <<b, mm, m2, w>> \in Twins(G) <=>
           /\ b \in Reach /\ mm \in [DOMAIN M.insts -> Int] /\ m2 \in [DOMAIN M.insts -> Int]
           /\ w \in [DOMAIN After.insts -> Int] /\ Tracked(G, b, 0, mm, w) /\ Resident(mm, m2)
<1> DEFINE q == <<b, mm, m2, w>>
           X == [DOMAIN M.insts -> Int]
           Y == [DOMAIN After.insts -> Int]
<1>1. q[1] = b /\ q[2] = mm /\ q[3] = m2 /\ q[4] = w
  OBVIOUS
<1>2. q \in Reach \X X \X X \X Y <=> b \in Reach /\ mm \in X /\ m2 \in X /\ w \in Y
  <2> HIDE DEF X, Y
  <2> QED OBVIOUS
<1> HIDE DEF q
<1>3. q \in Twins(G) <=> /\ q \in Reach \X X \X X \X Y
                         /\ Tracked(G, q[1], 0, q[2], q[4]) /\ Resident(q[2], q[3])
  BY Zenon DEF Twins
<1>4. Tracked(G, q[1], 0, q[2], q[4]) <=> Tracked(G, b, 0, mm, w)
  BY <1>1, Zenon
<1>5. Resident(q[2], q[3]) <=> Resident(mm, m2)
  BY <1>1, Zenon
<1> QED BY <1>2, <1>3, <1>4, <1>5 DEF q

\* The arguments have been stored; all else is unknown.
LEMMA TwinsStart ==
  ASSUME NEW G, Ground(G)
  PROVE  <<1, Called(M), Called(M), NoValues(After)>> \in Twins(G)
<1> DEFINE mm == Called(M)
           w == NoValues(After)
<1>0. /\ DOMAIN M.insts = 1 .. Len(M.insts) /\ Len(M.insts) \in Nat
      /\ \A v \in DOMAIN pvar : pvar[v] \in DOMAIN M.insts /\ pvar[v] > NParams
  BY GroundParts, FinalParts DEF Ground, PvarRight
<1>1. \A a \in DOMAIN M.insts : Argument(a) \in Int
  BY <1>0 DEF Argument, MkConst, Undef
<1>2. mm \in [DOMAIN M.insts -> Int] /\ \A a \in DOMAIN M.insts : mm[a] = Argument(a)
  BY <1>1 DEF Called
<1>3. w \in [DOMAIN After.insts -> Int]
  BY DEF NoValues, Undef
<1> HIDE DEF mm, w
<1>4. Tracked(G, 1, 0, mm, w)
  <2> SUFFICES ASSUME NEW v \in DOMAIN pvar PROVE Agree(mm[pvar[v]], Now(w, G[1][0][v]))
    BY DEF Tracked
  <2>1. pvar[v] \in DOMAIN M.insts /\ pvar[v] > NParams
    BY <1>0
  <2>2. pvar[v] \in Int /\ NParams \in Int
    BY <1>0, <2>1, LoweringAssumption, Mem2RegAssumption
  <2>3. mm[pvar[v]] = Undef
    BY <1>2, <2>1, <2>2 DEF Argument
  <2> QED BY <2>3 DEF Agree
<1>5. Resident(mm, mm)
  <2> SUFFICES ASSUME NEW a \in Locals \ Range(pvar) PROVE Agree(mm[a], mm[remap(Order, a)])
    BY DEF Resident
  <2>1. /\ a \in DOMAIN M.insts /\ remap(Order, a) \in DOMAIN M.insts
        /\ a <= NParams => remap(Order, a) = a
    BY LocalPlaces
  <2>2. CASE a <= NParams
    BY <2>1, <2>2 DEF Agree
  <2>3. CASE ~ (a <= NParams)
    <3>1. mm[a] = Undef
      BY <1>2, <2>1, <2>3 DEF Argument
    <3> QED BY <3>1 DEF Agree
  <2> QED BY <2>2, <2>3
<1>6. 1 \in Reach
  BY GroundParts
<1> QED BY <1>2, <1>3, <1>4, <1>5, <1>6, TwinsOf DEF mm, w

LEMMA TwinsStep ==
  ASSUME NEW G, Ground(G), JumpsEnd, SlotsFit, OrderFree,
         NEW b, NEW mm, NEW m2, NEW w, <<b, mm, m2, w>> \in Twins(G),
         NEW r, r = RunBlock(M, Identity(M), b, mm, NoValues(M)),
         NEW s, s = RunBlock(After, Identity(After), b, m2, w)
  PROVE  /\ Agree(r.out, s.out)
         /\ \A t \in Range(r.to) :
              <<t, r.mem, s.mem, Sends(pred, After, Identity(After), s.val, b, t)>> \in Twins(G)
<1>1. /\ b \in Reach /\ mm \in [DOMAIN M.insts -> Int] /\ m2 \in [DOMAIN M.insts -> Int]
      /\ w \in [DOMAIN After.insts -> Int] /\ Tracked(G, b, 0, mm, w) /\ Resident(mm, m2)
  BY TwinsOf
<1>2. NoValues(M) \in [DOMAIN M.insts -> Int]
  BY DEF NoValues, Undef
<1>3. Alike(G, b, M.blks[b].n_inst, r, s)
  BY <1>1, <1>2, BlockAlike
<1>4. /\ r \in Runs(DOMAIN M.insts) /\ s \in Runs(DOMAIN After.insts)
      /\ Tracked(G, b, M.blks[b].n_inst, r.mem, s.val) /\ Resident(r.mem, s.mem)
      /\ Agree(r.out, s.out) /\ r.to \in {<<>>, Succs(b)}
  BY <1>3 DEF Alike
<1>5. /\ r.mem \in [DOMAIN M.insts -> Int] /\ s.mem \in [DOMAIN M.insts -> Int]
      /\ s.val \in [DOMAIN After.insts -> Int]
  <2> HIDE DEF RunBlock
  <2> QED BY <1>4 DEF Runs
<1>6. ASSUME NEW t \in Range(r.to)
      PROVE  <<t, r.mem, s.mem, Sends(pred, After, Identity(After), s.val, b, t)>> \in Twins(G)
  <2>1. t \in Range(Succs(b))
    <3>1. Range(<<>>) = {}
      BY EmptyIsSeq, DomainOfSeq DEF Range
    <3> QED BY <1>4, <3>1
  <2> DEFINE x == s.val
             y == s.mem
             z == r.mem
             w2 == phi_cpy(After, Identity(After), x, b, t)
  <2>2. x \in [DOMAIN After.insts -> Int] /\ Tracked(G, b, M.blks[b].n_inst, z, x)
    BY <1>4, <1>5
  <2> HIDE DEF x, y, z
  <2>3. w2 \in [DOMAIN After.insts -> Int] /\ t \in Reach /\ Tracked(G, t, 0, z, w2)
    BY <1>1, <2>1, <2>2, FlowAlike
  <2>4. w2 = Sends(pred, After, Identity(After), x, b, t)
    BY SendsIs
  <2> HIDE DEF w2
  <2>5. /\ z \in [DOMAIN M.insts -> Int] /\ y \in [DOMAIN M.insts -> Int] /\ Resident(z, y)
    BY <1>4, <1>5 DEF y, z
  <2>6. <<t, z, y, w2>> \in Twins(G)
    BY <2>3, <2>5, TwinsOf
  <2> QED BY <2>4, <2>6 DEF x, y, z
<1> QED BY <1>4, <1>6

LEMMA TwinsMirror ==
  ASSUME NEW G, Ground(G), JumpsEnd, SlotsFit, OrderFree
  PROVE  Mirrors(Twins(G), M, After, pred)
<1>1. ASSUME NEW b, NEW mm, NEW m2, NEW w, <<b, mm, m2, w>> \in Twins(G)
      PROVE  LET r == RunBlock(M, Identity(M), b, mm, NoValues(M))
                 s == RunBlock(After, Identity(After), b, m2, w)
             IN /\ Agree(r.out, s.out)
                /\ \A t \in Range(r.to) :
                     <<t, r.mem, s.mem, Sends(pred, After, Identity(After), s.val, b, t)>> \in Twins(G)
  BY <1>1, TwinsStep
<1> QED BY <1>1, TwinsStart, Zenon DEF Mirrors

---------------------------------------------------------------------------
(* The specification: what the run finds.                                  *)

\* What PromotionApplies says of the procedure after rewrite was so before it.
LEMMA AppliesBefore ==
  ASSUME Renaming, old' = M, M' = After, UNCHANGED <<phi, df>>, PromotionApplies'
  PROVE  JumpsEnd /\ FrontiersRead /\ SlotsFit /\ OrderFree
<1>1. /\ Blocks' = Blocks /\ \A b \in Blocks : Insts(b)' = Spot(b)
      /\ Reach' = Reach /\ \A a, b \in Reach : SDom(a, b)' <=> SDom(a, b)
  BY ReachKept
<1>2. Reach \subseteq Blocks
  BY FinalGraph, ReachFacts DEF Renaming, Rewritable, Typed
<1>3. ASSUME NEW b \in Blocks PROVE Succs(b)' = Succs(b)
  <2>1. Succs(b)' = NewSuccs(b)
    BY DEF Succs, NewSuccs, LastOf
  <2> QED BY <2>1, SuccsKept
<1>4. \A a, p \in Reach : Dom(a, p)' <=> Dom(a, p)
  <2>1. \A a, p : Dom(a, p) <=> a = p \/ SDom(a, p)
    BY DEF SDom, Dom
  <2>2. \A a, p : Dom(a, p)' <=> a = p \/ SDom(a, p)'
    BY DEF SDom, Dom
  <2> QED BY <1>1, <2>1, <2>2
<1>5. JumpsEnd
  BY <1>1 DEF PromotionApplies, JumpsEndBlocks, JumpsEnd, Nth
<1>6. FrontiersRead
  <2> SUFFICES ASSUME NEW a \in Reach PROVE Range(DfOf(df, a)) = Frontier(a)
    BY DEF FrontiersRead
  <2>1. Range(DfOf(df', a)) = Frontier(a)'
    BY <1>1 DEF PromotionApplies, FrontiersRead, DfOf
  <2>2. Frontier(a)' = Frontier(a)
    BY <1>1, <1>2, <1>3, <1>4 DEF Frontier
  <2> QED BY <2>1, <2>2
<1>7. SlotsFit
  <2> SUFFICES ASSUME NEW p \in DOMAIN phi
               PROVE  Cardinality({b \in Blocks : phi[p].blk \in Range(Succs(b))}) <= OpSlots
    BY DEF SlotsFit
  <2>1. Cardinality({b \in Blocks' : phi'[p].blk \in Range(Succs(b)')}) <= OpSlots
    BY DEF PromotionApplies, SlotsSuffice
  <2>2. {b \in Blocks' : phi'[p].blk \in Range(Succs(b)')} = {b \in Blocks : phi[p].blk \in Range(Succs(b))}
    BY <1>1, <1>3
  <2> QED BY <2>1, <2>2
<1>8. OrderFree
  <2> SUFFICES ASSUME NEW b \in Blocks, NEW j \in Spot(b), NEW k \in Spot(b),
                      After.insts[j].op = "phi", After.insts[k].op = "phi", j < k
               PROVE  j \notin Range(After.insts[k].ops)
    BY DEF OrderFree
  <2>1. b \in Blocks' /\ j \in Insts(b)' /\ k \in Insts(b)'
    BY <1>1
  <2>2. \A x, y \in Insts(b)' : M'.insts[x].op = "phi" /\ M'.insts[y].op = "phi" /\ x < y =>
          x \notin Range(M'.insts[y].ops)
    BY <2>1 DEF PromotionApplies, CopyOrderFree
  <2> DEFINE A == After
  <2>3. M' = A
    OBVIOUS
  <2> HIDE DEF A
  <2>4. A.insts[j].op = "phi" /\ A.insts[k].op = "phi"
    BY DEF A
  <2>5. j \notin Range(A.insts[k].ops)
    BY <2>1, <2>2, <2>3, <2>4
  <2> QED BY <2>5 DEF A
<1> QED BY <1>5, <1>6, <1>7, <1>8

\* rewrite leaves a procedure that mirrors the one before it.
LEMMA RewriteMirrors ==
  ASSUME RenInv, PromInv, rewrite, LimitsKept, PromotionApplies'
  PROVE  \E A : Mirrors(A, old', M', pred')
<1>1. /\ stage = "rewrite" /\ old' = M /\ M' = After
      /\ UNCHANGED <<pred, phi, df, repl>>
  BY DEF rewrite, After
<1>2. /\ Final(M) /\ pred = [t \in Blocks |-> PredsOf(Edges, t)] /\ rpo = RpoOf /\ idom = IdomOf
  BY <1>1 DEF RenInv
<1>3. TreeRight
  BY <1>2, TreeFromLimits
<1>4. Renaming /\ ChainsFit
  BY <1>1, <1>3 DEF RenInv, Supply, Renaming, LimitsKept
<1>5. AtTree
  <2>1. Graph
    BY <1>2, FinalGraph
  <2>2. Ready
    BY <1>3 DEF TreeRight
  <2>3. Tree(idom) /\ Done(idom) = Reach
    BY <1>2, <2>2, IdomRight
  <2> QED BY <2>2, <2>3 DEF AtTree
<1>6. JumpsEnd /\ FrontiersRead /\ SlotsFit /\ OrderFree
  BY <1>1, <1>4, AppliesBefore
<1>7. PICK G : PerBlock(G) /\ TrailAt(G, Reach, phi, repl.dead, repl.value)
  BY <1>1, <1>3 DEF PromInv, Trail
<1>8. Ground(G)
  <2>1. Laid(M) /\ PvarRight /\ df \in Frontiers /\ PhisSpread(phi)
    BY <1>1, <1>5 DEF PromInv, EntryInv
  <2> QED BY <1>4, <1>5, <1>6, <1>7, <2>1 DEF Ground, LimitsKept
<1>9. Mirrors(Twins(G), M, After, pred)
  BY <1>6, <1>8, TwinsMirror
<1> DEFINE A == Twins(G)
           m == M
           m2 == After
<1>10. Mirrors(A, m, m2, pred) /\ old' = m /\ M' = m2 /\ pred' = pred
  BY <1>1, <1>9
<1> HIDE DEF A, m, m2
<1> QED BY <1>10

---------------------------------------------------------------------------
(* A procedure in which nothing was promoted, run beside itself.           *)

LEMMA SameOperand ==
  ASSUME Final(M), NEW b \in Blocks, NEW k \in Home(M, b), TakesValue(M.insts[k]),
         NEW v, NEW w, \A j \in Values(M, b) : j < k => v[j] = w[j]
  PROVE  LET x == M.insts[k].ops[1]
         IN Value(v, Identity(M), x) = Value(w, Identity(M), x)
<1> DEFINE x == M.insts[k].ops[1]
<1>1. Constant(x) \/ (x \in Values(M, b) /\ x < k)
  BY FinalParts DEF Shaped, Fed, Blocks
<1>2. CASE Constant(x)
  BY <1>2 DEF Value, Constant
<1>3. CASE x \in Values(M, b) /\ x < k
  <2>1. x \in DOMAIN M.insts
    BY <1>3, FinalParts DEF Values
  <2> HIDE DEF x
  <2>2. Identity(M)[x] = x
    BY <2>1 DEF Identity
  <2>3. v[x] = w[x]
    BY <1>3
  <2>4. Value(v, Identity(M), x) = Value(w, Identity(M), x)
    BY <2>2, <2>3 DEF Value
  <2> QED BY <2>4 DEF x
<1> QED BY <1>1, <1>2, <1>3

\* What the two runs hold before instruction k of b, or the block's end.
Running(m, v, o, t, st) == [mem |-> m, val |-> v, out |-> o, to |-> t, stop |-> st]
LEMMA RunningMem ==
  ASSUME NEW m, NEW v, NEW o, NEW t, NEW st, NEW a, NEW u
  PROVE  SetMem(Running(m, v, o, t, st), a, u) = Running([m EXCEPT ![a] = u], v, o, t, st)
<1> DEFINE r == Running(m, v, o, t, st)
           n == [m EXCEPT ![a] = u]
<1>1. r.mem = m
  BY DEF Running
<1>2. [r EXCEPT !.mem[a] = u] = [r EXCEPT !.mem = n]
  <2> HIDE DEF r
  <2> QED BY <1>1
<1> HIDE DEF n
<1>3. [r EXCEPT !.mem = n] = Running(n, v, o, t, st)
  BY DEF Running
<1> QED BY <1>2, <1>3 DEF n, SetMem
LEMMA RunningVal ==
  ASSUME NEW m, NEW v, NEW o, NEW t, NEW st, NEW d, NEW u
  PROVE  SetVal(Running(m, v, o, t, st), d, u) = Running(m, [v EXCEPT ![d] = u], o, t, st)
<1> DEFINE r == Running(m, v, o, t, st)
           n == [v EXCEPT ![d] = u]
<1>1. r.val = v
  BY DEF Running
<1>2. [r EXCEPT !.val[d] = u] = [r EXCEPT !.val = n]
  <2> HIDE DEF r
  <2> QED BY <1>1
<1> HIDE DEF n
<1>3. [r EXCEPT !.val = n] = Running(m, n, o, t, st)
  BY DEF Running
<1> QED BY <1>2, <1>3 DEF n, SetVal
Halted == TRUE
LEMMA RunningEnd ==
  ASSUME NEW m, NEW v, NEW o, NEW t, NEW st, NEW u
  PROVE  /\ Returns(Running(m, v, o, t, st), u) = Running(m, v, u, t, Halted)
         /\ Takes(Running(m, v, o, t, st), u) = Running(m, v, o, u, Halted)
<1> DEFINE r == Running(m, v, o, t, st)
           f == [r EXCEPT !.out = u]
           g == [r EXCEPT !.to = u]
<1>1. f = Running(m, v, u, t, st) /\ g = Running(m, v, o, u, st)
  BY DEF Running
<1>2. ASSUME NEW yes
      PROVE  /\ [f EXCEPT !.stop = yes] = Running(m, v, u, t, yes)
             /\ [g EXCEPT !.stop = yes] = Running(m, v, o, u, yes)
  <2> HIDE DEF f, g
  <2>1. [f EXCEPT !.stop = yes] = Running(m, v, u, t, yes)
    BY <1>1 DEF Running
  <2>2. [g EXCEPT !.stop = yes] = Running(m, v, o, u, yes)
    BY <1>1 DEF Running
  <2> QED BY <2>1, <2>2
<1> QED BY <1>2, Zenon DEF f, g, r, Returns, Takes, Halted
LEMMA RunningParts ==
  ASSUME NEW m, NEW v, NEW o, NEW t, NEW st
  PROVE  LET r == Running(m, v, o, t, st)
         IN r.mem = m /\ r.val = v /\ r.out = o /\ r.to = t /\ r.stop = st
BY DEF Running

Places(v) == v = [k \in DOMAIN M.insts |-> v[k]]
Shares(b, k, v, w) == \A j \in Values(M, b) : j < k => v[j] = w[j]
Alongside(b, k, r, s) ==
  \E m, o, t, st, v, w :
    /\ r = Running(m, v, o, t, st) /\ s = Running(m, w, o, t, st)
    /\ st \in BOOLEAN /\ Places(v) /\ Places(w)
    /\ st \/ Shares(b, k, v, w)

LEMMA AddsSomething ==
  ASSUME NEW I, Aimed(I), I.op = "add"
  PROVE  I.ops # <<>>
BY DEF Aimed
LEMMA ExecAlongside ==
  ASSUME Final(M), Laid(M), NEW b \in Blocks, NEW k \in Home(M, b), NEW r, NEW s, Alongside(b, k, r, s)
  PROVE  Alongside(b, k + 1, Exec(M, Identity(M), r, k), Exec(M, Identity(M), s, k))
<1> DEFINE I == M.insts[k]
           lc == Identity(M)
           x == I.ops[1]
<1>1. PICK m, o, t, st, v, w :
        /\ r = Running(m, v, o, t, st) /\ s = Running(m, w, o, t, st)
        /\ st \in BOOLEAN /\ Places(v) /\ Places(w)
        /\ st \/ Shares(b, k, v, w)
  BY Zenon DEF Alongside
<1>2. /\ k \in DOMAIN M.insts /\ k \in Int /\ I.op \in LowOps /\ lc[k] = k
      /\ \A j \in Values(M, b) : j \in Int
  <2>1. /\ DOMAIN M.insts = 1 .. Len(M.insts) /\ Len(M.insts) \in Nat
        /\ Home(M, b) \subseteq DOMAIN M.insts /\ Shaped(M)
    BY FinalParts
  <2>2. k \in DOMAIN M.insts /\ k \in Int
    BY <2>1
  <2>3. I.op \in LowOps
    BY <2>1, <2>2 DEF Shaped, Made
  <2> QED BY <2>1, <2>2, <2>3 DEF Values, Identity
<1>3. /\ r.mem = m /\ r.val = v /\ r.out = o /\ r.to = t /\ r.stop = st
      /\ s.mem = m /\ s.val = w /\ s.out = o /\ s.to = t /\ s.stop = st
  BY <1>1, RunningParts
<1>4. CASE st
  <2>1. Exec(M, lc, r, k) = r /\ Exec(M, lc, s, k) = s
    <3>1. r.stop /\ s.stop
      BY <1>3, <1>4
    <3> QED BY <3>1, ExecOf
  <2> QED BY <1>1, <1>4, <2>1, Zenon DEF Alongside
<1>5. CASE ~ st
  <2>1. Shares(b, k, v, w)
    BY <1>1, <1>5
  <2>2. TakesValue(I) => Value(v, lc, x) = Value(w, lc, x)
    BY <2>1, SameOperand DEF Shares
  <2>3. ASSUME NEW c, NEW d, Places(c), Places(d), Shares(b, k, c, d),
               k \in Values(M, b) => c[k] = d[k],
               NEW m2, NEW o2, NEW t2, NEW yes \in BOOLEAN,
               Exec(M, lc, r, k) = Running(m2, c, o2, t2, yes),
               Exec(M, lc, s, k) = Running(m2, d, o2, t2, yes)
        PROVE  Alongside(b, k + 1, Exec(M, lc, r, k), Exec(M, lc, s, k))
    <3>1. Shares(b, k + 1, c, d)
      <4> SUFFICES ASSUME NEW j \in Values(M, b), j < k + 1 PROVE c[j] = d[j]
        BY DEF Shares
      <4>1. j \in Int
        BY <1>2
      <4>2. CASE j = k
        BY <2>3, <4>2
      <4>3. CASE j # k
        <5>1. j < k
          BY <1>2, <4>1, <4>3
        <5> QED BY <2>3, <5>1 DEF Shares
      <4> QED BY <4>2, <4>3
    <3> QED BY <2>3, <3>1, Zenon DEF Alongside
  <2>4. ASSUME NEW u
        PROVE  /\ Places([v EXCEPT ![k] = u]) /\ Places([w EXCEPT ![k] = u])
               /\ Shares(b, k, [v EXCEPT ![k] = u], [w EXCEPT ![k] = u])
               /\ [v EXCEPT ![k] = u][k] = [w EXCEPT ![k] = u][k]
    <3> DEFINE c == [v EXCEPT ![k] = u]
               d == [w EXCEPT ![k] = u]
               D == DOMAIN M.insts
    <3>1. \A j \in Values(M, b) : j \in D
      BY FinalParts DEF Values
    <3>2. v = [j \in D |-> v[j]] /\ w = [j \in D |-> w[j]] /\ k \in D
      BY <1>1, <1>2 DEF Places
    <3> HIDE DEF D
    <3>3. c = [j \in D |-> IF j = k THEN u ELSE v[j]] /\ d = [j \in D |-> IF j = k THEN u ELSE w[j]]
      BY <3>2
    <3> HIDE DEF c, d
    <3>4. c = [j \in D |-> c[j]] /\ d = [j \in D |-> d[j]]
      BY <3>3
    <3>5. \A j \in Values(M, b) : j < k => c[j] = d[j]
      BY <2>1, <3>1, <3>3 DEF Shares
    <3>6. c[k] = d[k]
      BY <3>2, <3>3
    <3> QED BY <3>4, <3>5, <3>6 DEF c, d, D, Places, Shares
  <2>5. CASE I.op = "store"
    <3> DEFINE p == Value(v, lc, x)
    <3>1. TakesValue(I)
      <4>1. IsSeq(I.ops) /\ Len(I.ops) = 2
        BY <1>2, <2>5, FinalParts DEF Shaped, Made
      <4> DEFINE ops == I.ops
      <4>2. ops # <<>>
        <5> HIDE DEF ops
        <5>1. IsSeq(ops) /\ Len(ops) = 2
          BY <4>1 DEF ops
        <5> QED BY <5>1, DomainOfSeq
      <4> QED BY <2>5, <4>2 DEF TakesValue
    <3>2. Value(w, lc, x) = p
      BY <2>2, <3>1
    <3>3. Exec(M, lc, r, k) = SetMem(r, I.ops[2], p)
      BY <1>3, <1>5, <2>5, ExecOf
    <3>4. Exec(M, lc, s, k) = SetMem(s, I.ops[2], Value(w, lc, x))
      BY <1>3, <1>5, <2>5, ExecOf
    <3> DEFINE m2 == [m EXCEPT ![I.ops[2]] = p]
    <3>5. Exec(M, lc, r, k) = Running(m2, v, o, t, st) /\ Exec(M, lc, s, k) = Running(m2, w, o, t, st)
      <4> DEFINE a == I.ops[2]
      <4>1. /\ Exec(M, lc, r, k) = SetMem(r, a, p) /\ Exec(M, lc, s, k) = SetMem(s, a, p)
            /\ m2 = [m EXCEPT ![a] = p]
        BY <3>2, <3>3, <3>4, Zenon
      <4> HIDE DEF a, p, m2
      <4>2. SetMem(r, a, p) = Running(m2, v, o, t, st)
        <5>1. SetMem(Running(m, v, o, t, st), a, p) = Running([m EXCEPT ![a] = p], v, o, t, st)
          BY RunningMem
        <5> QED BY <1>1, <4>1, <5>1, Zenon
      <4>3. SetMem(s, a, p) = Running(m2, w, o, t, st)
        <5>1. SetMem(Running(m, w, o, t, st), a, p) = Running([m EXCEPT ![a] = p], w, o, t, st)
          BY RunningMem
        <5> QED BY <1>1, <4>1, <5>1, Zenon
      <4> HIDE DEF lc
      <4> QED BY <4>1, <4>2, <4>3, Zenon
    <3>6. k \notin Values(M, b)
      BY <2>5 DEF Values, ValueOps
    <3> HIDE DEF m2
    <3> QED BY <1>1, <2>1, <2>3, <3>5, <3>6
  <2>6. CASE I.op = "load"
    <3> DEFINE u == m[x]
               c == [v EXCEPT ![k] = u]
               d == [w EXCEPT ![k] = u]
    <3>1. Exec(M, lc, r, k) = SetVal(r, k, u) /\ Exec(M, lc, s, k) = SetVal(s, k, u)
      BY <1>2, <1>3, <1>5, <2>6, ExecOf
    <3>2. Exec(M, lc, r, k) = Running(m, c, o, t, st) /\ Exec(M, lc, s, k) = Running(m, d, o, t, st)
      <4> HIDE DEF lc, u
      <4>1. SetVal(r, k, u) = Running(m, c, o, t, st)
        BY <1>1, RunningVal
      <4>2. SetVal(s, k, u) = Running(m, d, o, t, st)
        BY <1>1, RunningVal
      <4> HIDE DEF c, d
      <4> QED BY <3>1, <4>1, <4>2, Zenon
    <3>3. Places(c) /\ Places(d) /\ Shares(b, k, c, d) /\ c[k] = d[k]
      BY <2>4
    <3> HIDE DEF c, d
    <3> QED BY <1>1, <2>3, <3>2, <3>3
  <2>7. CASE I.op = "add"
    <3> DEFINE u == Incremented(Value(v, lc, x))
               c == [v EXCEPT ![k] = u]
               d == [w EXCEPT ![k] = u]
    <3>1. Value(w, lc, x) = Value(v, lc, x)
      <4>1. I.ops # <<>>
        <5>1. Aimed(I)
          BY <1>2 DEF Laid
        <5> DEFINE i == I
        <5>2. Aimed(i) /\ i.op = "add"
          BY <2>7, <5>1
        <5> HIDE DEF i
        <5>3. i.ops # <<>>
          BY <5>2, AddsSomething
        <5> QED BY <5>3, Zenon DEF i
      <4> QED BY <2>2, <2>7, <4>1 DEF TakesValue
    <3>2. Exec(M, lc, r, k) = SetVal(r, k, u)
      BY <1>2, <1>3, <1>5, <2>7, ExecOf
    <3>3. Exec(M, lc, s, k) = SetVal(s, k, Incremented(Value(w, lc, x)))
      BY <1>2, <1>3, <1>5, <2>7, ExecOf
    <3>4. Exec(M, lc, s, k) = SetVal(s, k, u)
      BY <3>1, <3>3, Zenon
    <3>5. Exec(M, lc, r, k) = Running(m, c, o, t, st) /\ Exec(M, lc, s, k) = Running(m, d, o, t, st)
      <4> HIDE DEF lc, u
      <4>1. SetVal(r, k, u) = Running(m, c, o, t, st)
        BY <1>1, RunningVal
      <4>2. SetVal(s, k, u) = Running(m, d, o, t, st)
        BY <1>1, RunningVal
      <4> HIDE DEF c, d
      <4> QED BY <3>2, <3>4, <4>1, <4>2, Zenon
    <3>6. Places(c) /\ Places(d) /\ Shares(b, k, c, d) /\ c[k] = d[k]
      BY <2>4
    <3> HIDE DEF c, d
    <3> QED BY <1>1, <2>3, <3>5, <3>6
  <2>8. CASE I.op = "ret" /\ I.ops # <<>>
    <3> DEFINE p == Value(v, lc, x)
    <3>1. Value(w, lc, x) = p
      BY <2>2, <2>8 DEF TakesValue
    <3>2. Exec(M, lc, r, k) = Returns(r, p)
      BY <1>3, <1>5, <2>8, ExecOf
    <3>3. Exec(M, lc, s, k) = Returns(s, Value(w, lc, x))
      BY <1>3, <1>5, <2>8, ExecOf
    <3>4. Exec(M, lc, s, k) = Returns(s, p)
      BY <3>1, <3>3, Zenon
    <3> HIDE DEF p
    <3>5. /\ Exec(M, lc, r, k) = Running(m, v, p, t, Halted)
          /\ Exec(M, lc, s, k) = Running(m, w, p, t, Halted)
      <4> HIDE DEF lc
      <4>1. Returns(r, p) = Running(m, v, p, t, Halted) /\ Returns(s, p) = Running(m, w, p, t, Halted)
        <5>1. Returns(Running(m, v, o, t, st), p) = Running(m, v, p, t, Halted)
          BY RunningEnd
        <5>2. Returns(Running(m, w, o, t, st), p) = Running(m, w, p, t, Halted)
          BY RunningEnd
        <5> QED BY <1>1, <5>1, <5>2, Zenon
      <4> QED BY <3>2, <3>4, <4>1, Zenon
    <3> QED BY <1>1, <3>5, Zenon DEF Alongside, Halted
  <2>9. CASE I.op \in {"br", "br_cond"} \/ (I.op = "ret" /\ I.ops = <<>>)
    <3> DEFINE to == Targets(I)
    <3>1. Exec(M, lc, r, k) = Takes(r, to) /\ Exec(M, lc, s, k) = Takes(s, to)
      BY <1>3, <1>5, <2>9, ExecOf
    <3> HIDE DEF to
    <3>2. /\ Exec(M, lc, r, k) = Running(m, v, o, to, Halted)
          /\ Exec(M, lc, s, k) = Running(m, w, o, to, Halted)
      <4> HIDE DEF lc
      <4>1. Takes(r, to) = Running(m, v, o, to, Halted) /\ Takes(s, to) = Running(m, w, o, to, Halted)
        <5>1. Takes(Running(m, v, o, t, st), to) = Running(m, v, o, to, Halted)
          BY RunningEnd
        <5>2. Takes(Running(m, w, o, t, st), to) = Running(m, w, o, to, Halted)
          BY RunningEnd
        <5> QED BY <1>1, <5>1, <5>2, Zenon
      <4> QED BY <3>1, <4>1, Zenon
    <3> QED BY <1>1, <3>2, Zenon DEF Alongside, Halted
  <2>10. CASE I.op = "alloca"
    <3>1. Exec(M, lc, r, k) = r /\ Exec(M, lc, s, k) = s
      BY <1>3, <1>5, <2>10, ExecOf
    <3>2. k \notin Values(M, b)
      BY <2>10 DEF Values, ValueOps
    <3> QED BY <1>1, <2>1, <2>3, <3>1, <3>2
  <2> QED BY <1>2, <2>5, <2>6, <2>7, <2>8, <2>9, <2>10 DEF LowOps
<1> QED BY <1>1, <1>4, <1>5

LEMMA BlockAlongside ==
  ASSUME Final(M), Laid(M), NEW b \in Blocks, NEW mm, NEW v, NEW w, Places(v), Places(w)
  PROVE  LET r == RunBlock(M, Identity(M), b, mm, v)
             s == RunBlock(M, Identity(M), b, mm, w)
         IN r.mem = s.mem /\ r.out = s.out /\ r.to = s.to /\ Places(r.val) /\ Places(s.val)
<1> DEFINE n == M.blks[b].n_inst
           lc == Identity(M)
           r == RunBlock(M, lc, b, mm, v)
           s == RunBlock(M, lc, b, mm, w)
<1>1. /\ n \in Nat /\ M.blks[b].first \in Nat \ {0}
      /\ Home(M, b) = M.blks[b].first .. (M.blks[b].first + n - 1)
  BY FinalParts DEF Home
<1>2. \A u : \E it : RunIs(it, M, lc, b, mm, u)
  <2>1. M.blks[b].n_inst \in Nat
    BY <1>1
  <2>2. \A m, l, u : m.blks[b].n_inst \in Nat => \E it : RunIs(it, m, l, b, mm, u)
    BY RunSteps
  <2> QED BY <2>1, <2>2, Zenon
<1>3. PICK it : /\ it[0] = Begun(mm, v) /\ it[n] = r
                /\ \A k \in 1 .. n : it[k] = Exec(M, lc, it[k - 1], Nth(b, k))
  <2>1. PICK it : RunIs(it, M, lc, b, mm, v)
    BY <1>2
  <2> QED BY <2>1, Zenon DEF RunIs, Nth
<1>4. PICK jt : /\ jt[0] = Begun(mm, w) /\ jt[n] = s
                /\ \A k \in 1 .. n : jt[k] = Exec(M, lc, jt[k - 1], Nth(b, k))
  <2>1. PICK f : RunIs(f, M, lc, b, mm, w)
    BY <1>2
  <2> QED BY <2>1, Zenon DEF RunIs, Nth
<1> HIDE DEF r, s
<1> DEFINE U == {i \in Nat : i <= n => Alongside(b, Nth(b, i + 1), it[i], jt[i])}
<1>5. 0 \in U
  <2>1. Shares(b, Nth(b, 0 + 1), v, w)
    <3>1. \A k \in Values(M, b) : ~ (k < Nth(b, 0 + 1))
      BY <1>1 DEF Values, Home, Nth
    <3> QED BY <3>1 DEF Shares
  <2> DEFINE no == FALSE
  <2>2. /\ Begun(mm, v) = Running(mm, v, None, <<>>, no)
        /\ Begun(mm, w) = Running(mm, w, None, <<>>, no)
    BY Zenon DEF Begun, Running
  <2>3. no \in BOOLEAN
    OBVIOUS
  <2> HIDE DEF no
  <2>4. Alongside(b, Nth(b, 0 + 1), Begun(mm, v), Begun(mm, w))
    BY <2>1, <2>2, <2>3, Zenon DEF Alongside
  <2> QED BY <1>3, <1>4, <2>4
<1>6. ASSUME NEW j \in Nat, j \in U PROVE j + 1 \in U
  <2> SUFFICES ASSUME j + 1 <= n PROVE Alongside(b, Nth(b, j + 1 + 1), it[j + 1], jt[j + 1])
    OBVIOUS
  <2> DEFINE i == j + 1
             k == Nth(b, i)
             x == it[j]
             y == jt[j]
  <2>1. i \in 1 .. n /\ i - 1 = j /\ j <= n
    BY <1>1
  <2>2. Alongside(b, k, x, y)
    BY <1>6, <2>1
  <2>3. k \in Home(M, b) /\ Nth(b, i + 1) = k + 1
    BY <1>1, <2>1 DEF Nth
  <2>4. it[i] = Exec(M, lc, x, k) /\ jt[i] = Exec(M, lc, y, k)
    BY <1>3, <1>4, <2>1
  <2> HIDE DEF i, k, x, y
  <2>5. Alongside(b, k + 1, Exec(M, lc, x, k), Exec(M, lc, y, k))
    BY <2>2, <2>3, ExecAlongside
  <2>6. Alongside(b, Nth(b, i + 1), it[i], jt[i])
    BY <2>3, <2>4, <2>5
  <2> QED BY <2>6 DEF i
<1>7. Nat \subseteq U
  <2> HIDE DEF U
  <2> QED BY <1>5, <1>6, Induction
<1>8. Alongside(b, Nth(b, n + 1), r, s)
  BY <1>1, <1>3, <1>4, <1>7
<1>9. PICK m, o, t, st, c, d :
        /\ r = Running(m, c, o, t, st) /\ s = Running(m, d, o, t, st)
        /\ st \in BOOLEAN /\ Places(c) /\ Places(d)
        /\ st \/ Shares(b, Nth(b, n + 1), c, d)
  BY <1>8, Zenon DEF Alongside
<1>10. /\ r.mem = m /\ r.val = c /\ r.out = o /\ r.to = t
       /\ s.mem = m /\ s.val = d /\ s.out = o /\ s.to = t
  BY <1>9, RunningParts
<1> QED BY <1>9, <1>10 DEF r, s

\* There is no PHI to copy.
LEMMA NothingCopied ==
  ASSUME Final(M), NEW t \in Blocks, NEW b, NEW w
  PROVE  phi_cpy(M, Identity(M), w, b, t) = w
<1> DEFINE lc == Identity(M)
           s == [k \in 1 .. M.blks[t].n_inst |-> M.blks[t].first + k - 1]
           P == {k \in DOMAIN M.insts : M.insts[k].op = "phi"}
<1>1. M.blks[t].n_inst \in Nat /\ P = {}
  <2>1. M.blks[t].n_inst \in Nat
    BY FinalParts
  <2>2. \A k \in DOMAIN M.insts : M.insts[k].op \in LowOps
    BY FinalParts DEF Shaped, Made
  <2> QED BY <2>1, <2>2 DEF LowOps
<1>2. IsSeq(s)
  BY <1>1, FunctionIsSeq
<1> HIDE DEF s, P
<1>3. IsSeq(Keep(s, P)) /\ Range(Keep(s, P)) = {}
  BY <1>1, <1>2, KeepFacts
<1>4. Len(Copied(M, t)) = 0
  <2>1. Copied(M, t) = Keep(s, P)
    BY Zenon DEF Copied, s, P
  <2> DEFINE c == Copied(M, t)
  <2>2. IsSeq(c) /\ Range(c) = {}
    BY <1>3, <2>1
  <2> HIDE DEF c
  <2>3. Len(c) = 0
    BY <2>2, DomainOfSeq DEF Range
  <2> QED BY <2>3 DEF c
<1>5. CASE SlotOf(b, t) # 0
  <2>1. \A m, l : Len(Copied(m, t)) \in Nat => \E it : CopyRun(it, m, l, b, t, w)
    BY <1>5, CopySteps
  <2>2. Len(Copied(M, t)) \in Nat
    BY <1>4
  <2>3. PICK it : CopyRun(it, M, lc, b, t, w)
    BY <2>1, <2>2, Zenon
  <2>4. it[0] = w /\ it[Len(Copied(M, t))] = phi_cpy(M, lc, w, b, t)
    BY <2>3, Zenon DEF CopyRun
  <2> QED BY <1>4, <2>4
<1>6. CASE SlotOf(b, t) = 0
  BY <1>6, Zenon DEF phi_cpy, SlotOf
<1> QED BY <1>5, <1>6

---------------------------------------------------------------------------
(* The two procedures side by side, in every state.                        *)

\* A procedure in which nothing was promoted is the one it was.
Untouched ==
  /\ old = M /\ Final(M) /\ Laid(M)
  /\ stage = "run" => SameResult /\ (at # None => mem = mem2 /\ Places(val))
\* One in which something was promoted runs through states that mirror the old one's.
Promoted ==
  PromotionApplies =>
    \E A : /\ Mirrors(A, old, M, pred)
           /\ stage = "run" => SameResult /\ (at # None => <<at, mem, mem2, val>> \in A)
SoundInv ==
  /\ stage # "run" => SameResult
  /\ stage = "run" => loc = Identity(M)
  /\ stage \in {"done", "run"} => Untouched \/ Promoted

LEMMA SameApplies ==
  ASSUME UNCHANGED <<M, old, df, phi>>
  PROVE  PromotionApplies' <=> PromotionApplies
<1>1. Blocks' = Blocks /\ (\A b : Insts(b)' = Insts(b)) /\ (\A b : Succs(b)' = Succs(b))
  BY DEF Blocks, Insts, Succs, Targets, LastOf
<1>2. \A av : Reached(av)' = Reached(av)
  BY <1>1 DEF Reached, Iterate, Succs, Targets, LastOf
<1>3. /\ Reach' = Reach /\ (\A a, b : Dom(a, b)' <=> Dom(a, b))
      /\ (\A a, b : SDom(a, b)' <=> SDom(a, b))
  BY <1>2 DEF Reach, SDom, Dom
<1>4. \A a : Frontier(a)' = Frontier(a)
  BY <1>1, <1>3 DEF Frontier
<1>5. JumpsEndBlocks' <=> JumpsEndBlocks
  BY <1>1 DEF JumpsEndBlocks
<1>6. FrontiersRead' <=> FrontiersRead
  BY <1>3, <1>4 DEF FrontiersRead, DfOf
<1>7. SlotsSuffice' <=> SlotsSuffice
  BY <1>1 DEF SlotsSuffice
<1>8. CopyOrderFree' <=> CopyOrderFree
  BY <1>1 DEF CopyOrderFree
<1> QED BY <1>5, <1>6, <1>7, <1>8 DEF PromotionApplies

LEMMA SameSound ==
  ASSUME SoundInv, UNCHANGED <<M, old, df, phi, pred, stage, seen, loc, at, mem, mem2, val>>
  PROVE  SoundInv'
<1>1. Untouched => Untouched'
  BY DEF Untouched, Final, Laid, SameResult, Places
<1>2. Promoted => Promoted'
  <2>1. PromotionApplies' <=> PromotionApplies
    BY SameApplies
  <2> QED BY <2>1 DEF Promoted, SameResult
<1> QED BY <1>1, <1>2 DEF SoundInv, SameResult

\* The run starts in a state the two procedures share.
LEMMA StartSound ==
  ASSUME SoundInv, Start
  PROVE  SoundInv'
<1>1. /\ stage = "done" /\ stage' = "run" /\ at' = 1 /\ mem' = Called(old) /\ mem2' = mem'
      /\ loc' = Identity(M) /\ val' = [l \in Range(Identity(M)) |-> Undef]
      /\ UNCHANGED <<M, old, df, phi, pred, seen>>
  BY Zenon DEF Start, Begin, Called, lowVars
<1>2. val' = NoValues(M)
  <2>1. Range(Identity(M)) = DOMAIN M.insts
    BY DEF Identity, Range
  <2> QED BY <1>1, <2>1 DEF NoValues
<1>3. SameResult'
  BY <1>1 DEF SoundInv, SameResult
<1>4. Untouched => Untouched'
  <2>1. Places(NoValues(M))
    BY DEF Places, NoValues
  <2>2. Places(val)'
    BY <1>1, <1>2, <2>1 DEF Places
  <2> QED BY <1>1, <1>3, <2>2 DEF Untouched, Final, Laid
<1>5. Promoted => Promoted'
  <2> SUFFICES ASSUME Promoted, PromotionApplies'
               PROVE  \E A : /\ Mirrors(A, old, M, pred)'
                             /\ <<at', mem', mem2', val'>> \in A
    BY <1>1, <1>3 DEF Promoted
  <2>1. PromotionApplies
    BY <1>1, SameApplies
  <2>2. PICK A : Mirrors(A, old, M, pred)
    BY <2>1 DEF Promoted
  <2>3. <<1, Called(old), Called(old), NoValues(M)>> \in A
    BY <2>2, Zenon DEF Mirrors
  <2> QED BY <1>1, <1>2, <2>2, <2>3
<1> QED BY <1>1, <1>3, <1>4, <1>5 DEF SoundInv

\* What a step of the run does.
LEMMA StepFacts ==
  ASSUME Step, loc = Identity(M)
  PROVE  LET r == RunBlock(old, Identity(old), at, mem, NoValues(old))
             s == RunBlock(M, Identity(M), at, mem2, val)
         IN /\ mem' = r.mem /\ mem2' = s.mem /\ seen' = <<r.out, s.out>>
            /\ \/ at' = None
               \/ \E t \in Range(r.to) : at' = t /\ val' = phi_cpy(M, Identity(M), s.val, at, t)
BY Zenon DEF Step, NoValues

\* The two procedures go the same way through their blocks.
LEMMA StepSound ==
  ASSUME SoundInv, TypeOK, TypeOK', Step
  PROVE  SoundInv'
<1> DEFINE r == RunBlock(old, Identity(old), at, mem, NoValues(old))
           s == RunBlock(M, Identity(M), at, mem2, val)
<1>1. /\ stage = "run" /\ stage' = "run" /\ at # None /\ loc' = loc
      /\ UNCHANGED <<M, old, df, phi, pred>>
  BY Zenon DEF Step, lowVars, m2rVars
<1>2. loc = Identity(M) /\ (Untouched \/ Promoted)
  BY <1>1 DEF SoundInv
<1>3. /\ mem' = r.mem /\ mem2' = s.mem /\ seen' = <<r.out, s.out>>
      /\ \/ at' = None
         \/ \E t \in Range(r.to) : at' = t /\ val' = phi_cpy(M, Identity(M), s.val, at, t)
  BY <1>2, StepFacts
<1> HIDE DEF r, s
<1>4. Agree(r.out, s.out) => SameResult'
  BY <1>3 DEF Agree, SameResult
<1>5. CASE Untouched
  <2>1. /\ old = M /\ Final(M) /\ Laid(M) /\ mem = mem2 /\ Places(val) /\ at \in Blocks
    BY <1>1, <1>5 DEF Untouched, TypeOK
  <2>2. Places(NoValues(M))
    BY DEF Places, NoValues
  <2>3. r.mem = s.mem /\ r.out = s.out /\ r.to = s.to /\ Places(s.val)
    <3> DEFINE v == NoValues(M)
               w == val
               x == mem
    <3>1. r = RunBlock(M, Identity(M), at, x, v) /\ s = RunBlock(M, Identity(M), at, x, w)
      BY <2>1, Zenon DEF r, s
    <3>2. Places(v) /\ Places(w)
      BY <2>1, <2>2
    <3> HIDE DEF v, w, x
    <3> QED BY <2>1, <3>1, <3>2, BlockAlongside
  <2>4. SameResult'
    BY <1>4, <2>3 DEF Agree
  <2>5. ASSUME at' # None PROVE Places(val')
    <3>1. PICK t \in Range(r.to) : at' = t /\ val' = phi_cpy(M, Identity(M), s.val, at, t)
      BY <1>3, <2>5
    <3>2. t \in Blocks
      <4>1. Blocks' = Blocks
        BY <1>1 DEF Blocks
      <4> QED BY <2>5, <3>1, <4>1 DEF TypeOK
    <3>3. phi_cpy(M, Identity(M), s.val, at, t) = s.val
      BY <2>1, <3>2, NothingCopied
    <3> QED BY <2>3, <3>1, <3>3, Zenon
  <2>6. Untouched'
    <3>1. at' # None => Places(val)'
      BY <1>1, <2>5 DEF Places
    <3> QED BY <1>1, <1>3, <2>1, <2>3, <2>4, <3>1 DEF Untouched, Final, Laid
  <2> QED BY <1>1, <1>2, <2>6 DEF SoundInv
<1>6. CASE Promoted
  <2>1. Promoted'
    <3> SUFFICES ASSUME PromotionApplies'
                 PROVE  \E A : /\ Mirrors(A, old, M, pred)'
                               /\ SameResult' /\ (at' # None => <<at', mem', mem2', val'>> \in A)
      BY DEF Promoted
    <3>1. PromotionApplies
      BY <1>1, SameApplies
    <3>2. PICK A : Mirrors(A, old, M, pred) /\ <<at, mem, mem2, val>> \in A
      BY <1>1, <1>6, <3>1 DEF Promoted
    <3>3. /\ Agree(r.out, s.out)
          /\ \A t \in Range(r.to) : <<t, r.mem, s.mem, Sends(pred, M, Identity(M), s.val, at, t)>> \in A
      BY <3>2, Zenon DEF Mirrors, r, s
    <3>4. ASSUME at' # None PROVE <<at', mem', mem2', val'>> \in A
      <4>1. PICK t \in Range(r.to) : at' = t /\ val' = phi_cpy(M, Identity(M), s.val, at, t)
        BY <1>3, <3>4
      <4>2. val' = Sends(pred, M, Identity(M), s.val, at, t)
        BY <4>1, SendsIs
      <4> QED BY <1>3, <3>3, <4>1, <4>2
    <3> QED BY <1>1, <1>4, <3>2, <3>3, <3>4
  <2> QED BY <1>1, <1>2, <2>1 DEF SoundInv
<1> QED BY <1>2, <1>5, <1>6

LEMMA SoundKept ==
  ASSUME RenInv, PromInv, stage = "rewrite" => LimitsKept, TypeOK, TypeOK', SoundInv, [Next]_vars
  PROVE  SoundInv'
<1>1. ASSUME stage \notin {"done", "run"}, stage' \notin {"done", "run"}, UNCHANGED runVars
      PROVE  SoundInv'
  BY <1>1 DEF SoundInv, SameResult, runVars
<1>2. CASE low_func /\ UNCHANGED <<m2rVars, runVars>>
  <2>1. ~ lowered
    BY <1>2 DEF low_func, Assign, Return, For, Copy, If, While, Case, Exit, Goto, Label,
      ThenDone, ElseDone, WhileDone, ForDone, BranchDone, NextBranch, Default, CaseDone,
      Finish, Statement, Resume
  <2>2. stage = "cfg" /\ stage' = "cfg"
    BY <1>2, <2>1 DEF RenInv, PassInv, ClosedInv, m2rVars
  <2> QED BY <1>1, <1>2, <2>2
<1>3. CASE jir_m2r /\ UNCHANGED runVars
  <2>1. CASE mk_cfg \/ mk_rpo \/ ins_phi \/ ren_var
    BY <1>1, <1>3, <2>1 DEF mk_cfg, mk_rpo, ins_phi, ren_var, Pass
  <2>2. CASE cmp_dom
    <3>1. Pass("dom", "df")
      BY <2>2, Zenon DEF cmp_dom
    <3> QED BY <1>1, <1>3, <3>1 DEF Pass
  <2>3. CASE cmp_df
    <3>1. Pass("df", "crashed") \/ Pass("df", "phi")
      BY <2>3 DEF cmp_df
    <3> QED BY <1>1, <1>3, <3>1 DEF Pass
  <2>4. CASE fnd_prm
    <3>1. /\ stage = "prm" /\ stage' \in {"done", "rpo"} /\ UNCHANGED lowVars
          /\ stage' = "done" => old' = M
      BY <2>4 DEF fnd_prm, Pass
    <3>2. Final(M) /\ Laid(M)
      BY <3>1 DEF RenInv, PassInv, PromInv, EntryInv
    <3>3. SameResult'
      BY <1>3, <3>1 DEF SoundInv, SameResult, runVars
    <3>4. CASE stage' = "done"
      <4>1. Untouched'
        BY <3>1, <3>2, <3>4 DEF Untouched, Final, Laid, lowVars
      <4> QED BY <3>3, <3>4, <4>1 DEF SoundInv
    <3> QED BY <1>1, <1>3, <3>1, <3>4
  <2>5. CASE rewrite
    <3>1. stage = "rewrite" /\ stage' = "done"
      BY <2>5 DEF rewrite, Pass
    <3>2. SameResult'
      BY <1>3, <3>1 DEF SoundInv, SameResult, runVars
    <3>3. Promoted'
      <4> SUFFICES ASSUME PromotionApplies' PROVE \E A : Mirrors(A, old', M', pred')
        BY <3>1 DEF Promoted
      <4> QED BY <2>5, <3>1, RewriteMirrors
    <3> QED BY <3>1, <3>2, <3>3 DEF SoundInv
  <2> QED BY <1>3, <2>1, <2>2, <2>3, <2>4, <2>5 DEF jir_m2r
<1>4. CASE Start
  BY <1>4, StartSound
<1>5. CASE Step
  BY <1>5, StepSound
<1>6. CASE UNCHANGED vars
  BY <1>6, SameSound DEF vars, lowVars, m2rVars, runVars
<1> QED BY <1>2, <1>3, <1>4, <1>5, <1>6 DEF Next

\* The slots promoted, the frontiers, the PHIs and the renaming are what the
\* passes promise one another, in every state.
THEOREM PromInvAlways == Spec => []PromInv
<1>1. Init => PromInv
  BY InitEntry DEF Init, M2RInit, PromInv
<1>2. RenInv /\ PromInv /\ [Next]_vars => PromInv'
  BY PromInvKept
<1> QED BY <1>1, <1>2, RenInvAlways, PTL DEF Spec

\* jir_m2r keeps what the procedure returns: on every path through it the
\* rewritten one returns what the lowered one does, for every procedure on
\* which jir_m2r stays within its limits and the four conditions of
\* PromotionApplies hold.
THEOREM PromotionSoundAlways ==
  Spec /\ [](stage = "rewrite" => LimitsKept) => []PromotionSound
<1>1. Init => SoundInv
  BY DEF Init, M2RInit, RunInit, SoundInv, SameResult
<1>2. /\ RenInv /\ PromInv /\ (stage = "rewrite" => LimitsKept) /\ TypeOK /\ TypeOK'
      /\ SoundInv /\ [Next]_vars
      => SoundInv'
  BY SoundKept
<1>3. SoundInv => PromotionSound
  BY DEF SoundInv, Untouched, Promoted, PromotionSound
<1> QED
  BY <1>1, <1>2, <1>3, RenInvAlways, PromInvAlways, TypeOKAlways, PTL DEF Spec
=============================================================================
