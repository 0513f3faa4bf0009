--------------------------- MODULE LoweringProofs ---------------------------
(***************************************************************************)
(* Proofs that low_func and low_stmt close every block that a branch leads *)
(* to, for every procedure, and that EXIT leaves the innermost loop.  At   *)
(* the end, that loads and stores name allocas of the first block.         *)
(***************************************************************************)
EXTENDS SsaRun, ProofBasics, FiniteSetTheorems

---------------------------------------------------------------------------
(* A module under construction: instructions are appended to block c, the  *)
(* blocks of P are made and still empty, and a branch only leads to blocks *)
(* that are closed, will be entered, or are being filled.                  *)

Blk == [first : Nat \ {0}, n_inst : Nat]
IsModule(m) == IsSeq(m.insts) /\ m.blks \in Seq(Blk)

Within(m) ==
  \A b \in DOMAIN m.blks :
    m.blks[b].n_inst > 0 => m.blks[b].first + m.blks[b].n_inst - 1 <= Len(m.insts)
AtEnd(m, c) == m.blks[c].first + m.blks[c].n_inst = Len(m.insts) + 1

\* The instructions of a block; those that leave a value.
Home(m, b) == m.blks[b].first .. m.blks[b].first + m.blks[b].n_inst - 1
ValueOps == {"load", "add"}
Values(m, b) == {x \in Home(m, b) : m.insts[x].op \in ValueOps}

\* An instruction as low_stmt writes it.  TakesValue: its first operand is a
\* value, and then a constant or left earlier in the same block.
LowOps == {"alloca", "store", "load", "add", "br", "br_cond", "ret"}
Made(I) ==
  /\ I = Inst(I.op, I.ops) /\ I.op \in LowOps /\ IsSeq(I.ops)
  /\ I.op = "br" => Len(I.ops) = 1
  /\ I.op = "store" => Len(I.ops) = 2
  /\ I.op = "br_cond" => Len(I.ops) = 3 /\ I.ops[2] # I.ops[3]
Constant(x) == x \in Int /\ IsConst(x)
TakesValue(I) == I.op \in {"store", "add", "ret"} /\ I.ops # <<>>
Fed(m, b, k) ==
  TakesValue(m.insts[k]) =>
    LET x == m.insts[k].ops[1] IN Constant(x) \/ (x \in Values(m, b) /\ x < k)
Shaped(m) ==
  /\ \A k \in DOMAIN m.insts : Made(m.insts[k])
  /\ \A b, d \in DOMAIN m.blks : b # d => Home(m, b) \cap Home(m, d) = {}
  /\ \A b \in DOMAIN m.blks : \A k \in Home(m, b) : Fed(m, b, k)

\* Code that may be appended to block c.
Fits(m, c, I) ==
  Made(I) /\ (TakesValue(I) => Constant(I.ops[1]) \/ I.ops[1] \in Values(m, c))
FitAll(m, c, code) ==
  \A k \in DOMAIN code :
    \/ Fits(m, c, code[k])
    \/ /\ Made(code[k])
       /\ \E j \in 1 .. k - 1 :
            code[k].ops[1] = Len(m.insts) + j /\ code[j].op \in ValueOps

Handled(m, c, P) == {b \in DOMAIN m.blks : b = c \/ b \in P \/ BlkTerm(m, b)}
Leads(I) == Range(Targets(I))
Jumps(m) == UNION {Leads(m.insts[k]) : k \in DOMAIN m.insts}

Good(m, c, P) ==
  /\ IsModule(m) /\ Within(m) /\ Shaped(m)
  /\ c \in DOMAIN m.blks /\ AtEnd(m, c)
  /\ P \subseteq DOMAIN m.blks /\ c \notin P
  /\ \A b \in P : m.blks[b].n_inst = 0
  /\ Jumps(m) \subseteq Handled(m, c, P)

\* The parts of a module.
LEMMA Parts ==
  ASSUME NEW m, IsModule(m)
  PROVE  /\ Len(m.insts) \in Nat /\ DOMAIN m.insts = 1 .. Len(m.insts)
         /\ Len(m.blks) \in Nat /\ DOMAIN m.blks = 1 .. Len(m.blks)
         /\ \A b \in DOMAIN m.blks : m.blks[b].first \in Nat \ {0} /\ m.blks[b].n_inst \in Nat
<1>1. IsSeq(m.insts) /\ m.blks \in Seq(Blk)
  BY DEF IsModule
<1>2. Len(m.insts) \in Nat /\ DOMAIN m.insts = 1 .. Len(m.insts)
  BY <1>1, DomainOfSeq
<1>3. /\ Len(m.blks) \in Nat /\ DOMAIN m.blks = 1 .. Len(m.blks)
      /\ \A b \in DOMAIN m.blks : m.blks[b] \in Blk
  BY <1>1, LenProperties
<1> QED
  BY <1>2, <1>3 DEF Blk

\* A block that does not change stays closed while code is appended.
LEMMA StaysClosed ==
  ASSUME NEW m, IsModule(m), Within(m), NEW b \in DOMAIN m.blks, BlkTerm(m, b),
         NEW n, n.blks[b] = m.blks[b],
         \A k \in DOMAIN m.insts : n.insts[k] = m.insts[k]
  PROVE  BlkTerm(n, b)
<1>1. /\ m.blks[b].first \in Nat \ {0} /\ m.blks[b].n_inst \in Nat /\ m.blks[b].n_inst > 0
      /\ DOMAIN m.insts = 1 .. Len(m.insts) /\ Len(m.insts) \in Nat
  BY Parts DEF BlkTerm
<1>2. m.blks[b].first + m.blks[b].n_inst - 1 \in DOMAIN m.insts
  BY <1>1 DEF Within
<1>3. LastOf(n, b) = LastOf(m, b)
  BY <1>2 DEF LastOf
<1> QED
  BY <1>3 DEF BlkTerm

\* One block of a module changed.
LEMMA BlockChanged ==
  ASSUME NEW m, IsModule(m), NEW c \in DOMAIN m.blks, NEW e \in Blk
  PROVE  /\ [m.blks EXCEPT ![c] = e] \in Seq(Blk)
         /\ Len([m.blks EXCEPT ![c] = e]) = Len(m.blks)
         /\ DOMAIN [m.blks EXCEPT ![c] = e] = DOMAIN m.blks
         /\ [m.blks EXCEPT ![c] = e][c] = e
         /\ \A b \in DOMAIN m.blks : b # c => [m.blks EXCEPT ![c] = e][b] = m.blks[b]
<1> DEFINE s == m.blks
           t == [s EXCEPT ![c] = e]
<1>1. s \in Seq(Blk) /\ c \in 1 .. Len(s) /\ DOMAIN s = 1 .. Len(s)
  BY LenProperties DEF IsModule
<1> HIDE DEF s
<1>2. /\ t \in Seq(Blk) /\ Len(t) = Len(s)
      /\ \A j \in 1 .. Len(s) : t[j] = IF j = c THEN e ELSE s[j]
  BY <1>1, ExceptSeq
<1>3. DOMAIN t = DOMAIN s
  OBVIOUS
<1> HIDE DEF t
<1>4. t[c] = e /\ \A b \in DOMAIN s : b # c => t[b] = s[b]
  BY <1>1, <1>2
<1> QED
  BY <1>2, <1>3, <1>4 DEF s, t

\* emit: code goes to the end of the block being filled.
LEMMA EmitAllGood ==
  ASSUME NEW m, NEW c, NEW P, Good(m, c, P), NEW code, IsSeq(code), code # <<>>,
         \A k \in DOMAIN code : Leads(code[k]) \subseteq Handled(m, c, P),
         FitAll(m, c, code)
  PROVE  /\ Good(EmitAll(m, c, code), c, P)
         /\ Handled(m, c, P) \subseteq Handled(EmitAll(m, c, code), c, P)
         /\ \A j \in 1 .. Len(code) :
              code[j].op \in ValueOps => Len(m.insts) + j \in Values(EmitAll(m, c, code), c)
         /\ Last(code).op \in Terminators => BlkTerm(EmitAll(m, c, code), c)
         /\ Len(EmitAll(m, c, code).blks) = Len(m.blks)
         /\ EmitAll(m, c, code).insts = m.insts \o code
<1> DEFINE n == EmitAll(m, c, code)
           len == Len(m.insts)
           add == Len(code)
           fst == m.blks[c].first
           cnt == m.blks[c].n_inst
           e == [m.blks[c] EXCEPT !.n_inst = cnt + add]
<1>1. /\ IsModule(m) /\ Within(m) /\ Shaped(m) /\ c \in DOMAIN m.blks /\ AtEnd(m, c)
      /\ P \subseteq DOMAIN m.blks /\ c \notin P
      /\ \A b \in P : m.blks[b].n_inst = 0
      /\ Jumps(m) \subseteq Handled(m, c, P)
  BY DEF Good
<1>2. len \in Nat /\ DOMAIN m.insts = 1 .. len /\ IsSeq(m.insts)
  BY <1>1, Parts DEF IsModule
<1>3. add \in Nat \ {0} /\ DOMAIN code = 1 .. add
  BY DomainOfSeq
<1>4. fst \in Nat \ {0} /\ cnt \in Nat /\ fst + cnt = len + 1
  BY <1>1, Parts DEF AtEnd
<1>5. e \in Blk /\ e.first = fst /\ e.n_inst = cnt + add
  <2>1. m.blks[c] \in Blk
    BY <1>1, LenProperties DEF IsModule
  <2> QED
    BY <1>3, <2>1 DEF Blk
<1>6. n.insts = m.insts \o code /\ n.blks = [m.blks EXCEPT ![c] = e]
  BY DEF EmitAll
<1> HIDE DEF e, n
<1>7. /\ n.blks \in Seq(Blk) /\ Len(n.blks) = Len(m.blks) /\ DOMAIN n.blks = DOMAIN m.blks
      /\ n.blks[c] = e /\ \A b \in DOMAIN m.blks : b # c => n.blks[b] = m.blks[b]
  BY <1>1, <1>5, <1>6, BlockChanged
<1>8. /\ IsSeq(n.insts) /\ Len(n.insts) = len + add
      /\ \A k \in 1 .. len : n.insts[k] = m.insts[k]
      /\ \A k \in 1 .. add : n.insts[len + k] = code[k]
  BY <1>2, <1>6, ConcatAny
<1>9. IsModule(n)
  BY <1>7, <1>8 DEF IsModule
<1>10. n.blks[c].first = fst /\ n.blks[c].n_inst = cnt + add
  BY <1>5, <1>7
<1> HIDE DEF len, add, fst, cnt
<1>11. /\ fst + (cnt + add) = len + add + 1 /\ cnt + add > 0
       /\ fst + (cnt + add) - 1 = len + add
  BY <1>2, <1>3, <1>4
<1>12. AtEnd(n, c)
  BY <1>8, <1>10, <1>11 DEF AtEnd
<1>13. Within(n)
  <2> SUFFICES ASSUME NEW b \in DOMAIN n.blks, n.blks[b].n_inst > 0
               PROVE  n.blks[b].first + n.blks[b].n_inst - 1 <= Len(n.insts)
    BY DEF Within
  <2>1. CASE b = c
    <3>1. n.blks[b].first + n.blks[b].n_inst - 1 = len + add
      BY <1>10, <1>11, <2>1
    <3> QED
      BY <1>2, <1>3, <1>8, <3>1
  <2>2. CASE b # c
    <3>1. n.blks[b] = m.blks[b] /\ b \in DOMAIN m.blks
      BY <1>7, <2>2
    <3>2. m.blks[b].first + m.blks[b].n_inst - 1 <= len
      BY <1>1, <3>1 DEF Within, len
    <3>3. m.blks[b].first \in Nat /\ m.blks[b].n_inst \in Nat
      BY <1>1, <3>1, Parts
    <3> QED
      BY <1>2, <1>3, <1>8, <3>1, <3>2, <3>3
  <2> QED
    BY <2>1, <2>2
<1>14. Handled(m, c, P) \subseteq Handled(n, c, P)
  <2>1. ASSUME NEW b \in DOMAIN m.blks, b # c, BlkTerm(m, b)
        PROVE  BlkTerm(n, b)
    <3>1. n.blks[b] = m.blks[b]
      BY <1>7, <2>1
    <3>2. \A k \in DOMAIN m.insts : n.insts[k] = m.insts[k]
      BY <1>2, <1>8
    <3> QED
      BY <1>1, <2>1, <3>1, <3>2, StaysClosed
  <2> QED
    BY <1>7, <2>1 DEF Handled
<1>15. Jumps(n) \subseteq Handled(n, c, P)
  <2>1. ASSUME NEW k \in DOMAIN n.insts
        PROVE  Leads(n.insts[k]) \subseteq Handled(m, c, P)
    <3>1. k \in 1 .. len + add
      BY <1>8, DomainOfSeq
    <3>2. CASE k \in 1 .. len
      <4>1. n.insts[k] = m.insts[k] /\ k \in DOMAIN m.insts
        BY <1>2, <1>8, <3>2
      <4> QED
        BY <1>1, <4>1 DEF Jumps
    <3>3. CASE k \notin 1 .. len
      <4>1. k - len \in 1 .. add /\ len + (k - len) = k
        BY <1>2, <1>3, <3>1, <3>3
      <4>2. n.insts[k] = code[k - len]
        BY <1>8, <4>1
      <4> QED
        BY <1>3, <4>1, <4>2
    <3> QED
      BY <3>2, <3>3
  <2> QED
    BY <1>14, <2>1 DEF Jumps
<1>16. Last(code).op \in Terminators => BlkTerm(n, c)
  <2>1. LastOf(n, c) = Last(code)
    <3>1. LastOf(n, c) = n.insts[len + add]
      BY <1>10, <1>11 DEF LastOf
    <3> QED
      BY <1>3, <1>8, <3>1 DEF Last, add
  <2> QED
    BY <1>10, <1>11, <2>1 DEF BlkTerm
<1>17. \A b \in P : n.blks[b].n_inst = 0
  BY <1>1, <1>7
<1>19. /\ DOMAIN n.insts = 1 .. len + add
       /\ \A b \in DOMAIN m.blks : b # c => Home(n, b) = Home(m, b)
       /\ \A b \in DOMAIN m.blks : Home(m, b) \subseteq 1 .. len
       /\ Home(n, c) = Home(m, c) \cup (len + 1 .. len + add)
  <2>1. DOMAIN n.insts = 1 .. len + add
    BY <1>8, DomainOfSeq
  <2>2. \A b \in DOMAIN m.blks : b # c => Home(n, b) = Home(m, b)
    BY <1>7 DEF Home
  <2>3. ASSUME NEW b \in DOMAIN m.blks PROVE Home(m, b) \subseteq 1 .. len
    <3>1. m.blks[b].first \in Nat \ {0} /\ m.blks[b].n_inst \in Nat
      BY <1>1, Parts
    <3>2. m.blks[b].n_inst > 0 => m.blks[b].first + m.blks[b].n_inst - 1 <= len
      BY <1>1 DEF Within, len
    <3> QED
      BY <1>2, <3>1, <3>2 DEF Home
  <2>4. Home(n, c) = Home(m, c) \cup (len + 1 .. len + add)
    <3>1. Home(n, c) = fst .. fst + (cnt + add) - 1
      BY <1>10 DEF Home
    <3>2. Home(m, c) = fst .. fst + cnt - 1
      BY DEF Home, fst, cnt
    <3> QED
      BY <1>2, <1>3, <1>4, <3>1, <3>2
  <2> QED
    BY <2>1, <2>2, <2>3, <2>4
<1>20. \A b \in DOMAIN m.blks : Values(m, b) \subseteq Values(n, b)
  <2>1. \A b \in DOMAIN m.blks : Home(m, b) \subseteq Home(n, b)
    BY <1>19
  <2> QED
    BY <1>8, <1>19, <2>1 DEF Values
<1>21. ASSUME NEW j \in 1 .. add, code[j].op \in ValueOps
       PROVE  len + j \in Values(n, c)
  <2>1. len + j \in Home(n, c) /\ n.insts[len + j] = code[j]
    BY <1>2, <1>3, <1>8, <1>19
  <2> QED
    BY <1>21, <2>1 DEF Values
<1>22. \A k \in 1 .. len + add : k \in 1 .. len \/ \E i \in 1 .. add : k = len + i
  <2> SUFFICES ASSUME NEW k \in 1 .. len + add, k \notin 1 .. len
               PROVE  \E i \in 1 .. add : k = len + i
    OBVIOUS
  <2>1. k - len \in 1 .. add /\ k = len + (k - len)
    BY <1>2, <1>3
  <2> QED
    BY <2>1
<1>23. ASSUME NEW i \in 1 .. add
       PROVE  Made(n.insts[len + i]) /\ Fed(n, c, len + i)
  <2>1. n.insts[len + i] = code[i] /\ i \in DOMAIN code
    BY <1>3, <1>8
  <2> DEFINE x == code[i].ops[1]
  <2>2. Made(code[i])
    BY <2>1 DEF FitAll, Fits
  <2>3. ASSUME TakesValue(code[i])
        PROVE  Constant(x) \/ (x \in Values(n, c) /\ x < len + i)
    <3>1. CASE Fits(m, c, code[i])
      <4>1. Constant(x) \/ x \in Values(m, c)
        BY <2>3, <3>1 DEF Fits
      <4>2. ASSUME x \in Values(m, c) PROVE x \in Values(n, c) /\ x < len + i
        <5>1. x \in 1 .. len
          BY <1>1, <1>19, <4>2 DEF Values
        <5>2. x \in Values(n, c)
          BY <1>1, <1>20, <4>2
        <5> HIDE DEF x
        <5> QED
          BY <1>2, <1>3, <5>1, <5>2
      <4> QED
        BY <4>1, <4>2
    <3>2. CASE \E j \in 1 .. i - 1 : x = len + j /\ code[j].op \in ValueOps
      <4>1. PICK j \in 1 .. i - 1 : x = len + j /\ code[j].op \in ValueOps
        BY <3>2
      <4>2. j \in 1 .. add /\ len + j < len + i
        BY <1>2, <1>3
      <4>3. len + j \in Values(n, c)
        BY <1>21, <4>1, <4>2
      <4> QED
        BY <4>1, <4>2, <4>3
    <3> QED
      BY <2>1, <3>1, <3>2 DEF FitAll, len
  <2>4. Fed(n, c, len + i)
    BY <2>1, <2>3 DEF Fed
  <2> QED
    BY <2>1, <2>2, <2>4
<1>24. \A k \in DOMAIN m.insts : Made(m.insts[k])
  BY <1>1 DEF Shaped
<1>25. ASSUME NEW b \in DOMAIN m.blks, NEW k \in Home(m, b)
       PROVE  Fed(n, b, k)
  <2>1. k \in 1 .. len /\ n.insts[k] = m.insts[k] /\ Fed(m, b, k)
    BY <1>1, <1>8, <1>19 DEF Shaped
  <2> QED
    BY <1>20, <2>1 DEF Fed
<1>26. Shaped(n)
  <2>1. \A k \in DOMAIN n.insts : Made(n.insts[k])
    BY <1>2, <1>8, <1>19, <1>22, <1>23, <1>24
  <2>2. ASSUME NEW b \in DOMAIN m.blks, NEW d \in DOMAIN m.blks, b # d
        PROVE  Home(n, b) \cap Home(n, d) = {}
    <3>1. Home(m, b) \cap Home(m, d) = {}
      BY <1>1, <2>2 DEF Shaped
    <3>2. (1 .. len) \cap (len + 1 .. len + add) = {}
      BY <1>2, <1>3
    <3>3. CASE b # c /\ d # c
      BY <1>19, <3>1, <3>3
    <3>4. CASE b = c
      <4>1. Home(n, d) = Home(m, d) /\ Home(m, d) \subseteq 1 .. len
        BY <1>19, <2>2, <3>4
      <4> QED
        BY <1>19, <3>1, <3>2, <3>4, <4>1
    <3>5. CASE d = c
      <4>1. Home(n, b) = Home(m, b) /\ Home(m, b) \subseteq 1 .. len
        BY <1>19, <2>2, <3>5
      <4> QED
        BY <1>19, <3>1, <3>2, <3>5, <4>1
    <3> QED
      BY <3>3, <3>4, <3>5
  <2>3. ASSUME NEW b \in DOMAIN m.blks, NEW k \in Home(n, b)
        PROVE  Fed(n, b, k)
    <3>1. CASE k \in Home(m, b)
      BY <1>25, <3>1
    <3>2. CASE k \notin Home(m, b)
      <4>1. b = c /\ k \in len + 1 .. len + add
        BY <1>19, <2>3, <3>2
      <4>2. k \in 1 .. len + add /\ k \notin 1 .. len
        BY <1>2, <1>3, <4>1
      <4>3. PICK i \in 1 .. add : k = len + i
        BY <1>22, <4>2
      <4> QED
        BY <1>23, <4>1, <4>3
    <3> QED
      BY <3>1, <3>2
  <2> QED
    BY <1>7, <2>1, <2>2, <2>3 DEF Shaped
<1>18. Good(n, c, P)
  BY <1>1, <1>7, <1>9, <1>12, <1>13, <1>15, <1>17, <1>26 DEF Good
<1> QED
  BY <1>6, <1>7, <1>14, <1>16, <1>18, <1>21 DEF n, len, add

\* emit of one instruction.
LEMMA EmitGood ==
  ASSUME NEW m, NEW c, NEW P, Good(m, c, P), NEW I, Leads(I) \subseteq Handled(m, c, P),
         Fits(m, c, I)
  PROVE  /\ Good(Emit(m, c, I), c, P)
         /\ I.op \in ValueOps => Len(m.insts) + 1 \in Values(Emit(m, c, I), c)
         /\ Handled(m, c, P) \subseteq Handled(Emit(m, c, I), c, P)
         /\ I.op \in Terminators => BlkTerm(Emit(m, c, I), c)
         /\ Len(Emit(m, c, I).blks) = Len(m.blks)
         /\ Last(Emit(m, c, I).insts) = I
<1> DEFINE code == <<I>>
<1>1. /\ IsSeq(code) /\ code # <<>> /\ Last(code) = I /\ Len(code) = 1
      /\ code[1] = I /\ \A k \in DOMAIN code : code[k] = I
  <2>1. code \in Seq({I}) /\ Len(code) = 1 /\ code[1] = I /\ DOMAIN code = 1 .. 1
    OBVIOUS
  <2> HIDE DEF code
  <2>2. IsSeq(code)
    BY <2>1, SeqIsSeq
  <2>3. code # <<>>
    BY <2>1, <2>2, DomainOfSeq
  <2>4. \A k \in DOMAIN code : code[k] = I
    BY <2>1
  <2>5. Last(code) = I
    BY <2>1 DEF Last
  <2> QED
    BY <2>1, <2>2, <2>3, <2>4, <2>5
<1> HIDE DEF code
<1>2. /\ \A k \in DOMAIN code : Leads(code[k]) \subseteq Handled(m, c, P)
      /\ FitAll(m, c, code)
  BY <1>1 DEF FitAll
<1> DEFINE n == EmitAll(m, c, code)
<1>3. /\ Good(n, c, P)
      /\ \A j \in 1 .. Len(code) : code[j].op \in ValueOps => Len(m.insts) + j \in Values(n, c)
      /\ Handled(m, c, P) \subseteq Handled(n, c, P)
      /\ Last(code).op \in Terminators => BlkTerm(n, c)
      /\ Len(n.blks) = Len(m.blks)
      /\ n.insts = m.insts \o code
  BY <1>1, <1>2, EmitAllGood
<1>4. Emit(m, c, I) = n
  BY DEF Emit, code
<1>5. Last(n.insts) = I
  <2>0. IsModule(m)
    BY DEF Good
  <2>1. IsSeq(m.insts) /\ Len(m.insts) \in Nat
    BY <2>0, Parts DEF IsModule
  <2> DEFINE s == m.insts
  <2>2. IsSeq(s) /\ Len(s) \in Nat /\ n.insts = s \o code
    BY <1>3, <2>1
  <2> HIDE DEF s, n
  <2>3. IsSeq(code)
    BY <1>1
  <2>4. /\ Len(s \o code) = Len(s) + Len(code)
        /\ \A k \in 1 .. Len(code) : (s \o code)[Len(s) + k] = code[k]
    BY <2>2, <2>3, ConcatAny
  <2>5. Len(s \o code) = Len(s) + 1 /\ (s \o code)[Len(s) + 1] = code[1]
    BY <1>1, <2>4
  <2> QED
    BY <1>1, <2>2, <2>5 DEF Last
<1>6. I.op \in ValueOps => Len(m.insts) + 1 \in Values(n, c)
  BY <1>1, <1>3
<1> HIDE DEF n
<1> QED
  BY <1>1, <1>3, <1>4, <1>5, <1>6

\* new_blk: fresh blocks may be left for later.
LEMMA NewGood ==
  ASSUME NEW m, NEW c, NEW P, Good(m, c, P), NEW k \in Nat,
         NEW F \in SUBSET (Len(m.blks) + 1 .. Len(m.blks) + k)
  PROVE  /\ Good(NewBlks(m, k), c, P \cup F)
         /\ Handled(m, c, P) \cup F \subseteq Handled(NewBlks(m, k), c, P \cup F)
         /\ Len(NewBlks(m, k).blks) = Len(m.blks) + k
         /\ NewBlks(m, k).insts = m.insts
<1> DEFINE n == NewBlks(m, k)
           new == [j \in 1 .. k |-> EmptyBlk(m)]
           len == Len(m.blks)
<1>1. /\ IsModule(m) /\ Within(m) /\ Shaped(m) /\ c \in DOMAIN m.blks /\ AtEnd(m, c)
      /\ P \subseteq DOMAIN m.blks /\ c \notin P
      /\ \A b \in P : m.blks[b].n_inst = 0
      /\ Jumps(m) \subseteq Handled(m, c, P)
  BY DEF Good
<1>2. len \in Nat /\ DOMAIN m.blks = 1 .. len /\ Len(m.insts) \in Nat
  BY <1>1, Parts
<1>3. EmptyBlk(m) \in Blk /\ EmptyBlk(m).n_inst = 0
  BY <1>2 DEF EmptyBlk, Blk
<1>4. new \in Seq(Blk) /\ Len(new) = k /\ \A j \in 1 .. k : new[j] = EmptyBlk(m)
  <2>1. new \in [1 .. k -> Blk]
    BY <1>3
  <2>2. new \in Seq(Blk)
    BY <2>1
  <2> HIDE DEF new
  <2>3. Len(new) = k
    BY <2>1, <2>2, LenProperties
  <2> QED
    BY <2>2, <2>3 DEF new
<1>5. n.insts = m.insts /\ n.blks = m.blks \o new
  BY DEF NewBlks
<1> HIDE DEF n, new
<1>6. /\ n.blks \in Seq(Blk) /\ Len(n.blks) = len + k
      /\ \A b \in 1 .. len + k : n.blks[b] = IF b <= len THEN m.blks[b] ELSE new[b - len]
  <2> DEFINE s == m.blks
  <2>1. s \in Seq(Blk) /\ len = Len(s) /\ n.blks = s \o new
    BY <1>1, <1>5 DEF IsModule
  <2> HIDE DEF s, len
  <2>2. /\ s \o new \in Seq(Blk) /\ Len(s \o new) = Len(s) + Len(new)
        /\ \A b \in 1 .. Len(s) + Len(new) :
             (s \o new)[b] = IF b <= Len(s) THEN s[b] ELSE new[b - Len(s)]
    BY <1>4, <2>1, ConcatProperties
  <2>3. /\ n.blks \in Seq(Blk) /\ Len(n.blks) = len + k
        /\ \A b \in 1 .. len + k : n.blks[b] = IF b <= len THEN s[b] ELSE new[b - len]
    BY <1>4, <2>1, <2>2
  <2> QED
    BY <2>3 DEF s
<1> HIDE DEF len
<1>7. DOMAIN n.blks = 1 .. len + k
  BY <1>6, LenProperties
<1>8. \A b \in DOMAIN m.blks : b \in DOMAIN n.blks /\ n.blks[b] = m.blks[b]
  BY <1>2, <1>6, <1>7
<1>9. \A b \in DOMAIN n.blks \ DOMAIN m.blks : n.blks[b].n_inst = 0
  <2> SUFFICES ASSUME NEW b \in DOMAIN n.blks \ DOMAIN m.blks
               PROVE  n.blks[b].n_inst = 0
    OBVIOUS
  <2>1. b \in 1 .. len + k /\ ~ (b <= len) /\ b - len \in 1 .. k
    BY <1>2, <1>7
  <2> QED
    BY <1>3, <1>4, <1>6, <2>1
<1>10. F \subseteq DOMAIN n.blks \ DOMAIN m.blks
  BY <1>2, <1>7 DEF len
<1>11. IsModule(n)
  BY <1>1, <1>5, <1>6 DEF IsModule
<1>12. Within(n)
  <2> SUFFICES ASSUME NEW b \in DOMAIN n.blks, n.blks[b].n_inst > 0
               PROVE  n.blks[b].first + n.blks[b].n_inst - 1 <= Len(n.insts)
    BY DEF Within
  <2>1. b \in DOMAIN m.blks
    BY <1>9
  <2> QED
    BY <1>1, <1>5, <1>8, <2>1 DEF Within
<1>13. AtEnd(n, c) /\ c \in DOMAIN n.blks
  BY <1>1, <1>5, <1>8 DEF AtEnd
<1>14. Handled(m, c, P) \cup F \subseteq Handled(n, c, P \cup F)
  <2>1. ASSUME NEW b \in DOMAIN m.blks, BlkTerm(m, b)
        PROVE  BlkTerm(n, b)
    BY <1>5, <1>8, <2>1 DEF BlkTerm, LastOf
  <2> QED
    BY <1>8, <1>10, <2>1 DEF Handled
<1>15. Jumps(n) \subseteq Handled(n, c, P \cup F)
  BY <1>1, <1>5, <1>14 DEF Jumps
<1>16. /\ P \cup F \subseteq DOMAIN n.blks /\ c \notin P \cup F
       /\ \A b \in P \cup F : n.blks[b].n_inst = 0
  BY <1>1, <1>8, <1>9, <1>10
<1>18. Shaped(n)
  <2>1. \A b \in DOMAIN m.blks : Home(n, b) = Home(m, b) /\ Values(n, b) = Values(m, b)
    BY <1>5, <1>8 DEF Home, Values
  <2>2. \A b \in DOMAIN n.blks \ DOMAIN m.blks : Home(n, b) = {}
    <3> SUFFICES ASSUME NEW b \in DOMAIN n.blks \ DOMAIN m.blks PROVE Home(n, b) = {}
      OBVIOUS
    <3>1. n.blks[b].first \in Nat /\ n.blks[b].n_inst = 0
      BY <1>9, <1>11, Parts
    <3> QED
      BY <3>1 DEF Home
  <2>3. \A b, d \in DOMAIN n.blks : b # d => Home(n, b) \cap Home(n, d) = {}
    BY <1>1, <2>1, <2>2 DEF Shaped
  <2>4. \A b \in DOMAIN n.blks : \A x \in Home(n, b) : Fed(n, b, x)
    BY <1>1, <1>5, <2>1, <2>2 DEF Shaped, Fed
  <2> QED
    BY <1>1, <1>5, <2>3, <2>4 DEF Shaped
<1>17. Good(n, c, P \cup F)
  BY <1>11, <1>12, <1>13, <1>15, <1>16, <1>18 DEF Good
<1> QED
  BY <1>5, <1>6, <1>14, <1>17 DEF n, len

\* set_blk: the block before is closed, the next one was waiting.
LEMMA SetGood ==
  ASSUME NEW m, NEW c, NEW P, Good(m, c, P), BlkTerm(m, c), NEW b \in P
  PROVE  /\ Good(SetBlk(m, b), b, P \ {b})
         /\ Handled(m, c, P) \subseteq Handled(SetBlk(m, b), b, P \ {b})
         /\ Len(SetBlk(m, b).blks) = Len(m.blks)
         /\ SetBlk(m, b).insts = m.insts
<1> DEFINE n == SetBlk(m, b)
           e == [m.blks[b] EXCEPT !.first = Len(m.insts) + 1]
<1>1. /\ IsModule(m) /\ Within(m) /\ Shaped(m) /\ c \in DOMAIN m.blks
      /\ P \subseteq DOMAIN m.blks /\ c \notin P
      /\ \A x \in P : m.blks[x].n_inst = 0
      /\ Jumps(m) \subseteq Handled(m, c, P)
  BY DEF Good
<1>2. Len(m.insts) \in Nat /\ DOMAIN m.insts = 1 .. Len(m.insts)
  BY <1>1, Parts
<1>3. e \in Blk /\ e.first = Len(m.insts) + 1 /\ e.n_inst = 0
  <2>1. m.blks[b] \in Blk /\ m.blks[b].n_inst = 0
    BY <1>1, LenProperties DEF IsModule
  <2> QED
    BY <1>2, <2>1 DEF Blk
<1>4. n.insts = m.insts /\ n.blks = [m.blks EXCEPT ![b] = e]
  BY DEF SetBlk
<1> HIDE DEF e, n
<1>5. /\ n.blks \in Seq(Blk) /\ Len(n.blks) = Len(m.blks) /\ DOMAIN n.blks = DOMAIN m.blks
      /\ n.blks[b] = e /\ \A x \in DOMAIN m.blks : x # b => n.blks[x] = m.blks[x]
  BY <1>1, <1>3, <1>4, BlockChanged
<1>6. IsModule(n)
  BY <1>1, <1>4, <1>5 DEF IsModule
<1>7. Within(n)
  <2> SUFFICES ASSUME NEW x \in DOMAIN n.blks, n.blks[x].n_inst > 0
               PROVE  n.blks[x].first + n.blks[x].n_inst - 1 <= Len(n.insts)
    BY DEF Within
  <2>1. x # b /\ x \in DOMAIN m.blks
    BY <1>3, <1>5
  <2> QED
    BY <1>1, <1>4, <1>5, <2>1 DEF Within
<1>8. AtEnd(n, b) /\ b \in DOMAIN n.blks
  BY <1>1, <1>2, <1>3, <1>4, <1>5 DEF AtEnd
<1>9. Handled(m, c, P) \subseteq Handled(n, b, P \ {b})
  <2>1. ASSUME NEW x \in DOMAIN m.blks, BlkTerm(m, x), x # b
        PROVE  BlkTerm(n, x)
    BY <1>4, <1>5, <2>1 DEF BlkTerm, LastOf
  <2> QED
    BY <1>5, <2>1 DEF Handled
<1>10. Jumps(n) \subseteq Handled(n, b, P \ {b})
  BY <1>1, <1>4, <1>9 DEF Jumps
<1>12. Shaped(n)
  <2>1. Home(n, b) = {} /\ Home(m, b) = {}
    <3>1. m.blks[b].first \in Nat /\ m.blks[b].n_inst = 0
      BY <1>1, Parts
    <3> QED
      BY <1>2, <1>3, <1>5, <3>1 DEF Home
  <2>2. \A x \in DOMAIN m.blks : Home(n, x) = Home(m, x)
    BY <1>5, <2>1 DEF Home
  <2>3. \A x \in DOMAIN m.blks : Values(n, x) = Values(m, x)
    BY <1>4, <2>2 DEF Values
  <2> QED
    BY <1>1, <1>4, <1>5, <2>2, <2>3 DEF Shaped, Fed
<1>11. Good(n, b, P \ {b})
  BY <1>1, <1>5, <1>6, <1>7, <1>8, <1>10, <1>12 DEF Good
<1> QED
  BY <1>4, <1>5, <1>9, <1>11 DEF n

\* What low_stmt writes fits where it is written.
LEMMA FitsOf ==
  ASSUME NEW m, NEW c
  PROVE  /\ \A a : Fits(m, c, Load(a)) /\ Load(a).op \in ValueOps
         /\ \A v, a : Constant(v) \/ v \in Values(m, c) => Fits(m, c, Store(v, a))
         /\ \A v : v \in Values(m, c) => Fits(m, c, Inst("ret", <<v>>))
         /\ Fits(m, c, Inst("ret", <<>>)) /\ Fits(m, c, Inst("alloca", <<>>))
         /\ \A b : Fits(m, c, Br(b))
         /\ \A b, d : b # d => Fits(m, c, BrCond(b, d))
<1>1. /\ IsSeq(<<>>)
      /\ \A x : IsSeq(<<x>>) /\ Len(<<x>>) = 1 /\ <<x>>[1] = x
      /\ \A x, y : IsSeq(<<x, y>>) /\ Len(<<x, y>>) = 2 /\ <<x, y>>[1] = x
      /\ \A x, y, z : IsSeq(<<x, y, z>>) /\ Len(<<x, y, z>>) = 3
                      /\ <<x, y, z>>[2] = y /\ <<x, y, z>>[3] = z
  <2>1. ASSUME NEW x PROVE <<x>> \in Seq({x}) /\ Len(<<x>>) = 1 /\ <<x>>[1] = x
    OBVIOUS
  <2>2. ASSUME NEW x, NEW y PROVE <<x, y>> \in Seq({x, y}) /\ Len(<<x, y>>) = 2 /\ <<x, y>>[1] = x
    OBVIOUS
  <2>3. ASSUME NEW x, NEW y, NEW z
        PROVE  /\ <<x, y, z>> \in Seq({x, y, z}) /\ Len(<<x, y, z>>) = 3
               /\ <<x, y, z>>[2] = y /\ <<x, y, z>>[3] = z
    OBVIOUS
  <2>4. \A x : IsSeq(<<x>>)
    BY <2>1, SeqIsSeq
  <2>5. \A x, y : IsSeq(<<x, y>>)
    BY <2>2, SeqIsSeq
  <2>6. \A x, y, z : IsSeq(<<x, y, z>>)
    <3> SUFFICES ASSUME NEW x, NEW y, NEW z PROVE IsSeq(<<x, y, z>>)
      OBVIOUS
    <3>1. <<x, y, z>> \in Seq({x, y, z})
      BY <2>3
    <3> QED
      BY <3>1, SeqIsSeq
  <2> QED
    BY <2>1, <2>2, <2>3, <2>4, <2>5, <2>6, EmptyIsSeq
<1>2. /\ \A o, xs : Inst(o, xs).op = o /\ Inst(o, xs).ops = xs
      /\ \A o, xs : Inst(o, xs) = Inst(Inst(o, xs).op, Inst(o, xs).ops)
  BY DEF Inst
<1>3. ASSUME NEW a PROVE Fits(m, c, Load(a)) /\ Load(a).op \in ValueOps
  BY <1>1, <1>2 DEF Fits, Made, TakesValue, LowOps, Load, ValueOps
<1>4. ASSUME NEW v, NEW a, Constant(v) \/ v \in Values(m, c) PROVE Fits(m, c, Store(v, a))
  BY <1>1, <1>2, <1>4 DEF Fits, Made, TakesValue, LowOps, Store
<1>5. ASSUME NEW v, v \in Values(m, c) PROVE Fits(m, c, Inst("ret", <<v>>))
  BY <1>1, <1>2, <1>5 DEF Fits, Made, TakesValue, LowOps
<1>6. Fits(m, c, Inst("ret", <<>>)) /\ Fits(m, c, Inst("alloca", <<>>))
  BY <1>1, <1>2 DEF Fits, Made, TakesValue, LowOps
<1>7. ASSUME NEW b PROVE Fits(m, c, Br(b))
  BY <1>1, <1>2 DEF Fits, Made, TakesValue, LowOps, Br
<1>8. ASSUME NEW b, NEW d, b # d PROVE Fits(m, c, BrCond(b, d))
  BY <1>1, <1>2, <1>8 DEF Fits, Made, TakesValue, LowOps, BrCond
<1> QED
  BY <1>3, <1>4, <1>5, <1>6, <1>7, <1>8

\* The branch that ends a block, unless it has ended.
LEMMA CloseGood ==
  ASSUME NEW m, NEW c, NEW P, Good(m, c, P), NEW to \in Handled(m, c, P)
  PROVE  /\ Good(Close(m, c, to), c, P)
         /\ Handled(m, c, P) \subseteq Handled(Close(m, c, to), c, P)
         /\ BlkTerm(Close(m, c, to), c)
         /\ Len(Close(m, c, to).blks) = Len(m.blks)
<1>1. Br(to).op \in Terminators /\ Leads(Br(to)) = {to}
  BY DEF Br, Inst, Terminators, Leads, Targets, Range
<1>2. CASE BlkTerm(m, c)
  BY <1>2 DEF Close
<1>3. CASE ~ BlkTerm(m, c)
  <2>1. Close(m, c, to) = Emit(m, c, Br(to))
    BY <1>3 DEF Close
  <2>2. Fits(m, c, Br(to))
    BY FitsOf
  <2> QED
    BY <1>1, <2>1, <2>2, EmitGood
<1> QED
  BY <1>2, <1>3

---------------------------------------------------------------------------
(* The calls of low_stmt in progress.  A frame owes the blocks it will     *)
(* enter when its body is done, no block is owed twice, and a loop also    *)
(* leads back to its header.                                               *)

PendOf(f) ==
  CASE f.kind = "then" -> {f.els, f.end}
    [] f.kind = "for" -> {f.end - 1, f.end}
    [] f.kind = "branch" -> {f.next, f.end}
    [] OTHER -> {f.end}
Back(f) == IF IsLoop(f) THEN {f.next} ELSE {}

OwedOf(st) == UNION {PendOf(st[k]) : k \in DOMAIN st}
Backs(st) == UNION {Back(st[k]) : k \in DOMAIN st}
Stacked(st) ==
  /\ IsSeq(st)
  /\ \A j, k \in DOMAIN st : j # k => PendOf(st[j]) \cap PendOf(st[k]) = {}
  /\ \A k \in DOMAIN st : st[k].kind = "branch" => st[k].next # st[k].end

\* A statement begins.
LEMMA PushFrame ==
  ASSUME NEW st, Stacked(st), NEW f, PendOf(f) \cap OwedOf(st) = {},
         f.kind = "branch" => f.next # f.end
  PROVE  /\ Stacked(Append(st, f))
         /\ OwedOf(Append(st, f)) = OwedOf(st) \cup PendOf(f)
         /\ Backs(Append(st, f)) = Backs(st) \cup Back(f)
<1> DEFINE t == Append(st, f)
           n == Len(st)
<1>1. IsSeq(st) /\ n \in Nat /\ DOMAIN st = 1 .. n
  BY DomainOfSeq DEF Stacked
<1>2. /\ IsSeq(t) /\ Len(t) = n + 1
      /\ \A k \in 1 .. n : t[k] = st[k]
      /\ t[n + 1] = f
  BY <1>1, AppendAny
<1> HIDE DEF t
<1>3. DOMAIN t = 1 .. n + 1
  BY <1>2, DomainOfSeq
<1>4. DOMAIN t = DOMAIN st \cup {n + 1} /\ \A k \in DOMAIN st : t[k] = st[k]
  BY <1>1, <1>2, <1>3
<1> HIDE DEF n
<1>5. \A k \in DOMAIN st : PendOf(t[k]) \subseteq OwedOf(st) /\ t[k] = st[k]
  BY <1>4 DEF OwedOf
<1>6. Stacked(t)
  <2>1. \A j, k \in DOMAIN st : j # k => PendOf(t[j]) \cap PendOf(t[k]) = {}
    BY <1>5 DEF Stacked
  <2>2. \A k \in DOMAIN st : t[k].kind = "branch" => t[k].next # t[k].end
    BY <1>5 DEF Stacked
  <2>3. \A k \in DOMAIN st : PendOf(t[k]) \cap PendOf(t[n + 1]) = {}
    BY <1>2, <1>5
  <2>4. \A j, k \in DOMAIN t : j # k => PendOf(t[j]) \cap PendOf(t[k]) = {}
    BY <1>4, <2>1, <2>3
  <2> QED
    BY <1>2, <1>4, <2>2, <2>4 DEF Stacked
<1>7. OwedOf(t) = OwedOf(st) \cup PendOf(f)
  BY <1>2, <1>4 DEF OwedOf
<1>8. Backs(t) = Backs(st) \cup Back(f)
  BY <1>2, <1>4 DEF Backs
<1> QED
  BY <1>6, <1>7, <1>8 DEF t

\* A statement is done.
LEMMA PopFrame ==
  ASSUME NEW st, Stacked(st), st # <<>>
  PROVE  /\ Stacked(Front(st))
         /\ OwedOf(Front(st)) = OwedOf(st) \ PendOf(Last(st))
         /\ PendOf(Last(st)) \subseteq OwedOf(st)
         /\ Backs(Front(st)) \cup Back(Last(st)) \subseteq Backs(st)
         /\ Last(st).kind = "branch" => Last(st).next # Last(st).end
<1> DEFINE t == Front(st)
           n == Len(st)
           f == Last(st)
<1>1. IsSeq(st) /\ DOMAIN st = 1 .. n
  BY DomainOfSeq DEF Stacked
<1>2. /\ IsSeq(t) /\ Len(t) = n - 1 /\ n \in Nat \ {0}
      /\ \A k \in 1 .. n - 1 : t[k] = st[k]
      /\ f = st[n]
  BY <1>1, FrontAny
<1> HIDE DEF t, f
<1>3. DOMAIN t = 1 .. n - 1
  BY <1>2, DomainOfSeq
<1>4. DOMAIN st = DOMAIN t \cup {n} /\ n \notin DOMAIN t
      /\ \A k \in DOMAIN t : t[k] = st[k]
  BY <1>1, <1>2, <1>3
<1> HIDE DEF n
<1>5. Stacked(t)
  BY <1>2, <1>4 DEF Stacked
<1>6. OwedOf(t) \cap PendOf(f) = {}
  <2>1. \A k \in DOMAIN t : PendOf(t[k]) \cap PendOf(f) = {}
    BY <1>2, <1>4 DEF Stacked
  <2> QED
    BY <2>1 DEF OwedOf
<1>7. OwedOf(st) = OwedOf(t) \cup PendOf(f)
  BY <1>2, <1>4 DEF OwedOf
<1>8. Backs(t) \cup Back(f) \subseteq Backs(st)
  BY <1>2, <1>4 DEF Backs
<1>9. f.kind = "branch" => f.next # f.end
  BY <1>2, <1>4 DEF Stacked
<1> QED
  BY <1>5, <1>6, <1>7, <1>8, <1>9 DEF t, f

---------------------------------------------------------------------------
(* The invariant of low_func: every block that some branch leads to, or    *)
(* that a statement still to come may lead to (Known), is closed, or will  *)
(* be entered by a statement in progress or at its label (U), or is being  *)
(* filled.                                                                 *)

Named(lb) == {lb[l] : l \in Labels} \ {0}
Known(st, lps, lb) == {1} \cup Named(lb) \cup Backs(st) \cup Range(lps)
Shape(st, lps, lb) ==
  /\ Stacked(st) /\ IsSeq(lps)
  /\ lb \in [Labels -> Nat]
  /\ OwedOf(st) \cap Named(lb) = {}
Covered(m, c, P, K) == Good(m, c, P) /\ K \subseteq Handled(m, c, P)

LowInv ==
  /\ Shape(stack, lp_exit, lbl)
  /\ \E U \in SUBSET Named(lbl) :
       Covered(M, cur_blk, OwedOf(stack) \cup U, Known(stack, lp_exit, lbl))

\* What the operations on a module do to Covered.
LEMMA EmitCovered ==
  ASSUME NEW m, NEW c, NEW P, NEW K, Covered(m, c, P, K),
         NEW I, Leads(I) \subseteq K \cup P, Fits(m, c, I)
  PROVE  /\ Covered(Emit(m, c, I), c, P, K)
         /\ I.op \in ValueOps => Len(m.insts) + 1 \in Values(Emit(m, c, I), c)
         /\ I.op \in Terminators => BlkTerm(Emit(m, c, I), c)
<1>1. Good(m, c, P) /\ K \subseteq Handled(m, c, P)
  BY DEF Covered
<1>2. P \subseteq Handled(m, c, P)
  BY <1>1 DEF Good, Handled
<1>3. Leads(I) \subseteq Handled(m, c, P)
  BY <1>1, <1>2
<1> QED
  BY <1>1, <1>3, EmitGood DEF Covered

LEMMA EmitAllCovered ==
  ASSUME NEW m, NEW c, NEW P, NEW K, Covered(m, c, P, K),
         NEW code, IsSeq(code), code # <<>>,
         \A k \in DOMAIN code : Leads(code[k]) \subseteq K \cup P,
         FitAll(m, c, code)
  PROVE  /\ Covered(EmitAll(m, c, code), c, P, K)
         /\ Last(code).op \in Terminators => BlkTerm(EmitAll(m, c, code), c)
<1>1. Good(m, c, P) /\ K \subseteq Handled(m, c, P)
  BY DEF Covered
<1>2. P \subseteq Handled(m, c, P)
  BY <1>1 DEF Good, Handled
<1>3. \A k \in DOMAIN code : Leads(code[k]) \subseteq Handled(m, c, P)
  BY <1>1, <1>2
<1> QED
  BY <1>1, <1>3, EmitAllGood DEF Covered

LEMMA NewCovered ==
  ASSUME NEW m, NEW c, NEW P, NEW K, Covered(m, c, P, K), NEW k \in Nat,
         NEW F \in SUBSET (Len(m.blks) + 1 .. Len(m.blks) + k)
  PROVE  Covered(NewBlks(m, k), c, P \cup F, K \cup F)
<1>1. Good(m, c, P) /\ K \subseteq Handled(m, c, P)
  BY DEF Covered
<1> QED
  BY <1>1, NewGood DEF Covered

LEMMA SetCovered ==
  ASSUME NEW m, NEW c, NEW P, NEW K, Covered(m, c, P, K), BlkTerm(m, c), NEW b \in P
  PROVE  Covered(SetBlk(m, b), b, P \ {b}, K \cup {b})
<1>1. Good(m, c, P) /\ K \subseteq Handled(m, c, P)
  BY DEF Covered
<1>2. Good(SetBlk(m, b), b, P \ {b}) /\ Handled(m, c, P) \subseteq Handled(SetBlk(m, b), b, P \ {b})
  BY <1>1, SetGood
<1>3. b \in Handled(SetBlk(m, b), b, P \ {b})
  BY <1>2 DEF Good, Handled
<1> QED
  BY <1>1, <1>2, <1>3 DEF Covered

LEMMA CloseCovered ==
  ASSUME NEW m, NEW c, NEW P, NEW K, Covered(m, c, P, K), NEW to \in K \cup P
  PROVE  Covered(Close(m, c, to), c, P, K) /\ BlkTerm(Close(m, c, to), c)
<1>1. Good(m, c, P) /\ K \subseteq Handled(m, c, P)
  BY DEF Covered
<1>2. P \subseteq Handled(m, c, P)
  BY <1>1 DEF Good, Handled
<1> QED
  BY <1>1, <1>2, CloseGood DEF Covered

\* Fresh blocks are not yet owed, named or led to.
LEMMA FreshIsNew ==
  ASSUME NEW m, NEW c, NEW P, NEW K, Covered(m, c, P, K)
  PROVE  /\ Len(m.blks) \in Nat
         /\ P \cup K \subseteq 1 .. Len(m.blks)
<1>1. Good(m, c, P) /\ IsModule(m) /\ K \subseteq Handled(m, c, P)
  BY DEF Covered, Good
<1>2. Len(m.blks) \in Nat /\ DOMAIN m.blks = 1 .. Len(m.blks)
  BY <1>1, Parts
<1> QED
  BY <1>1, <1>2 DEF Good, Handled

\* Fewer blocks need to be covered.
LEMMA CoveredLess ==
  ASSUME NEW m, NEW c, NEW P, NEW K, Covered(m, c, P, K), NEW J \in SUBSET K
  PROVE  Covered(m, c, P, J)
BY DEF Covered

---------------------------------------------------------------------------
(* Each step of low_func keeps the invariant.                              *)

\* Instructions without a branch lead nowhere; the branches to their blocks.
LEMMA LeadsOf ==
  /\ \A v, a : Leads(Store(v, a)) = {}
  /\ \A a : Leads(Load(a)) = {}
  /\ \A xs : Leads(Inst("ret", xs)) = {} /\ Inst("ret", xs).op \in Terminators
  /\ \A xs : Leads(Inst("add", xs)) = {}
  /\ \A b : Leads(Br(b)) = {b} /\ Br(b).op \in Terminators
  /\ \A b, c : Leads(BrCond(b, c)) = {b, c} /\ BrCond(b, c).op \in Terminators
<1>1. Range(<<>>) = {}
  BY DEF Range
<1>2. \A b : Range(<<b>>) = {b}
  BY DEF Range
<1>3. \A b, c : Range(<<b, c>>) = {b, c}
  BY DEF Range
<1>4. /\ \A v, a : Targets(Store(v, a)) = <<>>
      /\ \A a : Targets(Load(a)) = <<>>
      /\ \A xs : Targets(Inst("ret", xs)) = <<>> /\ Targets(Inst("add", xs)) = <<>>
  BY DEF Targets, Store, Load, Inst
<1>5. \A b : Targets(Br(b)) = <<b>>
  BY DEF Targets, Br, Inst
<1>6. \A b, c : Targets(BrCond(b, c)) = <<b, c>>
  BY DEF Targets, BrCond, Inst
<1>7. \A xs : Inst("ret", xs).op \in Terminators
  BY DEF Inst, Terminators
<1>8. \A b : Br(b).op \in Terminators
  BY DEF Br, Inst, Terminators
<1>9. \A b, c : BrCond(b, c).op \in Terminators
  BY DEF BrCond, Inst, Terminators
<1> QED
  BY <1>1, <1>2, <1>3, <1>4, <1>5, <1>6, <1>7, <1>8, <1>9 DEF Leads

\* Statements that only append to the block being filled.
LEMMA StraightKeeps ==
  ASSUME LowInv, NEW m, Straight(m),
         \A P : Covered(M, cur_blk, P, Known(stack, lp_exit, lbl))
                  => Covered(m, cur_blk, P, Known(stack, lp_exit, lbl))
  PROVE  LowInv'
<1>1. M' = m /\ UNCHANGED <<cur_blk, lp_exit, lbl, stack>>
  BY DEF Straight
<1> QED
  BY <1>1 DEF LowInv

\* The value of an assignment is a constant.
LEMMA NewConstIs ==
  ASSUME LowInv
  PROVE  Constant(NewConst)
<1>1. IsModule(M)
  BY DEF LowInv, Covered, Good
<1>2. Len(M.insts) \in Nat
  BY <1>1, Parts
<1> QED
  BY <1>2 DEF NewConst, MkConst, IsConst, Constant

LEMMA StraightStatements ==
  ASSUME LowInv,
         (\E v \in left.vars : Assign(v) \/ Return(v)) \/ (\E c \in left.copies : Copy(c[1], c[2]))
           \/ Exit
  PROVE  LowInv'
<1> DEFINE K == Known(stack, lp_exit, lbl)
<1> HIDE DEF K
<1>1. ASSUME NEW v, Assign(v) PROVE LowInv'
  <2> DEFINE m == Emit(M, cur_blk, Store(NewConst, Loc(v)))
  <2>0. Fits(M, cur_blk, Store(NewConst, Loc(v)))
    BY NewConstIs, FitsOf
  <2>1. \A P : Covered(M, cur_blk, P, K) => Covered(m, cur_blk, P, K)
    BY <2>0, EmitCovered, LeadsOf
  <2>2. Straight(m)
    BY <1>1 DEF Assign
  <2> QED
    BY <2>1, <2>2, StraightKeeps DEF K
<1>2. ASSUME NEW v, Return(v) PROVE LowInv'
  <2> DEFINE m0 == Emit(M, cur_blk, Load(Loc(v)))
             m == Emit(m0, cur_blk, Inst("ret", <<Len(M.insts) + 1>>))
  <2>1. ASSUME NEW P, Covered(M, cur_blk, P, K)
        PROVE  Covered(m0, cur_blk, P, K) /\ Len(M.insts) + 1 \in Values(m0, cur_blk)
    BY <2>1, EmitCovered, LeadsOf, FitsOf
  <2>2. ASSUME NEW P, Covered(M, cur_blk, P, K)
        PROVE  Covered(m, cur_blk, P, K)
    <3>1. Fits(m0, cur_blk, Inst("ret", <<Len(M.insts) + 1>>))
      BY <2>1, <2>2, FitsOf
    <3> HIDE DEF m0
    <3> QED
      BY <2>1, <2>2, <3>1, EmitCovered, LeadsOf
  <2>3. Straight(m)
    BY <1>2 DEF Return
  <2> HIDE DEF m0, m
  <2> QED
    BY <2>2, <2>3, StraightKeeps DEF K
<1>3. ASSUME NEW v, NEW w, Copy(v, w) PROVE LowInv'
  <2> DEFINE m0 == Emit(M, cur_blk, Load(Loc(w)))
             m == Emit(m0, cur_blk, Store(Len(M.insts) + 1, Loc(v)))
  <2>1. ASSUME NEW P, Covered(M, cur_blk, P, K)
        PROVE  Covered(m0, cur_blk, P, K) /\ Len(M.insts) + 1 \in Values(m0, cur_blk)
    BY <2>1, EmitCovered, LeadsOf, FitsOf
  <2>2. ASSUME NEW P, Covered(M, cur_blk, P, K)
        PROVE  Covered(m, cur_blk, P, K)
    <3>1. Fits(m0, cur_blk, Store(Len(M.insts) + 1, Loc(v)))
      BY <2>1, <2>2, FitsOf
    <3> HIDE DEF m0
    <3> QED
      BY <2>1, <2>2, <3>1, EmitCovered, LeadsOf
  <2>3. Straight(m)
    BY <1>3 DEF Copy
  <2> HIDE DEF m0, m
  <2> QED
    BY <2>2, <2>3, StraightKeeps DEF K
<1>4. ASSUME Exit PROVE LowInv'
  <2>1. CASE lp_exit = <<>>
    <3>1. Straight(M)
      BY <1>4, <2>1 DEF Exit
    <3> QED
      BY <3>1, StraightKeeps DEF K
  <2>2. CASE lp_exit # <<>>
    <3> DEFINE m == Emit(M, cur_blk, Br(Last(lp_exit)))
    <3>1. Straight(m)
      BY <1>4, <2>2 DEF Exit
    <3>2. Last(lp_exit) \in Range(lp_exit)
      <4>1. IsSeq(lp_exit)
        BY DEF LowInv, Shape
      <4>2. Len(lp_exit) \in DOMAIN lp_exit
        BY <2>2, <4>1, DomainOfSeq
      <4> QED
        BY <4>2 DEF Last, Range
    <3>3. Leads(Br(Last(lp_exit))) \subseteq K
      BY <3>2, LeadsOf DEF K, Known
    <3>4. \A P : Covered(M, cur_blk, P, K) => Covered(m, cur_blk, P, K)
      BY <3>3, EmitCovered, FitsOf
    <3> QED
      BY <3>1, <3>4, StraightKeeps DEF K
  <2> QED
    BY <2>1, <2>2
<1> QED
  BY <1>1, <1>2, <1>3, <1>4

\* A frame is pushed whose blocks are fresh.
LEMMA Opened ==
  ASSUME NEW st, Shape(st, lp_exit, lbl), NEW U \in SUBSET Named(lbl),
         NEW f, f.kind = "branch" => f.next # f.end,
         PendOf(f) \cap (OwedOf(st) \cup Named(lbl)) = {},
         stack' = Append(st, f), UNCHANGED lbl, IsSeq(lp_exit'),
         NEW P, P = OwedOf(st) \cup U \cup PendOf(f),
         NEW K, Known(st, lp_exit, lbl) \cup Back(f) \cup Range(lp_exit') \subseteq K,
         Covered(M', cur_blk', P, K)
  PROVE  LowInv'
<1>1. /\ Stacked(stack') /\ OwedOf(stack') = OwedOf(st) \cup PendOf(f)
      /\ Backs(stack') = Backs(st) \cup Back(f)
  BY PushFrame DEF Shape
<1>2. Shape(stack', lp_exit', lbl')
  BY <1>1 DEF Shape
<1>3. P = OwedOf(stack') \cup U
  BY <1>1
<1>4. Known(stack', lp_exit', lbl') \subseteq K
  BY <1>1 DEF Known
<1>5. Covered(M', cur_blk', OwedOf(stack') \cup U, Known(stack', lp_exit', lbl'))
  BY <1>3, <1>4, CoveredLess
<1> QED
  BY <1>2, <1>5 DEF LowInv

LEMMA IfKeeps ==
  ASSUME LowInv, NEW e, If(e)
  PROVE  LowInv'
<1>1. PICK U \in SUBSET Named(lbl) :
        Covered(M, cur_blk, OwedOf(stack) \cup U, Known(stack, lp_exit, lbl))
  BY DEF LowInv
<1> DEFINE P == OwedOf(stack) \cup U
           K == Known(stack, lp_exit, lbl)
           n == Len(M.blks)
           merg == Fresh + 2
           els == IF e THEN Fresh + 1 ELSE merg
           F == {Fresh, els, merg}
           f == [kind |-> "then", els |-> els, end |-> merg]
           m1 == NewBlks(M, 3)
           m2 == Emit(m1, cur_blk, BrCond(Fresh, els))
<1>2. n \in Nat /\ P \cup K \subseteq 1 .. n
  BY <1>1, FreshIsNew
<1> HIDE DEF n
<1>3. Fresh = n + 1 /\ Fresh \in Nat
  BY <1>2 DEF Fresh, n
<1>4. /\ F \in SUBSET (n + 1 .. n + 3) /\ els # Fresh /\ merg # Fresh
      /\ Fresh \notin P
      /\ {els, merg} \cap (P \cup K) = {}
  BY <1>2, <1>3
<1>5. /\ M' = SetBlk(m2, Fresh) /\ stack' = Append(stack, f)
      /\ cur_blk' = Fresh /\ UNCHANGED <<lp_exit, lbl>>
  BY DEF If, Enter
<1> HIDE DEF P, K, els, merg
<1>6. Covered(m1, cur_blk, P \cup F, K \cup F)
  BY <1>1, <1>4, NewCovered DEF P, K, n
<1>7. Covered(m2, cur_blk, P \cup F, K \cup F) /\ BlkTerm(m2, cur_blk)
  <2>1. /\ Leads(BrCond(Fresh, els)) \subseteq (K \cup F) \cup (P \cup F)
        /\ BrCond(Fresh, els).op \in Terminators
    BY LeadsOf
  <2> QED
    BY <1>4, <1>6, <2>1, EmitCovered, FitsOf
<1>8. Covered(M', cur_blk', (P \cup F) \ {Fresh}, (K \cup F) \cup {Fresh})
  <2>1. Fresh \in P \cup F
    OBVIOUS
  <2> HIDE DEF m2, F
  <2> QED
    BY <1>5, <1>7, <2>1, SetCovered
<1>9. PendOf(f) = {els, merg} /\ Back(f) = {} /\ f.kind # "branch"
  BY DEF PendOf, Back, IsLoop
<1>10. (P \cup F) \ {Fresh} = OwedOf(stack) \cup U \cup PendOf(f)
  <2>1. (P \cup F) \ {Fresh} = P \cup {els, merg}
    BY <1>4
  <2> QED
    BY <1>9, <2>1 DEF P
<1>11. PendOf(f) \cap (OwedOf(stack) \cup Named(lbl)) = {}
  <2>1. OwedOf(stack) \subseteq P /\ Named(lbl) \subseteq K
    BY DEF P, K, Known
  <2> QED
    BY <1>4, <1>9, <2>1
<1>12. /\ Shape(stack, lp_exit, lbl) /\ IsSeq(lp_exit')
       /\ Known(stack, lp_exit, lbl) \cup Back(f) \cup Range(lp_exit') \subseteq (K \cup F) \cup {Fresh}
  BY <1>5, <1>9 DEF LowInv, Shape, K, Known
<1> HIDE DEF f, F
<1> QED
  BY <1>5, <1>8, <1>9, <1>10, <1>11, <1>12, Opened

\* lp_exit only gains the exit of the loop entered, and loses some.
LEMMA LoopExits ==
  ASSUME IsSeq(lp_exit)
  PROVE  /\ \A x : EnterLoop(x) => IsSeq(lp_exit') /\ Range(lp_exit') \subseteq Range(lp_exit) \cup {x}
         /\ LeaveLoop => IsSeq(lp_exit') /\ Range(lp_exit') \subseteq Range(lp_exit)
<1> DEFINE n == Len(lp_exit)
<1>1. n \in Nat /\ DOMAIN lp_exit = 1 .. n
  BY DomainOfSeq
<1>2. ASSUME NEW x, EnterLoop(x)
      PROVE  IsSeq(lp_exit') /\ Range(lp_exit') \subseteq Range(lp_exit) \cup {x}
  <2>1. CASE n < MaxLoop
    <3> DEFINE t == Append(lp_exit, x)
    <3>1. lp_exit' = t
      BY <1>2, <2>1 DEF EnterLoop
    <3>2. /\ IsSeq(t) /\ Len(t) = n + 1
          /\ \A k \in 1 .. n : t[k] = lp_exit[k]
          /\ t[n + 1] = x
      BY AppendAny
    <3> HIDE DEF t
    <3>3. DOMAIN t = 1 .. n + 1
      BY <3>2, DomainOfSeq
    <3>4. \A k \in DOMAIN t : k \in DOMAIN lp_exit \/ k = n + 1
      BY <1>1, <3>3
    <3>5. \A k \in DOMAIN t : t[k] \in Range(lp_exit) \cup {x}
      BY <1>1, <3>2, <3>4 DEF Range
    <3>6. Range(t) \subseteq Range(lp_exit) \cup {x}
      BY <3>5 DEF Range
    <3> QED
      BY <3>1, <3>2, <3>6
  <2>2. CASE ~ (n < MaxLoop)
    BY <1>2, <2>2 DEF EnterLoop
  <2> QED
    BY <2>1, <2>2
<1>3. ASSUME LeaveLoop
      PROVE  IsSeq(lp_exit') /\ Range(lp_exit') \subseteq Range(lp_exit)
  <2>1. CASE lp_exit # <<>>
    <3> DEFINE t == Front(lp_exit)
    <3>1. lp_exit' = t
      BY <1>3, <2>1 DEF LeaveLoop
    <3>2. IsSeq(t) /\ Len(t) = n - 1 /\ \A k \in 1 .. n - 1 : t[k] = lp_exit[k]
      BY <2>1, FrontAny
    <3> HIDE DEF t
    <3>3. DOMAIN t = 1 .. n - 1
      BY <3>2, DomainOfSeq
    <3>4. \A k \in DOMAIN t : k \in DOMAIN lp_exit /\ t[k] = lp_exit[k]
      BY <1>1, <3>2, <3>3
    <3>5. Range(t) \subseteq Range(lp_exit)
      BY <3>4 DEF Range
    <3> QED
      BY <3>1, <3>2, <3>5
  <2>2. CASE lp_exit = <<>>
    BY <1>3, <2>2 DEF LeaveLoop
  <2> QED
    BY <2>1, <2>2
<1> QED
  BY <1>2, <1>3

LEMMA WhileKeeps ==
  ASSUME LowInv, While
  PROVE  LowInv'
<1>1. PICK U \in SUBSET Named(lbl) :
        Covered(M, cur_blk, OwedOf(stack) \cup U, Known(stack, lp_exit, lbl))
  BY DEF LowInv
<1> DEFINE P == OwedOf(stack) \cup U
           K == Known(stack, lp_exit, lbl)
           n == Len(M.blks)
           hdr == Fresh
           F == {hdr, hdr + 1, hdr + 2}
           f == [kind |-> "while", next |-> hdr, end |-> hdr + 2]
           m1 == NewBlks(M, 3)
           m2 == Close(m1, cur_blk, hdr)
           m3 == SetBlk(m2, hdr)
           m4 == Emit(m3, hdr, BrCond(hdr + 1, hdr + 2))
           P3 == (P \cup F) \ {hdr}
           K3 == (K \cup F) \cup {hdr}
<1>2. n \in Nat /\ P \cup K \subseteq 1 .. n
  BY <1>1, FreshIsNew
<1>3. hdr = n + 1
  BY DEF Fresh
<1>4. /\ M' = SetBlk(m4, hdr + 1) /\ stack' = Append(stack, f)
      /\ cur_blk' = hdr + 1 /\ EnterLoop(hdr + 2) /\ UNCHANGED lbl
  BY DEF While, Enter
<1> HIDE DEF n, hdr
<1>5. /\ F \in SUBSET (n + 1 .. n + 3) /\ hdr # hdr + 1 /\ hdr # hdr + 2 /\ hdr + 1 # hdr + 2
      /\ hdr \notin P \cup K /\ hdr + 1 \notin P \cup K /\ hdr + 2 \notin P \cup K
  BY <1>2, <1>3
<1> HIDE DEF P, K
<1>6. Covered(m1, cur_blk, P \cup F, K \cup F)
  BY <1>1, <1>5, NewCovered DEF P, K, n
<1>7. hdr \in P \cup F /\ hdr \in (K \cup F) \cup (P \cup F)
  OBVIOUS
<1> HIDE DEF F, m1
<1>8. Covered(m2, cur_blk, P \cup F, K \cup F) /\ BlkTerm(m2, cur_blk)
  BY <1>6, <1>7, CloseCovered
<1> HIDE DEF m2
<1>9. Covered(m3, hdr, P3, K3)
  BY <1>7, <1>8, SetCovered
<1> HIDE DEF m3
<1>10. Leads(BrCond(hdr + 1, hdr + 2)) \subseteq K3 \cup P3
       /\ BrCond(hdr + 1, hdr + 2).op \in Terminators
  BY LeadsOf DEF F
<1>11. hdr + 1 \in P3
  BY <1>5 DEF F
<1> HIDE DEF P3, K3
<1>12. Covered(m4, hdr, P3, K3) /\ BlkTerm(m4, hdr)
  BY <1>5, <1>9, <1>10, EmitCovered, FitsOf
<1> HIDE DEF m4
<1>13. Covered(M', cur_blk', P3 \ {hdr + 1}, K3 \cup {hdr + 1})
  BY <1>4, <1>11, <1>12, SetCovered
<1>14. PendOf(f) = {hdr + 2} /\ Back(f) = {hdr} /\ f.kind # "branch"
  BY DEF PendOf, Back, IsLoop
<1> HIDE DEF f
<1>15. P3 \ {hdr + 1} = OwedOf(stack) \cup U \cup PendOf(f)
  <2>1. P3 \ {hdr + 1} = P \cup {hdr + 2}
    BY <1>5 DEF P3, F
  <2> QED
    BY <1>14, <2>1 DEF P
<1>16. PendOf(f) \cap (OwedOf(stack) \cup Named(lbl)) = {}
  <2>1. OwedOf(stack) \subseteq P /\ Named(lbl) \subseteq K
    BY DEF P, K, Known
  <2> QED
    BY <1>5, <1>14, <2>1
<1>17. Shape(stack, lp_exit, lbl) /\ IsSeq(lp_exit)
  BY DEF LowInv, Shape
<1>18. IsSeq(lp_exit') /\ Range(lp_exit') \subseteq Range(lp_exit) \cup {hdr + 2}
  BY <1>4, <1>17, LoopExits
<1>19. Known(stack, lp_exit, lbl) \cup Back(f) \cup Range(lp_exit') \subseteq K3 \cup {hdr + 1}
  <2>1. K \cup {hdr, hdr + 2} \subseteq K3 /\ Range(lp_exit) \subseteq K
    BY DEF K3, F, K, Known
  <2> QED
    BY <1>14, <1>18, <2>1 DEF K
<1> QED
  BY <1>4, <1>13, <1>14, <1>15, <1>16, <1>17, <1>18, <1>19, Opened

LEMMA ForKeeps ==
  ASSUME LowInv, NEW v, For(v)
  PROVE  LowInv'
<1>1. PICK U \in SUBSET Named(lbl) :
        Covered(M, cur_blk, OwedOf(stack) \cup U, Known(stack, lp_exit, lbl))
  BY DEF LowInv
<1> DEFINE P == OwedOf(stack) \cup U
           K == Known(stack, lp_exit, lbl)
           m0 == Emit(M, cur_blk, Store(NewConst, Loc(v)))
           n == Len(m0.blks)
           hdr == Fresh
           F == {hdr, hdr + 1, hdr + 2, hdr + 3}
           f == [kind |-> "for", next |-> hdr, end |-> hdr + 3, var |-> v]
           m1 == NewBlks(m0, 4)
           m2 == Close(m1, cur_blk, hdr)
           m3 == SetBlk(m2, hdr)
           m4 == Emit(m3, hdr, BrCond(hdr + 1, hdr + 3))
           P3 == (P \cup F) \ {hdr}
           K3 == (K \cup F) \cup {hdr}
<1>2. Covered(m0, cur_blk, P, K)
  BY <1>1, EmitCovered, LeadsOf, NewConstIs, FitsOf
<1>3. hdr = n + 1
  <2>1. /\ Good(M, cur_blk, P) /\ Leads(Store(NewConst, Loc(v))) \subseteq Handled(M, cur_blk, P)
        /\ Fits(M, cur_blk, Store(NewConst, Loc(v)))
    BY <1>1, LeadsOf, NewConstIs, FitsOf DEF Covered
  <2> QED
    BY <2>1, EmitGood DEF Fresh
<1>4. /\ M' = SetBlk(m4, hdr + 1) /\ stack' = Append(stack, f)
      /\ cur_blk' = hdr + 1 /\ EnterLoop(hdr + 3) /\ UNCHANGED lbl
  BY DEF For, Enter
<1>5. n \in Nat /\ P \cup K \subseteq 1 .. n
  BY <1>2, FreshIsNew
<1> HIDE DEF n, hdr
<1>6. /\ F \in SUBSET (n + 1 .. n + 4)
      /\ hdr # hdr + 1 /\ hdr # hdr + 2 /\ hdr # hdr + 3
      /\ hdr + 1 # hdr + 2 /\ hdr + 1 # hdr + 3 /\ (hdr + 3) - 1 = hdr + 2
      /\ hdr \notin P \cup K /\ hdr + 1 \notin P \cup K
      /\ hdr + 2 \notin P \cup K /\ hdr + 3 \notin P \cup K
  BY <1>3, <1>5
<1> HIDE DEF P, K, m0
<1>7. Covered(m1, cur_blk, P \cup F, K \cup F)
  BY <1>2, <1>6, NewCovered DEF n
<1>8. hdr \in P \cup F /\ hdr \in (K \cup F) \cup (P \cup F)
  OBVIOUS
<1> HIDE DEF F, m1
<1>9. Covered(m2, cur_blk, P \cup F, K \cup F) /\ BlkTerm(m2, cur_blk)
  BY <1>7, <1>8, CloseCovered
<1> HIDE DEF m2
<1>10. Covered(m3, hdr, P3, K3)
  BY <1>8, <1>9, SetCovered
<1> HIDE DEF m3
<1>11. Leads(BrCond(hdr + 1, hdr + 3)) \subseteq K3 \cup P3
       /\ BrCond(hdr + 1, hdr + 3).op \in Terminators
  BY LeadsOf DEF F
<1>12. hdr + 1 \in P3
  BY <1>6 DEF F
<1> HIDE DEF P3, K3
<1>13. Covered(m4, hdr, P3, K3) /\ BlkTerm(m4, hdr)
  BY <1>6, <1>10, <1>11, EmitCovered, FitsOf
<1> HIDE DEF m4
<1>14. Covered(M', cur_blk', P3 \ {hdr + 1}, K3 \cup {hdr + 1})
  BY <1>4, <1>12, <1>13, SetCovered
<1>15. PendOf(f) = {(hdr + 3) - 1, hdr + 3} /\ Back(f) = {hdr} /\ f.kind # "branch"
  BY DEF PendOf, Back, IsLoop
<1> HIDE DEF f
<1>16. P3 \ {hdr + 1} = OwedOf(stack) \cup U \cup PendOf(f)
  <2>1. P3 \ {hdr + 1} = P \cup {hdr + 2, hdr + 3}
    BY <1>6 DEF P3, F
  <2> QED
    BY <1>6, <1>15, <2>1 DEF P
<1>17. PendOf(f) \cap (OwedOf(stack) \cup Named(lbl)) = {}
  <2>1. OwedOf(stack) \subseteq P /\ Named(lbl) \subseteq K
    BY DEF P, K, Known
  <2> QED
    BY <1>6, <1>15, <2>1
<1>18. Shape(stack, lp_exit, lbl) /\ IsSeq(lp_exit)
  BY DEF LowInv, Shape
<1>19. IsSeq(lp_exit') /\ Range(lp_exit') \subseteq Range(lp_exit) \cup {hdr + 3}
  BY <1>4, <1>18, LoopExits
<1>20. Known(stack, lp_exit, lbl) \cup Back(f) \cup Range(lp_exit') \subseteq K3 \cup {hdr + 1}
  <2>1. K \cup {hdr, hdr + 3} \subseteq K3 /\ Range(lp_exit) \subseteq K
    BY DEF K3, F, K, Known
  <2> QED
    BY <1>15, <1>19, <2>1 DEF K
<1> QED
  BY <1>4, <1>14, <1>15, <1>16, <1>17, <1>18, <1>19, <1>20, Opened

\* A branch of a CASE whose end block is owed on behalf of its frame.
LEMMA BranchKeeps ==
  ASSUME NEW st, Shape(st, lp_exit, lbl), NEW U \in SUBSET Named(lbl),
         NEW m, NEW end, end \notin OwedOf(st) \cup Named(lbl),
         NEW K, Known(st, lp_exit, lbl) \subseteq K,
         Covered(m, cur_blk, (OwedOf(st) \cup U) \cup {end}, K),
         Branch(m, end, st)
  PROVE  LowInv'
<1> DEFINE P == (OwedOf(st) \cup U) \cup {end}
           n == Len(m.blks)
           body == n + 1
           F == {body, body + 1}
           f == [kind |-> "branch", next |-> body + 1, end |-> end]
           m1 == NewBlks(m, 2)
           m2 == Emit(m1, cur_blk, BrCond(body, body + 1))
<1>1. n \in Nat /\ P \cup K \subseteq 1 .. n
  BY FreshIsNew
<1>2. /\ M' = SetBlk(m2, body) /\ stack' = Append(st, f)
      /\ cur_blk' = body /\ UNCHANGED <<lp_exit, lbl>>
  BY DEF Branch, Enter
<1> HIDE DEF n
<1>3. /\ F \in SUBSET (n + 1 .. n + 2) /\ body # body + 1
      /\ body \notin P \cup K /\ body + 1 \notin P \cup K
  BY <1>1
<1>4. Covered(m1, cur_blk, P \cup F, K \cup F)
  BY <1>3, NewCovered DEF n
<1> HIDE DEF m1, body
<1>5. /\ Leads(BrCond(body, body + 1)) \subseteq (K \cup F) \cup (P \cup F)
      /\ BrCond(body, body + 1).op \in Terminators
  BY LeadsOf
<1>6. Covered(m2, cur_blk, P \cup F, K \cup F) /\ BlkTerm(m2, cur_blk)
  BY <1>3, <1>4, <1>5, EmitCovered, FitsOf
<1>7. body \in P \cup F
  OBVIOUS
<1> HIDE DEF m2, F
<1>8. Covered(M', cur_blk', (P \cup F) \ {body}, (K \cup F) \cup {body})
  BY <1>2, <1>6, <1>7, SetCovered
<1>9. PendOf(f) = {body + 1, end} /\ Back(f) = {} /\ (f.kind = "branch" => f.next # f.end)
  <2>1. PendOf(f) = {body + 1, end} /\ Back(f) = {}
    BY DEF PendOf, Back, IsLoop
  <2>2. body + 1 # end
    BY <1>3
  <2> QED
    BY <2>1, <2>2
<1> HIDE DEF f
<1>10. (P \cup F) \ {body} = OwedOf(st) \cup U \cup PendOf(f)
  <2>1. (P \cup F) \ {body} = P \cup {body + 1}
    BY <1>3 DEF F
  <2> QED
    BY <1>9, <2>1
<1>11. PendOf(f) \cap (OwedOf(st) \cup Named(lbl)) = {}
  <2>1. Named(lbl) \subseteq K /\ OwedOf(st) \subseteq P
    BY DEF Known
  <2> QED
    BY <1>3, <1>9, <2>1
<1>12. Known(st, lp_exit, lbl) \cup Back(f) \cup Range(lp_exit') \subseteq (K \cup F) \cup {body}
  BY <1>2, <1>9 DEF Known
<1>13. IsSeq(lp_exit') /\ UNCHANGED lbl
  BY <1>2 DEF Shape
<1> DEFINE Q == (P \cup F) \ {body}
           L == (K \cup F) \cup {body}
<1>14. /\ Q = OwedOf(st) \cup U \cup PendOf(f)
       /\ Known(st, lp_exit, lbl) \cup Back(f) \cup Range(lp_exit') \subseteq L
       /\ Covered(M', cur_blk', Q, L)
  BY <1>8, <1>10, <1>12
<1>15. stack' = Append(st, f)
  BY <1>2
<1> HIDE DEF P, Q, L
<1> QED
  BY <1>9, <1>11, <1>13, <1>14, <1>15, Opened

LEMMA CaseKeeps ==
  ASSUME LowInv, Case
  PROVE  LowInv'
<1>1. PICK U \in SUBSET Named(lbl) :
        Covered(M, cur_blk, OwedOf(stack) \cup U, Known(stack, lp_exit, lbl))
  BY DEF LowInv
<1> DEFINE P == OwedOf(stack) \cup U
           K == Known(stack, lp_exit, lbl)
           n == Len(M.blks)
           m == NewBlks(M, 1)
<1>2. n \in Nat /\ P \cup K \subseteq 1 .. n /\ Fresh = n + 1
  BY <1>1, FreshIsNew DEF Fresh
<1> HIDE DEF n
<1>3. {Fresh} \in SUBSET (n + 1 .. n + 1) /\ Fresh \notin P \cup K
  BY <1>2
<1>4. Covered(m, cur_blk, P \cup {Fresh}, K \cup {Fresh})
  BY <1>1, <1>3, NewCovered DEF n
<1>5. Fresh \notin OwedOf(stack) \cup Named(lbl) /\ Shape(stack, lp_exit, lbl)
  BY <1>3 DEF LowInv, Known
<1>6. Branch(m, Fresh, stack)
  BY DEF Case
<1>7. /\ Known(stack, lp_exit, lbl) \subseteq K \cup {Fresh}
      /\ Covered(m, cur_blk, (OwedOf(stack) \cup U) \cup {Fresh}, K \cup {Fresh})
  BY <1>4
<1> HIDE DEF m, K
<1> QED
  BY <1>5, <1>6, <1>7, BranchKeeps

---------------------------------------------------------------------------
(* The ends of statements.                                                 *)

\* The frame on top of the stack owes its blocks, and what is left of the
\* invariant without it.
LEMMA TopFrame ==
  ASSUME LowInv, stack # <<>>
  PROVE  /\ Shape(Front(stack), lp_exit, lbl)
         /\ OwedOf(Front(stack)) = OwedOf(stack) \ PendOf(Top)
         /\ PendOf(Top) \subseteq OwedOf(stack)
         /\ PendOf(Top) \cap Named(lbl) = {}
         /\ Known(Front(stack), lp_exit, lbl) \cup Back(Top) \subseteq Known(stack, lp_exit, lbl)
         /\ Top.kind = "branch" => Top.next # Top.end
<1>1. Shape(stack, lp_exit, lbl)
  BY DEF LowInv
<1>2. /\ Stacked(Front(stack))
      /\ OwedOf(Front(stack)) = OwedOf(stack) \ PendOf(Top)
      /\ PendOf(Top) \subseteq OwedOf(stack)
      /\ Backs(Front(stack)) \cup Back(Top) \subseteq Backs(stack)
      /\ Top.kind = "branch" => Top.next # Top.end
  BY <1>1, PopFrame DEF Shape, Top
<1> QED
  BY <1>1, <1>2 DEF Shape, Known

\* The statement on top of the stack is left through block b.
LEMMA Closed ==
  ASSUME LowInv, stack # <<>>, NEW U \in SUBSET Named(lbl),
         stack' = Front(stack), UNCHANGED lbl,
         IsSeq(lp_exit'), Range(lp_exit') \subseteq Range(lp_exit),
         NEW K, Known(stack, lp_exit, lbl) \subseteq K,
         NEW P, P = (OwedOf(stack) \ PendOf(Top)) \cup U,
         Covered(M', cur_blk', P, K)
  PROVE  LowInv'
<1>1. Shape(stack', lp_exit', lbl') /\ P = OwedOf(stack') \cup U
  BY TopFrame DEF Shape
<1>2. Known(stack', lp_exit', lbl') \subseteq K
  BY TopFrame DEF Known
<1>3. Covered(M', cur_blk', OwedOf(stack') \cup U, Known(stack', lp_exit', lbl'))
  BY <1>1, <1>2, CoveredLess
<1> QED
  BY <1>1, <1>3 DEF LowInv

LEMMA NextBranchKeeps ==
  ASSUME LowInv, NextBranch
  PROVE  LowInv'
<1>1. PICK U \in SUBSET Named(lbl) :
        Covered(M, cur_blk, OwedOf(stack) \cup U, Known(stack, lp_exit, lbl))
  BY DEF LowInv
<1>2. stack # <<>> /\ Top.kind = "case" /\ Branch(M, Top.end, Front(stack))
  BY DEF NextBranch, Resume, Top
<1>3. PendOf(Top) = {Top.end}
  BY <1>2 DEF PendOf
<1>4. /\ Shape(Front(stack), lp_exit, lbl)
      /\ Top.end \notin OwedOf(Front(stack)) \cup Named(lbl)
      /\ (OwedOf(Front(stack)) \cup U) \cup {Top.end} = OwedOf(stack) \cup U
      /\ Known(Front(stack), lp_exit, lbl) \subseteq Known(stack, lp_exit, lbl)
  BY <1>2, <1>3, TopFrame
<1>5. Covered(M, cur_blk, (OwedOf(Front(stack)) \cup U) \cup {Top.end}, Known(stack, lp_exit, lbl))
  BY <1>1, <1>4
<1> QED
  BY <1>2, <1>4, <1>5, BranchKeeps

\* A block is closed and another one entered.
LEMMA CloseAndSet ==
  ASSUME NEW m, NEW c, NEW P, NEW K, Covered(m, c, P, K), NEW to \in K \cup P, NEW b \in P
  PROVE  Covered(SetBlk(Close(m, c, to), b), b, P \ {b}, K \cup {b})
<1> DEFINE n == Close(m, c, to)
<1>1. Covered(n, c, P, K) /\ BlkTerm(n, c)
  BY CloseCovered
<1> HIDE DEF n
<1>2. Covered(SetBlk(n, b), b, P \ {b}, K \cup {b})
  BY <1>1, SetCovered
<1> QED
  BY <1>2 DEF n

\* The frame on top gives way to another one of the same statement.
LEMMA Replaced ==
  ASSUME LowInv, stack # <<>>, NEW U \in SUBSET Named(lbl),
         NEW f, f.kind # "branch", PendOf(f) \subseteq PendOf(Top), Back(f) = {},
         stack' = Append(Front(stack), f), UNCHANGED <<lbl, lp_exit>>,
         NEW K, Known(stack, lp_exit, lbl) \subseteq K,
         NEW P, P = (OwedOf(stack) \ (PendOf(Top) \ PendOf(f))) \cup U,
         Covered(M', cur_blk', P, K)
  PROVE  LowInv'
<1> DEFINE st == Front(stack)
<1>1. /\ Shape(st, lp_exit, lbl)
      /\ PendOf(f) \cap (OwedOf(st) \cup Named(lbl)) = {}
      /\ P = OwedOf(st) \cup U \cup PendOf(f)
  BY TopFrame
<1>2. /\ Known(st, lp_exit, lbl) \cup Back(f) \cup Range(lp_exit') \subseteq K
      /\ IsSeq(lp_exit') /\ UNCHANGED lbl /\ stack' = Append(st, f)
  BY <1>1, TopFrame DEF Shape, Known
<1> HIDE DEF st
<1> QED
  BY <1>1, <1>2, Opened

LEMMA ThenKeeps ==
  ASSUME LowInv, ThenDone
  PROVE  LowInv'
<1>1. PICK U \in SUBSET Named(lbl) :
        Covered(M, cur_blk, OwedOf(stack) \cup U, Known(stack, lp_exit, lbl))
  BY DEF LowInv
<1> DEFINE P == OwedOf(stack) \cup U
           K == Known(stack, lp_exit, lbl)
           b == Top.els
           e == Top.end
<1>2. stack # <<>> /\ Top.kind = "then" /\ UNCHANGED <<lbl, lp_exit>>
  BY DEF ThenDone, Resume, Top
<1>3. PendOf(Top) = {b, e}
  BY <1>2 DEF PendOf
<1>4. b \in P /\ e \in P /\ PendOf(Top) \cap U = {}
  BY <1>2, <1>3, TopFrame
<1>5. Covered(SetBlk(Close(M, cur_blk, e), b), b, P \ {b}, K \cup {b})
  <2>1. Covered(M, cur_blk, P, K)
    BY <1>1
  <2> HIDE DEF P, K, b, e
  <2> QED
    BY <1>4, <2>1, CloseAndSet
<1>6. cur_blk' = b /\ M' = SetBlk(Close(M, cur_blk, e), b)
  BY DEF ThenDone, Leave, Enter
<1>7. Covered(M', cur_blk', P \ {b}, K \cup {b})
  BY <1>5, <1>6
<1>8. Known(stack, lp_exit, lbl) \subseteq K \cup {b}
  OBVIOUS
<1>9. IsSeq(lp_exit') /\ Range(lp_exit') \subseteq Range(lp_exit)
  BY <1>2 DEF LowInv, Shape
<1>10. CASE b = e
  <2>1. stack' = Front(stack)
    BY <1>10 DEF ThenDone, Leave
  <2>2. P \ {b} = (OwedOf(stack) \ PendOf(Top)) \cup U
    BY <1>3, <1>4, <1>10
  <2> HIDE DEF P, K, b
  <2> QED
    BY <1>2, <1>7, <1>8, <1>9, <2>1, <2>2, Closed
<1>11. CASE b # e
  <2> DEFINE f == [kind |-> "else", end |-> e]
  <2>1. stack' = Append(Front(stack), f)
    BY <1>11 DEF ThenDone
  <2>2. PendOf(f) = {e} /\ Back(f) = {} /\ f.kind # "branch"
    BY DEF PendOf, Back, IsLoop
  <2>3. P \ {b} = (OwedOf(stack) \ (PendOf(Top) \ PendOf(f))) \cup U
    BY <1>3, <1>4, <1>11, <2>2
  <2>4. PendOf(f) \subseteq PendOf(Top)
    BY <1>3, <2>2
  <2> HIDE DEF P, K, b, e, f
  <2> QED
    BY <1>2, <1>7, <1>8, <2>1, <2>2, <2>3, <2>4, Replaced
<1> QED
  BY <1>10, <1>11

LEMMA ElseCaseKeep ==
  ASSUME LowInv, ElseDone \/ CaseDone
  PROVE  LowInv'
<1>1. PICK U \in SUBSET Named(lbl) :
        Covered(M, cur_blk, OwedOf(stack) \cup U, Known(stack, lp_exit, lbl))
  BY DEF LowInv
<1> DEFINE P == OwedOf(stack) \cup U
           K == Known(stack, lp_exit, lbl)
           e == Top.end
<1>2. /\ stack # <<>> /\ Top.kind \in {"else", "case", "default"}
      /\ UNCHANGED <<lbl, lp_exit>> /\ stack' = Front(stack)
      /\ cur_blk' = e /\ M' = SetBlk(Close(M, cur_blk, e), e)
  BY DEF ElseDone, CaseDone, Resume, Leave, Enter, Top
<1>3. PendOf(Top) = {e}
  BY <1>2 DEF PendOf
<1>4. e \in P /\ PendOf(Top) \cap U = {}
  BY <1>2, <1>3, TopFrame
<1>5. Covered(M', cur_blk', P \ {e}, K \cup {e})
  <2>1. Covered(M, cur_blk, P, K)
    BY <1>1
  <2> HIDE DEF P, K, e
  <2> QED
    BY <1>2, <1>4, <2>1, CloseAndSet
<1>6. Known(stack, lp_exit, lbl) \subseteq K \cup {e}
  OBVIOUS
<1>7. IsSeq(lp_exit') /\ Range(lp_exit') \subseteq Range(lp_exit)
  BY <1>2 DEF LowInv, Shape
<1>8. P \ {e} = (OwedOf(stack) \ PendOf(Top)) \cup U
  BY <1>3, <1>4
<1> HIDE DEF P, K, e
<1> QED
  BY <1>2, <1>5, <1>6, <1>7, <1>8, Closed

LEMMA WhileDoneKeeps ==
  ASSUME LowInv, WhileDone
  PROVE  LowInv'
<1>1. PICK U \in SUBSET Named(lbl) :
        Covered(M, cur_blk, OwedOf(stack) \cup U, Known(stack, lp_exit, lbl))
  BY DEF LowInv
<1> DEFINE P == OwedOf(stack) \cup U
           K == Known(stack, lp_exit, lbl)
           e == Top.end
           h == Top.next
<1>2. /\ stack # <<>> /\ Top.kind = "while" /\ LeaveLoop
      /\ UNCHANGED lbl /\ stack' = Front(stack)
      /\ cur_blk' = e /\ M' = SetBlk(Close(M, cur_blk, h), e)
  BY DEF WhileDone, Resume, Leave, Enter, Top
<1>3. PendOf(Top) = {e} /\ Back(Top) = {h}
  BY <1>2 DEF PendOf, Back, IsLoop
<1>4. e \in P /\ PendOf(Top) \cap U = {} /\ h \in K
  BY <1>2, <1>3, TopFrame
<1>5. Covered(M', cur_blk', P \ {e}, K \cup {e})
  <2>1. Covered(M, cur_blk, P, K)
    BY <1>1
  <2> HIDE DEF P, K, e, h
  <2> QED
    BY <1>2, <1>4, <2>1, CloseAndSet
<1>6. Known(stack, lp_exit, lbl) \subseteq K \cup {e}
  OBVIOUS
<1>7. IsSeq(lp_exit') /\ Range(lp_exit') \subseteq Range(lp_exit)
  <2>1. IsSeq(lp_exit)
    BY DEF LowInv, Shape
  <2> QED
    BY <1>2, <2>1, LoopExits
<1>8. P \ {e} = (OwedOf(stack) \ PendOf(Top)) \cup U
  BY <1>3, <1>4
<1> HIDE DEF P, K, e, h
<1> QED
  BY <1>2, <1>5, <1>6, <1>7, <1>8, Closed

LEMMA ForDoneKeeps ==
  ASSUME LowInv, ForDone
  PROVE  LowInv'
<1>1. PICK U \in SUBSET Named(lbl) :
        Covered(M, cur_blk, OwedOf(stack) \cup U, Known(stack, lp_exit, lbl))
  BY DEF LowInv
<1> DEFINE P == OwedOf(stack) \cup U
           K == Known(stack, lp_exit, lbl)
           e == Top.end
           h == Top.next
           step == Top.end - 1
           m == SetBlk(Close(M, cur_blk, step), step)
           n == Len(m.insts)
           code == <<Load(Loc(Top.var)), Inst("add", <<n + 1, Cond>>),
                     Store(n + 2, Loc(Top.var)), Br(h)>>
<1>2. /\ stack # <<>> /\ Top.kind = "for" /\ LeaveLoop
      /\ UNCHANGED lbl /\ stack' = Front(stack)
      /\ cur_blk' = e /\ M' = SetBlk(EmitAll(m, step, code), e)
  BY DEF ForDone, Resume, Leave, Enter, Top
<1>3. PendOf(Top) = {step, e} /\ Back(Top) = {h}
  BY <1>2 DEF PendOf, Back, IsLoop
<1>4. e \in P /\ step \in P /\ PendOf(Top) \cap U = {} /\ h \in K
  BY <1>2, <1>3, TopFrame
<1>5. step # e
  <2>1. P \subseteq 1 .. Len(M.blks)
    BY <1>1, FreshIsNew
  <2>2. Top.end \in Nat
    BY <1>4, <2>1
  <2> QED
    BY <2>2
<1>6. /\ IsSeq(code) /\ code # <<>> /\ Last(code) = Br(h)
      /\ \A k \in DOMAIN code : Leads(code[k]) \subseteq {h}
      /\ FitAll(m, step, code)
  <2> DEFINE i1 == Load(Loc(Top.var))
             i2 == Inst("add", <<n + 1, Cond>>)
             i3 == Store(n + 2, Loc(Top.var))
             i4 == Br(h)
  <2>1. Leads(i1) = {} /\ Leads(i2) = {} /\ Leads(i3) = {} /\ Leads(i4) = {h}
    BY LeadsOf
  <2>7. /\ Fits(m, step, i1) /\ Fits(m, step, i4) /\ Made(i2) /\ Made(i3)
        /\ i1.op \in ValueOps /\ i2.op \in ValueOps
        /\ i2.ops[1] = n + 1 /\ i3.ops[1] = n + 2
    <3>1. Fits(m, step, i1) /\ Fits(m, step, i4) /\ i1.op \in ValueOps
      BY FitsOf
    <3>2. /\ i2.op = "add" /\ i2.ops = <<n + 1, Cond>> /\ i2 = Inst(i2.op, i2.ops)
          /\ i3.op = "store" /\ i3.ops = <<n + 2, Loc(Top.var)>> /\ i3 = Inst(i3.op, i3.ops)
      BY DEF Store, Inst
    <3>3. ASSUME NEW x, NEW y PROVE IsSeq(<<x, y>>) /\ <<x, y>>[1] = x
      <4>1. <<x, y>> \in Seq({x, y}) /\ <<x, y>>[1] = x
        OBVIOUS
      <4> QED
        BY <4>1, SeqIsSeq
    <3> HIDE DEF i1, i2, i3, i4, n
    <3> QED
      BY <3>1, <3>2, <3>3 DEF Made, LowOps, ValueOps
  <2> HIDE DEF i1, i2, i3, i4
  <2>2. /\ code \in Seq({i1, i2, i3, i4}) /\ Len(code) = 4 /\ DOMAIN code = 1 .. 4
        /\ code[1] = i1 /\ code[2] = i2 /\ code[3] = i3 /\ code[4] = i4
    BY DEF i1, i2, i3, i4
  <2> HIDE DEF code
  <2>3. IsSeq(code) /\ code # <<>>
    BY <2>2, SeqIsSeq, DomainOfSeq
  <2>4. Last(code) = Br(h)
    BY <2>2 DEF Last, i4
  <2>5. \A k \in 1 .. 4 : k = 1 \/ k = 2 \/ k = 3 \/ k = 4
    OBVIOUS
  <2>6. \A k \in DOMAIN code : Leads(code[k]) \subseteq {h}
    BY <2>1, <2>2, <2>5
  <2>8. FitAll(m, step, code)
    <3>1. Len(m.insts) = n /\ 1 \in 1 .. 2 - 1 /\ 2 \in 1 .. 3 - 1
      OBVIOUS
    <3> HIDE DEF m, n, step
    <3>2. \E j \in 1 .. 2 - 1 : code[2].ops[1] = Len(m.insts) + j /\ code[j].op \in ValueOps
      BY <2>2, <2>7, <3>1
    <3>3. \E j \in 1 .. 3 - 1 : code[3].ops[1] = Len(m.insts) + j /\ code[j].op \in ValueOps
      BY <2>2, <2>7, <3>1
    <3> QED
      BY <2>2, <2>5, <2>7, <3>2, <3>3 DEF FitAll
  <2> QED
    BY <2>3, <2>4, <2>6, <2>8
<1> HIDE DEF P, K, e, h, step, n
<1>7. Covered(m, step, P \ {step}, K \cup {step})
  BY <1>1, <1>4, CloseAndSet DEF P, K
<1> HIDE DEF m, code
<1>8. Covered(EmitAll(m, step, code), step, P \ {step}, K \cup {step})
      /\ BlkTerm(EmitAll(m, step, code), step)
  <2>1. \A k \in DOMAIN code : Leads(code[k]) \subseteq (K \cup {step}) \cup (P \ {step})
    BY <1>4, <1>6
  <2>2. Last(code).op \in Terminators
    BY <1>6, LeadsOf
  <2> QED
    BY <1>6, <1>7, <2>1, <2>2, EmitAllCovered
<1>9. e \in P \ {step}
  BY <1>4, <1>5
<1>10. Covered(M', cur_blk', (P \ {step}) \ {e}, (K \cup {step}) \cup {e})
  BY <1>2, <1>8, <1>9, SetCovered
<1>11. Known(stack, lp_exit, lbl) \subseteq (K \cup {step}) \cup {e}
  BY DEF K
<1>12. IsSeq(lp_exit') /\ Range(lp_exit') \subseteq Range(lp_exit)
  <2>1. IsSeq(lp_exit)
    BY DEF LowInv, Shape
  <2> QED
    BY <1>2, <2>1, LoopExits
<1>13. (P \ {step}) \ {e} = (OwedOf(stack) \ PendOf(Top)) \cup U
  BY <1>3, <1>4 DEF P
<1> QED
  BY <1>2, <1>10, <1>11, <1>12, <1>13, Closed

LEMMA BranchDoneKeeps ==
  ASSUME LowInv, BranchDone
  PROVE  LowInv'
<1>1. PICK U \in SUBSET Named(lbl) :
        Covered(M, cur_blk, OwedOf(stack) \cup U, Known(stack, lp_exit, lbl))
  BY DEF LowInv
<1> DEFINE P == OwedOf(stack) \cup U
           K == Known(stack, lp_exit, lbl)
           b == Top.next
           e == Top.end
           f == [kind |-> "case", end |-> e]
<1>2. /\ stack # <<>> /\ Top.kind = "branch" /\ UNCHANGED <<lbl, lp_exit>>
      /\ stack' = Append(Front(stack), f)
      /\ cur_blk' = b /\ M' = SetBlk(Close(M, cur_blk, e), b)
  BY DEF BranchDone, Resume, Enter, Top
<1>3. PendOf(Top) = {b, e} /\ PendOf(f) = {e} /\ Back(f) = {} /\ f.kind # "branch"
  BY <1>2 DEF PendOf, Back, IsLoop
<1>4. b \in P /\ e \in P /\ PendOf(Top) \cap U = {} /\ b # e
  BY <1>2, <1>3, TopFrame
<1>5. Covered(M', cur_blk', P \ {b}, K \cup {b})
  <2>1. Covered(M, cur_blk, P, K)
    BY <1>1
  <2> HIDE DEF P, K, b, e
  <2> QED
    BY <1>2, <1>4, <2>1, CloseAndSet
<1>6. Known(stack, lp_exit, lbl) \subseteq K \cup {b}
  OBVIOUS
<1>7. P \ {b} = (OwedOf(stack) \ (PendOf(Top) \ PendOf(f))) \cup U
  BY <1>3, <1>4
<1>8. PendOf(f) \subseteq PendOf(Top)
  BY <1>3
<1> HIDE DEF P, K, b, e, f
<1> QED
  BY <1>2, <1>3, <1>5, <1>6, <1>7, <1>8, Replaced

LEMMA DefaultKeeps ==
  ASSUME LowInv, Default
  PROVE  LowInv'
<1>1. PICK U \in SUBSET Named(lbl) :
        Covered(M, cur_blk, OwedOf(stack) \cup U, Known(stack, lp_exit, lbl))
  BY DEF LowInv
<1> DEFINE P == OwedOf(stack) \cup U
           K == Known(stack, lp_exit, lbl)
           f == [kind |-> "default", end |-> Top.end]
<1>2. /\ stack # <<>> /\ Top.kind = "case" /\ UNCHANGED <<lbl, lp_exit, M, cur_blk>>
      /\ stack' = Append(Front(stack), f)
  BY DEF Default, Resume, Top
<1>3. PendOf(Top) = {Top.end} /\ PendOf(f) = {Top.end} /\ Back(f) = {} /\ f.kind # "branch"
  BY <1>2 DEF PendOf, Back, IsLoop
<1>4. Covered(M', cur_blk', P, K)
  BY <1>1, <1>2
<1>5. P = (OwedOf(stack) \ (PendOf(Top) \ PendOf(f))) \cup U
  BY <1>3
<1>6. Known(stack, lp_exit, lbl) \subseteq K /\ PendOf(f) \subseteq PendOf(Top)
  BY <1>3
<1> HIDE DEF P, K, f
<1> QED
  BY <1>2, <1>3, <1>4, <1>5, <1>6, Replaced

---------------------------------------------------------------------------
(* GOTO, labels, and the two ends of low_func.                             *)

\* map_lbl: the block of label l exists and is known, and is to be entered
\* unless the label has been placed.
LEMMA MappedCovered ==
  ASSUME LowInv, NEW l \in Labels
  PROVE  \E U \in SUBSET (Named(lbl) \cup {Target(l)}) :
           /\ Covered(Mapped(l), cur_blk, OwedOf(stack) \cup U,
                      Known(stack, lp_exit, lbl) \cup {Target(l)})
           /\ Target(l) \in Nat \ {0} /\ Target(l) \notin OwedOf(stack)
           /\ ~ Placed(l) => Target(l) \in U
<1>1. PICK U \in SUBSET Named(lbl) :
        Covered(M, cur_blk, OwedOf(stack) \cup U, Known(stack, lp_exit, lbl))
  BY DEF LowInv
<1> DEFINE P == OwedOf(stack) \cup U
           K == Known(stack, lp_exit, lbl)
           n == Len(M.blks)
<1>2. n \in Nat /\ P \cup K \subseteq 1 .. n
  BY <1>1, FreshIsNew
<1>3. CASE lbl[l] = 0
  <2> DEFINE V == U \cup {Fresh}
  <2>1. Fresh = n + 1
    BY DEF Fresh
  <2>2. Mapped(l) = NewBlks(M, 1) /\ Target(l) = Fresh
    BY <1>3 DEF Mapped, Target
  <2> HIDE DEF n
  <2>3. /\ {Fresh} \in SUBSET (n + 1 .. n + 1) /\ Fresh \notin P \cup K /\ Fresh \in Nat \ {0}
        /\ 1 \in Nat
    BY <1>2, <2>1
  <2>4. Covered(NewBlks(M, 1), cur_blk, P \cup {Fresh}, K \cup {Fresh})
    BY <1>1, <2>3, NewCovered DEF n
  <2>5. P \cup {Fresh} = OwedOf(stack) \cup V
    OBVIOUS
  <2>6. /\ Covered(Mapped(l), cur_blk, OwedOf(stack) \cup V, K \cup {Target(l)})
        /\ V \in SUBSET (Named(lbl) \cup {Target(l)}) /\ Target(l) \in V
        /\ Target(l) \notin OwedOf(stack) /\ Target(l) \in Nat \ {0}
    BY <2>2, <2>3, <2>4, <2>5
  <2> HIDE DEF V
  <2> QED
    BY <2>6
<1>4. CASE lbl[l] # 0
  <2>1. Mapped(l) = M /\ Target(l) = lbl[l]
    BY <1>4 DEF Mapped, Target
  <2>2. Target(l) \in Named(lbl) /\ lbl[l] \in Nat \ {0}
    BY <1>4, <2>1 DEF Named, LowInv, Shape
  <2>3. Target(l) \in K /\ Target(l) \notin OwedOf(stack)
    BY <2>2 DEF Known, LowInv, Shape
  <2>4. Covered(Mapped(l), cur_blk, P, K \cup {Target(l)})
    <3>1. K \cup {Target(l)} = K
      BY <2>3
    <3> QED
      BY <1>1, <2>1, <3>1
  <2>5. ASSUME ~ Placed(l) PROVE Target(l) \in U
    <3>1. Target(l) # cur_blk /\ ~ (M.blks[Target(l)].n_inst > 0)
      BY <1>4, <2>1, <2>5 DEF Placed
    <3>2. Target(l) \in Handled(M, cur_blk, P)
      BY <1>1, <2>3 DEF Covered
    <3>3. Target(l) \in P
      BY <3>1, <3>2 DEF Handled, BlkTerm
    <3> QED
      BY <2>3, <3>3
  <2> QED
    BY <2>1, <2>2, <2>3, <2>4, <2>5
<1> QED
  BY <1>3, <1>4

\* What map_lbl does to the labels' blocks.
LEMMA LabelNamed ==
  ASSUME LowInv, NEW l \in Labels, Target(l) \in Nat \ {0}, Target(l) \notin OwedOf(stack),
         lbl' = [lbl EXCEPT ![l] = Target(l)], UNCHANGED <<lp_exit, stack>>
  PROVE  /\ Shape(stack', lp_exit', lbl')
         /\ Named(lbl') = Named(lbl) \cup {Target(l)}
         /\ Known(stack', lp_exit', lbl') = Known(stack, lp_exit, lbl) \cup {Target(l)}
<1>1. Shape(stack, lp_exit, lbl) /\ lbl \in [Labels -> Nat]
  BY DEF LowInv, Shape
<1>2. lbl' \in [Labels -> Nat]
  BY <1>1
<1>3. lbl[l] = 0 \/ lbl[l] = Target(l)
  BY DEF Target
<1>4. lbl'[l] = Target(l) /\ \A k \in Labels : k # l => lbl'[k] = lbl[k]
  BY <1>1
<1>5. Named(lbl') = Named(lbl) \cup {Target(l)}
  BY <1>1, <1>3, <1>4 DEF Named
<1> QED
  BY <1>1, <1>2, <1>5 DEF Shape, Known

LEMMA GotoKeeps ==
  ASSUME LowInv, NEW l \in Labels, Goto(l)
  PROVE  LowInv'
<1>1. PICK U \in SUBSET (Named(lbl) \cup {Target(l)}) :
        /\ Covered(Mapped(l), cur_blk, OwedOf(stack) \cup U,
                   Known(stack, lp_exit, lbl) \cup {Target(l)})
        /\ Target(l) \in Nat \ {0} /\ Target(l) \notin OwedOf(stack)
  BY MappedCovered
<1>2. /\ M' = Emit(Mapped(l), cur_blk, Br(Target(l)))
      /\ lbl' = [lbl EXCEPT ![l] = Target(l)] /\ UNCHANGED <<cur_blk, lp_exit, stack>>
  BY DEF Goto
<1>3. /\ Shape(stack', lp_exit', lbl')
      /\ Named(lbl') = Named(lbl) \cup {Target(l)}
      /\ Known(stack', lp_exit', lbl') = Known(stack, lp_exit, lbl) \cup {Target(l)}
  BY <1>1, <1>2, LabelNamed
<1> DEFINE P == OwedOf(stack) \cup U
           K == Known(stack, lp_exit, lbl) \cup {Target(l)}
           m == Mapped(l)
           t == Target(l)
<1>4. Covered(m, cur_blk, P, K) /\ Leads(Br(t)) \subseteq K \cup P
  BY <1>1, LeadsOf
<1> HIDE DEF P, K, m, t
<1>5. Covered(Emit(m, cur_blk, Br(t)), cur_blk, P, K)
  BY <1>4, EmitCovered, FitsOf
<1>6. Covered(M', cur_blk', OwedOf(stack') \cup U, Known(stack', lp_exit', lbl'))
  BY <1>2, <1>3, <1>5 DEF P, K, m, t
<1> QED
  BY <1>3, <1>6 DEF LowInv

LEMMA LabelKeeps ==
  ASSUME LowInv, NEW l \in Labels, Label(l)
  PROVE  LowInv'
<1>1. ~ Placed(l)
  BY DEF Label
<1>2. PICK U \in SUBSET (Named(lbl) \cup {Target(l)}) :
        /\ Covered(Mapped(l), cur_blk, OwedOf(stack) \cup U,
                   Known(stack, lp_exit, lbl) \cup {Target(l)})
        /\ Target(l) \in Nat \ {0} /\ Target(l) \notin OwedOf(stack)
        /\ Target(l) \in U
  BY <1>1, MappedCovered
<1>3. /\ M' = SetBlk(Close(Mapped(l), cur_blk, Target(l)), Target(l))
      /\ lbl' = [lbl EXCEPT ![l] = Target(l)] /\ cur_blk' = Target(l)
      /\ UNCHANGED <<lp_exit, stack>>
  BY DEF Label, Enter
<1>4. /\ Shape(stack', lp_exit', lbl')
      /\ Named(lbl') = Named(lbl) \cup {Target(l)}
      /\ Known(stack', lp_exit', lbl') = Known(stack, lp_exit, lbl) \cup {Target(l)}
  BY <1>2, <1>3, LabelNamed
<1> DEFINE P == OwedOf(stack) \cup U
           K == Known(stack, lp_exit, lbl) \cup {Target(l)}
           m == Mapped(l)
           t == Target(l)
           V == U \ {t}
<1>5. Covered(m, cur_blk, P, K) /\ t \in P /\ t \in K \cup P /\ K \cup {t} = K
  BY <1>2
<1>6. P \ {t} = OwedOf(stack) \cup V
  BY <1>2
<1> HIDE DEF P, K, m, t, V
<1>7. Covered(SetBlk(Close(m, cur_blk, t), t), t, P \ {t}, K)
  <2>1. Covered(SetBlk(Close(m, cur_blk, t), t), t, P \ {t}, K \cup {t})
    BY <1>5, CloseAndSet
  <2> QED
    BY <1>5, <2>1
<1>8. Covered(M', cur_blk', OwedOf(stack') \cup V, Known(stack', lp_exit', lbl'))
  BY <1>3, <1>4, <1>6, <1>7 DEF K, m, t
<1>9. V \in SUBSET Named(lbl')
  BY <1>2, <1>4 DEF V
<1> QED
  BY <1>4, <1>8, <1>9 DEF LowInv

\* A declaration that is no alloca follows that of a local with a value.
LEMMA DeclOf ==
  ASSUME NEW k \in 1 .. NVars + Cardinality(Preset), ~ \E v \in 1 .. NVars : Loc(v) = k
  PROVE  \E w \in Preset : Loc(w) = k - 1
<1> DEFINE Below(v) == {w \in Preset : w < v}
           Is(j) == (\E v \in 1 .. NVars : Loc(v) = j) \/ (\E w \in Preset : Loc(w) = j - 1)
           T == {v \in Nat : v <= NVars => \A j \in 1 .. Loc(v + 1) - 1 : Is(j)}
<1>1. IsFiniteSet(Preset) /\ NVars \in Nat /\ \A w \in Preset : w \in 1 .. NVars
  <2>1. NVars \in Nat /\ Preset \subseteq 1 .. NVars
    BY LoweringAssumption
  <2>2. IsFiniteSet(1 .. NVars)
    BY <2>1, FS_Interval
  <2> QED
    BY <2>1, <2>2, FS_Subset
<1>2. \A v : IsFiniteSet(Below(v)) /\ Cardinality(Below(v)) \in Nat
  BY <1>1, FS_Subset, FS_CardinalityType
<1>3. \A v : Loc(v) = v + Cardinality(Below(v))
  BY DEF Loc
<1> HIDE DEF Below
<1>4. 0 \in T
  <2>1. Below(1) = {}
    BY <1>1 DEF Below
  <2>2. Loc(1) = 1
    BY <1>3, <2>1, FS_EmptySet
  <2> QED
    BY <2>2
<1>5. ASSUME NEW v \in Nat, v \in T PROVE v + 1 \in T
  <2> SUFFICES ASSUME v + 1 <= NVars, NEW j \in 1 .. Loc((v + 1) + 1) - 1 PROVE Is(j)
    <3> HIDE DEF Is
    <3> QED
      OBVIOUS
  <2> DEFINE u == v + 1
  <2>1. v <= NVars /\ u \in 1 .. NVars
    BY <1>1
  <2>2. Loc(u) \in Nat
    BY <1>2, <1>3
  <2>3. CASE j < Loc(u)
    BY <1>5, <2>1, <2>2, <2>3
  <2>4. CASE j = Loc(u)
    BY <2>1, <2>4
  <2>5. CASE j > Loc(u)
    <3>1. Below(u + 1) = Below(u) \cup (IF u \in Preset THEN {u} ELSE {}) /\ u \notin Below(u)
      BY <1>1, <2>1 DEF Below
    <3>2. u \notin Preset => Loc(u + 1) = Loc(u) + 1
      BY <1>2, <1>3, <3>1
    <3>3. u \in Preset => Loc(u + 1) = Loc(u) + 2
      <4> SUFFICES ASSUME u \in Preset PROVE Loc(u + 1) = Loc(u) + 2
        OBVIOUS
      <4>1. Cardinality(Below(u) \cup {u}) = Cardinality(Below(u)) + 1
        BY <1>2, <3>1, FS_AddElement
      <4>2. Cardinality(Below(u + 1)) = Cardinality(Below(u)) + 1
        BY <3>1, <4>1
      <4> QED
        BY <1>2, <1>3, <4>2
    <3> HIDE DEF u
    <3>4. u \in Preset /\ j - 1 = Loc(u)
      BY <2>2, <2>5, <3>2, <3>3 DEF u
    <3> QED
      BY <3>4
  <2> QED
    BY <2>2, <2>3, <2>4, <2>5
<1>6. NVars \in T
  <2> HIDE DEF T
  <2> QED
    BY <1>1, <1>4, <1>5, Induction
<1>7. Loc(NVars + 1) = NVars + 1 + Cardinality(Preset)
  <2>1. Below(NVars + 1) = Preset
    BY <1>1 DEF Below
  <2> QED
    BY <1>3, <2>1
<1>8. k \in 1 .. Loc(NVars + 1) - 1
  <2>1. Cardinality(Preset) \in Nat
    BY <1>1, FS_CardinalityType
  <2> QED
    BY <1>1, <1>7, <2>1
<1> QED
  BY <1>1, <1>6, <1>8

\* low_func begins with the declarations in the entry block.
LEMMA InitLow ==
  ASSUME LowInit
  PROVE  LowInv /\ ~ lowered
<1> DEFINE n == NVars + Cardinality(Preset)
           blk == [first |-> 1, n_inst |-> Len(Decls)]
<1>1. n \in Nat
  <2>1. IsFiniteSet(1 .. NVars) /\ Preset \subseteq 1 .. NVars /\ NVars \in Nat
    BY LoweringAssumption, FS_Interval
  <2>2. Cardinality(Preset) \in Nat
    BY <2>1, FS_Subset, FS_CardinalityType
  <2> QED
    BY <2>1, <2>2
<1> HIDE DEF n
<1>2. /\ M = [insts |-> Decls, blks |-> <<blk>>] /\ cur_blk = 1 /\ lp_exit = <<>>
      /\ lbl = [l \in Labels |-> 0] /\ stack = <<>> /\ lowered = FALSE
  BY DEF LowInit
<1>3. Decls = [k \in 1 .. n |-> low_decl(k)]
  BY DEF Decls, n
<1>4. IsSeq(Decls) /\ Len(Decls) = n /\ DOMAIN Decls = 1 .. n
  <2> DEFINE d == Decls
  <2>1. d = [k \in 1 .. n |-> d[k]]
    BY <1>3
  <2> HIDE DEF d
  <2>2. IsSeq(d) /\ Len(d) = n /\ DOMAIN d = 1 .. n
    BY <1>1, <2>1, FunctionIsSeq
  <2> QED
    BY <2>2 DEF d
<1>5. M.insts = Decls /\ M.blks = <<blk>>
  BY <1>2
<1>6. blk \in Blk /\ blk.first = 1 /\ blk.n_inst = n
  BY <1>1, <1>4 DEF Blk
<1> HIDE DEF blk
<1>7. M.blks \in Seq(Blk) /\ DOMAIN M.blks = {1} /\ M.blks[1] = blk
  BY <1>5, <1>6
<1>8. IsModule(M)
  BY <1>4, <1>5, <1>7 DEF IsModule
<1>9. Len(M.insts) = n
  BY <1>4, <1>5
<1>10. Within(M) /\ AtEnd(M, 1)
  BY <1>1, <1>6, <1>7, <1>9 DEF Within, AtEnd
<1>11. Jumps(M) = {}
  <2>1. ASSUME NEW k \in DOMAIN Decls PROVE Leads(Decls[k]) = {}
    <3>1. Decls[k] = low_decl(k)
      BY <1>3, <1>4
    <3>2. Leads(Inst("alloca", <<>>)) = {}
      BY DEF Leads, Targets, Inst, Range
    <3> QED
      BY <3>1, <3>2, LeadsOf DEF low_decl
  <2> QED
    BY <1>5, <2>1 DEF Jumps
<1>16. \A k \in 1 .. n : Fits(M, 1, M.insts[k]) /\ (TakesValue(M.insts[k]) => Constant(M.insts[k].ops[1]))
  <2> SUFFICES ASSUME NEW k \in 1 .. n
               PROVE  Fits(M, 1, M.insts[k]) /\ (TakesValue(M.insts[k]) => Constant(M.insts[k].ops[1]))
    OBVIOUS
  <2>1. M.insts[k] = low_decl(k)
    BY <1>3, <1>5
  <2>2. CASE \E v \in 1 .. NVars : Loc(v) = k
    <3>1. M.insts[k] = Inst("alloca", <<>>)
      BY <2>1, <2>2 DEF low_decl
    <3>2. ~ TakesValue(Inst("alloca", <<>>))
      BY DEF TakesValue, Inst
    <3> QED
      BY <3>1, <3>2, FitsOf
  <2>3. CASE ~ \E v \in 1 .. NVars : Loc(v) = k
    <3> DEFINE v == CHOOSE w \in Preset : Loc(w) = k - 1
    <3>1. M.insts[k] = Store(MkConst(v + 1), k - 1)
      BY <2>1, <2>3 DEF low_decl
    <3>2. v \in Nat
      <4>1. \E w \in Preset : Loc(w) = k - 1
        BY <2>3, DeclOf DEF n
      <4>2. v \in Preset
        BY <4>1
      <4>3. Preset \subseteq 1 .. NVars
        BY LoweringAssumption
      <4> HIDE DEF v
      <4> QED
        BY <4>2, <4>3
    <3>3. Constant(MkConst(v + 1))
      <4> HIDE DEF v
      <4> QED
        BY <3>2 DEF MkConst, IsConst, Constant
    <3> HIDE DEF v
    <3>4. Store(MkConst(v + 1), k - 1).ops[1] = MkConst(v + 1)
      BY DEF Store, Inst
    <3> QED
      BY <3>1, <3>3, <3>4, FitsOf
  <2> QED
    BY <2>2, <2>3
<1>17. Shaped(M)
  <2>1. \A k \in DOMAIN M.insts : Made(M.insts[k])
    BY <1>4, <1>5, <1>16 DEF Fits
  <2>2. Home(M, 1) = 1 .. n
    BY <1>1, <1>6, <1>7 DEF Home
  <2>3. \A k \in Home(M, 1) : Fed(M, 1, k)
    BY <1>16, <2>2 DEF Fed
  <2> QED
    BY <1>7, <2>1, <2>3 DEF Shaped
<1>12. Covered(M, 1, {}, {1})
  BY <1>7, <1>8, <1>10, <1>11, <1>17 DEF Covered, Good, Handled
<1>13. Shape(stack, lp_exit, lbl) /\ OwedOf(stack) = {} /\ Backs(stack) = {}
  <2>1. IsSeq(<<>>) /\ DOMAIN <<>> = {}
    BY EmptyIsSeq, DomainOfSeq
  <2> QED
    BY <1>2, <2>1 DEF Shape, Stacked, OwedOf, Backs
<1>14. Named(lbl) = {} /\ Range(lp_exit) = {}
  BY <1>2 DEF Named, Range
<1>15. Covered(M, cur_blk, OwedOf(stack) \cup {}, Known(stack, lp_exit, lbl))
  BY <1>2, <1>12, <1>13, <1>14 DEF Known
<1> QED
  BY <1>2, <1>13, <1>15 DEF LowInv

\* low_func is done: nothing is left to enter, so every block led to is closed.
Final(m) == \E c : Good(m, c, {}) /\ BlkTerm(m, c) /\ 1 \in Handled(m, c, {})

LEMMA FinishCloses ==
  ASSUME LowInv, Finish
  PROVE  Final(M') /\ lowered'
<1>1. PICK U \in SUBSET Named(lbl) :
        Covered(M, cur_blk, OwedOf(stack) \cup U, Known(stack, lp_exit, lbl))
  BY DEF LowInv
<1>2. /\ stack = <<>> /\ lowered'
      /\ \A l \in Labels : lbl[l] # 0 => Placed(l)
      /\ M' = IF BlkTerm(M, cur_blk) THEN M ELSE Emit(M, cur_blk, Inst("ret", <<>>))
  BY DEF Finish
<1>3. OwedOf(stack) = {}
  <2>1. DOMAIN <<>> = {}
    BY EmptyIsSeq, DomainOfSeq
  <2> QED
    BY <1>2, <2>1 DEF OwedOf
<1>4. Good(M, cur_blk, U)
  BY <1>1, <1>3 DEF Covered
<1>5. U = {}
  <2> SUFFICES ASSUME NEW b \in U PROVE FALSE
    OBVIOUS
  <2>1. PICK l \in Labels : b = lbl[l] /\ lbl[l] # 0
    BY DEF Named
  <2>2. b = cur_blk \/ M.blks[b].n_inst > 0
    BY <1>2, <2>1 DEF Placed
  <2>3. b # cur_blk /\ M.blks[b].n_inst = 0
    BY <1>4 DEF Good
  <2> QED
    BY <2>2, <2>3
<1>6. Covered(M, cur_blk, {}, {1})
  BY <1>1, <1>3, <1>5 DEF Covered, Known
<1>7. Covered(M', cur_blk, {}, {1}) /\ BlkTerm(M', cur_blk)
  <2>1. CASE BlkTerm(M, cur_blk)
    BY <1>2, <1>6, <2>1
  <2>2. CASE ~ BlkTerm(M, cur_blk)
    <3>1. Leads(Inst("ret", <<>>)) \subseteq {1} \cup {} /\ Inst("ret", <<>>).op \in Terminators
      BY LeadsOf
    <3> DEFINE m == Emit(M, cur_blk, Inst("ret", <<>>))
    <3>2. Covered(m, cur_blk, {}, {1}) /\ BlkTerm(m, cur_blk)
      BY <1>6, <3>1, EmitCovered, FitsOf
    <3> HIDE DEF m
    <3> QED
      BY <1>2, <2>2, <3>2 DEF m
  <2> QED
    BY <2>1, <2>2
<1> QED
  BY <1>2, <1>7 DEF Covered, Final

\* Every step of low_func but the last keeps the invariant.
LEMMA LowStep ==
  ASSUME LowInv, low_func, ~ lowered
  PROVE  IF lowered' THEN Final(M') ELSE LowInv'
<1>1. CASE Finish
  BY <1>1, FinishCloses
<1>2. CASE ~ Finish
  <2>1. ~ lowered'
    BY <1>2 DEF low_func, Assign, Return, For, Copy, If, While, Case, Exit, Goto, Label,
      ThenDone, ElseDone, WhileDone, ForDone, BranchDone, NextBranch, Default, CaseDone,
      Statement, Resume
  <2>2. LowInv'
    BY <1>2, StraightStatements, ForKeeps, IfKeeps, WhileKeeps, CaseKeeps, GotoKeeps,
      LabelKeeps, ThenKeeps, ElseCaseKeep, WhileDoneKeeps, ForDoneKeeps, BranchDoneKeeps,
      NextBranchKeeps, DefaultKeeps DEF low_func
  <2> QED
    BY <2>1, <2>2
<1> QED
  BY <1>1, <1>2

---------------------------------------------------------------------------
(* The specification.                                                      *)

ClosedInv ==
  IF lowered THEN stage = "cfg" => Final(M) ELSE stage = "cfg" /\ LowInv

LEMMA ClosedInvKept ==
  ASSUME ClosedInv, [Next]_vars
  PROVE  ClosedInv'
<1>1. CASE low_func /\ UNCHANGED <<m2rVars, runVars>>
  <2>1. ~ lowered
    BY <1>1 DEF low_func, Assign, Return, For, Copy, If, While, Case, Exit, Goto, Label,
      ThenDone, ElseDone, WhileDone, ForDone, BranchDone, NextBranch, Default, CaseDone,
      Finish, Statement, Resume
  <2>2. LowInv /\ stage = "cfg" /\ stage' = stage
    BY <1>1, <2>1 DEF ClosedInv, m2rVars
  <2>3. IF lowered' THEN Final(M') ELSE LowInv'
    BY <1>1, <2>1, <2>2, LowStep
  <2> QED
    BY <2>2, <2>3 DEF ClosedInv
<1>2. CASE jir_m2r
  <2>1. lowered /\ lowered' /\ stage' # "cfg"
    <3>1. ASSUME NEW s, NEW t, Pass(s, t) PROVE lowered /\ lowered' /\ stage' = t
      BY <3>1 DEF Pass, lowVars
    <3>2. CASE mk_cfg
      BY <3>1, <3>2 DEF mk_cfg
    <3>3. CASE fnd_prm
      <4>1. PICK t \in {"done", "rpo"} : Pass("prm", t)
        <5>1. \E found : Pass("prm", IF found = <<>> THEN "done" ELSE "rpo")
          BY <3>3 DEF fnd_prm
        <5> QED
          BY <5>1
      <4> QED
        BY <4>1 DEF Pass, lowVars
    <3>4. CASE mk_rpo
      BY <3>1, <3>4 DEF mk_rpo
    <3>5. CASE cmp_dom
      <4>1. Pass("dom", "df")
        BY <3>5, Zenon DEF cmp_dom
      <4> QED
        BY <3>1, <4>1
    <3>6. CASE cmp_df
      <4>1. Pass("df", "crashed") \/ Pass("df", "phi")
        BY <3>6 DEF cmp_df
      <4> QED
        BY <3>1, <4>1
    <3>7. CASE ins_phi
      BY <3>1, <3>7 DEF ins_phi
    <3>8. CASE ren_var
      BY <3>1, <3>8 DEF ren_var
    <3>9. CASE rewrite
      BY <3>9 DEF rewrite
    <3> QED
      BY <1>2, <3>2, <3>3, <3>4, <3>5, <3>6, <3>7, <3>8, <3>9 DEF jir_m2r
  <2> QED
    BY <2>1 DEF ClosedInv
<1>3. CASE Start
  BY <1>3 DEF Start, Begin, ClosedInv, lowVars
<1>4. CASE Step
  BY <1>4 DEF Step, ClosedInv, m2rVars, lowVars
<1>5. CASE UNCHANGED vars
  BY <1>5 DEF ClosedInv, LowInv, vars, lowVars, m2rVars
<1> QED
  BY <1>1, <1>2, <1>3, <1>4, <1>5 DEF Next

\* What Reached({}) iterates does not leave the closed blocks.
LEMMA ReachClosed ==
  ASSUME Final(M)
  PROVE  \A b \in Reach : BlkTerm(M, b)
<1>1. PICK c : Good(M, c, {}) /\ BlkTerm(M, c) /\ 1 \in Handled(M, c, {})
  BY DEF Final
<1> DEFINE H == Handled(M, c, {})
           n == Len(M.blks)
           Add(S) == S \cup ((UNION {Range(Succs(b)) : b \in S}) \ {})
           step == [S \in SUBSET H |-> Add(S)]
           Is(g) == g = [k \in 0 .. n |-> IF k = 0 THEN {1} ELSE Add(g[k - 1])]
<1>2. H \subseteq DOMAIN M.blks /\ (\A b \in H : BlkTerm(M, b)) /\ {1} \in SUBSET H /\ n \in Nat
  <2>1. IsModule(M)
    BY <1>1 DEF Good
  <2> QED
    BY <1>1, <2>1, Parts DEF Handled
<1>3. \A b \in H : Range(Succs(b)) \subseteq H
  <2> SUFFICES ASSUME NEW b \in H PROVE Range(Succs(b)) \subseteq H
    OBVIOUS
  <2>1. IsModule(M) /\ Within(M) /\ Jumps(M) \subseteq H
    BY <1>1 DEF Good
  <2>2. b \in DOMAIN M.blks /\ M.blks[b].n_inst > 0
    BY <1>2 DEF BlkTerm
  <2>3. /\ M.blks[b].first + M.blks[b].n_inst - 1 <= Len(M.insts)
        /\ M.blks[b].first \in Nat \ {0} /\ M.blks[b].n_inst \in Nat
        /\ DOMAIN M.insts = 1 .. Len(M.insts) /\ Len(M.insts) \in Nat
    BY <2>1, <2>2, Parts DEF Within
  <2>4. M.blks[b].first + M.blks[b].n_inst - 1 \in DOMAIN M.insts
    BY <2>2, <2>3
  <2>5. Leads(LastOf(M, b)) \subseteq H
    BY <2>1, <2>4 DEF Jumps, LastOf
  <2>6. Succs(b) = Targets(LastOf(M, b))
    BY <2>2, <2>3 DEF Succs
  <2> QED
    BY <2>5, <2>6 DEF Leads
<1> HIDE DEF H, n
<1>4. step \in [SUBSET H -> SUBSET H]
  BY <1>3
<1>5. \E g : Is(g)
  <2> HIDE DEF step
  <2>1. PICK g : Iterates(g, SUBSET H, {1}, step, n)
    BY <1>2, <1>4, RecursionExists
  <2>2. /\ g \in [0 .. n -> SUBSET H] /\ g[0] = {1}
        /\ \A k \in 1 .. n : g[k] = step[g[k - 1]]
    BY <2>1 DEF Iterates
  <2>3. \A k \in 1 .. n : g[k] = Add(g[k - 1])
    <3> SUFFICES ASSUME NEW k \in 1 .. n PROVE g[k] = Add(g[k - 1])
      OBVIOUS
    <3>1. k - 1 \in 0 .. n
      BY <1>2
    <3>2. g[k - 1] \in SUBSET H
      BY <2>2, <3>1
    <3> QED
      BY <2>2, <3>2 DEF step
  <2>4. Is(g)
    <3> HIDE DEF Add
    <3>1. \A k \in 0 .. n : g[k] = IF k = 0 THEN {1} ELSE Add(g[k - 1])
      BY <1>2, <2>2, <2>3
    <3>2. g = [k \in 0 .. n |-> g[k]]
      BY <2>2
    <3> QED
      BY <3>1, <3>2
  <2> QED
    BY <2>4
<1> DEFINE it == CHOOSE g : Is(g)
<1>6. Is(it)
  <2> HIDE DEF Is
  <2> QED
    BY <1>5
<1>7. Reach = it[n]
  BY DEF Reach, Reached, Iterate, n
<1> HIDE DEF it
<1>8. n \in {k \in Nat : k <= n => it[k] \in SUBSET H}
  <2> DEFINE T == {k \in Nat : k <= n => it[k] \in SUBSET H}
  <2>1. 0 \in T
    BY <1>2, <1>6
  <2>2. ASSUME NEW k \in Nat, k \in T PROVE k + 1 \in T
    <3>1. CASE k + 1 <= n
      <4>1. k \in 0 .. n /\ k + 1 \in 0 .. n /\ k + 1 # 0 /\ (k + 1) - 1 = k /\ k <= n
        BY <1>2, <3>1
      <4>2. it[k] \in SUBSET H
        BY <2>2, <4>1
      <4>3. it[k + 1] = Add(it[k])
        BY <1>6, <4>1
      <4>4. Add(it[k]) \in SUBSET H
        BY <1>3, <4>2
      <4> QED
        BY <4>3, <4>4
    <3>2. CASE ~ (k + 1 <= n)
      BY <3>2
    <3> QED
      BY <3>1, <3>2
  <2> HIDE DEF T
  <2>3. n \in T
    BY <1>2, <2>1, <2>2, Induction
  <2> QED
    BY <2>3 DEF T
<1> QED
  BY <1>2, <1>7, <1>8

\* low_stmt leaves no reachable block open, whatever the procedure: mk_cfg and
\* the back ends find a terminator at the end of each block they come to.
THEOREM BlocksClosedAlways == Spec => []BlocksClosed
<1>1. Init => ClosedInv
  BY InitLow DEF Init, M2RInit, ClosedInv
<1>2. ClosedInv /\ [Next]_vars => ClosedInv'
  BY ClosedInvKept
<1>3. ClosedInv => BlocksClosed
  <2> SUFFICES ASSUME ClosedInv, lowered, stage = "cfg", NEW b \in Reach
               PROVE  M.blks[b].n_inst > 0 /\ LastOf(M, b).op \in Terminators
    BY DEF BlocksClosed
  <2>1. Final(M)
    BY DEF ClosedInv
  <2> QED
    BY <2>1, ReachClosed DEF BlkTerm
<1> QED
  BY <1>1, <1>2, <1>3, PTL DEF Spec

---------------------------------------------------------------------------
(* EXIT and the loops around it.                                           *)

\* How many of the first k calls of low_stmt are in the body of a loop.
LoopDepth(st, k) == Cardinality({j \in 1 .. k : IsLoop(st[j])})
\* The loops around a statement are at most as many as lp_exit takes.
NestingFits == LoopDepth(stack, Len(stack)) <= MaxLoop

\* lp_exit holds the exit block of each loop, at the loop's depth.
LoopInv(st, lps) ==
  /\ IsSeq(st) /\ IsSeq(lps)
  /\ Len(lps) = LoopDepth(st, Len(st))
  /\ \A k \in DOMAIN st : IsLoop(st[k]) => lps[LoopDepth(st, k)] = st[k].end

\* The depth grows by one with each loop.
LEMMA DepthGrows ==
  ASSUME NEW st, NEW k \in Nat
  PROVE  /\ LoopDepth(st, k) \in Nat
         /\ LoopDepth(st, 0) = 0
         /\ IsLoop(st[k + 1]) => LoopDepth(st, k + 1) = LoopDepth(st, k) + 1
         /\ ~ IsLoop(st[k + 1]) => LoopDepth(st, k + 1) = LoopDepth(st, k)
         /\ \A j \in 0 .. k : LoopDepth(st, j) <= LoopDepth(st, k)
<1> DEFINE S(n) == {j \in 1 .. n : IsLoop(st[j])}
<1>1. \A n \in Nat : IsFiniteSet(S(n))
  <2> SUFFICES ASSUME NEW n \in Nat PROVE IsFiniteSet(S(n))
    OBVIOUS
  <2>1. IsFiniteSet(1 .. n) /\ S(n) \subseteq 1 .. n
    BY FS_Interval
  <2> QED
    BY <2>1, FS_Subset
<1>2. \A n \in Nat : Cardinality(S(n)) \in Nat
  BY <1>1, FS_CardinalityType
<1>3. S(0) = {} /\ Cardinality({}) = 0
  BY FS_EmptySet
<1>4. ASSUME IsLoop(st[k + 1])
      PROVE  Cardinality(S(k + 1)) = Cardinality(S(k)) + 1
  <2>1. S(k + 1) = S(k) \cup {k + 1} /\ k + 1 \notin S(k)
    BY <1>4
  <2> HIDE DEF S
  <2>2. Cardinality(S(k) \cup {k + 1}) = Cardinality(S(k)) + 1
    BY <1>1, <2>1, FS_AddElement
  <2> QED
    BY <2>1, <2>2
<1>5. ASSUME ~ IsLoop(st[k + 1])
      PROVE  S(k + 1) = S(k)
  BY <1>5
<1>6. ASSUME NEW j \in 0 .. k
      PROVE  Cardinality(S(j)) <= Cardinality(S(k))
  <2>1. S(j) \subseteq S(k)
    OBVIOUS
  <2> HIDE DEF S
  <2> QED
    BY <1>1, <2>1, FS_Subset
<1> QED
  BY <1>2, <1>3, <1>4, <1>5, <1>6 DEF LoopDepth

\* The depth depends on the calls below only.
LEMMA DepthSame ==
  ASSUME NEW st, NEW tt, NEW k \in Nat, \A j \in 1 .. k : tt[j] = st[j]
  PROVE  LoopDepth(tt, k) = LoopDepth(st, k)
<1>1. {j \in 1 .. k : IsLoop(tt[j])} = {j \in 1 .. k : IsLoop(st[j])}
  OBVIOUS
<1> QED
  BY <1>1 DEF LoopDepth

LEMMA PushPlain ==
  ASSUME NEW st, NEW lps, LoopInv(st, lps), NEW f, ~ IsLoop(f)
  PROVE  LoopInv(Append(st, f), lps)
<1> DEFINE t == Append(st, f)
           n == Len(st)
<1>1. IsSeq(st) /\ n \in Nat /\ DOMAIN st = 1 .. n
  BY DomainOfSeq DEF LoopInv
<1>2. /\ IsSeq(t) /\ Len(t) = n + 1
      /\ \A k \in 1 .. n : t[k] = st[k]
      /\ t[n + 1] = f
  BY <1>1, AppendAny
<1> HIDE DEF t, n
<1>3. DOMAIN t = 1 .. n + 1
  BY <1>2, DomainOfSeq
<1>4. \A k \in 0 .. n : LoopDepth(t, k) = LoopDepth(st, k)
  BY <1>1, <1>2, DepthSame
<1>5. LoopDepth(t, n + 1) = LoopDepth(t, n)
  BY <1>1, <1>2, DepthGrows
<1>6. Len(lps) = LoopDepth(t, Len(t))
  BY <1>1, <1>2, <1>4, <1>5 DEF LoopInv, n
<1>7. ASSUME NEW k \in DOMAIN t, IsLoop(t[k])
      PROVE  lps[LoopDepth(t, k)] = t[k].end
  <2>1. k \in 1 .. n
    BY <1>1, <1>2, <1>3, <1>7
  <2> QED
    BY <1>1, <1>2, <1>4, <1>7, <2>1 DEF LoopInv
<1> QED
  BY <1>2, <1>6, <1>7 DEF LoopInv, t

LEMMA PushLoop ==
  ASSUME NEW st, NEW lps, LoopInv(st, lps), NEW f, IsLoop(f)
  PROVE  /\ LoopInv(Append(st, f), Append(lps, f.end))
         /\ LoopDepth(Append(st, f), Len(Append(st, f))) = Len(lps) + 1
<1> DEFINE t == Append(st, f)
           q == Append(lps, f.end)
           n == Len(st)
           d == Len(lps)
<1>1. IsSeq(st) /\ n \in Nat /\ DOMAIN st = 1 .. n /\ IsSeq(lps) /\ d \in Nat
  BY DomainOfSeq DEF LoopInv
<1>2. /\ IsSeq(t) /\ Len(t) = n + 1
      /\ \A k \in 1 .. n : t[k] = st[k]
      /\ t[n + 1] = f
  BY <1>1, AppendAny
<1>3. /\ IsSeq(q) /\ Len(q) = d + 1
      /\ \A k \in 1 .. d : q[k] = lps[k]
      /\ q[d + 1] = f.end
  BY <1>1, AppendAny
<1>4. d = LoopDepth(st, n)
  BY DEF LoopInv
<1> HIDE DEF t, n, q, d
<1>5. DOMAIN t = 1 .. n + 1
  BY <1>2, DomainOfSeq
<1>6. \A k \in 0 .. n : LoopDepth(t, k) = LoopDepth(st, k)
  BY <1>1, <1>2, DepthSame
<1>7. LoopDepth(t, n + 1) = d + 1
  <2>1. LoopDepth(t, n + 1) = LoopDepth(t, n) + 1
    BY <1>1, <1>2, DepthGrows
  <2> QED
    BY <1>1, <1>4, <1>6, <2>1
<1>8. ASSUME NEW k \in DOMAIN t, IsLoop(t[k])
      PROVE  q[LoopDepth(t, k)] = t[k].end
  <2>1. CASE k \in 1 .. n
    <3>1. t[k] = st[k] /\ LoopDepth(t, k) = LoopDepth(st, k) /\ k \in DOMAIN st
      BY <1>1, <1>2, <1>6, <2>1
    <3>2. LoopDepth(st, k) \in 1 .. d
      <4>1. k - 1 \in Nat /\ (k - 1) + 1 = k /\ k \in 0 .. n /\ k \in Nat
        BY <1>1, <2>1
      <4>2. LoopDepth(st, k) = LoopDepth(st, k - 1) + 1 /\ LoopDepth(st, k - 1) \in Nat
        BY <1>8, <3>1, <4>1, DepthGrows
      <4>3. LoopDepth(st, k) <= d
        BY <1>1, <1>4, <4>1, DepthGrows
      <4> QED
        BY <1>1, <4>2, <4>3
    <3>3. lps[LoopDepth(st, k)] = st[k].end
      BY <1>8, <3>1 DEF LoopInv
    <3> QED
      BY <1>3, <3>1, <3>2, <3>3
  <2>2. CASE k \notin 1 .. n
    <3>1. k = n + 1
      BY <1>1, <1>5, <2>2
    <3> QED
      BY <1>2, <1>3, <1>7, <3>1
  <2> QED
    BY <2>1, <2>2
<1>9. LoopInv(t, q) /\ LoopDepth(t, Len(t)) = d + 1
  BY <1>2, <1>3, <1>7, <1>8 DEF LoopInv
<1> QED
  BY <1>9 DEF t, q, d

LEMMA PopFrameDepth ==
  ASSUME NEW st, NEW lps, LoopInv(st, lps), st # <<>>
  PROVE  /\ ~ IsLoop(Last(st)) => LoopInv(Front(st), lps)
         /\ IsLoop(Last(st)) => lps # <<>> /\ LoopInv(Front(st), Front(lps))
<1> DEFINE t == Front(st)
           n == Len(st)
           d == Len(lps)
<1>1. IsSeq(st) /\ DOMAIN st = 1 .. n /\ IsSeq(lps) /\ d \in Nat /\ (d # 0 => lps # <<>>)
  BY DomainOfSeq DEF LoopInv
<1>2. /\ IsSeq(t) /\ Len(t) = n - 1 /\ n \in Nat \ {0}
      /\ \A k \in 1 .. n - 1 : t[k] = st[k]
      /\ Last(st) = st[n]
  BY <1>1, FrontAny
<1>3. d = LoopDepth(st, n)
  BY DEF LoopInv
<1> HIDE DEF t, n, d
<1>4. DOMAIN t = 1 .. n - 1
  BY <1>2, DomainOfSeq
<1>5. n - 1 \in Nat /\ (n - 1) + 1 = n
  BY <1>2
<1>6. \A k \in 0 .. n - 1 : LoopDepth(t, k) = LoopDepth(st, k)
  <2> SUFFICES ASSUME NEW k \in 0 .. n - 1 PROVE LoopDepth(t, k) = LoopDepth(st, k)
    OBVIOUS
  <2>1. k \in Nat /\ \A j \in 1 .. k : t[j] = st[j]
    BY <1>2, <1>5
  <2> QED
    BY <2>1, DepthSame
<1>7. \A k \in DOMAIN t : IsLoop(t[k]) => lps[LoopDepth(t, k)] = t[k].end
  <2> SUFFICES ASSUME NEW k \in DOMAIN t, IsLoop(t[k])
               PROVE  lps[LoopDepth(t, k)] = t[k].end
    OBVIOUS
  <2>1. k \in 0 .. n - 1 /\ k \in DOMAIN st /\ t[k] = st[k]
    BY <1>1, <1>2, <1>4, <1>5
  <2> QED
    BY <1>6, <2>1 DEF LoopInv
<1>8. ASSUME ~ IsLoop(Last(st))
      PROVE  LoopInv(t, lps)
  <2>1. LoopDepth(st, n) = LoopDepth(st, n - 1)
    BY <1>2, <1>5, <1>8, DepthGrows
  <2>2. d = LoopDepth(t, Len(t))
    BY <1>2, <1>3, <1>5, <1>6, <2>1
  <2> QED
    BY <1>1, <1>2, <1>7, <2>2 DEF LoopInv, d
<1>9. ASSUME IsLoop(Last(st))
      PROVE  lps # <<>> /\ LoopInv(t, Front(lps))
  <2> DEFINE q == Front(lps)
  <2>1. LoopDepth(st, n) = LoopDepth(st, n - 1) + 1 /\ LoopDepth(st, n - 1) \in Nat
    BY <1>2, <1>5, <1>9, DepthGrows
  <2>2. d # 0 /\ lps # <<>> /\ LoopDepth(t, n - 1) = d - 1
    BY <1>1, <1>3, <1>5, <1>6, <2>1
  <2>3. IsSeq(q) /\ Len(q) = d - 1 /\ \A k \in 1 .. d - 1 : q[k] = lps[k]
    BY <1>1, <2>2, FrontAny DEF d
  <2> HIDE DEF q
  <2>4. ASSUME NEW k \in DOMAIN t, IsLoop(t[k])
        PROVE  q[LoopDepth(t, k)] = t[k].end
    <3>1. k \in 1 .. n - 1 /\ k - 1 \in Nat /\ (k - 1) + 1 = k /\ k \in 0 .. n - 1
      BY <1>4, <1>5
    <3>2. LoopDepth(t, k) = LoopDepth(t, k - 1) + 1 /\ LoopDepth(t, k - 1) \in Nat
      BY <2>4, <3>1, DepthGrows
    <3>3. LoopDepth(t, k) <= LoopDepth(t, n - 1)
      BY <1>5, <3>1, DepthGrows
    <3>4. LoopDepth(t, k) \in 1 .. d - 1
      BY <1>1, <2>2, <3>2, <3>3
    <3> QED
      BY <1>7, <2>3, <2>4, <3>4
  <2>5. LoopInv(t, q)
    BY <1>2, <2>2, <2>3, <2>4 DEF LoopInv
  <2> QED
    BY <2>2, <2>5 DEF q
<1> QED
  BY <1>8, <1>9 DEF t

\* A loop is entered: its exit goes on lp_exit, as long as that has room.
LEMMA LoopEntered ==
  ASSUME LoopInv(stack, lp_exit), NEW f, IsLoop(f), stack' = Append(stack, f),
         EnterLoop(f.end), NestingFits'
  PROVE  LoopInv(stack', lp_exit')
<1>1. /\ LoopInv(Append(stack, f), Append(lp_exit, f.end))
      /\ LoopDepth(stack', Len(stack')) = Len(lp_exit) + 1
  BY PushLoop
<1>2. Len(lp_exit) \in Nat /\ MaxLoop \in Nat
  BY DomainOfSeq, LoweringAssumption DEF LoopInv
<1>3. Len(lp_exit) + 1 <= MaxLoop
  BY <1>1 DEF NestingFits
<1>4. lp_exit' = Append(lp_exit, f.end)
  BY <1>2, <1>3 DEF EnterLoop
<1> QED
  BY <1>1, <1>4

\* A call that is not a loop's is replaced by another such call.
LEMMA PlainReplaced ==
  ASSUME LoopInv(stack, lp_exit), stack # <<>>, ~ IsLoop(Last(stack)),
         NEW f, ~ IsLoop(f), stack' = Append(Front(stack), f), UNCHANGED lp_exit
  PROVE  LoopInv(stack', lp_exit')
<1>1. LoopInv(Front(stack), lp_exit)
  BY PopFrameDepth
<1> QED
  BY <1>1, PushPlain

LEMMA LoopInvStep ==
  ASSUME LoopInv(stack, lp_exit), low_func, NestingFits'
  PROVE  LoopInv(stack', lp_exit')
<1>1. CASE \/ \E v \in left.vars : Assign(v) \/ Return(v)
           \/ \E c \in left.copies : Copy(c[1], c[2])
           \/ Exit \/ Finish
           \/ \E l \in Labels : Goto(l) \/ Label(l)
  <2>1. UNCHANGED <<stack, lp_exit>>
    BY <1>1 DEF Assign, Return, Copy, Exit, Finish, Goto, Label, Straight
  <2> QED
    BY <2>1
<1>2. ASSUME NEW v, For(v) PROVE LoopInv(stack', lp_exit')
  <2> DEFINE f == [kind |-> "for", next |-> Fresh, end |-> Fresh + 3, var |-> v]
  <2>1. stack' = Append(stack, f) /\ EnterLoop(f.end) /\ IsLoop(f)
    BY <1>2 DEF For, IsLoop
  <2> HIDE DEF f
  <2> QED
    BY <2>1, LoopEntered
<1>3. CASE While
  <2> DEFINE f == [kind |-> "while", next |-> Fresh, end |-> Fresh + 2]
  <2>1. stack' = Append(stack, f) /\ EnterLoop(f.end) /\ IsLoop(f)
    BY <1>3 DEF While, IsLoop
  <2> HIDE DEF f
  <2> QED
    BY <2>1, LoopEntered
<1>4. ASSUME NEW e, If(e) PROVE LoopInv(stack', lp_exit')
  <2> DEFINE f == [kind |-> "then", els |-> IF e THEN Fresh + 1 ELSE Fresh + 2,
                   end |-> Fresh + 2]
  <2>1. stack' = Append(stack, f) /\ UNCHANGED lp_exit /\ ~ IsLoop(f)
    BY <1>4 DEF If, IsLoop
  <2> HIDE DEF f
  <2> QED
    BY <2>1, PushPlain
<1>5. ASSUME NEW m, NEW end, NEW st, LoopInv(st, lp_exit), Branch(m, end, st)
      PROVE  LoopInv(stack', lp_exit')
  <2> DEFINE f == [kind |-> "branch", next |-> (Len(m.blks) + 1) + 1, end |-> end]
  <2>1. stack' = Append(st, f) /\ UNCHANGED lp_exit /\ ~ IsLoop(f)
    BY <1>5 DEF Branch, IsLoop
  <2> HIDE DEF f
  <2> QED
    BY <1>5, <2>1, PushPlain
<1>6. CASE Case
  BY <1>5, <1>6 DEF Case
<1>7. CASE NextBranch
  <2>1. stack # <<>> /\ ~ IsLoop(Last(stack)) /\ Branch(M, Top.end, Front(stack))
    BY <1>7 DEF NextBranch, Resume, IsLoop
  <2> QED
    BY <1>5, <2>1, PopFrameDepth
<1>8. CASE ThenDone
  <2>1. stack # <<>> /\ ~ IsLoop(Last(stack)) /\ UNCHANGED lp_exit
    BY <1>8 DEF ThenDone, Resume, IsLoop
  <2>2. CASE stack' = Front(stack)
    BY <2>1, <2>2, PopFrameDepth
  <2>3. CASE stack' = Append(Front(stack), [kind |-> "else", end |-> Top.end])
    <3> DEFINE f == [kind |-> "else", end |-> Top.end]
    <3>1. ~ IsLoop(f)
      BY DEF IsLoop
    <3> HIDE DEF f
    <3> QED
      BY <2>1, <2>3, <3>1, PlainReplaced DEF f
  <2> QED
    BY <1>8, <2>2, <2>3 DEF ThenDone, Leave
<1>9. CASE ElseDone \/ CaseDone
  <2>1. /\ stack # <<>> /\ ~ IsLoop(Last(stack)) /\ UNCHANGED lp_exit
        /\ stack' = Front(stack)
    BY <1>9 DEF ElseDone, CaseDone, Resume, Leave, IsLoop
  <2> QED
    BY <2>1, PopFrameDepth
<1>10. CASE WhileDone \/ ForDone
  <2>1. stack # <<>> /\ IsLoop(Last(stack)) /\ LeaveLoop /\ stack' = Front(stack)
    BY <1>10 DEF WhileDone, ForDone, Resume, Leave, IsLoop
  <2>2. lp_exit # <<>> /\ LoopInv(Front(stack), Front(lp_exit))
    BY <2>1, PopFrameDepth
  <2> QED
    BY <2>1, <2>2 DEF LeaveLoop
<1>11. CASE BranchDone
  <2> DEFINE f == [kind |-> "case", end |-> Top.end]
  <2>1. /\ stack # <<>> /\ ~ IsLoop(Last(stack)) /\ UNCHANGED lp_exit
        /\ stack' = Append(Front(stack), f) /\ ~ IsLoop(f)
    BY <1>11 DEF BranchDone, Resume, IsLoop
  <2> HIDE DEF f
  <2> QED
    BY <2>1, PlainReplaced
<1>12. CASE Default
  <2> DEFINE f == [kind |-> "default", end |-> Top.end]
  <2>1. /\ stack # <<>> /\ ~ IsLoop(Last(stack)) /\ UNCHANGED lp_exit
        /\ stack' = Append(Front(stack), f) /\ ~ IsLoop(f)
    BY <1>12 DEF Default, Resume, IsLoop
  <2> HIDE DEF f
  <2> QED
    BY <2>1, PlainReplaced
<1> QED
  BY <1>1, <1>2, <1>3, <1>4, <1>6, <1>7, <1>8, <1>9, <1>10, <1>11, <1>12 DEF low_func

\* EXIT branches to the exit of the loop it is written in.
LEMMA ExitStep ==
  ASSUME ClosedInv, LoopInv(stack, lp_exit), Exit, NEW k \in DOMAIN stack, Innermost(k)
  PROVE  Last(M'.insts) = Br(stack[k].end)
<1> DEFINE n == Len(stack)
           d == Len(lp_exit)
<1>1. IsSeq(stack) /\ n \in Nat /\ DOMAIN stack = 1 .. n /\ IsSeq(lp_exit) /\ d \in Nat
  BY DomainOfSeq DEF LoopInv
<1>2. k \in 1 .. n /\ IsLoop(stack[k]) /\ \A j \in 1 .. n : IsLoop(stack[j]) => j <= k
  BY <1>1 DEF Innermost
<1>3. LoopDepth(stack, k) = d
  <2>1. {j \in 1 .. n : IsLoop(stack[j])} = {j \in 1 .. k : IsLoop(stack[j])}
    <3> HIDE DEF n
    <3> QED
      BY <1>1, <1>2
  <2> QED
    BY <2>1 DEF LoopInv, LoopDepth
<1>4. d # 0
  <2> HIDE DEF n, d
  <2>1. k - 1 \in Nat /\ (k - 1) + 1 = k
    BY <1>1, <1>2
  <2>2. LoopDepth(stack, k) = LoopDepth(stack, k - 1) + 1 /\ LoopDepth(stack, k - 1) \in Nat
    BY <1>2, <2>1, DepthGrows
  <2> QED
    BY <1>3, <2>2
<1>5. Last(lp_exit) = stack[k].end
  BY <1>2, <1>3 DEF LoopInv, Last
<1>6. lp_exit # <<>>
  BY <1>1, <1>4, DomainOfSeq
<1>7. M' = Emit(M, cur_blk, Br(Last(lp_exit)))
  BY <1>6 DEF Exit, Straight
<1>8. LowInv
  BY DEF ClosedInv, Exit, Statement
<1>9. PICK P : Covered(M, cur_blk, P, Known(stack, lp_exit, lbl))
  BY <1>8 DEF LowInv
<1>10. Last(lp_exit) \in Known(stack, lp_exit, lbl)
  BY <1>1, <1>4 DEF Known, Last, Range
<1>11. Good(M, cur_blk, P) /\ Leads(Br(Last(lp_exit))) \subseteq Handled(M, cur_blk, P)
  BY <1>9, <1>10, LeadsOf DEF Covered
<1>12. Last(Emit(M, cur_blk, Br(Last(lp_exit))).insts) = Br(Last(lp_exit))
  BY <1>11, EmitGood, FitsOf
<1> QED
  BY <1>5, <1>7, <1>12

\* EXIT leaves the loop it is written in, for every procedure whose loops
\* nest no deeper than JIR_MAX_LOOP, the entries lp_exit has.
THEOREM ExitsInnermostAlways == Spec /\ []NestingFits => ExitsInnermost
<1> DEFINE Inv == ClosedInv /\ LoopInv(stack, lp_exit)
<1>1. Init => Inv
  <2> SUFFICES ASSUME Init PROVE Inv
    OBVIOUS
  <2>1. ClosedInv
    BY InitLow DEF Init, M2RInit, ClosedInv
  <2>2. stack = <<>> /\ lp_exit = <<>>
    BY DEF Init, LowInit
  <2>3. IsSeq(<<>>) /\ Len(<<>>) = 0 /\ DOMAIN <<>> = {}
    BY EmptyIsSeq, DomainOfSeq
  <2>4. LoopDepth(<<>>, 0) = 0
    BY DepthGrows
  <2>5. LoopInv(stack, lp_exit)
    BY <2>2, <2>3, <2>4 DEF LoopInv
  <2> QED
    BY <2>1, <2>5
<1>2. Inv /\ NestingFits' /\ [Next]_vars => Inv'
  <2> SUFFICES ASSUME Inv, NestingFits', [Next]_vars PROVE Inv'
    OBVIOUS
  <2>1. ClosedInv'
    BY ClosedInvKept
  <2>2. low_func \/ UNCHANGED <<stack, lp_exit>>
    BY DEF Next, jir_m2r, mk_cfg, fnd_prm, mk_rpo, cmp_dom, cmp_df, ins_phi, ren_var,
      rewrite, Pass, Start, Begin, Step, vars, lowVars
  <2>3. LoopInv(stack', lp_exit')
    BY <2>2, LoopInvStep
  <2> QED
    BY <2>1, <2>3
<1>3. Inv /\ [Next]_vars
        => [Exit => \A k \in DOMAIN stack :
              Innermost(k) => Last(M'.insts) = Br(stack[k].end)]_vars
  BY ExitStep
<1> QED
  BY <1>1, <1>2, <1>3, PTL DEF Spec, ExitsInnermost
---------------------------------------------------------------------------
(* low_func: the allocas are the first instructions of block 1, every load *)
(* and store has the address of one of them, and no branch leads back to   *)
(* block 1.                                                                *)

LEMMA DeclsFacts ==
  /\ Len(Decls) \in Nat /\ DOMAIN Decls = 1 .. Len(Decls)
  /\ \A k \in 1 .. Len(Decls) : Decls[k] = low_decl(k)
  /\ \A v \in 1 .. NVars : Loc(v) \in 1 .. Len(Decls) /\ low_decl(Loc(v)) = Inst("alloca", <<>>)
  /\ NParams <= Len(Decls) /\ Len(Decls) = NVars + Cardinality(Preset)
<1> DEFINE c == Cardinality(Preset)
<1>1. NVars \in Nat /\ Preset \subseteq 1 .. NVars /\ NParams \in 0 .. NVars
  BY LoweringAssumption, Mem2RegAssumption
<1>2. IsFiniteSet(Preset) /\ c \in Nat
  <2>1. IsFiniteSet(1 .. NVars)
    BY <1>1, FS_Interval
  <2> QED
    BY <1>1, <2>1, FS_Subset, FS_CardinalityType
<1>3. ASSUME NEW v \in 1 .. NVars PROVE Loc(v) \in 1 .. NVars + c
  <2> DEFINE B == {w \in Preset : w < v}
  <2>1. B \subseteq Preset
    OBVIOUS
  <2>2. Cardinality(B) \in Nat /\ Cardinality(B) <= c
    BY <1>2, <2>1, FS_Subset, FS_CardinalityType
  <2> HIDE DEF B, c
  <2>3. Loc(v) = v + Cardinality(B)
    BY DEF Loc, B
  <2> QED
    BY <1>1, <1>2, <2>2, <2>3
<1> HIDE DEF c
<1>4. NVars + c \in Nat /\ NParams <= NVars + c
  BY <1>1, <1>2
<1>5. Decls = [k \in 1 .. NVars + c |-> low_decl(k)]
  BY DEF Decls, c
<1>6. Len(Decls) = NVars + c /\ DOMAIN Decls = 1 .. NVars + c
  <2>1. \A k \in 1 .. NVars + c : Decls[k] = low_decl(k)
    BY <1>5
  <2>2. Decls = [k \in 1 .. NVars + c |-> Decls[k]]
    BY <1>5, <2>1
  <2> QED
    BY <1>4, <2>2, FunctionIsSeq
<1>7. \A v \in 1 .. NVars : low_decl(Loc(v)) = Inst("alloca", <<>>)
  BY DEF low_decl
<1> QED
  BY <1>3, <1>4, <1>5, <1>6, <1>7 DEF c

\* Every declaration is an alloca, or the store of the one before it.
TopOf(v) == v + Cardinality({w \in Preset : w < v + 1})
LEMMA TopSteps ==
  ASSUME NEW v \in 1 .. NVars
  PROVE  /\ TopOf(v - 1) \in Nat /\ TopOf(v) \in Nat /\ Loc(v) = TopOf(v - 1) + 1
         /\ v \in Preset => TopOf(v) = Loc(v) + 1
         /\ v \notin Preset => TopOf(v) = Loc(v)
<1> DEFINE B == {w \in Preset : w < v}
           C == {w \in Preset : w < v + 1}
<1>1. NVars \in Nat /\ Preset \subseteq 1 .. NVars
  BY LoweringAssumption
<1>2. IsFiniteSet(B) /\ Cardinality(B) \in Nat /\ Cardinality(C) \in Nat
  <2>1. IsFiniteSet(1 .. NVars)
    BY <1>1, FS_Interval
  <2>2. B \subseteq 1 .. NVars /\ C \subseteq 1 .. NVars
    BY <1>1
  <2> QED
    BY <2>1, <2>2, FS_Subset, FS_CardinalityType
<1>0. \A w \in Preset : (w < (v - 1) + 1 <=> w < v) /\ (w < v + 1 <=> (w < v \/ w = v))
  <2>1. \A w \in 1 .. NVars :
          (w < (v - 1) + 1 <=> w < v) /\ (w < v + 1 <=> (w < v \/ w = v))
    BY ONLY <1>1, v \in 1 .. NVars
  <2> QED
    BY <1>1, <2>1
<1>3. {w \in Preset : w < (v - 1) + 1} = B
  BY ONLY <1>0
<1>4. v \in Preset => C = B \cup {v} /\ v \notin B
  <2>1. ~ (v < v)
    BY <1>1
  <2> QED
    BY ONLY <1>0, <2>1
<1>5. v \notin Preset => C = B
  BY ONLY <1>0
<1>6. v \in Preset => Cardinality(C) = Cardinality(B) + 1
  <2> HIDE DEF B, C
  <2> QED
    BY <1>2, <1>4, FS_AddElement
<1> HIDE DEF B, C
<1>7. TopOf(v - 1) = v - 1 + Cardinality(B) /\ TopOf(v) = v + Cardinality(C)
  BY <1>3 DEF TopOf, C
<1>8. Loc(v) = v + Cardinality(B)
  BY DEF Loc, B
<1>9. v \notin Preset => Cardinality(C) = Cardinality(B)
  BY <1>5
<1> QED
  BY <1>1, <1>2, <1>6, <1>7, <1>8, <1>9

LEMMA LastPreset ==
  ASSUME NEW k \in 1 .. Len(Decls), ~ \E v \in 1 .. NVars : Loc(v) = k
  PROVE  \E w \in Preset : Loc(w) = k - 1
<1> DEFINE Hit(j) == (\E v \in 1 .. NVars : Loc(v) = j) \/ \E w \in Preset : Loc(w) = j - 1
           T == {n \in Nat : n <= NVars => TopOf(n) \in Nat /\ \A j \in 1 .. TopOf(n) : Hit(j)}
<1>1. NVars \in Nat /\ Preset \subseteq 1 .. NVars
  BY LoweringAssumption
<1>2. 0 \in T
  <2>1. {w \in Preset : w < 0 + 1} = {}
    <3>1. \A w \in 1 .. NVars : ~ (w < 0 + 1)
      BY <1>1
    <3> QED
      BY ONLY <1>1, <3>1
  <2>2. TopOf(0) = 0
    BY <2>1, FS_EmptySet DEF TopOf
  <2> QED
    BY <2>2
<1>3. ASSUME NEW n \in Nat, n \in T PROVE n + 1 \in T
  <2> SUFFICES ASSUME n + 1 <= NVars
               PROVE  TopOf(n + 1) \in Nat /\ \A j \in 1 .. TopOf(n + 1) : Hit(j)
    OBVIOUS
  <2>1. n + 1 \in 1 .. NVars /\ n <= NVars /\ (n + 1) - 1 = n
    BY <1>1
  <2>2. /\ TopOf(n) \in Nat /\ TopOf(n + 1) \in Nat /\ Loc(n + 1) = TopOf(n) + 1
        /\ n + 1 \in Preset => TopOf(n + 1) = Loc(n + 1) + 1
        /\ n + 1 \notin Preset => TopOf(n + 1) = Loc(n + 1)
    BY <2>1, TopSteps
  <2>3. \A j \in 1 .. TopOf(n) : Hit(j)
    BY <1>3, <2>1
  <2>4. Hit(TopOf(n) + 1)
    BY <2>1, <2>2
  <2>5. n + 1 \in Preset => Hit(TopOf(n) + 2)
    <3>1. (TopOf(n) + 2) - 1 = TopOf(n) + 1
      BY <2>2
    <3> QED
      BY <2>2, <3>1
  <2> HIDE DEF Hit
  <2>6. ASSUME NEW j \in 1 .. TopOf(n + 1) PROVE Hit(j)
    <3>1. j \in 1 .. TopOf(n) \/ j = TopOf(n) + 1 \/ (n + 1 \in Preset /\ j = TopOf(n) + 2)
      BY <2>2
    <3> QED
      BY <2>3, <2>4, <2>5, <3>1
  <2> QED
    BY <2>2, <2>6
<1>4. NVars \in T
  <2> HIDE DEF T
  <2> QED
    BY <1>1, <1>2, <1>3, Induction
<1>5. TopOf(NVars) = Len(Decls)
  <2>1. {w \in Preset : w < NVars + 1} = Preset
    <3>1. \A w \in 1 .. NVars : w < NVars + 1
      BY <1>1
    <3> QED
      BY ONLY <1>1, <3>1
  <2>2. TopOf(NVars) = NVars + Cardinality(Preset)
    BY <2>1 DEF TopOf
  <2> QED
    BY <2>2, DeclsFacts
<1>6. Hit(k)
  <2> HIDE DEF Hit
  <2> QED
    BY <1>1, <1>4, <1>5
<1> QED
  BY <1>6

Locals == {Loc(v) : v \in 1 .. NVars}
Aimed(I) ==
  /\ 1 \notin Leads(I)
  /\ I.op = "store" => I.ops[2] \in Locals
  /\ I.op = "load" => I.ops[1] \in Locals
  /\ I.op \in {"load", "add"} => I.ops # <<>>
Laid(m) ==
  /\ IsModule(m) /\ 1 \in DOMAIN m.blks
  /\ Len(Decls) <= Len(m.insts) /\ \A k \in 1 .. Len(Decls) : m.insts[k] = Decls[k]
  /\ m.blks[1].first = 1 /\ Len(Decls) <= m.blks[1].n_inst
  /\ \A k \in DOMAIN m.insts : Aimed(m.insts[k])

LEMMA EmitAllLaid ==
  ASSUME NEW m, Laid(m), NEW b, NEW code, IsSeq(code), \A k \in DOMAIN code : Aimed(code[k])
  PROVE  /\ Laid(EmitAll(m, b, code)) /\ Len(EmitAll(m, b, code).blks) = Len(m.blks)
         /\ EmitAll(m, b, code).insts = m.insts \o code
<1> DEFINE n == EmitAll(m, b, code)
           e == [m.blks[b] EXCEPT !.n_inst = @ + Len(code)]
<1>1. /\ IsModule(m) /\ 1 \in DOMAIN m.blks /\ IsSeq(m.insts)
      /\ Len(m.insts) \in Nat /\ DOMAIN m.insts = 1 .. Len(m.insts)
      /\ Len(m.blks) \in Nat /\ DOMAIN m.blks = 1 .. Len(m.blks) /\ m.blks \in Seq(Blk)
      /\ \A x \in DOMAIN m.blks : m.blks[x].first \in Nat \ {0} /\ m.blks[x].n_inst \in Nat
  BY Parts DEF Laid, IsModule
<1>2. Len(code) \in Nat /\ DOMAIN code = 1 .. Len(code)
  BY DomainOfSeq
<1>3. /\ n.insts = m.insts \o code /\ n.blks = [m.blks EXCEPT ![b] = e]
  BY DEF EmitAll
<1>4. /\ IsSeq(n.insts) /\ Len(n.insts) = Len(m.insts) + Len(code)
      /\ \A k \in 1 .. Len(m.insts) : n.insts[k] = m.insts[k]
      /\ \A k \in 1 .. Len(code) : n.insts[Len(m.insts) + k] = code[k]
  <2> DEFINE s == m.insts
  <2>1. IsSeq(s) /\ n.insts = s \o code
    BY <1>1, <1>3
  <2> HIDE DEF s, n
  <2>2. /\ IsSeq(n.insts) /\ Len(n.insts) = Len(s) + Len(code)
        /\ \A k \in 1 .. Len(s) : n.insts[k] = s[k]
        /\ \A k \in 1 .. Len(code) : n.insts[Len(s) + k] = code[k]
    BY <2>1, ConcatAny
  <2> QED
    BY <2>2 DEF s, n
<1>5. /\ n.blks \in Seq(Blk) /\ Len(n.blks) = Len(m.blks) /\ DOMAIN n.blks = DOMAIN m.blks
      /\ n.blks[1].first = m.blks[1].first /\ n.blks[1].n_inst >= m.blks[1].n_inst
  <2>1. CASE b \in DOMAIN m.blks
    <3>1. e \in Blk /\ e.first = m.blks[b].first /\ e.n_inst = m.blks[b].n_inst + Len(code)
      <4> DEFINE B == m.blks[b]
      <4>1. B \in Blk
        BY <1>1, <2>1, ElementOfSeq
      <4> HIDE DEF B
      <4>2. ASSUME NEW x \in Nat
            PROVE  /\ [B EXCEPT !.n_inst = @ + x] \in Blk
                   /\ [B EXCEPT !.n_inst = @ + x].first = B.first
                   /\ [B EXCEPT !.n_inst = @ + x].n_inst = B.n_inst + x
        BY <4>1 DEF Blk
      <4> QED
        BY <1>2, <4>2 DEF B
    <3> HIDE DEF e
    <3>2. /\ n.blks \in Seq(Blk) /\ Len(n.blks) = Len(m.blks) /\ DOMAIN n.blks = DOMAIN m.blks
          /\ n.blks[b] = e /\ \A x \in DOMAIN m.blks : x # b => n.blks[x] = m.blks[x]
      BY <1>1, <1>3, <2>1, <3>1, BlockChanged
    <3>3. n.blks[1].first = m.blks[1].first /\ n.blks[1].n_inst >= m.blks[1].n_inst
      <4>1. CASE b = 1
        BY <1>1, <1>2, <3>1, <3>2, <4>1
      <4>2. CASE b # 1
        BY <1>1, <3>2, <4>2
      <4> QED
        BY <4>1, <4>2
    <3> QED
      BY <3>2, <3>3
  <2>2. CASE b \notin DOMAIN m.blks
    <3> HIDE DEF e
    <3>1. n.blks = m.blks
      BY <1>1, <1>3, <2>2
    <3> QED
      BY <1>1, <3>1
  <2> QED
    BY <2>1, <2>2
<1> HIDE DEF n
<1> DEFINE N == Len(m.insts)
           L == Len(Decls)
<1>6. /\ L <= N /\ (\A k \in 1 .. L : m.insts[k] = Decls[k]) /\ m.blks[1].first = 1
      /\ L <= m.blks[1].n_inst /\ \A k \in DOMAIN m.insts : Aimed(m.insts[k])
  BY DEF Laid
<1>7. L \in Nat
  BY DeclsFacts
<1> HIDE DEF L
<1>8. /\ L <= Len(n.insts) /\ L <= n.blks[1].n_inst /\ n.blks[1].first = 1
      /\ \A k \in 1 .. L : n.insts[k] = Decls[k]
  <2>1. m.blks[1].n_inst \in Nat /\ n.blks[1].n_inst \in Nat
    <3>1. m.blks[1] \in Blk /\ n.blks[1] \in Blk
      BY <1>1, <1>5, ElementOfSeq
    <3> QED
      BY <3>1 DEF Blk
  <2>2. \A k \in 1 .. L : k \in 1 .. N
    BY <1>1, <1>6, <1>7
  <2> QED
    BY <1>1, <1>2, <1>4, <1>5, <1>6, <1>7, <2>1, <2>2
<1>9. ASSUME NEW k \in DOMAIN n.insts PROVE Aimed(n.insts[k])
  <2>1. k \in 1 .. N + Len(code)
    BY <1>4, <1>9, DomainOfSeq
  <2>2. CASE k \in 1 .. N
    BY <1>1, <1>4, <1>6, <2>2
  <2>3. CASE k \notin 1 .. N
    <3>1. k - N \in 1 .. Len(code) /\ k = N + (k - N)
      BY <1>1, <1>2, <2>1, <2>3
    <3> QED
      BY <1>2, <1>4, <3>1
  <2> QED
    BY <2>2, <2>3
<1> QED
  BY <1>1, <1>3, <1>4, <1>5, <1>8, <1>9 DEF Laid, IsModule, L, n

LEMMA NewLaid ==
  ASSUME NEW m, Laid(m), NEW k \in Nat
  PROVE  /\ Laid(NewBlks(m, k)) /\ Len(NewBlks(m, k).blks) = Len(m.blks) + k
         /\ NewBlks(m, k).insts = m.insts
<1> DEFINE n == NewBlks(m, k)
           new == [j \in 1 .. k |-> EmptyBlk(m)]
<1>1. /\ IsModule(m) /\ 1 \in DOMAIN m.blks /\ IsSeq(m.insts)
      /\ Len(m.insts) \in Nat /\ Len(m.blks) \in Nat /\ DOMAIN m.blks = 1 .. Len(m.blks)
      /\ m.blks \in Seq(Blk)
  BY Parts DEF Laid, IsModule
<1>2. EmptyBlk(m) \in Blk
  BY <1>1 DEF EmptyBlk, Blk
<1>3. new \in Seq(Blk) /\ Len(new) = k
  <2>1. new \in [1 .. k -> Blk]
    BY <1>2
  <2> QED
    BY <2>1
<1>4. n.insts = m.insts /\ n.blks = m.blks \o new
  BY DEF NewBlks
<1> HIDE DEF new, n
<1>5. n.blks \in Seq(Blk) /\ Len(n.blks) = Len(m.blks) + k /\ n.blks[1] = m.blks[1]
      /\ 1 \in DOMAIN n.blks
  <2> DEFINE s == m.blks
  <2>1. s \in Seq(Blk) /\ Len(s) \in Nat /\ 1 \in 1 .. Len(s) /\ n.blks = s \o new
    BY <1>1, <1>4
  <2> HIDE DEF s
  <2>2. /\ s \o new \in Seq(Blk) /\ Len(s \o new) = Len(s) + k /\ (s \o new)[1] = s[1]
        /\ 1 \in DOMAIN (s \o new)
    <3>1. /\ s \o new \in Seq(Blk) /\ Len(s \o new) = Len(s) + Len(new)
          /\ \A i \in 1 .. Len(s) + Len(new) :
               (s \o new)[i] = IF i <= Len(s) THEN s[i] ELSE new[i - Len(s)]
      BY <1>3, <2>1, ConcatProperties
    <3>2. 1 \in 1 .. Len(s) + k /\ 1 <= Len(s)
      BY <2>1
    <3>3. DOMAIN (s \o new) = 1 .. Len(s \o new)
      BY <3>1
    <3> QED
      BY <1>3, <3>1, <3>2, <3>3
  <2> QED
    BY <2>1, <2>2 DEF s
<1> QED
  BY <1>1, <1>4, <1>5 DEF Laid, IsModule, n

LEMMA SetLaid ==
  ASSUME NEW m, Laid(m), NEW b, b # 1
  PROVE  /\ Laid(SetBlk(m, b)) /\ Len(SetBlk(m, b).blks) = Len(m.blks)
         /\ SetBlk(m, b).insts = m.insts
<1> DEFINE n == SetBlk(m, b)
           e == [m.blks[b] EXCEPT !.first = Len(m.insts) + 1]
<1>1. /\ IsModule(m) /\ 1 \in DOMAIN m.blks /\ IsSeq(m.insts)
      /\ Len(m.insts) \in Nat /\ m.blks \in Seq(Blk)
      /\ \A x \in DOMAIN m.blks : m.blks[x].first \in Nat \ {0} /\ m.blks[x].n_inst \in Nat
  BY Parts DEF Laid, IsModule
<1>2. n.insts = m.insts /\ n.blks = [m.blks EXCEPT ![b] = e]
  BY DEF SetBlk
<1>3. n.blks \in Seq(Blk) /\ n.blks[1] = m.blks[1] /\ DOMAIN n.blks = DOMAIN m.blks
      /\ Len(n.blks) = Len(m.blks)
  <2>1. CASE b \in DOMAIN m.blks
    <3>1. e \in Blk
      <4> DEFINE B == m.blks[b]
      <4>1. B \in Blk
        BY <1>1, <2>1, ElementOfSeq
      <4> HIDE DEF B
      <4>2. ASSUME NEW x \in Nat \ {0} PROVE [B EXCEPT !.first = x] \in Blk
        BY <4>1 DEF Blk
      <4>3. Len(m.insts) + 1 \in Nat \ {0}
        BY <1>1
      <4> QED
        BY <4>2, <4>3 DEF B
    <3> HIDE DEF e
    <3> QED
      BY <1>1, <1>2, <2>1, <3>1, BlockChanged
  <2>2. CASE b \notin DOMAIN m.blks
    <3> HIDE DEF e
    <3>1. n.blks = m.blks
      BY <1>1, <1>2, <2>2
    <3> QED
      BY <1>1, <3>1
  <2> QED
    BY <2>1, <2>2
<1> HIDE DEF n
<1> QED
  BY <1>1, <1>2, <1>3 DEF Laid, IsModule, n

LEMMA EmitLaid ==
  ASSUME NEW m, Laid(m), NEW b, NEW I, Aimed(I)
  PROVE  /\ Laid(Emit(m, b, I)) /\ Len(Emit(m, b, I).blks) = Len(m.blks)
         /\ Len(Emit(m, b, I).insts) = Len(m.insts) + 1
<1> DEFINE code == <<I>>
<1>1. code \in Seq({I}) /\ Len(code) = 1 /\ \A k \in DOMAIN code : code[k] = I
  OBVIOUS
<1>2. IsSeq(code)
  BY <1>1, SeqIsSeq
<1> HIDE DEF code
<1>3. Laid(EmitAll(m, b, code)) /\ Len(EmitAll(m, b, code).blks) = Len(m.blks)
      /\ EmitAll(m, b, code).insts = m.insts \o code
  BY <1>1, <1>2, EmitAllLaid
<1>4. IsSeq(m.insts) /\ Len(m.insts \o code) = Len(m.insts) + Len(code)
  BY <1>2, ConcatAny DEF Laid, IsModule
<1> QED
  BY <1>1, <1>3, <1>4 DEF Emit, code

\* Which instructions these are.
LEMMA AimedOf ==
  /\ \A x : \A v \in 1 .. NVars : Aimed(Store(x, Loc(v)))
  /\ \A v \in 1 .. NVars : Aimed(Load(Loc(v)))
  /\ \A xs : Aimed(Inst("ret", xs)) /\ Aimed(Inst("alloca", xs))
  /\ \A x, y : Aimed(Inst("add", <<x, y>>))
  /\ \A b : b # 1 => Aimed(Br(b))
  /\ \A b, c : b # 1 /\ c # 1 => Aimed(BrCond(b, c))
<1>1. /\ \A o, xs : Inst(o, xs).op = o /\ Inst(o, xs).ops = xs
      /\ \A x, y : <<x, y>>[2] = y
      /\ \A x : <<x>>[1] = x /\ <<x>> # <<>>
  BY DEF Inst
<1>2. \A v \in 1 .. NVars : Loc(v) \in Locals
  BY DEF Locals
<1>3. \A xs : Leads(Inst("alloca", xs)) = {}
  BY <1>1 DEF Leads, Targets, Range
<1>4. ASSUME NEW x, NEW v \in 1 .. NVars PROVE Aimed(Store(x, Loc(v))) /\ Aimed(Load(Loc(v)))
  <2>1. Aimed(Store(x, Loc(v)))
    BY <1>1, <1>2, LeadsOf DEF Aimed, Store
  <2>2. Aimed(Load(Loc(v)))
    BY <1>1, <1>2, LeadsOf DEF Aimed, Load
  <2> QED
    BY <2>1, <2>2
<1>5. /\ \A xs : Aimed(Inst("ret", xs)) /\ Aimed(Inst("alloca", xs))
      /\ \A x, y : Aimed(Inst("add", <<x, y>>))
  <2>1. \A x, y : <<x, y>> # <<>>
    OBVIOUS
  <2> QED BY <1>1, <1>3, <2>1, LeadsOf DEF Aimed
<1>6. ASSUME NEW b, b # 1 PROVE Aimed(Br(b))
  BY <1>1, <1>6, LeadsOf DEF Aimed, Br
<1>7. ASSUME NEW b, NEW c, b # 1, c # 1 PROVE Aimed(BrCond(b, c))
  BY <1>1, <1>7, LeadsOf DEF Aimed, BrCond
<1> QED
  BY <1>4, <1>5, <1>6, <1>7

LEMMA CloseLaid ==
  ASSUME NEW m, Laid(m), NEW b, NEW to, to # 1
  PROVE  Laid(Close(m, b, to)) /\ Len(Close(m, b, to).blks) = Len(m.blks)
<1>1. Laid(Emit(m, b, Br(to))) /\ Len(Emit(m, b, Br(to)).blks) = Len(m.blks)
  BY AimedOf, EmitLaid
<1> QED
  BY <1>1 DEF Close

\* What low_stmt emits.
LEMMA AimedStatements ==
  ASSUME NEW m, Laid(m), NEW b, NEW v \in 1 .. NVars, NEW x
  PROVE  /\ Laid(Emit(m, b, Store(x, Loc(v)))) /\ Laid(Emit(m, b, Load(Loc(v))))
         /\ Laid(Emit(Emit(m, b, Load(Loc(v))), b, Inst("ret", <<x>>)))
  BY AimedOf, EmitLaid

\* The calls of low_stmt, and what else is kept while low_func runs.
Framed(f) == 1 \notin PendOf(f) \cup Back(f) /\ (f.kind = "for" => f.var \in 1 .. NVars)
FramedAll(st) == IsSeq(st) /\ \A k \in DOMAIN st : Framed(st[k])
LeftRec ==
  [kinds : SUBSET STRING, vars : SUBSET (1 .. NVars), stmts : Int,
   copies : SUBSET ((1 .. NVars) \X (1 .. NVars))]
EntryInv ==
  /\ Laid(M) /\ FramedAll(stack) /\ left \in LeftRec
  /\ IsSeq(lp_exit) /\ 1 \notin Range(lp_exit)
  /\ lbl \in [Labels -> Nat] /\ \A l \in Labels : lbl[l] # 1

LEMMA FramesPush ==
  ASSUME NEW st, FramedAll(st), NEW f, Framed(f)
  PROVE  FramedAll(Append(st, f))
<1>1. /\ IsSeq(Append(st, f)) /\ Len(Append(st, f)) = Len(st) + 1
      /\ \A k \in 1 .. Len(st) : Append(st, f)[k] = st[k]
      /\ Append(st, f)[Len(st) + 1] = f
  BY AppendAny DEF FramedAll
<1>2. Len(st) \in Nat /\ DOMAIN st = 1 .. Len(st)
      /\ DOMAIN Append(st, f) = 1 .. Len(Append(st, f))
  BY <1>1, DomainOfSeq DEF FramedAll
<1>3. \A k \in DOMAIN Append(st, f) : k \in DOMAIN st \/ k = Len(st) + 1
  BY <1>1, <1>2
<1> QED
  BY <1>1, <1>2, <1>3 DEF FramedAll

LEMMA FramesPop ==
  ASSUME NEW st, FramedAll(st), st # <<>>
  PROVE  FramedAll(Front(st)) /\ Framed(Last(st))
<1>1. /\ IsSeq(Front(st)) /\ Len(Front(st)) = Len(st) - 1 /\ Len(st) \in Nat \ {0}
      /\ \A k \in 1 .. Len(st) - 1 : Front(st)[k] = st[k]
      /\ Last(st) = st[Len(st)]
  BY FrontAny DEF FramedAll
<1>2. DOMAIN st = 1 .. Len(st) /\ DOMAIN Front(st) = 1 .. Len(Front(st))
  BY <1>1, DomainOfSeq DEF FramedAll
<1> QED
  BY <1>1, <1>2 DEF FramedAll

\* The frames that low_stmt makes.
LEMMA FramedOf ==
  /\ \A e, x : e # 1 /\ x # 1 => Framed([kind |-> "then", els |-> e, end |-> x])
  /\ \A x : x # 1 => /\ Framed([kind |-> "else", end |-> x])
                     /\ Framed([kind |-> "case", end |-> x])
                     /\ Framed([kind |-> "default", end |-> x])
  /\ \A y, x : y # 1 /\ x # 1 => /\ Framed([kind |-> "while", next |-> y, end |-> x])
                                 /\ Framed([kind |-> "branch", next |-> y, end |-> x])
  /\ \A y, x : \A v \in 1 .. NVars : y # 1 /\ x # 1 /\ x - 1 # 1 =>
       Framed([kind |-> "for", next |-> y, end |-> x, var |-> v])
  BY DEF Framed, PendOf, Back, IsLoop

\* What is known of the frame on top.
LEMMA FramedParts ==
  ASSUME NEW f, Framed(f)
  PROVE  /\ f.kind = "then" => f.els # 1 /\ f.end # 1
         /\ f.kind = "for" => f.end - 1 # 1 /\ f.end # 1 /\ f.next # 1 /\ f.var \in 1 .. NVars
         /\ f.kind = "while" => f.end # 1 /\ f.next # 1
         /\ f.kind = "branch" => f.end # 1 /\ f.next # 1
         /\ f.kind \in {"else", "case", "default"} => f.end # 1
  BY DEF Framed, PendOf, Back, IsLoop

LEMMA InitEntry ==
  ASSUME LowInit
  PROVE  EntryInv
<1>1. /\ M.insts = Decls /\ M.blks = <<[first |-> 1, n_inst |-> Len(Decls)]>>
      /\ lp_exit = <<>> /\ stack = <<>> /\ lbl = [l \in Labels |-> 0] /\ left \in Profiles
  BY DEF LowInit
<1>2. IsSeq(Decls) /\ Len(Decls) \in Nat /\ DOMAIN Decls = 1 .. Len(Decls)
  <2>1. IsSeq(Decls)
    <3> DEFINE n == NVars + Cardinality(Preset)
    <3>1. n \in Nat
      <4>1. NVars \in Nat /\ Preset \subseteq 1 .. NVars
        BY LoweringAssumption
      <4>2. IsFiniteSet(1 .. NVars)
        BY <4>1, FS_Interval
      <4>3. Cardinality(Preset) \in Nat
        BY <4>1, <4>2, FS_Subset, FS_CardinalityType
      <4> QED
        BY <4>1, <4>3
    <3>2. Decls = [k \in 1 .. n |-> Decls[k]]
      BY DEF Decls
    <3> QED
      BY <3>1, <3>2, FunctionIsSeq
  <2> QED
    BY <2>1, DeclsFacts
<1>3. ASSUME NEW k \in 1 .. Len(Decls) PROVE Aimed(Decls[k])
  <2>1. Decls[k] = low_decl(k)
    BY DeclsFacts
  <2>2. CASE \E v \in 1 .. NVars : Loc(v) = k
    BY <2>1, <2>2, AimedOf DEF low_decl
  <2>3. CASE ~ \E v \in 1 .. NVars : Loc(v) = k
    <3> DEFINE v == CHOOSE w \in Preset : Loc(w) = k - 1
    <3>1. Decls[k] = Store(MkConst(v + 1), k - 1)
      BY <2>1, <2>3 DEF low_decl
    <3>2. \E w \in Preset : Loc(w) = k - 1
      BY <1>3, <2>3, LastPreset
    <3>3. v \in 1 .. NVars /\ Loc(v) = k - 1
      BY <3>2, LoweringAssumption
    <3> HIDE DEF v
    <3> QED
      BY <3>1, <3>3, AimedOf
  <2> QED
    BY <2>2, <2>3
<1>4. IsModule(M) /\ 1 \in DOMAIN M.blks /\ M.blks[1].first = 1 /\ M.blks[1].n_inst = Len(Decls)
  <2> DEFINE e == [first |-> 1, n_inst |-> Len(Decls)]
  <2>1. e \in Blk /\ e.first = 1 /\ e.n_inst = Len(Decls)
    BY <1>2 DEF Blk
  <2> HIDE DEF e
  <2>2. <<e>> \in Seq(Blk) /\ 1 \in DOMAIN <<e>> /\ <<e>>[1] = e
    BY <2>1
  <2>3. M.blks = <<e>>
    BY <1>1 DEF e
  <2> QED
    BY <1>1, <1>2, <2>1, <2>2, <2>3 DEF IsModule
<1>5. Laid(M)
  BY <1>1, <1>2, <1>3, <1>4 DEF Laid
<1>6. FramedAll(stack) /\ IsSeq(lp_exit) /\ 1 \notin Range(lp_exit)
  BY <1>1, EmptyIsSeq DEF FramedAll, Range
<1>7. left \in LeftRec /\ lbl \in [Labels -> Nat] /\ \A l \in Labels : lbl[l] # 1
  BY <1>1, LoweringAssumption DEF LeftRec
<1> QED
  BY <1>5, <1>6, <1>7 DEF EntryInv

\* A step of low_func keeps EntryInv when it keeps each part.
LEMMA EntryNext ==
  ASSUME EntryInv, Laid(M'), FramedAll(stack'),
         left' = left \/ left' = [left EXCEPT !.stmts = @ - 1],
         UNCHANGED lp_exit \/ LeaveLoop \/ (\E x : x # 1 /\ EnterLoop(x)),
         UNCHANGED lbl \/ (\E l \in Labels, x \in Nat \ {1} : lbl' = [lbl EXCEPT ![l] = x])
  PROVE  EntryInv'
<1>1. left' \in LeftRec
  <2>1. left \in LeftRec
    BY DEF EntryInv
  <2> QED
    BY <2>1 DEF LeftRec
<1>2. IsSeq(lp_exit') /\ 1 \notin Range(lp_exit')
  <2>1. IsSeq(lp_exit) /\ 1 \notin Range(lp_exit)
    BY DEF EntryInv
  <2> QED
    BY <2>1, LoopExits
<1>3. lbl' \in [Labels -> Nat] /\ \A l \in Labels : lbl'[l] # 1
  BY DEF EntryInv
<1>4. LeftRec' = LeftRec
  BY DEF LeftRec
<1> QED
  BY <1>1, <1>2, <1>3, <1>4 DEF EntryInv, Laid, FramedAll

\* Blocks made by a statement come behind block 1.
LEMMA FreshBehind ==
  ASSUME EntryInv
  PROVE  /\ Len(M.blks) \in Nat /\ Fresh \in Nat /\ Fresh > 1
         /\ \A l \in Labels : Target(l) \in Nat \ {1}
<1>1. Len(M.blks) \in Nat /\ DOMAIN M.blks = 1 .. Len(M.blks) /\ 1 \in DOMAIN M.blks
  BY Parts DEF EntryInv, Laid
<1>2. Fresh \in Nat /\ Fresh > 1
  BY <1>1 DEF Fresh
<1> QED
  BY <1>1, <1>2 DEF Target, EntryInv

LEMMA BranchEntry ==
  ASSUME EntryInv, NEW m, Laid(m), Len(m.blks) >= 1, Len(m.blks) \in Nat,
         NEW end, end # 1, NEW st, FramedAll(st), Branch(m, end, st), UNCHANGED lbl,
         left' = [left EXCEPT !.stmts = @ - 1]
  PROVE  EntryInv'
<1> DEFINE body == Len(m.blks) + 1
<1>1. body # 1 /\ body + 1 # 1
  OBVIOUS
<1>2. /\ M' = SetBlk(Emit(NewBlks(m, 2), cur_blk, BrCond(body, body + 1)), body)
      /\ stack' = Append(st, [kind |-> "branch", next |-> body + 1, end |-> end])
      /\ UNCHANGED lp_exit
  BY DEF Branch
<1> HIDE DEF body
<1>3. Laid(M')
  BY <1>1, <1>2, NewLaid, EmitLaid, SetLaid, AimedOf
<1>4. FramedAll(stack')
  BY <1>1, <1>2, FramedOf, FramesPush
<1> QED
  BY <1>2, <1>3, <1>4, EntryNext

LEMMA EntryStep ==
  ASSUME EntryInv, low_func
  PROVE  EntryInv'
<1>0. /\ Laid(M) /\ FramedAll(stack) /\ left \in LeftRec
      /\ left.vars \subseteq 1 .. NVars /\ left.copies \subseteq (1 .. NVars) \X (1 .. NVars)
      /\ Fresh \in Nat /\ Fresh > 1 /\ Fresh # 1 /\ Fresh + 1 # 1 /\ Fresh + 2 # 1 /\ Fresh + 3 # 1
      /\ (Fresh + 3) - 1 # 1
  <2>1. left \in LeftRec
    BY DEF EntryInv
  <2>2. left.vars \subseteq 1 .. NVars /\ left.copies \subseteq (1 .. NVars) \X (1 .. NVars)
    BY <2>1 DEF LeftRec
  <2> QED
    BY <2>2, FreshBehind DEF EntryInv
<1>1. ASSUME NEW v \in left.vars, Assign(v) PROVE EntryInv'
  <2>1. v \in 1 .. NVars
    BY <1>0
  <2>2. M' = Emit(M, cur_blk, Store(NewConst, Loc(v))) /\ UNCHANGED <<stack, lp_exit, lbl>>
        /\ left' = [left EXCEPT !.stmts = @ - 1]
    BY <1>1 DEF Assign, Statement, Straight
  <2>3. Laid(M')
    BY <1>0, <2>1, <2>2, AimedStatements
  <2> QED
    BY <1>0, <2>2, <2>3, EntryNext
<1>2. ASSUME NEW v \in left.vars, Return(v) PROVE EntryInv'
  <2>1. v \in 1 .. NVars
    BY <1>0
  <2>2. /\ M' = Emit(Emit(M, cur_blk, Load(Loc(v))), cur_blk, Inst("ret", <<Len(M.insts) + 1>>))
        /\ UNCHANGED <<stack, lp_exit, lbl>> /\ left' = [left EXCEPT !.stmts = @ - 1]
    BY <1>2 DEF Return, Statement, Straight
  <2>3. Laid(M')
    BY <1>0, <2>1, <2>2, AimedStatements
  <2> QED
    BY <1>0, <2>2, <2>3, EntryNext
<1>3. ASSUME NEW v \in left.vars, For(v) PROVE EntryInv'
  <2> DEFINE hdr == Fresh
             m0 == Emit(M, cur_blk, Store(NewConst, Loc(v)))
             m == SetBlk(Close(NewBlks(m0, 4), cur_blk, hdr), hdr)
             f == [kind |-> "for", next |-> hdr, end |-> hdr + 3, var |-> v]
  <2>1. v \in 1 .. NVars
    BY <1>0
  <2>2. /\ M' = SetBlk(Emit(m, hdr, BrCond(hdr + 1, hdr + 3)), hdr + 1)
        /\ stack' = Append(stack, f) /\ EnterLoop(hdr + 3)
        /\ UNCHANGED lbl /\ left' = [left EXCEPT !.stmts = @ - 1]
    BY <1>3 DEF For, Statement
  <2>3. Laid(m0)
    BY <1>0, <2>1, AimedStatements
  <2>4. Laid(NewBlks(m0, 4))
    BY <2>3, NewLaid
  <2>5. Laid(m)
    BY <1>0, <2>4, CloseLaid, SetLaid
  <2>6. Framed(f)
    BY <1>0, <2>1, FramedOf
  <2> HIDE DEF m0, m, f
  <2>7. Laid(M')
    BY <1>0, <2>2, <2>5, EmitLaid, SetLaid, AimedOf
  <2>8. FramedAll(stack')
    BY <1>0, <2>2, <2>6, FramesPush
  <2> QED
    BY <1>0, <2>2, <2>7, <2>8, EntryNext
<1>4. ASSUME NEW c \in left.copies, Copy(c[1], c[2]) PROVE EntryInv'
  <2>1. c[1] \in 1 .. NVars /\ c[2] \in 1 .. NVars
    BY <1>0
  <2>2. /\ M' = Emit(Emit(M, cur_blk, Load(Loc(c[2]))), cur_blk,
                     Store(Len(M.insts) + 1, Loc(c[1])))
        /\ UNCHANGED <<stack, lp_exit, lbl>> /\ left' = [left EXCEPT !.stmts = @ - 1]
    BY <1>4 DEF Copy, Statement, Straight
  <2>3. Laid(M')
    BY <1>0, <2>1, <2>2, AimedStatements
  <2> QED
    BY <1>0, <2>2, <2>3, EntryNext
<1>5. ASSUME NEW e, If(e) PROVE EntryInv'
  <2> DEFINE merg == Fresh + 2
             els == IF e THEN Fresh + 1 ELSE merg
             f == [kind |-> "then", els |-> els, end |-> merg]
  <2>1. /\ M' = SetBlk(Emit(NewBlks(M, 3), cur_blk, BrCond(Fresh, els)), Fresh)
        /\ stack' = Append(stack, f)
        /\ UNCHANGED <<lp_exit, lbl>> /\ left' = [left EXCEPT !.stmts = @ - 1]
    BY <1>5 DEF If, Statement
  <2>2. els # 1 /\ merg # 1
    BY <1>0
  <2>3. Framed(f)
    BY <2>2, FramedOf
  <2> HIDE DEF merg, els, f
  <2>4. Laid(M')
    BY <1>0, <2>1, <2>2, NewLaid, EmitLaid, SetLaid, AimedOf
  <2>5. FramedAll(stack')
    BY <1>0, <2>1, <2>3, FramesPush
  <2> QED
    BY <2>1, <2>4, <2>5, EntryNext
<1>6. ASSUME While PROVE EntryInv'
  <2> DEFINE hdr == Fresh
             m == SetBlk(Close(NewBlks(M, 3), cur_blk, hdr), hdr)
             f == [kind |-> "while", next |-> hdr, end |-> hdr + 2]
  <2>1. /\ M' = SetBlk(Emit(m, hdr, BrCond(hdr + 1, hdr + 2)), hdr + 1)
        /\ stack' = Append(stack, f) /\ EnterLoop(hdr + 2)
        /\ UNCHANGED lbl /\ left' = [left EXCEPT !.stmts = @ - 1]
    BY <1>6 DEF While, Statement
  <2>2. Laid(NewBlks(M, 3))
    BY <1>0, NewLaid
  <2>3. Laid(m)
    BY <1>0, <2>2, CloseLaid, SetLaid
  <2>4. Framed(f)
    BY <1>0, FramedOf
  <2> HIDE DEF m, f
  <2>5. Laid(M')
    BY <1>0, <2>1, <2>3, EmitLaid, SetLaid, AimedOf
  <2>6. FramedAll(stack')
    BY <1>0, <2>1, <2>4, FramesPush
  <2> QED
    BY <1>0, <2>1, <2>5, <2>6, EntryNext
<1>7. ASSUME Case PROVE EntryInv'
  <2>1. Branch(NewBlks(M, 1), Fresh, stack) /\ UNCHANGED lbl
        /\ left' = [left EXCEPT !.stmts = @ - 1]
    BY <1>7 DEF Case, Branch, Statement
  <2>2. /\ Laid(NewBlks(M, 1)) /\ Len(NewBlks(M, 1).blks) = Len(M.blks) + 1
    BY <1>0, NewLaid
  <2>3. Len(NewBlks(M, 1).blks) >= 1 /\ Len(NewBlks(M, 1).blks) \in Nat
    BY <2>2, FreshBehind
  <2> QED
    BY <1>0, <2>1, <2>2, <2>3, BranchEntry
<1>8. ASSUME Exit PROVE EntryInv'
  <2>1. /\ M' = IF lp_exit = <<>> THEN M ELSE Emit(M, cur_blk, Br(Last(lp_exit)))
        /\ UNCHANGED <<stack, lp_exit, lbl>> /\ left' = [left EXCEPT !.stmts = @ - 1]
    BY <1>8 DEF Exit, Statement, Straight
  <2>2. ASSUME lp_exit # <<>> PROVE Last(lp_exit) # 1
    <3>1. IsSeq(lp_exit) /\ 1 \notin Range(lp_exit)
      BY DEF EntryInv
    <3>2. Last(lp_exit) = lp_exit[Len(lp_exit)] /\ Len(lp_exit) \in Nat \ {0}
      BY <2>2, <3>1, FrontAny
    <3> QED
      BY <3>1, <3>2, DomainOfSeq DEF Range
  <2>3. Laid(M')
    BY <1>0, <2>1, <2>2, EmitLaid, AimedOf
  <2> QED
    BY <1>0, <2>1, <2>3, EntryNext
<1>9. ASSUME NEW l \in Labels, Goto(l) \/ Label(l) PROVE EntryInv'
  <2>1. /\ \/ M' = Emit(Mapped(l), cur_blk, Br(Target(l)))
           \/ M' = SetBlk(Close(Mapped(l), cur_blk, Target(l)), Target(l))
        /\ lbl' = [lbl EXCEPT ![l] = Target(l)]
        /\ UNCHANGED <<stack, lp_exit>> /\ left' = [left EXCEPT !.stmts = @ - 1]
    BY <1>9 DEF Goto, Label, Statement
  <2>2. Target(l) \in Nat \ {1} /\ Target(l) # 1
    BY FreshBehind
  <2>3. Laid(Mapped(l))
    BY <1>0, NewLaid DEF Mapped
  <2>4. Laid(M')
    BY <2>1, <2>2, <2>3, EmitLaid, SetLaid, CloseLaid, AimedOf
  <2> QED
    BY <1>0, <2>1, <2>2, <2>4, EntryNext
<1>10. ASSUME NEW k, Resume(k) PROVE Framed(Top) /\ FramedAll(Front(stack)) /\ Top.kind = k /\ UNCHANGED lbl
  BY <1>0, <1>10, FramesPop DEF Resume, Top
<1>11. ASSUME ThenDone PROVE EntryInv'
  <2>1. /\ M' = SetBlk(Close(M, cur_blk, Top.end), Top.els)
        /\ \/ stack' = Front(stack)
           \/ stack' = Append(Front(stack), [kind |-> "else", end |-> Top.end])
        /\ Resume("then") /\ UNCHANGED <<lp_exit, left>>
    BY <1>11 DEF ThenDone, Leave
  <2>2. /\ Framed(Top) /\ FramedAll(Front(stack)) /\ Top.kind = "then" /\ UNCHANGED lbl
    BY <1>10, <2>1
  <2>3. Top.els # 1 /\ Top.end # 1
    BY <2>2, FramedParts
  <2>4. Laid(M')
    BY <1>0, <2>1, <2>3, CloseLaid, SetLaid
  <2>5. FramedAll(stack')
    BY <2>1, <2>2, <2>3, FramedOf, FramesPush
  <2> QED
    BY <2>1, <2>2, <2>4, <2>5, EntryNext
<1>12. ASSUME ElseDone \/ CaseDone PROVE EntryInv'
  <2>1. /\ M' = SetBlk(Close(M, cur_blk, Top.end), Top.end) /\ stack' = Front(stack)
        /\ \E k \in {"else", "case", "default"} : Resume(k)
        /\ UNCHANGED <<lp_exit, left>>
    BY <1>12 DEF ElseDone, CaseDone, Leave
  <2>2. Framed(Top) /\ FramedAll(Front(stack)) /\ Top.kind \in {"else", "case", "default"}
        /\ UNCHANGED lbl
    BY <1>10, <2>1
  <2>3. Top.end # 1
    BY <2>2, FramedParts
  <2>4. Laid(M')
    BY <1>0, <2>1, <2>3, CloseLaid, SetLaid
  <2> QED
    BY <2>1, <2>2, <2>4, EntryNext
<1>13. ASSUME WhileDone PROVE EntryInv'
  <2>1. /\ M' = SetBlk(Close(M, cur_blk, Top.next), Top.end) /\ stack' = Front(stack)
        /\ Resume("while") /\ LeaveLoop /\ UNCHANGED left
    BY <1>13 DEF WhileDone, Leave
  <2>2. Framed(Top) /\ FramedAll(Front(stack)) /\ Top.kind = "while" /\ UNCHANGED lbl
    BY <1>10, <2>1
  <2>3. Top.end # 1 /\ Top.next # 1
    BY <2>2, FramedParts
  <2>4. Laid(M')
    BY <1>0, <2>1, <2>3, CloseLaid, SetLaid
  <2> QED
    BY <2>1, <2>2, <2>4, EntryNext
<1>14. ASSUME ForDone PROVE EntryInv'
  <2> DEFINE step == Top.end - 1
             m == SetBlk(Close(M, cur_blk, step), step)
             n == Len(m.insts)
             code == <<Load(Loc(Top.var)), Inst("add", <<n + 1, Cond>>),
                       Store(n + 2, Loc(Top.var)), Br(Top.next)>>
  <2>1. /\ M' = SetBlk(EmitAll(m, step, code), Top.end) /\ stack' = Front(stack)
        /\ Resume("for") /\ LeaveLoop /\ UNCHANGED left
    BY <1>14 DEF ForDone, Leave
  <2>2. Framed(Top) /\ FramedAll(Front(stack)) /\ Top.kind = "for" /\ UNCHANGED lbl
    BY <1>10, <2>1
  <2>3. Top.end # 1 /\ Top.next # 1 /\ step # 1 /\ Top.var \in 1 .. NVars
    BY <2>2, FramedParts
  <2>4. Laid(m)
    BY <1>0, <2>3, CloseLaid, SetLaid
  <2>5. IsSeq(code) /\ \A k \in DOMAIN code : Aimed(code[k])
    <3> DEFINE a == Load(Loc(Top.var))
               b == Inst("add", <<n + 1, Cond>>)
               c == Store(n + 2, Loc(Top.var))
               d == Br(Top.next)
    <3>1. Aimed(a) /\ Aimed(b) /\ Aimed(c) /\ Aimed(d)
      BY <2>3, AimedOf
    <3> HIDE DEF a, b, c, d
    <3>2. /\ <<a, b, c, d>> \in Seq({a, b, c, d})
          /\ \A k \in DOMAIN <<a, b, c, d>> : <<a, b, c, d>>[k] \in {a, b, c, d}
      OBVIOUS
    <3>3. IsSeq(<<a, b, c, d>>) /\ \A k \in DOMAIN <<a, b, c, d>> : Aimed(<<a, b, c, d>>[k])
      BY <3>1, <3>2, SeqIsSeq
    <3> QED
      BY <3>3 DEF a, b, c, d
  <2> HIDE DEF step, m, n, code
  <2>6. Laid(M')
    BY <2>1, <2>3, <2>4, <2>5, EmitAllLaid, SetLaid
  <2> QED
    BY <2>1, <2>2, <2>6, EntryNext
<1>15. ASSUME BranchDone PROVE EntryInv'
  <2>1. /\ M' = SetBlk(Close(M, cur_blk, Top.end), Top.next)
        /\ stack' = Append(Front(stack), [kind |-> "case", end |-> Top.end])
        /\ Resume("branch") /\ UNCHANGED <<lp_exit, left>>
    BY <1>15 DEF BranchDone
  <2>2. Framed(Top) /\ FramedAll(Front(stack)) /\ Top.kind = "branch" /\ UNCHANGED lbl
    BY <1>10, <2>1
  <2>3. Top.end # 1 /\ Top.next # 1
    BY <2>2, FramedParts
  <2>4. Laid(M') /\ FramedAll(stack')
    BY <1>0, <2>1, <2>2, <2>3, CloseLaid, SetLaid, FramedOf, FramesPush
  <2> QED
    BY <2>1, <2>2, <2>4, EntryNext
<1>16. ASSUME NextBranch PROVE EntryInv'
  <2>1. Branch(M, Top.end, Front(stack)) /\ Resume("case") /\ left' = [left EXCEPT !.stmts = @ - 1]
    BY <1>16 DEF NextBranch
  <2>2. Framed(Top) /\ FramedAll(Front(stack)) /\ Top.kind = "case" /\ UNCHANGED lbl
    BY <1>10, <2>1
  <2>3. Top.end # 1
    BY <2>2, FramedParts
  <2>4. Len(M.blks) >= 1 /\ Len(M.blks) \in Nat
    BY FreshBehind DEF Fresh
  <2> QED
    BY <1>0, <2>1, <2>2, <2>3, <2>4, BranchEntry
<1>17. ASSUME Default PROVE EntryInv'
  <2>1. /\ stack' = Append(Front(stack), [kind |-> "default", end |-> Top.end])
        /\ Resume("case") /\ UNCHANGED <<M, lp_exit, left>>
    BY <1>17 DEF Default
  <2>2. Framed(Top) /\ FramedAll(Front(stack)) /\ Top.kind = "case" /\ UNCHANGED lbl
    BY <1>10, <2>1
  <2>3. Top.end # 1
    BY <2>2, FramedParts
  <2>4. FramedAll(stack')
    BY <2>1, <2>2, <2>3, FramedOf, FramesPush
  <2> QED
    BY <1>0, <2>1, <2>2, <2>4, EntryNext
<1>18. ASSUME Finish PROVE EntryInv'
  <2>1. /\ M' = IF BlkTerm(M, cur_blk) THEN M ELSE Emit(M, cur_blk, Inst("ret", <<>>))
        /\ UNCHANGED <<lp_exit, lbl, stack, left>>
    BY <1>18 DEF Finish
  <2>2. Laid(M')
    BY <1>0, <2>1, EmitLaid, AimedOf
  <2> QED
    BY <1>0, <2>1, <2>2, EntryNext
<1> QED
  BY <1>1, <1>2, <1>3, <1>4, <1>5, <1>6, <1>7, <1>8, <1>9, <1>11, <1>12, <1>13, <1>14, <1>15,
    <1>16, <1>17, <1>18 DEF low_func
=============================================================================
