---------------------------- MODULE ProofBasics ----------------------------
(***************************************************************************)
(* Facts that the proofs about several components use: sequences whose     *)
(* entries are not known to come from one set, and induction over the      *)
(* natural numbers for a set of numbers, with what follows from it about   *)
(* functions defined by recursion.                                         *)
(***************************************************************************)
EXTENDS SequencesExt, SequenceTheorems, WellFoundedInduction, TLAPS

---------------------------------------------------------------------------
(* Sequences of anything.                                                  *)

IsSeq(s) == s \in Seq(Range(s))

\* Every sequence is one.
LEMMA SeqIsSeq ==
  ASSUME NEW S, NEW s \in Seq(S)
  PROVE  IsSeq(s)
<1>1. s \in [1 .. Len(s) -> S] /\ Len(s) \in Nat
  BY LenProperties
<1>2. s \in [1 .. Len(s) -> Range(s)]
  BY <1>1 DEF Range
<1> QED
  BY <1>1, <1>2 DEF IsSeq

\* The domain of a sequence.
LEMMA DomainOfSeq ==
  ASSUME NEW s, IsSeq(s)
  PROVE  /\ Len(s) \in Nat /\ DOMAIN s = 1 .. Len(s)
         /\ s = <<>> <=> Len(s) = 0
  BY LenProperties, EmptySeq DEF IsSeq

\* A function on 1 .. n is a sequence of length n.
LEMMA FunctionIsSeq ==
  ASSUME NEW n \in Nat, NEW f, f = [k \in 1 .. n |-> f[k]]
  PROVE  IsSeq(f) /\ Len(f) = n /\ DOMAIN f = 1 .. n
<1>1. DOMAIN f = 1 .. n
  OBVIOUS
<1>2. f \in [1 .. n -> Range(f)]
  BY <1>1 DEF Range
<1>3. f \in Seq(Range(f))
  BY <1>2
<1>4. Len(f) = n
  BY <1>2, <1>3, LenProperties
<1> QED
  BY <1>1, <1>3, <1>4 DEF IsSeq

LEMMA EmptyIsSeq == IsSeq(<<>>) /\ Len(<<>>) = 0
<1>1. <<>> \in Seq({}) /\ Len(<<>>) = 0
  BY EmptySeq
<1> QED
  BY <1>1, SeqIsSeq

\* A sequence with one entry more.
LEMMA AppendAny ==
  ASSUME NEW s, IsSeq(s), NEW x
  PROVE  /\ IsSeq(Append(s, x)) /\ Append(s, x) # <<>>
         /\ Len(Append(s, x)) = Len(s) + 1
         /\ \A k \in 1 .. Len(s) : Append(s, x)[k] = s[k]
         /\ Append(s, x)[Len(s) + 1] = x
<1> DEFINE T == Range(s) \cup {x}
<1>1. s \in Seq(T) /\ x \in T
  BY SeqMonotonic DEF IsSeq
<1> HIDE DEF T
<1>2. /\ Append(s, x) \in Seq(T) /\ Append(s, x) # <<>>
      /\ Len(Append(s, x)) = Len(s) + 1
      /\ \A k \in 1 .. Len(s) : Append(s, x)[k] = s[k]
      /\ Append(s, x)[Len(s) + 1] = x
  BY <1>1, AppendProperties
<1> QED
  BY <1>2, SeqIsSeq

\* Two sequences in a row.
LEMMA ConcatAny ==
  ASSUME NEW s, IsSeq(s), NEW t, IsSeq(t)
  PROVE  /\ IsSeq(s \o t)
         /\ Len(s \o t) = Len(s) + Len(t)
         /\ \A k \in 1 .. Len(s) : (s \o t)[k] = s[k]
         /\ \A k \in 1 .. Len(t) : (s \o t)[Len(s) + k] = t[k]
<1> DEFINE T == Range(s) \cup Range(t)
<1>1. s \in Seq(T) /\ t \in Seq(T)
  BY SeqMonotonic DEF IsSeq
<1> HIDE DEF T
<1>2. /\ s \o t \in Seq(T) /\ Len(s \o t) = Len(s) + Len(t)
      /\ \A i \in 1 .. Len(s) + Len(t) :
           (s \o t)[i] = IF i <= Len(s) THEN s[i] ELSE t[i - Len(s)]
  BY <1>1, ConcatProperties
<1>3. Len(s) \in Nat /\ Len(t) \in Nat
  BY <1>1, LenProperties
<1>4. ASSUME NEW k \in 1 .. Len(s)
      PROVE  (s \o t)[k] = s[k]
  BY <1>2, <1>3
<1>5. ASSUME NEW k \in 1 .. Len(t)
      PROVE  (s \o t)[Len(s) + k] = t[k]
  <2>1. Len(s) + k \in 1 .. Len(s) + Len(t) /\ ~ (Len(s) + k <= Len(s))
        /\ (Len(s) + k) - Len(s) = k
    BY <1>3
  <2> QED
    BY <1>2, <2>1
<1> QED
  BY <1>2, <1>4, <1>5, SeqIsSeq

\* The first n entries.
LEMMA PrefixAny ==
  ASSUME NEW s, IsSeq(s), NEW n \in 0 .. Len(s)
  PROVE  /\ IsSeq(SubSeq(s, 1, n)) /\ Len(SubSeq(s, 1, n)) = n
         /\ \A k \in 1 .. n : SubSeq(s, 1, n)[k] = s[k]
<1>1. Len(s) \in Nat /\ DOMAIN s = 1 .. Len(s)
  BY DomainOfSeq
<1>2. \A i \in 1 .. n : s[i] \in Range(s)
  BY <1>1 DEF Range
<1>3. /\ SubSeq(s, 1, n) \in Seq(Range(s))
      /\ Len(SubSeq(s, 1, n)) = IF 1 <= n THEN n - 1 + 1 ELSE 0
      /\ \A i \in 1 .. n - 1 + 1 : SubSeq(s, 1, n)[i] = s[1 + i - 1]
  BY <1>1, <1>2, SubSeqProperties
<1>4. IsSeq(SubSeq(s, 1, n))
  BY <1>3, SeqIsSeq
<1>5. Len(SubSeq(s, 1, n)) = n
  BY <1>1, <1>3
<1>6. ASSUME NEW k \in 1 .. n PROVE SubSeq(s, 1, n)[k] = s[k]
  <2>1. k \in 1 .. n - 1 + 1 /\ 1 + k - 1 = k
    BY <1>1
  <2> QED
    BY <1>3, <2>1
<1> QED
  BY <1>4, <1>5, <1>6

\* All but the last entry, and the last.
LEMMA FrontAny ==
  ASSUME NEW s, IsSeq(s), s # <<>>
  PROVE  /\ IsSeq(Front(s)) /\ Len(Front(s)) = Len(s) - 1 /\ Len(s) \in Nat \ {0}
         /\ \A k \in 1 .. Len(s) - 1 : Front(s)[k] = s[k]
         /\ Last(s) = s[Len(s)]
<1>1. Len(s) \in Nat \ {0}
  BY DomainOfSeq
<1>2. Len(s) - 1 \in 0 .. Len(s)
  BY <1>1
<1> QED
  BY <1>1, <1>2, PrefixAny DEF Front, Last

\* All but the first entry, and the first.
LEMMA TailAny ==
  ASSUME NEW s, IsSeq(s), s # <<>>
  PROVE  /\ IsSeq(Tail(s)) /\ Len(Tail(s)) = Len(s) - 1 /\ Len(s) \in Nat \ {0}
         /\ \A k \in 1 .. Len(s) - 1 : Tail(s)[k] = s[k + 1]
         /\ Head(s) = s[1]
<1>1. Len(s) \in Nat \ {0}
  BY DomainOfSeq
<1>2. /\ Tail(s) \in Seq(Range(s)) /\ Len(Tail(s)) = Len(s) - 1
      /\ \A i \in 1 .. Len(Tail(s)) : Tail(s)[i] = s[i + 1]
  BY HeadTailProperties DEF IsSeq
<1>3. Head(s) = s[1]
  BY DEF IsSeq
<1> QED
  BY <1>1, <1>2, <1>3, SeqIsSeq

\* One entry replaced.
LEMMA ExceptAny ==
  ASSUME NEW s, IsSeq(s), NEW i \in DOMAIN s, NEW x
  PROVE  /\ IsSeq([s EXCEPT ![i] = x])
         /\ Len([s EXCEPT ![i] = x]) = Len(s)
         /\ [s EXCEPT ![i] = x][i] = x
         /\ \A k \in DOMAIN s : k # i => [s EXCEPT ![i] = x][k] = s[k]
<1> DEFINE t == [s EXCEPT ![i] = x]
<1>1. Len(s) \in Nat /\ DOMAIN s = 1 .. Len(s)
  BY DomainOfSeq
<1>2. DOMAIN t = 1 .. Len(s) /\ t = [k \in 1 .. Len(s) |-> t[k]]
  BY <1>1 DEF IsSeq
<1>3. t[i] = x /\ \A k \in DOMAIN s : k # i => t[k] = s[k]
  BY DEF IsSeq
<1> HIDE DEF t
<1>4. IsSeq(t) /\ Len(t) = Len(s)
  BY <1>1, <1>2, FunctionIsSeq
<1> QED
  BY <1>3, <1>4 DEF t

---------------------------------------------------------------------------
(* Induction.                                                              *)

\* A set with 0 that has n + 1 with every n has all natural numbers.
LEMMA Induction ==
  ASSUME NEW T, 0 \in T, \A n \in Nat : n \in T => n + 1 \in T
  PROVE  Nat \subseteq T
<1> DEFINE R == OpToRel(<, Nat)
<1>1. \A x, y \in Nat : <<y, x>> \in R <=> y < x
  BY DEF OpToRel
<1>2. IsWellFoundedOn(R, Nat)
  BY NatLessThanWellFounded
<1> HIDE DEF R
<1>3. SUFFICES ASSUME Nat \ T # {} PROVE FALSE
  OBVIOUS
<1>4. \E x \in Nat \ T : \A y \in Nat \ T : ~ <<y, x>> \in R
  BY <1>2, <1>3, WFMin
<1>5. PICK x \in Nat \ T : \A y \in Nat \ T : ~ (y < x)
  BY <1>1, <1>4
<1>6. x # 0 /\ x - 1 \in Nat /\ x - 1 < x /\ (x - 1) + 1 = x
  BY <1>5
<1>7. x - 1 \in T
  BY <1>5, <1>6
<1> QED
  BY <1>5, <1>6, <1>7

\* A function over 0 .. n may be defined by its value at 0 and the step from
\* k to k + 1, the values coming from a set.
Iterates(f, S, base, step, n) ==
  f \in [0 .. n -> S] /\ f[0] = base /\ \A k \in 1 .. n : f[k] = step[f[k - 1]]
LEMMA RecursionExists ==
  ASSUME NEW S, NEW base \in S, NEW step \in [S -> S], NEW n \in Nat
  PROVE  \E f : Iterates(f, S, base, step, n)
<1> DEFINE Is(f, m) == \A k \in 0 .. m : f[k] = IF k = 0 THEN base ELSE step[f[k - 1]]
           T == {m \in Nat : \E f \in [0 .. m -> S] : Is(f, m)}
<1>1. 0 \in T
  <2> DEFINE f == [k \in 0 .. 0 |-> base]
  <2>1. f \in [0 .. 0 -> S] /\ Is(f, 0)
    OBVIOUS
  <2> QED
    BY <2>1
<1>2. ASSUME NEW m \in Nat, m \in T PROVE m + 1 \in T
  <2>1. PICK f \in [0 .. m -> S] : Is(f, m)
    BY <1>2
  <2> DEFINE g == [k \in 0 .. m + 1 |-> IF k <= m THEN f[k] ELSE step[f[m]]]
  <2>2. g \in [0 .. m + 1 -> S]
    <3>1. f[m] \in S /\ step[f[m]] \in S
      OBVIOUS
    <3>2. \A k \in 0 .. m + 1 : k <= m => f[k] \in S
      OBVIOUS
    <3> QED
      BY <3>1, <3>2
  <2>3. ASSUME NEW k \in 0 .. m + 1
        PROVE  g[k] = IF k = 0 THEN base ELSE step[g[k - 1]]
    <3>1. CASE k <= m
      <4>1. g[k] = f[k] /\ (k # 0 => g[k - 1] = f[k - 1])
        BY <3>1
      <4> QED
        BY <2>1, <3>1, <4>1
    <3>2. CASE k = m + 1
      <4>1. g[k] = step[f[m]] /\ g[k - 1] = f[m] /\ k # 0
        BY <3>2
      <4> QED
        BY <4>1
    <3> QED
      BY <3>1, <3>2
  <2> HIDE DEF g
  <2>4. \E h \in [0 .. m + 1 -> S] : Is(h, m + 1)
    BY <2>2, <2>3
  <2> QED
    BY <2>4
<1>3. n \in T
  <2> HIDE DEF T
  <2> QED
    BY <1>1, <1>2, Induction
<1>4. PICK f \in [0 .. n -> S] : Is(f, n)
  BY <1>3
<1> QED
  BY <1>4 DEF Iterates

\* The values of a recursion that depends on the index stay within T[0], T[1]
\* and so on when each step leads from one to the next; there is one.
LEMMA StepsStay ==
  ASSUME NEW n \in Nat, NEW T, NEW g, g[0] \in T[0],
         \A k \in 1 .. n : g[k - 1] \in T[k - 1] => g[k] \in T[k]
  PROVE  \A k \in 0 .. n : g[k] \in T[k]
<1> DEFINE U == {k \in Nat : k <= n => g[k] \in T[k]}
<1>1. 0 \in U
  OBVIOUS
<1>2. ASSUME NEW k \in Nat, k \in U PROVE k + 1 \in U
  <2>1. (k + 1) - 1 = k /\ (k + 1 <= n => k + 1 \in 1 .. n /\ k <= n)
    OBVIOUS
  <2> QED
    BY <1>2, <2>1
<1>3. Nat \subseteq U
  <2> HIDE DEF U
  <2> QED
    BY <1>1, <1>2, Induction
<1> QED
  BY <1>3

Follows(f, n, base, step) ==
  f = [k \in 0 .. n |-> IF k = 0 THEN base ELSE step[k][f[k - 1]]]
LEMMA StepsExist ==
  ASSUME NEW n \in Nat, NEW T, NEW base \in T[0], NEW step,
         \A k \in 1 .. n : \A x \in T[k - 1] : step[k][x] \in T[k]
  PROVE  \E f : Follows(f, n, base, step) /\ \A k \in 0 .. n : f[k] \in T[k]
<1> DEFINE Is(f, m) == f = [k \in 0 .. m |-> IF k = 0 THEN base ELSE step[k][f[k - 1]]]
           U == {m \in Nat : \E f : Is(f, m)}
<1>1. 0 \in U
  <2> DEFINE f == [k \in 0 .. 0 |-> base]
  <2>1. Is(f, 0)
    OBVIOUS
  <2> QED
    BY <2>1
<1>2. ASSUME NEW m \in Nat, m \in U PROVE m + 1 \in U
  <2>1. PICK f : Is(f, m)
    BY <1>2
  <2> DEFINE g == [k \in 0 .. m + 1 |-> IF k <= m THEN f[k] ELSE step[m + 1][f[m]]]
  <2>2. ASSUME NEW k \in 0 .. m + 1
        PROVE  g[k] = IF k = 0 THEN base ELSE step[k][g[k - 1]]
    <3>1. CASE k <= m
      <4>1. g[k] = f[k] /\ (k # 0 => g[k - 1] = f[k - 1])
        BY <3>1
      <4>2. f[k] = IF k = 0 THEN base ELSE step[k][f[k - 1]]
        BY <2>1, <3>1
      <4> QED
        BY <4>1, <4>2
    <3>2. CASE k = m + 1
      <4>1. g[k] = step[k][f[m]] /\ g[k - 1] = f[m] /\ k # 0
        BY <3>2
      <4> QED
        BY <4>1
    <3> QED
      BY <3>1, <3>2
  <2>3. g = [k \in 0 .. m + 1 |-> g[k]]
    OBVIOUS
  <2> HIDE DEF g
  <2>4. Is(g, m + 1)
    BY <2>2, <2>3
  <2> QED
    BY <2>4
<1>3. n \in U
  <2> HIDE DEF U
  <2> QED
    BY <1>1, <1>2, Induction
<1>4. PICK f : Is(f, n)
  BY <1>3
<1>5. f[0] = base /\ \A k \in 1 .. n : f[k] = step[k][f[k - 1]]
  BY <1>4
<1>6. \A k \in 0 .. n : f[k] \in T[k]
  <2> HIDE DEF Is
  <2>1. \A k \in 1 .. n : f[k - 1] \in T[k - 1] => f[k] \in T[k]
    BY <1>5
  <2> QED
    BY <1>5, <2>1, StepsStay
<1> QED
  BY <1>4, <1>6 DEF Follows

\* Two sequences in a row have the entries of both.
LEMMA ConcatRange ==
  ASSUME NEW s, IsSeq(s), NEW t, IsSeq(t)
  PROVE  Range(s \o t) = Range(s) \cup Range(t)
<1> DEFINE m == Len(s)
           n == Len(t)
           u == s \o t
<1>1. m \in Nat /\ n \in Nat /\ DOMAIN s = 1 .. m /\ DOMAIN t = 1 .. n
  BY DomainOfSeq
<1>2. /\ IsSeq(u) /\ Len(u) = m + n
      /\ \A k \in 1 .. m : u[k] = s[k]
      /\ \A k \in 1 .. n : u[m + k] = t[k]
  BY ConcatAny
<1> HIDE DEF u, m, n
<1>3. DOMAIN u = 1 .. m + n
  BY <1>2, DomainOfSeq
<1>4. ASSUME NEW k \in 1 .. m + n
      PROVE  u[k] \in Range(s) \cup Range(t)
  <2>1. CASE k <= m
    BY <1>1, <1>2, <2>1 DEF Range
  <2>2. CASE k > m
    <3>1. k - m \in 1 .. n /\ m + (k - m) = k
      BY <1>1, <2>2
    <3>2. u[k] = t[k - m]
      BY <1>2, <3>1
    <3> QED
      BY <1>1, <3>1, <3>2 DEF Range
  <2> QED
    BY <1>1, <2>1, <2>2
<1>5. ASSUME NEW k \in 1 .. m
      PROVE  s[k] \in Range(u)
  <2>1. k \in 1 .. m + n /\ u[k] = s[k]
    BY <1>1, <1>2
  <2> QED
    BY <1>3, <2>1 DEF Range
<1>6. ASSUME NEW k \in 1 .. n
      PROVE  t[k] \in Range(u)
  <2>1. m + k \in 1 .. m + n /\ u[m + k] = t[k]
    BY <1>1, <1>2
  <2> QED
    BY <1>3, <2>1 DEF Range
<1>7. Range(u) \subseteq Range(s) \cup Range(t)
  BY <1>3, <1>4 DEF Range
<1>8. Range(s) \subseteq Range(u) /\ Range(t) \subseteq Range(u)
  BY <1>1, <1>5, <1>6 DEF Range
<1>9. Range(u) = Range(s) \cup Range(t)
  BY <1>7, <1>8
<1> QED
  BY <1>9 DEF u

\* FlattenSeq appends one sequence after the other.
Flattens(ss, g) ==
  /\ g[0] = <<>> /\ IsSeq(g[0])
  /\ \A k \in 1 .. Len(ss) : IsSeq(g[k]) /\ g[k] = g[k - 1] \o ss[k]
LEMMA FlatSteps ==
  ASSUME NEW ss, IsSeq(ss), \A k \in DOMAIN ss : IsSeq(ss[k])
  PROVE  \E g : Flattens(ss, g) /\ FlattenSeq(ss) = g[Len(ss)]
<1> DEFINE N == Len(ss)
           X == UNION {Range(ss[k]) : k \in 1 .. N}
           Is(f) == f = [k \in 1 .. N |-> IF k = 1 THEN ss[k] ELSE f[k - 1] \o ss[k]]
           T == [k \in 0 .. N |-> Seq(X)]
           step == [k \in 1 .. N |-> [s \in Seq(X) |-> IF k = 1 THEN ss[k] ELSE s \o ss[k]]]
<1>1. N \in Nat /\ DOMAIN ss = 1 .. N /\ (ss = <<>> <=> N = 0)
  BY DomainOfSeq
<1>2. \A k \in 1 .. N : ss[k] \in Seq(X)
  <2> SUFFICES ASSUME NEW k \in 1 .. N PROVE ss[k] \in Seq(X)
    OBVIOUS
  <2>1. ss[k] \in Seq(Range(ss[k])) /\ Range(ss[k]) \subseteq X
    BY <1>1 DEF IsSeq
  <2> QED
    BY <2>1, SeqMonotonic
<1> HIDE DEF X
<1>3. ASSUME NEW k \in 1 .. N, NEW s \in Seq(X)
      PROVE  (IF k = 1 THEN ss[k] ELSE s \o ss[k]) \in Seq(X)
  BY <1>2, ConcatProperties
<1>4. <<>> \in Seq(X)
  OBVIOUS
<1> HIDE DEF N
<1>5. \E f : Is(f)
  <2>1. /\ <<>> \in T[0]
        /\ \A k \in 1 .. N : \A s \in T[k - 1] : step[k][s] \in T[k]
    <3>1. \A k \in 1 .. N : k - 1 \in 0 .. N /\ k \in 0 .. N
      BY <1>1
    <3>2. 0 \in 0 .. N
      BY <1>1
    <3> QED
      BY <1>3, <1>4, <3>1, <3>2
  <2> HIDE DEF step
  <2>2. PICK f : Follows(f, N, <<>>, step) /\ \A k \in 0 .. N : f[k] \in T[k]
    <3> HIDE DEF T
    <3> QED
      BY <1>1, <2>1, StepsExist
  <2> DEFINE g == [k \in 1 .. N |-> f[k]]
  <2>3. ASSUME NEW k \in 1 .. N
        PROVE  g[k] = IF k = 1 THEN ss[k] ELSE g[k - 1] \o ss[k]
    <3>1. k - 1 \in 0 .. N /\ k \in 0 .. N /\ k # 0
      BY <1>1
    <3>2. f[k - 1] \in Seq(X) /\ f[k] = step[k][f[k - 1]]
      BY <2>2, <3>1 DEF Follows
    <3>3. f[k] = IF k = 1 THEN ss[k] ELSE f[k - 1] \o ss[k]
      BY <3>2 DEF step
    <3>4. k # 1 => g[k - 1] = f[k - 1]
      BY <1>1
    <3> QED
      BY <3>3, <3>4
  <2>4. g = [k \in 1 .. N |-> g[k]]
    OBVIOUS
  <2> HIDE DEF g
  <2>5. Is(g)
    BY <2>3, <2>4
  <2> QED
    BY <2>5
<1> DEFINE it == CHOOSE f : Is(f)
<1>6. Is(it)
  <2> HIDE DEF Is
  <2> QED
    BY <1>5
<1>7. FlattenSeq(ss) = IF N = 0 THEN ss ELSE it[N]
  BY Zenon DEF FlattenSeq, N
<1> HIDE DEF it
<1> DEFINE g == [k \in 0 .. N |-> IF k = 0 THEN <<>> ELSE it[k]]
<1>8. g[0] = <<>> /\ \A k \in 1 .. N : g[k] = it[k]
  BY <1>1
<1> HIDE DEF g
<1>9. ASSUME NEW k \in 1 .. N, IsSeq(g[k - 1]), k = 1 => g[k - 1] = <<>>
      PROVE  IsSeq(g[k]) /\ g[k] = g[k - 1] \o ss[k]
  <2>1. it[k] = IF k = 1 THEN ss[k] ELSE it[k - 1] \o ss[k]
    BY <1>6
  <2>2. IsSeq(ss[k])
    BY <1>1
  <2>3. CASE k = 1
    <3>1. g[k] = ss[k] /\ g[k - 1] = <<>>
      BY <1>8, <1>9, <2>1, <2>3
    <3>2. <<>> \o ss[k] = ss[k]
      BY <1>2, ConcatEmptySeq
    <3> QED
      BY <2>2, <3>1, <3>2
  <2>4. CASE k # 1
    <3>1. k - 1 \in 1 .. N
      BY <1>1, <2>4
    <3>2. g[k] = g[k - 1] \o ss[k]
      BY <1>8, <2>1, <2>4, <3>1
    <3> QED
      BY <1>9, <2>2, <3>2, ConcatAny
  <2> QED
    BY <2>3, <2>4
<1> DEFINE U == {k \in Nat : k <= N => IsSeq(g[k])}
<1>10. 0 \in U
  BY <1>8, EmptyIsSeq
<1>11. ASSUME NEW k \in Nat, k \in U PROVE k + 1 \in U
  <2> SUFFICES ASSUME k + 1 <= N PROVE IsSeq(g[k + 1])
    OBVIOUS
  <2>1. k + 1 \in 1 .. N /\ (k + 1) - 1 = k /\ k <= N /\ (k + 1 = 1 => k = 0)
    BY <1>1
  <2> QED
    BY <1>8, <1>9, <1>11, <2>1
<1>12. \A k \in 0 .. N : IsSeq(g[k])
  <2>1. Nat \subseteq U
    <3> HIDE DEF U
    <3> QED
      BY <1>10, <1>11, Induction
  <2> QED
    BY <1>1, <2>1
<1>13. ASSUME NEW k \in 1 .. N PROVE IsSeq(g[k]) /\ g[k] = g[k - 1] \o ss[k]
  <2>1. k - 1 \in 0 .. N /\ (k = 1 => k - 1 = 0)
    BY <1>1
  <2> QED
    BY <1>8, <1>9, <1>12, <2>1
<1>14. FlattenSeq(ss) = g[N]
  <2>1. CASE N = 0
    BY <1>1, <1>7, <1>8, <2>1
  <2>2. CASE N # 0
    <3>1. N \in 1 .. N
      BY <1>1, <2>2
    <3> QED
      BY <1>7, <1>8, <2>2, <3>1
  <2> QED
    BY <2>1, <2>2
<1>15. Flattens(ss, g)
  BY <1>8, <1>13, EmptyIsSeq DEF Flattens, N
<1> QED
  BY <1>14, <1>15 DEF N

\* FlattenSeq has the entries of all the sequences of a sequence.
LEMMA FlatRange ==
  ASSUME NEW ss, IsSeq(ss), \A k \in DOMAIN ss : IsSeq(ss[k])
  PROVE  /\ IsSeq(FlattenSeq(ss))
         /\ Range(FlattenSeq(ss)) = UNION {Range(ss[k]) : k \in DOMAIN ss}
<1> DEFINE N == Len(ss)
           Upto(n) == UNION {Range(ss[k]) : k \in 1 .. n}
<1>1. N \in Nat /\ DOMAIN ss = 1 .. N
  BY DomainOfSeq
<1>2. PICK g : Flattens(ss, g) /\ FlattenSeq(ss) = g[N]
  BY FlatSteps
<1> DEFINE U == {n \in Nat : n <= N => IsSeq(g[n]) /\ Range(g[n]) = Upto(n)}
<1>3. 0 \in U
  <2>1. Range(<<>>) = {} /\ Upto(0) = {}
    BY DEF Range
  <2> QED
    BY <1>2, <2>1 DEF Flattens
<1>4. ASSUME NEW n \in Nat, n \in U PROVE n + 1 \in U
  <2> SUFFICES ASSUME n + 1 <= N PROVE IsSeq(g[n + 1]) /\ Range(g[n + 1]) = Upto(n + 1)
    OBVIOUS
  <2>1. n + 1 \in 1 .. N /\ (n + 1) - 1 = n /\ n <= N
    BY <1>1
  <2>2. IsSeq(g[n + 1]) /\ g[n + 1] = g[n] \o ss[n + 1]
    <3> HIDE DEF Upto
    <3> QED
      BY <1>2, <2>1 DEF Flattens
  <2>3. IsSeq(g[n]) /\ Range(g[n]) = Upto(n) /\ IsSeq(ss[n + 1])
    BY <1>1, <1>4, <2>1
  <2>4. Range(g[n + 1]) = Range(g[n]) \cup Range(ss[n + 1])
    BY <2>2, <2>3, ConcatRange
  <2>5. Upto(n + 1) = Upto(n) \cup Range(ss[n + 1])
    <3>1. 1 .. n + 1 = (1 .. n) \cup {n + 1}
      BY <1>1
    <3> QED
      BY <3>1
  <2> HIDE DEF Upto
  <2> QED
    BY <2>2, <2>3, <2>4, <2>5
<1>5. N \in U
  <2> HIDE DEF U
  <2> QED
    BY <1>1, <1>3, <1>4, Induction
<1> QED
  BY <1>1, <1>2, <1>5

\* The states of a loop over n entries, each of which stays in S.
LEMMA StepsWithin ==
  ASSUME NEW n \in Nat, NEW S, NEW x0 \in S, NEW step,
         \A k \in 1 .. n : \A x \in S : step[k][x] \in S
  PROVE  \E f : Follows(f, n, x0, step) /\ \A k \in 0 .. n : f[k] \in S
<1> DEFINE T == [k \in 0 .. n |-> S]
<1>1. x0 \in T[0]
  OBVIOUS
<1>2. \A k \in 1 .. n : \A x \in T[k - 1] : step[k][x] \in T[k]
  <2>1. \A k \in 1 .. n : k - 1 \in 0 .. n /\ k \in 0 .. n
    OBVIOUS
  <2> QED
    BY <2>1
<1>3. \A k \in 0 .. n : T[k] = S
  OBVIOUS
<1> HIDE DEF T
<1>4. PICK f : Follows(f, n, x0, step) /\ \A k \in 0 .. n : f[k] \in T[k]
  BY <1>1, <1>2, StepsExist
<1> QED
  BY <1>3, <1>4
=============================================================================
