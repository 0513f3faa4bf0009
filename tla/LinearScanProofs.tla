------------------------- MODULE LinearScanProofs -------------------------
(***************************************************************************)
(* Proofs that the register allocator of LinearScan is type-correct, never *)
(* gives one register to two intervals that are live together and          *)
(* implements RegAlloc, whatever the table, the pools and the size of the  *)
(* active list; and, where its tables are large enough for the pools, that *)
(* the save masks name every register in use, no register is lost, and     *)
(* values go to the stack only where the registers run out.                *)
(***************************************************************************)
EXTENDS LinearScan, SequenceTheorems, FiniteSetTheorems, TLAPS

---------------------------------------------------------------------------
(* What the operations on the active list and on the free stacks return.   *)

\* The first entries of a sequence and the rest of it.
LEMMA SplitProperties ==
  ASSUME NEW S, NEW s \in Seq(S), NEW a \in 0 .. Len(s), NEW b \in a .. Len(s)
  PROVE  /\ SubSeq(s, 1, a) \in Seq(S)
         /\ Len(SubSeq(s, 1, a)) = a
         /\ \A j \in 1 .. a : SubSeq(s, 1, a)[j] = s[j]
         /\ SubSeq(s, b + 1, Len(s)) \in Seq(S)
         /\ Len(SubSeq(s, b + 1, Len(s))) = Len(s) - b
         /\ \A j \in 1 .. (Len(s) - b) : SubSeq(s, b + 1, Len(s))[j] = s[b + j]
  OBVIOUS

\* Removing the entry at k shifts the later ones down: exp_old and spl_at.
LEMMA RemoveAtProperties ==
  ASSUME NEW S, NEW s \in Seq(S), NEW k \in DOMAIN s
  PROVE  /\ RemoveAt(s, k) \in Seq(S)
         /\ Len(RemoveAt(s, k)) = Len(s) - 1
         /\ \A j \in 1 .. (Len(s) - 1) :
              RemoveAt(s, k)[j] = IF j < k THEN s[j] ELSE s[j + 1]
<1> DEFINE t == SubSeq(s, 1, k - 1)
           u == SubSeq(s, k + 1, Len(s))
<1>1. k \in 1 .. Len(s) /\ Len(s) \in Nat
  BY LenProperties
<1>2. /\ t \in Seq(S) /\ Len(t) = k - 1
      /\ \A j \in 1 .. (k - 1) : t[j] = s[j]
      /\ u \in Seq(S) /\ Len(u) = Len(s) - k
      /\ \A j \in 1 .. (Len(s) - k) : u[j] = s[k + j]
  BY <1>1, SplitProperties
<1>3. RemoveAt(s, k) = t \o u
  BY DEF RemoveAt
<1> HIDE DEF t, u
<1>4. /\ t \o u \in Seq(S)
      /\ Len(t \o u) = Len(t) + Len(u)
      /\ \A j \in 1 .. (Len(t) + Len(u)) :
           (t \o u)[j] = IF j <= Len(t) THEN t[j] ELSE u[j - Len(t)]
  BY <1>2, ConcatProperties
<1>5. Len(t) + Len(u) = Len(s) - 1
  BY <1>1, <1>2
<1>6. ASSUME NEW j \in 1 .. (Len(s) - 1)
      PROVE  (t \o u)[j] = IF j < k THEN s[j] ELSE s[j + 1]
  <2>1. CASE j < k
    <3>1. (t \o u)[j] = t[j]
      BY <1>1, <1>2, <1>4, <1>5, <2>1
    <3> QED
      BY <1>1, <1>2, <2>1, <3>1
  <2>2. CASE ~ (j < k)
    <3>1. (t \o u)[j] = u[j - (k - 1)]
      <4>1. j \in 1 .. (Len(t) + Len(u)) /\ ~ (j <= Len(t))
        BY <1>1, <1>2, <1>5, <2>2, SMTT(30)
      <4> QED
        BY <1>2, <1>4, <4>1
    <3>2. j - (k - 1) \in 1 .. (Len(s) - k) /\ k + (j - (k - 1)) = j + 1
      BY <1>1, <2>2
    <3>3. u[j - (k - 1)] = s[k + (j - (k - 1))]
      BY <1>2, <3>2
    <3> QED
      BY <2>2, <3>1, <3>2, <3>3
  <2> QED
    BY <2>1, <2>2
<1> QED
  BY <1>3, <1>4, <1>5, <1>6

\* Inserting x at p shifts the entries from p on up: act_ins.
LEMMA InsertAtProperties ==
  ASSUME NEW S, NEW s \in Seq(S), NEW x \in S, NEW p, p \in 1 .. (Len(s) + 1)
  PROVE  /\ InsertAt(s, p, x) \in Seq(S)
         /\ Len(InsertAt(s, p, x)) = Len(s) + 1
         /\ \A j \in 1 .. (Len(s) + 1) :
              InsertAt(s, p, x)[j] =
                IF j < p THEN s[j] ELSE IF j = p THEN x ELSE s[j - 1]
<1> DEFINE t == SubSeq(s, 1, p - 1)
           u == SubSeq(s, p, Len(s))
           one == <<x>>
           tx == t \o one
<1>1. Len(s) \in Nat /\ p - 1 \in 0 .. Len(s) /\ (p - 1) + 1 = p
  BY LenProperties
<1>2. /\ t \in Seq(S) /\ Len(t) = p - 1
      /\ \A j \in 1 .. (p - 1) : t[j] = s[j]
      /\ u \in Seq(S) /\ Len(u) = Len(s) - (p - 1)
      /\ \A j \in 1 .. (Len(s) - (p - 1)) : u[j] = s[(p - 1) + j]
  BY <1>1, SplitProperties
<1>3. one \in Seq(S) /\ Len(one) = 1 /\ one[1] = x
  OBVIOUS
<1>4. InsertAt(s, p, x) = tx \o u
  BY DEF InsertAt
<1> HIDE DEF t, u, one
<1>5. /\ tx \in Seq(S)
      /\ Len(tx) = p
      /\ \A j \in 1 .. p : tx[j] = IF j < p THEN t[j] ELSE x
  <2>1. /\ tx \in Seq(S)
        /\ Len(tx) = Len(t) + Len(one)
        /\ \A j \in 1 .. (Len(t) + Len(one)) :
             tx[j] = IF j <= Len(t) THEN t[j] ELSE one[j - Len(t)]
    BY <1>2, <1>3, ConcatProperties
  <2> HIDE DEF tx
  <2> QED
    BY <1>1, <1>2, <1>3, <2>1
<1> HIDE DEF tx
<1>6. /\ tx \o u \in Seq(S)
      /\ Len(tx \o u) = Len(tx) + Len(u)
      /\ \A j \in 1 .. (Len(tx) + Len(u)) :
           (tx \o u)[j] = IF j <= Len(tx) THEN tx[j] ELSE u[j - Len(tx)]
  BY <1>2, <1>5, ConcatProperties, SMTT(30)
<1>7. Len(tx) + Len(u) = Len(s) + 1
  BY <1>1, <1>2, <1>5
<1>8. ASSUME NEW j \in 1 .. (Len(s) + 1)
      PROVE  (tx \o u)[j] =
               IF j < p THEN s[j] ELSE IF j = p THEN x ELSE s[j - 1]
  <2>1. CASE j <= p
    <3>1. (tx \o u)[j] = tx[j]
      <4>1. j \in 1 .. (Len(tx) + Len(u)) /\ j <= Len(tx)
        BY <1>1, <1>5, <1>7, <2>1
      <4> QED
        BY <1>6, <4>1
    <3>2. j \in 1 .. p /\ (j < p => j \in 1 .. (p - 1))
      BY <1>1, <2>1
    <3>3. tx[j] = IF j < p THEN t[j] ELSE x
      BY <1>5, <3>2
    <3>4. j < p => t[j] = s[j]
      BY <1>2, <3>2
    <3> QED
      BY <2>1, <3>1, <3>3, <3>4
  <2>2. CASE ~ (j <= p)
    <3>1. (tx \o u)[j] = u[j - p]
      <4>1. j \in 1 .. (Len(tx) + Len(u)) /\ ~ (j <= Len(tx))
        BY <1>1, <1>5, <1>7, <2>2
      <4> QED
        BY <1>5, <1>6, <4>1
    <3>2. j - p \in 1 .. (Len(s) - (p - 1)) /\ (p - 1) + (j - p) = j - 1
      BY <1>1, <2>2
    <3>3. u[j - p] = s[(p - 1) + (j - p)]
      BY <1>2, <3>2
    <3> QED
      BY <1>1, <2>2, <3>1, <3>2, <3>3
  <2> QED
    BY <2>1, <2>2
<1> QED
  BY <1>4, <1>6, <1>7, <1>8

\* The top of a free stack and what is left when it is popped.
LEMMA FrontProperties ==
  ASSUME NEW S, NEW s \in Seq(S), s # <<>>
  PROVE  /\ Len(s) \in DOMAIN s
         /\ Last(s) = s[Len(s)]
         /\ Front(s) \in Seq(S)
         /\ Len(Front(s)) = Len(s) - 1
         /\ \A j \in 1 .. (Len(s) - 1) : Front(s)[j] = s[j]
<1>1. Len(s) \in Nat \ {0} /\ DOMAIN s = 1 .. Len(s)
  BY EmptySeq, LenProperties
<1> QED
  BY <1>1 DEF Front, Last

\* Without repetitions, what is left after a removal is what was there but
\* the entry at k, and no repetition appears.
LEMMA RemoveAtEntries ==
  ASSUME NEW S, NEW s \in Seq(S), NEW k \in DOMAIN s,
         \A l, m \in DOMAIN s : s[l] = s[m] => l = m
  PROVE  /\ \A j \in DOMAIN RemoveAt(s, k) :
              \E m \in DOMAIN s : m # k /\ RemoveAt(s, k)[j] = s[m]
         /\ \A l, m \in DOMAIN RemoveAt(s, k) :
              RemoveAt(s, k)[l] = RemoveAt(s, k)[m] => l = m
<1> DEFINE r == RemoveAt(s, k)
<1>1. Len(s) \in Nat /\ DOMAIN s = 1 .. Len(s) /\ k \in 1 .. Len(s)
  BY LenProperties
<1>2. /\ r \in Seq(S) /\ Len(r) = Len(s) - 1
      /\ \A j \in 1 .. (Len(s) - 1) : r[j] = IF j < k THEN s[j] ELSE s[j + 1]
  BY RemoveAtProperties
<1> HIDE DEF r
<1>3. DOMAIN r = 1 .. (Len(s) - 1)
  BY <1>2, LenProperties
<1>4. ASSUME NEW j \in DOMAIN r
      PROVE  \E m \in DOMAIN s : m # k /\ r[j] = s[m]
  <2>1. CASE j < k
    BY <1>1, <1>2, <1>3, <2>1
  <2>2. CASE ~ (j < k)
    <3>1. j + 1 \in DOMAIN s /\ j + 1 # k /\ r[j] = s[j + 1]
      BY <1>1, <1>2, <1>3, <2>2
    <3> QED
      BY <3>1
  <2> QED
    BY <2>1, <2>2
<1>5. ASSUME NEW l \in DOMAIN r, NEW m \in DOMAIN r, r[l] = r[m]
      PROVE  l = m
  <2> DEFINE at(j) == IF j < k THEN j ELSE j + 1
  <2>1. \A j \in DOMAIN r : at(j) \in DOMAIN s /\ r[j] = s[at(j)]
    BY <1>1, <1>2, <1>3
  <2>2. s[at(l)] = s[at(m)] /\ at(l) \in DOMAIN s /\ at(m) \in DOMAIN s
    BY <1>5, <2>1
  <2>3. at(l) = at(m)
    BY <2>2
  <2> QED
    BY <1>1, <1>3, <2>3
<1> QED
  BY <1>4, <1>5 DEF r

\* After an insertion x is the only new entry, and no entry comes twice if
\* none did and x is new.
LEMMA InsertAtEntries ==
  ASSUME NEW S, NEW s \in Seq(S), NEW x \in S, NEW p, p \in 1 .. (Len(s) + 1),
         \A l, m \in DOMAIN s : s[l] = s[m] => l = m,
         \A m \in DOMAIN s : s[m] # x
  PROVE  /\ \A j \in DOMAIN InsertAt(s, p, x) :
              \/ InsertAt(s, p, x)[j] = x
              \/ \E m \in DOMAIN s : InsertAt(s, p, x)[j] = s[m]
         /\ \A l, m \in DOMAIN InsertAt(s, p, x) :
              InsertAt(s, p, x)[l] = InsertAt(s, p, x)[m] => l = m
<1> DEFINE r == InsertAt(s, p, x)
           at(j) == IF j < p THEN j ELSE j - 1
<1>1. Len(s) \in Nat /\ DOMAIN s = 1 .. Len(s)
  BY LenProperties
<1>2. /\ r \in Seq(S) /\ Len(r) = Len(s) + 1
      /\ \A j \in 1 .. (Len(s) + 1) :
           r[j] = IF j < p THEN s[j] ELSE IF j = p THEN x ELSE s[j - 1]
  BY InsertAtProperties
<1> HIDE DEF r
<1>3. DOMAIN r = 1 .. (Len(s) + 1)
  BY <1>2, LenProperties
<1>4. ASSUME NEW j \in DOMAIN r, j # p
      PROVE  at(j) \in DOMAIN s /\ r[j] = s[at(j)]
  <2>1. j \in 1 .. (Len(s) + 1)
    BY <1>3
  <2>2. at(j) \in 1 .. Len(s)
    BY <1>1, <1>4, <2>1
  <2>3. r[j] = s[at(j)]
    BY <1>1, <1>2, <1>4, <2>1
  <2> QED
    BY <1>1, <2>2, <2>3
<1>5. p \in DOMAIN r /\ r[p] = x
  BY <1>1, <1>2, <1>3
<1>6. ASSUME NEW l \in DOMAIN r, NEW m \in DOMAIN r, r[l] = r[m]
      PROVE  l = m
  <2>1. CASE l = p \/ m = p
    BY <1>4, <1>5, <1>6, <2>1
  <2>2. CASE l # p /\ m # p
    <3>1. at(l) = at(m)
      BY <1>4, <1>6, <2>2
    <3> QED
      BY <1>1, <1>3, <2>2, <3>1
  <2> QED
    BY <2>1, <2>2
<1>7. \A j \in DOMAIN r : r[j] = x \/ \E m \in DOMAIN s : r[j] = s[m]
  BY <1>4, <1>5
<1> QED
  BY <1>6, <1>7 DEF r

\* What act_ins does to the active list a: it stays a list of indices, and
\* x, if new to it, is the only index that can join.
LEMMA ActInsEntries ==
  ASSUME NEW D, NEW a \in Seq(D), NEW x \in D, NEW b,
         \A l, m \in DOMAIN a : a[l] = a[m] => l = m,
         \A m \in DOMAIN a : a[m] # x,
         b = a \/ \E p \in 1 .. (Len(a) + 1) : b = InsertAt(a, p, x)
  PROVE  /\ b \in Seq(D)
         /\ \A j \in DOMAIN b : b[j] = x \/ \E m \in DOMAIN a : b[j] = a[m]
         /\ \A l, m \in DOMAIN b : b[l] = b[m] => l = m
<1>1. CASE b = a
  BY <1>1
<1>2. ASSUME NEW p, p \in 1 .. (Len(a) + 1), b = InsertAt(a, p, x)
      PROVE  /\ b \in Seq(D)
             /\ \A j \in DOMAIN b : b[j] = x \/ \E m \in DOMAIN a : b[j] = a[m]
             /\ \A l, m \in DOMAIN b : b[l] = b[m] => l = m
  <2>1. InsertAt(a, p, x) \in Seq(D)
    BY <1>2, InsertAtProperties
  <2>2. /\ \A j \in DOMAIN InsertAt(a, p, x) :
             \/ InsertAt(a, p, x)[j] = x
             \/ \E m \in DOMAIN a : InsertAt(a, p, x)[j] = a[m]
        /\ \A l, m \in DOMAIN InsertAt(a, p, x) :
             InsertAt(a, p, x)[l] = InsertAt(a, p, x)[m] => l = m
    BY <1>2, InsertAtEntries
  <2> QED
    BY <1>2, <2>1, <2>2
<1> QED
  BY <1>1, <1>2

\* ra_scan pushes the pool in reverse: the same registers, once each.
LEMMA ReverseProperties ==
  ASSUME NEW S, NEW s \in Seq(S)
  PROVE  /\ Reverse(s) \in Seq(S)
         /\ Range(Reverse(s)) \subseteq Range(s)
         /\ (\A l, m \in DOMAIN s : s[l] = s[m] => l = m) =>
              \A l, m \in DOMAIN Reverse(s) : Reverse(s)[l] = Reverse(s)[m] => l = m
<1> DEFINE r == Reverse(s)
           n == Len(s)
<1>1. n \in Nat /\ DOMAIN s = 1 .. n
  BY LenProperties
<1>2. DOMAIN r = 1 .. n /\ \A j \in 1 .. n : r[j] = s[(n - j) + 1]
  BY DEF Reverse
<1> HIDE DEF n, r
<1>3. \A j \in 1 .. n : (n - j) + 1 \in 1 .. n
  BY <1>1
<1>4. \A j \in 1 .. n : r[j] \in S
  BY <1>2, <1>3, ElementOfSeq DEF n
<1>5. r \in [1 .. n -> S]
  BY <1>2, <1>4, <1>1 DEF r, n, Reverse
<1>6. r \in Seq(S)
  BY <1>1, <1>5, SeqDef
<1>7. Range(r) \subseteq Range(s)
  BY <1>1, <1>2, <1>3 DEF Range
<1>8. ASSUME \A l, m \in DOMAIN s : s[l] = s[m] => l = m,
             NEW l \in DOMAIN r, NEW m \in DOMAIN r, r[l] = r[m]
      PROVE  l = m
  <2>1. l \in 1 .. n /\ m \in 1 .. n
    BY <1>2
  <2>2. s[(n - l) + 1] = s[(n - m) + 1]
    BY <1>2, <1>8, <2>1
  <2>3. (n - l) + 1 = (n - m) + 1
    BY <1>1, <1>3, <1>8, <2>1, <2>2
  <2> QED
    BY <1>1, <2>1, <2>3
<1> QED
  BY <1>6, <1>7, <1>8 DEF r

---------------------------------------------------------------------------
(* Type correctness.                                                       *)

\* The table after a step of the sort is the table before it, rearranged:
\* srt_iv neither loses an interval nor copies one.
LEMMA SortKeepsTable ==
  ASSUME NEW t, IsTable(t), NEW n \in DOMAIN t, NEW q \in 0 .. (n - 1), NEW u,
         u = [k \in DOMAIN t |->
                IF k <= q \/ k > n THEN t[k]
                ELSE IF k = q + 1 THEN t[n] ELSE t[k - 1]]
  PROVE  IsTable(u)
<1> DEFINE from(k) == IF k <= q \/ k > n THEN k ELSE IF k = q + 1 THEN n ELSE k - 1
<1>1. t \in Seq(Interval) /\ Len(t) \in Nat /\ DOMAIN t = 1 .. Len(t)
  BY LenProperties DEF IsTable
<1>2. \A k \in DOMAIN t : from(k) \in DOMAIN t
  BY <1>1
<1>3. DOMAIN u = DOMAIN t /\ \A k \in DOMAIN t : u[k] = t[from(k)]
  OBVIOUS
<1>4. \A j, k \in DOMAIN t : from(j) = from(k) => j = k
  BY <1>1
<1> HIDE DEF from
<1>5. u \in Seq(Interval)
  <2>1. \A k \in 1 .. Len(t) : u[k] \in Interval
    BY <1>1, <1>2, <1>3, ElementOfSeq
  <2>2. u \in [1 .. Len(t) -> Interval]
    BY <1>1, <1>3, <2>1
  <2> QED
    BY <1>1, <2>2, SeqDef
<1>6. \A k \in DOMAIN u : 1 <= u[k].start /\ u[k].start <= u[k].end
  BY <1>2, <1>3 DEF IsTable
<1>7. ASSUME NEW j \in DOMAIN u, NEW k \in DOMAIN u, u[j].iidx = u[k].iidx
      PROVE  j = k
  <2>1. from(j) = from(k)
    BY <1>2, <1>3, <1>7, SMTT(30) DEF IsTable
  <2> QED
    BY <1>3, <1>4, <2>1
<1> QED
  BY <1>5, <1>6, <1>7 DEF IsTable

---------------------------------------------------------------------------
(* The invariant holds at first and every action preserves it.             *)

\* Nothing holds a register before the sort.
LEMMA InitInv == Init => TypeOK /\ ScanInv
<1> SUFFICES ASSUME Init PROVE TypeOK /\ ScanInv
  OBVIOUS
<1> USE DEF Init, NoReg, Held
<1>1. IsTable(iv)
  BY TablesAssumption
<1>2. \A k \in DOMAIN iv : ~ Held(k)
  OBVIOUS
<1>3. \A c \in Class : DOMAIN free[c] = {} /\ Range(free[c]) = {}
  BY DEF Range
<1>4. TypeOK
  BY <1>1, <1>2, <1>3 DEF TypeOK
<1>5. DOMAIN act = {}
  OBVIOUS
<1>6. iv \in Seq(Interval) /\ DOMAIN iv = 1 .. Len(iv) /\ Len(iv) \in Nat
  BY <1>1, LenProperties DEF IsTable
<1>7. Ordered
  BY <1>6 DEF Ordered
<1> QED
  BY <1>2, <1>3, <1>4, <1>5, <1>7
     DEF ScanInv, NoClash, ScannedOnly, ActiveHold, FreeOnce, FreeIsPast, ActiveIsLatest

\* A step of the sort extends the sorted part of the table by one interval.
LEMMA SortStep == TypeOK /\ ScanInv /\ srt_iv => TypeOK' /\ ScanInv'
<1> SUFFICES ASSUME TypeOK, ScanInv, srt_iv PROVE TypeOK' /\ ScanInv'
  OBVIOUS
<1>1. PICK q \in 0 .. (i - 1) :
        /\ q > 0 => iv[q].start <= iv[i].start
        /\ \A j \in (q + 1) .. (i - 1) : iv[j].start > iv[i].start
        /\ iv' = [k \in DOMAIN iv |->
                    IF k <= q \/ k > i THEN iv[k]
                    ELSE IF k = q + 1 THEN iv[i] ELSE iv[k - 1]]
  BY DEF srt_iv
<1>2. /\ IsTable(iv)
      /\ DOMAIN iv' = DOMAIN iv
      /\ i \in DOMAIN iv
      /\ iv \in Seq(Interval)
      /\ DOMAIN iv = 1 .. Len(iv)
      /\ Len(iv) \in Nat
      /\ \A k \in DOMAIN iv : iv[k].start \in Nat
  <2>1. IsTable(iv) /\ iv \in Seq(Interval) /\ i \in DOMAIN iv
    BY DEF TypeOK, IsTable, srt_iv
  <2>2. \A k \in 1 .. Len(iv) : iv[k] \in Interval
    BY <2>1, ElementOfSeq
  <2> QED
    BY <1>1, <2>1, <2>2, LenProperties DEF Interval
<1>3. IsTable(iv')
  BY <1>1, <1>2, SortKeepsTable
<1>4. \A k \in DOMAIN iv : ~ Held(k)
  BY DEF ScanInv, ScannedOnly, srt_iv
<1>5. /\ pc = "sort" /\ pc' = pc /\ i' = i + 1 /\ reg' = reg /\ act' = act
      /\ free' = free /\ csave' = csave /\ csrm' = csrm
  BY DEF srt_iv
<1>6. \A k \in DOMAIN iv' : ~ Held(k)'
  BY <1>2, <1>4, <1>5 DEF Held
<1>7. TypeOK'
  BY <1>2, <1>3, <1>5, <1>6 DEF TypeOK
<1>8. DOMAIN act = {}
  <2>1. \A k \in DOMAIN act : act[k] \in DOMAIN iv
    BY LenProperties, ElementOfSeq DEF TypeOK
  <2> QED
    BY <1>4, <2>1 DEF ScanInv, ActiveHold
<1>9. ASSUME NEW j \in DOMAIN iv, NEW k \in DOMAIN iv, j < k, k < i + 1
      PROVE  iv'[j].start <= iv'[k].start
  <2> DEFINE from(m) == IF m <= q \/ m > i THEN m ELSE IF m = q + 1 THEN i ELSE m - 1
  <2>1. /\ from(j) \in DOMAIN iv /\ iv'[j] = iv[from(j)]
        /\ from(k) \in DOMAIN iv /\ iv'[k] = iv[from(k)]
    BY <1>1, <1>2, <1>9
  <2>2. \A l, m \in DOMAIN iv : l < m /\ m < i => iv[l].start <= iv[m].start
    BY <1>5 DEF ScanInv, Ordered
  <2>3. CASE k = q + 1
    <3>1. from(k) = i /\ from(j) = j /\ j <= q
      BY <1>2, <1>9, <2>3
    <3>2. q \in DOMAIN iv /\ q < i /\ iv[q].start <= iv[i].start
      BY <1>1, <1>2, <1>9, <3>1
    <3>3. iv[j].start <= iv[q].start
      BY <1>2, <2>2, <3>1, <3>2, SMTT(30)
    <3> QED
      BY <1>2, <2>1, <3>1, <3>2, <3>3
  <2>4. CASE k # q + 1 /\ j = q + 1
    <3>1. from(j) = i /\ from(k) = k - 1 /\ k - 1 \in (q + 1) .. (i - 1)
      BY <1>2, <1>9, <2>4
    <3> QED
      BY <1>1, <1>2, <2>1, <3>1, SMTT(30)
  <2>5. CASE k # q + 1 /\ j # q + 1
    <3>1. from(j) < from(k) /\ from(k) < i
      BY <1>2, <1>9, <2>5
    <3> QED
      BY <2>1, <2>2, <3>1
  <2> QED
    BY <2>3, <2>4, <2>5
<1>10. Ordered'
  BY <1>2, <1>5, <1>9 DEF Ordered
<1>11. FreeOnce'
  BY <1>5, <1>8 DEF ScanInv, FreeOnce
<1> QED
  BY <1>5, <1>6, <1>7, <1>8, <1>10, <1>11
     DEF ScanInv, NoClash, ScannedOnly, ActiveHold, FreeIsPast, ActiveIsLatest

\* The scan starts with a sorted table, full stacks and nobody active.
LEMMA StartStep == TypeOK /\ ScanInv /\ StartScan => TypeOK' /\ ScanInv'
<1> SUFFICES ASSUME TypeOK, ScanInv, StartScan PROVE TypeOK' /\ ScanInv'
  OBVIOUS
<1>1. \A k \in DOMAIN iv : ~ Held(k)'
  BY DEF ScanInv, ScannedOnly, StartScan, Held
<1>2. ASSUME NEW c \in Class
      PROVE  /\ free'[c] \in Seq(Nat)
             /\ Range(free'[c]) \subseteq Range(Pool[c])
             /\ \A l, m \in DOMAIN free'[c] : free'[c][l] = free'[c][m] => l = m
  <2>1. free'[c] = Reverse(Pool[c]) /\ Pool[c] \in Seq(Nat)
    BY PoolAssumption DEF StartScan
  <2>2. \A l, m \in DOMAIN Pool[c] : Pool[c][l] = Pool[c][m] => l = m
    BY PoolAssumption
  <2> QED
    BY <2>1, <2>2, ReverseProperties, SMTT(30)
<1>3. free' \in [Class -> Seq(Nat)]
  BY <1>2 DEF StartScan
<1>4. act' = <<>> /\ DOMAIN act' = {} /\ iv' = iv /\ pc' = "scan"
  BY DEF StartScan
<1>5. TypeOK'
  <2>1. /\ IsTable(iv') /\ reg' = reg /\ i' = 1 /\ csave' = {} /\ csrm' = {}
        /\ reg \in [DOMAIN iv -> Nat \cup {NoReg}]
    BY <1>4 DEF TypeOK, StartScan
  <2>2. act' \in Seq(DOMAIN iv')
    BY <1>4
  <2>3. \A k \in DOMAIN iv' : Held(k)' => reg'[k] \in Range(Pool[iv'[k].cls])
    BY <1>1, <1>4
  <2> QED
    BY <1>2, <1>3, <1>4, <2>1, <2>2, <2>3 DEF TypeOK
<1>6. Ordered'
  <2>1. DOMAIN iv = 1 .. Len(iv) /\ Len(iv) \in Nat
    BY LenProperties DEF TypeOK, IsTable
  <2>2. \A k \in DOMAIN iv : k < i
    BY <2>1 DEF TypeOK, StartScan
  <2> QED
    BY <1>4, <2>2 DEF ScanInv, Ordered
<1>7. FreeOnce'
  BY <1>2, <1>4 DEF FreeOnce
<1> QED
  BY <1>1, <1>4, <1>5, <1>6, <1>7
     DEF ScanInv, NoClash, ScannedOnly, ActiveHold, FreeIsPast, ActiveIsLatest

\* Indices of the active list are indices of the table, scanned before i.
LEMMA ActiveScanned ==
  ASSUME TypeOK, ScanInv
  PROVE  /\ \A k \in DOMAIN act : act[k] \in DOMAIN iv /\ act[k] < i /\ Held(act[k])
         /\ DOMAIN iv = 1 .. Len(iv) /\ Len(iv) \in Nat
         /\ \A k \in DOMAIN iv :
              /\ iv[k].start \in Nat /\ iv[k].end \in Nat /\ iv[k].cls \in Class
              /\ iv[k].start <= iv[k].end
<1>1. \A k \in DOMAIN act : act[k] \in DOMAIN iv /\ Held(act[k])
  BY LenProperties, ElementOfSeq DEF TypeOK, ScanInv, ActiveHold
<1>2. DOMAIN iv = 1 .. Len(iv) /\ Len(iv) \in Nat
  BY LenProperties DEF TypeOK, IsTable
<1>3. \A k \in 1 .. Len(iv) : iv[k] \in Interval
  BY ElementOfSeq DEF TypeOK, IsTable
<1>4. \A k \in DOMAIN iv : iv[k].start <= iv[k].end
  BY DEF TypeOK, IsTable
<1> QED
  BY <1>1, <1>2, <1>3, <1>4 DEF ScanInv, ScannedOnly, Interval

\* Two active intervals of a class have different registers.
LEMMA ActiveDiffer ==
  ASSUME TypeOK, ScanInv, NEW j \in DOMAIN act, NEW k \in DOMAIN act, j # k,
         iv[act[j]].cls = iv[act[k]].cls
  PROVE  reg[act[j]] # reg[act[k]]
<1>1. act[j] # act[k] /\ act[j] \in DOMAIN iv /\ act[k] \in DOMAIN iv
  BY ActiveScanned DEF ScanInv, ActiveHold
<1>2. SUFFICES ASSUME reg[act[j]] = reg[act[k]] PROVE FALSE
  OBVIOUS
<1>3. iv[act[j]].end < iv[act[k]].start /\ iv[act[k]].end < iv[act[j]].start
  BY <1>1, <1>2 DEF ScanInv, ActiveIsLatest
<1> QED
  BY <1>1, <1>3, ActiveScanned

\* exp_old gives the register of an interval that has ended back to the
\* free stack of its class.
LEMMA ExpireStep == TypeOK /\ ScanInv /\ exp_old => TypeOK' /\ ScanInv'
<1> SUFFICES ASSUME TypeOK, ScanInv, exp_old PROVE TypeOK' /\ ScanInv'
  OBVIOUS
<1>1. PICK k \in DOMAIN act :
        Expired(k) /\ free' = Release(k) /\ act' = RemoveAt(act, k)
  BY DEF exp_old
<1> DEFINE a == act[k]
           c == iv[a].cls
<1>2. /\ pc' = pc /\ iv' = iv /\ reg' = reg /\ i' = i
      /\ csave' = csave /\ csrm' = csrm
  BY DEF exp_old
<1>3. /\ a \in DOMAIN iv /\ a < i /\ Held(a) /\ c \in Class
      /\ iv[a].end < iv[i].start /\ i \in DOMAIN iv
  BY <1>1, ActiveScanned DEF Expired, exp_old, Scanning
<1>4. reg[a] \in Nat /\ reg[a] \in Range(Pool[c]) /\ reg[a] \notin Range(free[c])
  BY <1>1, <1>3 DEF TypeOK, Held, ScanInv, FreeOnce
<1>5. /\ act' \in Seq(DOMAIN iv)
      /\ \A j \in DOMAIN act' : \E m \in DOMAIN act : m # k /\ act'[j] = act[m]
      /\ \A l, m \in DOMAIN act' : act'[l] = act'[m] => l = m
  <2>1. act \in Seq(DOMAIN iv) /\ \A l, m \in DOMAIN act : act[l] = act[m] => l = m
    BY DEF TypeOK, ScanInv, ActiveHold
  <2> DEFINE r == RemoveAt(act, k)
  <2>2. r \in Seq(DOMAIN iv)
    BY <2>1, RemoveAtProperties
  <2>3. /\ \A j \in DOMAIN r : \E m \in DOMAIN act : m # k /\ r[j] = act[m]
        /\ \A l, m \in DOMAIN r : r[l] = r[m] => l = m
    BY <2>1, RemoveAtEntries
  <2> HIDE DEF r
  <2>4. act' = r
    BY <1>1 DEF r
  <2> QED
    BY <2>2, <2>3, <2>4
<1>6. free' = free \/ free' = [free EXCEPT ![c] = Append(@, reg[a])]
  BY <1>1 DEF Release
<1>7. ASSUME NEW d \in Class
      PROVE  /\ free'[d] \in Seq(Nat)
             /\ \A r \in Range(free'[d]) :
                  r \in Range(free[d]) \/ (d = c /\ r = reg[a])
             /\ \A l, m \in DOMAIN free'[d] : free'[d][l] = free'[d][m] => l = m
  <2>1. /\ free[d] \in Seq(Nat)
        /\ \A l, m \in DOMAIN free[d] : free[d][l] = free[d][m] => l = m
    BY DEF TypeOK, ScanInv, FreeOnce
  <2>2. CASE free'[d] = free[d]
    BY <2>1, <2>2
  <2>3. CASE d = c /\ free'[d] = Append(free[d], reg[a])
    <3> DEFINE s == free[d]
               t == free'[d]
               n == Len(s)
    <3>1. s \in Seq(Nat) /\ n \in Nat /\ DOMAIN s = 1 .. n
      BY <2>1, LenProperties
    <3>2. /\ t \in Seq(Nat) /\ DOMAIN t = 1 .. (n + 1)
          /\ \A j \in 1 .. n : t[j] = s[j]
          /\ t[n + 1] = reg[a]
      BY <1>4, <2>3, <3>1, AppendProperties, LenProperties
    <3>3. \A j \in DOMAIN s : s[j] # reg[a]
      BY <1>4, <2>3 DEF Range
    <3> HIDE DEF s, t, n
    <3>4. \A l, m \in DOMAIN t : t[l] = t[m] => l = m
      BY <2>1, <3>1, <3>2, <3>3, SMTT(30) DEF s
    <3>5. \A j \in DOMAIN t : t[j] = reg[a] \/ \E m \in DOMAIN s : t[j] = s[m]
      BY <3>1, <3>2
    <3>6. \A r \in Range(free'[d]) : r \in Range(free[d]) \/ r = reg[a]
      BY <3>5 DEF s, t, Range
    <3> QED
      BY <2>3, <3>2, <3>4, <3>6 DEF t
  <2> QED
    BY <1>6, <2>2, <2>3 DEF TypeOK
<1>8. TypeOK'
  <2>1. free' \in [Class -> Seq(Nat)]
    BY <1>6, <1>7 DEF TypeOK
  <2>2. \A d \in Class : Range(free'[d]) \subseteq Range(Pool[d])
    BY <1>4, <1>7 DEF TypeOK
  <2> QED
    BY <1>2, <1>5, <2>1, <2>2 DEF TypeOK, Held
<1>9. NoClash' /\ Ordered' /\ ScannedOnly'
  BY <1>2 DEF ScanInv, NoClash, Ordered, ScannedOnly, Held, Disjoint
<1>10. ActiveHold'
  BY <1>2, <1>5 DEF ScanInv, ActiveHold, Held
<1>11. FreeOnce'
  <2>1. ASSUME NEW d \in Class, NEW j \in DOMAIN act', iv[act'[j]].cls = d
        PROVE  reg[act'[j]] \notin Range(free'[d])
    <3>1. PICK m \in DOMAIN act : m # k /\ act'[j] = act[m]
      BY <1>5
    <3>2. reg[act[m]] \notin Range(free[d])
      BY <2>1, <3>1 DEF ScanInv, FreeOnce
    <3>3. d = c => reg[act[m]] # reg[a]
      BY <2>1, <3>1, ActiveDiffer
    <3> QED
      BY <1>7, <3>1, <3>2, <3>3
  <2> QED
    BY <1>2, <1>7, <2>1 DEF FreeOnce
<1>12. FreeIsPast'
  <2>1. ASSUME NEW j \in DOMAIN iv, Held(j), reg[j] \in Range(free'[iv[j].cls])
        PROVE  iv[j].end < iv[i].start
    <3>1. CASE reg[j] \in Range(free[iv[j].cls])
      BY <1>3, <2>1, <3>1 DEF ScanInv, FreeIsPast
    <3>2. CASE iv[j].cls = c /\ reg[j] = reg[a] /\ j = a
      BY <1>3, <3>2
    <3>3. CASE iv[j].cls = c /\ reg[j] = reg[a] /\ j # a
      <4>1. iv[j].end < iv[a].start
        BY <1>1, <2>1, <3>3 DEF ScanInv, ActiveIsLatest
      <4> QED
        BY <1>3, <2>1, <4>1, ActiveScanned
    <3> QED
      BY <1>7, <2>1, <3>1, <3>2, <3>3, ActiveScanned
  <2> QED
    BY <1>2, <2>1 DEF FreeIsPast, Held
<1>13. ActiveIsLatest'
  BY <1>2, <1>5 DEF ScanInv, ActiveIsLatest
<1> QED
  BY <1>8, <1>9, <1>10, <1>11, <1>12, <1>13 DEF ScanInv

\* Recording a register in a mask keeps the masks within their width.
LEMMA RecordTypes ==
  ASSUME TypeOK, NEW r, NEW c, Record(r, c)
  PROVE  csave' \subseteq 0 .. (MaskWidth - 1) /\ csrm' \subseteq 0 .. (MaskWidth - 1)
<1> DEFINE bit == csav_bit(r, c)
<1> HIDE DEF bit
<1>1. MaskOf(r, c) \subseteq 0 .. (MaskWidth - 1)
  BY DEF MaskOf
<1> QED
  BY <1>1 DEF Record, TypeOK

\* The newcomer i with register r: if whoever holds r in the class ended
\* before i starts, no entry a keeps of the active list has r, and r is on
\* no stack, the invariant survives.  Registers may be lost on the way.
LEMMA NewcomerKeepsInv ==
  ASSUME TypeOK, ScanInv, Scanning,
         pc' = pc, iv' = iv, i' = i + 1,
         NEW r, r # NoReg, reg'[i] = r,
         \A k \in DOMAIN iv : k # i => reg'[k] = reg[k] \/ ~ Held(k)',
         NEW a, a \in Seq(DOMAIN iv), act_ins(a, i),
         \A l, m \in DOMAIN a : a[l] = a[m] => l = m,
         \A k \in DOMAIN a :
           /\ \E m \in DOMAIN act : a[k] = act[m]
           /\ reg'[a[k]] = reg[a[k]]
           /\ iv[a[k]].cls = iv[i].cls => reg[a[k]] # r,
         \A k \in DOMAIN iv :
           k # i /\ iv[k].cls = iv[i].cls /\ reg'[k] = r => iv[k].end < iv[i].start,
         r \notin Range(free'[iv[i].cls]),
         \A c \in Class :
           /\ Range(free'[c]) \subseteq Range(free[c])
           /\ \A l, m \in DOMAIN free'[c] : free'[c][l] = free'[c][m] => l = m
  PROVE  ScanInv' /\ act' \in Seq(DOMAIN iv)
<1>1. /\ i \in DOMAIN iv /\ pc = "scan"
      /\ DOMAIN iv = 1 .. Len(iv) /\ Len(iv) \in Nat
      /\ \A k \in DOMAIN iv :
           /\ iv[k].start \in Nat /\ iv[k].end \in Nat /\ iv[k].cls \in Class
           /\ iv[k].start <= iv[k].end
  BY ActiveScanned DEF Scanning
<1>2. \A k \in DOMAIN a : a[k] \in DOMAIN iv /\ a[k] # i /\ Held(a[k])
  BY ActiveScanned, <1>1
<1>3. /\ act' \in Seq(DOMAIN iv)
      /\ \A j \in DOMAIN act' : act'[j] = i \/ \E m \in DOMAIN a : act'[j] = a[m]
      /\ \A l, m \in DOMAIN act' : act'[l] = act'[m] => l = m
  <2>1. act' = a \/ \E p \in 1 .. (Len(a) + 1) : act' = InsertAt(a, p, i)
    BY DEF act_ins
  <2> DEFINE D == DOMAIN iv
             x == i
             b == act'
  <2>2. /\ a \in Seq(D) /\ x \in D
        /\ \A l, m \in DOMAIN a : a[l] = a[m] => l = m
        /\ \A m \in DOMAIN a : a[m] # x
        /\ b = a \/ \E p \in 1 .. (Len(a) + 1) : b = InsertAt(a, p, x)
    BY <1>1, <1>2, <2>1
  <2> HIDE DEF D, x, b
  <2>3. /\ b \in Seq(D)
        /\ \A j \in DOMAIN b : b[j] = x \/ \E m \in DOMAIN a : b[j] = a[m]
        /\ \A l, m \in DOMAIN b : b[l] = b[m] => l = m
    BY <2>2, ActInsEntries, SMTT(30)
  <2> QED
    BY <2>3 DEF D, x, b
<1>4. reg'[i] # NoReg /\ \A k \in DOMAIN iv : k # i /\ Held(k)' => Held(k) /\ reg'[k] = reg[k]
  BY DEF Held
<1>5. NoClash'
  <2> SUFFICES ASSUME NEW j \in DOMAIN iv, NEW k \in DOMAIN iv, j # k,
                      iv[j].cls = iv[k].cls, Held(j)', reg'[j] = reg'[k]
               PROVE  Disjoint(j, k)
    BY DEF NoClash, Disjoint
  <2>1. CASE j = i
    BY <2>1 DEF Disjoint
  <2>2. CASE k = i
    BY <2>2 DEF Disjoint
  <2>3. CASE j # i /\ k # i
    <3>1. Held(k)'
      BY DEF Held
    <3>2. Held(j) /\ reg'[j] = reg[j] /\ reg'[k] = reg[k]
      BY <1>4, <2>3, <3>1
    <3> QED
      BY <3>2 DEF ScanInv, NoClash
  <2> QED
    BY <2>1, <2>2, <2>3
<1>6. Ordered'
  BY <1>1 DEF ScanInv, Ordered
<1>7. ScannedOnly'
  <2>1. ASSUME NEW k \in DOMAIN iv, Held(k)' PROVE k < i + 1
    <3>1. CASE k = i
      BY <1>1, <3>1
    <3>2. CASE k # i
      <4>1. k < i
        BY <1>4, <2>1, <3>2 DEF ScanInv, ScannedOnly
      <4> QED
        BY <1>1, <4>1
    <3> QED
      BY <3>1, <3>2
  <2> QED
    BY <1>1, <2>1 DEF ScannedOnly
<1>8. ActiveHold'
  <2>1. ASSUME NEW k \in DOMAIN act' PROVE reg'[act'[k]] # NoReg
    <3>1. CASE act'[k] = i
      BY <1>4, <3>1
    <3>2. ASSUME NEW m \in DOMAIN a, act'[k] = a[m] PROVE reg'[act'[k]] # NoReg
      BY <1>2, <3>2 DEF Held
    <3> QED
      BY <1>3, <3>1, <3>2
  <2> QED
    BY <1>3, <2>1 DEF ActiveHold, Held
<1>9. FreeOnce'
  <2>1. ASSUME NEW c \in Class, NEW k \in DOMAIN act', iv[act'[k]].cls = c
        PROVE  reg'[act'[k]] \notin Range(free'[c])
    <3>1. CASE act'[k] = i
      BY <2>1, <3>1
    <3>2. ASSUME NEW m \in DOMAIN a, act'[k] = a[m]
          PROVE  reg'[act'[k]] \notin Range(free'[c])
      <4>1. PICK n \in DOMAIN act : a[m] = act[n]
        OBVIOUS
      <4>2. reg[act[n]] \notin Range(free[c])
        BY <2>1, <3>2, <4>1 DEF ScanInv, FreeOnce
      <4> QED
        BY <3>2, <4>1, <4>2
    <3> QED
      BY <1>3, <3>1, <3>2
  <2> QED
    BY <2>1 DEF FreeOnce
<1>10. FreeIsPast'
  <2>1. ASSUME NEW k \in DOMAIN iv, Held(k)', i + 1 \in DOMAIN iv,
               reg'[k] \in Range(free'[iv[k].cls])
        PROVE  iv[k].end < iv[i + 1].start
    <3>1. k # i
      BY <2>1
    <3>2. Held(k) /\ reg[k] \in Range(free[iv[k].cls])
      BY <1>1, <1>4, <2>1, <3>1
    <3>3. iv[k].end < iv[i].start
      BY <1>1, <3>2 DEF ScanInv, FreeIsPast
    <3>4. iv[i].start <= iv[i + 1].start
      BY <1>1, <2>1 DEF ScanInv, Ordered
    <3> QED
      BY <1>1, <2>1, <3>3, <3>4
  <2> QED
    BY <2>1 DEF FreeIsPast
<1>11. ActiveIsLatest'
  <2> SUFFICES ASSUME NEW k \in DOMAIN act', NEW j \in DOMAIN iv, j # act'[k],
                      iv[j].cls = iv[act'[k]].cls, reg'[j] = reg'[act'[k]]
               PROVE  iv[j].end < iv[act'[k]].start
    BY DEF ActiveIsLatest
  <2>1. CASE act'[k] = i
    BY <2>1
  <2>2. ASSUME NEW m \in DOMAIN a, act'[k] = a[m]
        PROVE  iv[j].end < iv[act'[k]].start
    <3>1. PICK n \in DOMAIN act : a[m] = act[n]
      OBVIOUS
    <3>2. reg'[j] = reg[a[m]] /\ Held(a[m])
      BY <1>2, <2>2
    <3>3. j # i
      BY <2>2, <3>2
    <3>4. reg[j] = reg[act[n]]
      BY <1>4, <3>1, <3>2, <3>3 DEF Held
    <3> QED
      BY <2>2, <3>1, <3>4 DEF ScanInv, ActiveIsLatest
  <2> QED
    BY <1>3, <2>1, <2>2
<1> QED
  BY <1>3, <1>5, <1>6, <1>7, <1>8, <1>9, <1>10, <1>11 DEF ScanInv

\* A register popped from its free stack has no holder left but in the past.
LEMMA TakeFreeStep == TypeOK /\ ScanInv /\ TakeFree => TypeOK' /\ ScanInv'
<1> SUFFICES ASSUME TypeOK, ScanInv, TakeFree PROVE TypeOK' /\ ScanInv'
  OBVIOUS
<1> DEFINE c == iv[i].cls
           s == free[c]
           r == Last(s)
<1>1. /\ Scanning /\ pc' = pc /\ iv' = iv /\ i' = i + 1
      /\ reg' = [reg EXCEPT ![i] = r]
      /\ free' = [free EXCEPT ![c] = Front(s)]
      /\ s # <<>> /\ act_ins(act, i) /\ Record(r, c)
  BY DEF TakeFree, AllLive, cls_i
<1>2. i \in DOMAIN iv /\ c \in Class
  BY <1>1, ActiveScanned DEF Scanning
<1>3. /\ s \in Seq(Nat)
      /\ \A l, m \in DOMAIN s : s[l] = s[m] => l = m
      /\ Range(s) \subseteq Range(Pool[c])
  BY <1>2 DEF TypeOK, ScanInv, FreeOnce
<1>4. /\ Len(s) \in DOMAIN s /\ r = s[Len(s)]
      /\ Front(s) \in Seq(Nat) /\ Len(Front(s)) = Len(s) - 1
      /\ \A j \in 1 .. (Len(s) - 1) : Front(s)[j] = s[j]
      /\ DOMAIN s = 1 .. Len(s) /\ Len(s) \in Nat
      /\ DOMAIN Front(s) = 1 .. (Len(s) - 1)
  BY <1>1, <1>3, FrontProperties, LenProperties, SMTT(30)
<1>5. r \in Nat /\ r # NoReg /\ r \in Range(s) /\ r \in Range(Pool[c])
  <2>1. r \in Nat
    BY <1>3, <1>4, ElementOfSeq
  <2> HIDE DEF r, s
  <2>2. r \in Range(s)
    BY <1>4 DEF Range
  <2> QED
    BY <1>3, <2>1, <2>2 DEF NoReg
<1>6. /\ Range(Front(s)) \subseteq Range(s)
      /\ r \notin Range(Front(s))
      /\ \A l, m \in DOMAIN Front(s) : Front(s)[l] = Front(s)[m] => l = m
  <2> DEFINE t == Front(s)
  <2> HIDE DEF r, s, t
  <2>1. \A j \in DOMAIN t : t[j] = s[j] /\ j \in DOMAIN s /\ j # Len(s)
    BY <1>4 DEF t
  <2>2. \A j \in DOMAIN t : t[j] # r
    BY <1>3, <1>4, <2>1
  <2> QED
    BY <1>3, <2>1, <2>2 DEF Range, t
<1> HIDE DEF r, s, c
<1>7. free'[c] = Front(s) /\ \A d \in Class : d # c => free'[d] = free[d]
  BY <1>1, <1>2 DEF TypeOK
<1>8. reg'[i] = r /\ \A k \in DOMAIN iv : k # i => reg'[k] = reg[k]
  BY <1>1, <1>2 DEF TypeOK
<1>9. ScanInv' /\ act' \in Seq(DOMAIN iv)
  <2>1. act \in Seq(DOMAIN iv) /\ \A l, m \in DOMAIN act : act[l] = act[m] => l = m
    BY DEF TypeOK, ScanInv, ActiveHold
  <2>2. ASSUME NEW k \in DOMAIN act
        PROVE  /\ \E m \in DOMAIN act : act[k] = act[m]
               /\ reg'[act[k]] = reg[act[k]]
               /\ iv[act[k]].cls = iv[i].cls => reg[act[k]] # r
    <3>1. act[k] \in DOMAIN iv /\ act[k] # i
      BY <1>2, ActiveScanned
    <3> QED
      BY <1>2, <1>5, <1>8, <3>1 DEF ScanInv, FreeOnce, c, s
  <2>3. ASSUME NEW k \in DOMAIN iv, k # i, iv[k].cls = iv[i].cls, reg'[k] = r
        PROVE  iv[k].end < iv[i].start
    <3>1. reg[k] = r /\ Held(k)
      BY <1>5, <1>8, <2>3 DEF Held
    <3> QED
      BY <1>2, <1>5, <2>3, <3>1 DEF ScanInv, FreeIsPast, c, s
  <2>4. r \notin Range(free'[iv[i].cls])
    BY <1>6, <1>7 DEF c
  <2>5. \A d \in Class :
          /\ Range(free'[d]) \subseteq Range(free[d])
          /\ \A l, m \in DOMAIN free'[d] : free'[d][l] = free'[d][m] => l = m
    BY <1>6, <1>7 DEF ScanInv, FreeOnce, s
  <2> QED
    BY <1>1, <1>5, <1>8, <2>1, <2>2, <2>3, <2>4, <2>5, NewcomerKeepsInv
<1>10. TypeOK'
  <2>1. free' \in [Class -> Seq(Nat)] /\ \A d \in Class : Range(free'[d]) \subseteq Range(Pool[d])
    BY <1>1, <1>2, <1>3, <1>4, <1>6, <1>7 DEF TypeOK
  <2>2. reg' \in [DOMAIN iv -> Nat \cup {NoReg}]
    BY <1>1, <1>2, <1>5 DEF TypeOK
  <2>3. \A k \in DOMAIN iv : Held(k)' => reg'[k] \in Range(Pool[iv[k].cls])
    BY <1>5, <1>8 DEF TypeOK, Held, c
  <2>4. csave' \subseteq 0 .. (MaskWidth - 1) /\ csrm' \subseteq 0 .. (MaskWidth - 1)
    BY <1>1, RecordTypes
  <2>5. i' \in Nat \ {0}
    BY <1>1 DEF TypeOK
  <2> QED
    BY <1>1, <1>9, <2>1, <2>2, <2>3, <2>4, <2>5 DEF TypeOK
<1> QED
  BY <1>9, <1>10

\* A spill moves the register of the furthest active interval to the
\* newcomer, or leaves the newcomer without.
LEMMA SpillStep == TypeOK /\ ScanInv /\ spl_at => TypeOK' /\ ScanInv'
<1> SUFFICES ASSUME TypeOK, ScanInv, spl_at PROVE TypeOK' /\ ScanInv'
  OBVIOUS
<1>1. Scanning /\ pc' = pc /\ iv' = iv /\ i' = i + 1 /\ free' = free
  BY DEF spl_at, AllLive
<1>2. /\ i \in DOMAIN iv /\ i \in Nat \ {0}
      /\ DOMAIN iv = 1 .. Len(iv) /\ Len(iv) \in Nat
      /\ \A k \in DOMAIN iv :
           /\ iv[k].start \in Nat /\ iv[k].end \in Nat /\ iv[k].cls \in Class
           /\ iv[k].start <= iv[k].end
  BY <1>1, ActiveScanned DEF Scanning, TypeOK
<1>3. CASE SpillCurrent
  <2>1. reg' = reg /\ act' = act /\ csave' = csave /\ csrm' = csrm
    BY <1>3 DEF SpillCurrent
  <2>2. TypeOK'
    BY <1>1, <1>2, <2>1 DEF TypeOK, Held
  <2>3. NoClash' /\ Ordered' /\ ActiveHold' /\ FreeOnce' /\ ActiveIsLatest'
    BY <1>1, <2>1 DEF ScanInv, NoClash, Disjoint, Held, Ordered, Scanning,
                      ActiveHold, FreeOnce, ActiveIsLatest
  <2>4. ScannedOnly'
    BY <1>1, <1>2, <2>1 DEF ScanInv, ScannedOnly, Held
  <2>5. FreeIsPast'
    <3>1. ASSUME NEW k \in DOMAIN iv, Held(k), i + 1 \in DOMAIN iv,
                 reg[k] \in Range(free[iv[k].cls])
          PROVE  iv[k].end < iv[i + 1].start
      <4>1. iv[k].end < iv[i].start
        BY <1>2, <3>1 DEF ScanInv, FreeIsPast
      <4>2. iv[i].start <= iv[i + 1].start
        BY <1>1, <1>2, <3>1 DEF ScanInv, Ordered, Scanning
      <4> QED
        BY <1>2, <3>1, <4>1, <4>2
    <3> QED
      BY <1>1, <2>1, <3>1 DEF FreeIsPast, Held
  <2> QED
    BY <2>2, <2>3, <2>4, <2>5 DEF ScanInv
<1>4. CASE \E k \in DOMAIN act : StealFrom(k)
  <2>1. PICK n \in DOMAIN act : StealFrom(n)
    BY <1>4
  <2> DEFINE v == act[n]
             r == reg[v]
             a == RemoveAt(act, n)
  <2>2. /\ iv[v].cls = iv[i].cls
        /\ reg' = [reg EXCEPT ![i] = r, ![v] = NoReg]
        /\ act_ins(a, i) /\ Record(r, iv[i].cls)
    BY <2>1 DEF StealFrom, Victim, SameClass, cls_i
  <2>3. /\ v \in DOMAIN iv /\ v # i /\ v < i
        /\ r \in Nat /\ r # NoReg /\ r \in Range(Pool[iv[i].cls])
    BY <1>2, <2>1, <2>2, ActiveScanned DEF TypeOK, Held
  <2>4. act \in Seq(DOMAIN iv) /\ \A l, m \in DOMAIN act : act[l] = act[m] => l = m
    BY DEF TypeOK, ScanInv, ActiveHold
  <2>5. a \in Seq(DOMAIN iv)
    BY <2>4, RemoveAtProperties
  <2>6. /\ \A j \in DOMAIN a : \E m \in DOMAIN act : m # n /\ a[j] = act[m]
        /\ \A l, m \in DOMAIN a : a[l] = a[m] => l = m
    BY <2>4, RemoveAtEntries
  <2> HIDE DEF a
  <2>7. /\ reg'[i] = r /\ reg'[v] = NoReg
        /\ \A k \in DOMAIN iv : k # i /\ k # v => reg'[k] = reg[k]
    BY <1>2, <2>2, <2>3 DEF TypeOK
  <2>8. ScanInv' /\ act' \in Seq(DOMAIN iv)
    <3>1. ASSUME NEW k \in DOMAIN a
          PROVE  /\ \E m \in DOMAIN act : a[k] = act[m]
                 /\ reg'[a[k]] = reg[a[k]]
                 /\ iv[a[k]].cls = iv[i].cls => reg[a[k]] # r
      <4>1. PICK m \in DOMAIN act : m # n /\ a[k] = act[m]
        BY <2>6
      <4>2. act[m] \in DOMAIN iv /\ act[m] # i /\ act[m] # v
        BY <1>2, <2>4, <4>1, ActiveScanned
      <4>3. iv[act[m]].cls = iv[i].cls => reg[act[m]] # r
        BY <2>2, <4>1, ActiveDiffer
      <4> QED
        BY <2>7, <4>1, <4>2, <4>3
    <3>2. ASSUME NEW k \in DOMAIN iv, k # i, iv[k].cls = iv[i].cls, reg'[k] = r
          PROVE  iv[k].end < iv[i].start
      <4>1. k # v /\ reg[k] = r
        BY <2>3, <2>7, <3>2
      <4>2. iv[k].end < iv[v].start
        BY <2>2, <3>2, <4>1 DEF ScanInv, ActiveIsLatest
      <4>3. iv[v].start <= iv[i].start
        BY <1>1, <1>2, <2>3 DEF ScanInv, Ordered, Scanning
      <4> QED
        BY <1>2, <2>3, <3>2, <4>2, <4>3
    <3>3. r \notin Range(free'[iv[i].cls])
      BY <1>1, <1>2, <2>2 DEF ScanInv, FreeOnce
    <3>4. \A d \in Class :
            /\ Range(free'[d]) \subseteq Range(free[d])
            /\ \A l, m \in DOMAIN free'[d] : free'[d][l] = free'[d][m] => l = m
      BY <1>1 DEF ScanInv, FreeOnce
    <3>5. \A k \in DOMAIN iv : k # i => reg'[k] = reg[k] \/ ~ Held(k)'
      BY <2>7 DEF Held
    <3> HIDE DEF r, v
    <3> QED
      BY <1>1, <2>2, <2>3, <2>5, <2>6, <2>7, <3>1, <3>2, <3>3, <3>4, <3>5,
         NewcomerKeepsInv
  <2>9. TypeOK'
    <3>1. reg' \in [DOMAIN iv -> Nat \cup {NoReg}]
      BY <2>2, <2>3 DEF TypeOK
    <3>2. \A k \in DOMAIN iv : Held(k)' => reg'[k] \in Range(Pool[iv[k].cls])
      BY <2>3, <2>7 DEF TypeOK, Held
    <3>3. csave' \subseteq 0 .. (MaskWidth - 1) /\ csrm' \subseteq 0 .. (MaskWidth - 1)
      BY <2>2, RecordTypes
    <3>4. i' \in Nat \ {0}
      BY <1>1, <1>2
    <3> QED
      BY <1>1, <2>8, <3>1, <3>2, <3>3, <3>4 DEF TypeOK
  <2> QED
    BY <2>8, <2>9
<1> QED
  BY <1>3, <1>4 DEF spl_at

\* The last step only marks the end.
LEMMA FinishStep == TypeOK /\ ScanInv /\ Finish => TypeOK' /\ ScanInv'
<1> SUFFICES ASSUME TypeOK, ScanInv, Finish PROVE TypeOK' /\ ScanInv'
  OBVIOUS
<1>1. /\ pc = "scan" /\ pc' = "done" /\ iv' = iv /\ reg' = reg /\ i' = i
      /\ act' = act /\ free' = free /\ csave' = csave /\ csrm' = csrm
  BY DEF Finish
<1>2. TypeOK'
  BY <1>1 DEF TypeOK, Held
<1>3. NoClash' /\ Ordered' /\ ScannedOnly' /\ ActiveHold'
  BY <1>1 DEF ScanInv, NoClash, Disjoint, Held, Ordered, ScannedOnly, ActiveHold
<1>4. FreeOnce' /\ FreeIsPast' /\ ActiveIsLatest'
  BY <1>1 DEF ScanInv, FreeOnce, FreeIsPast, ActiveIsLatest, Held
<1> QED
  BY <1>2, <1>3, <1>4 DEF ScanInv

LEMMA StepInv == TypeOK /\ ScanInv /\ [Next]_vars => TypeOK' /\ ScanInv'
<1> SUFFICES ASSUME TypeOK, ScanInv, [Next]_vars PROVE TypeOK' /\ ScanInv'
  OBVIOUS
<1>1. CASE srt_iv
  BY <1>1, SortStep
<1>2. CASE StartScan
  BY <1>2, StartStep
<1>3. CASE exp_old
  BY <1>3, ExpireStep
<1>4. CASE TakeFree
  BY <1>4, TakeFreeStep
<1>5. CASE spl_at
  BY <1>5, SpillStep
<1>6. CASE Finish
  BY <1>6, FinishStep
<1>7. CASE UNCHANGED vars
  <2>1. TypeOK'
    BY <1>7 DEF TypeOK, Held, vars
  <2>2. NoClash' /\ Ordered' /\ ScannedOnly' /\ ActiveHold'
    BY <1>7 DEF ScanInv, NoClash, Disjoint, Held, Ordered, ScannedOnly, ActiveHold, vars
  <2>3. FreeOnce' /\ FreeIsPast' /\ ActiveIsLatest'
    BY <1>7 DEF ScanInv, FreeOnce, FreeIsPast, ActiveIsLatest, Held, vars
  <2> QED
    BY <2>1, <2>2, <2>3 DEF ScanInv
<1> QED
  BY <1>1, <1>2, <1>3, <1>4, <1>5, <1>6, <1>7 DEF Next

---------------------------------------------------------------------------
(* The theorems.                                                           *)

\* The allocator's variables keep their types whatever the table: registers
\* come from the pool of their class, and g_act holds indices of g_iv.
THEOREM TypeCorrect == Spec => []TypeOK
<1>1. Init => TypeOK /\ ScanInv
  BY InitInv
<1>2. TypeOK /\ ScanInv /\ [Next]_vars => (TypeOK /\ ScanInv)'
  BY StepInv
<1> QED
  BY <1>1, <1>2, PTL DEF Spec

\* The strengthened invariant of sort and scan.
THEOREM ScanInvariant == Spec => []ScanInv
<1>1. Init => TypeOK /\ ScanInv
  BY InitInv
<1>2. TypeOK /\ ScanInv /\ [Next]_vars => (TypeOK /\ ScanInv)'
  BY StepInv
<1> QED
  BY <1>1, <1>2, PTL DEF Spec

\* x86_ra and rv_ra never put two values that are live together in one
\* register, whatever the table, the pools and the room in the active list.
THEOREM NoTwoInOneRegister == Spec => []NoClash
<1>1. ScanInv => NoClash
  BY DEF ScanInv
<1> QED
  BY <1>1, ScanInvariant, PTL

---------------------------------------------------------------------------
(* Every step of the allocator is a step of the abstract allocator RegAlloc *)
(* or leaves the assignment of registers as it is.  Progress (the fairness   *)
(* of RegAlloc!Spec) is left to TLC.                                         *)

Ids == {e.iidx : e \in Entries}

\* The abstract state, entry by entry: rmap has the register of the entry.
ByEntry ==
  /\ rmap = [id \in Ids |-> rmap[id]]
  /\ \A k \in DOMAIN iv :
       /\ iv[k] \in Entries /\ iv[k].iidx \in Ids
       /\ rmap[iv[k].iidx] = reg[k]
  /\ \A id \in Ids : \E k \in DOMAIN iv : iv[k].iidx = id
  /\ \A e \in Entries : \E k \in DOMAIN iv : e = iv[k]
  /\ \A j, k \in DOMAIN iv : iv[j].iidx = iv[k].iidx => j = k

LEMMA AbstractState == TypeOK => ByEntry
<1> SUFFICES ASSUME TypeOK PROVE ByEntry
  OBVIOUS
<1>1. \A j, k \in DOMAIN iv : iv[j].iidx = iv[k].iidx => j = k
  BY DEF TypeOK, IsTable
<1>2. /\ \A k \in DOMAIN iv : iv[k] \in Entries /\ iv[k].iidx \in Ids
      /\ \A e \in Entries : \E k \in DOMAIN iv : e = iv[k]
      /\ \A id \in Ids : \E k \in DOMAIN iv : iv[k].iidx = id
  BY DEF Entries, Ids
<1>3. \A k \in DOMAIN iv : IndexOf(iv[k].iidx) = k
  BY <1>1 DEF IndexOf
<1>4. \A k \in DOMAIN iv : rmap[iv[k].iidx] = reg[k]
  BY <1>2, <1>3 DEF rmap, Ids
<1> QED
  BY <1>1, <1>2, <1>4 DEF ByEntry, rmap, Ids

\* Registers that do not clash in the table do not clash in the abstract
\* assignment.
LEMMA AbstractConflictFree ==
  TypeOK /\ ScanInv => Promise!ConflictFree(Entries, rmap)
<1> SUFFICES ASSUME TypeOK, ScanInv, NEW a \in Entries, NEW b \in Entries,
                    a # b, a.cls = b.cls, rmap[a.iidx] = rmap[b.iidx],
                    rmap[a.iidx] # NoReg
             PROVE  ~ Promise!Overlap(a, b)
  BY DEF Promise!ConflictFree
<1>1. PICK j \in DOMAIN iv, k \in DOMAIN iv : a = iv[j] /\ b = iv[k]
  BY AbstractState DEF ByEntry
<1>2. j # k /\ Held(j) /\ reg[j] = reg[k]
  BY <1>1, AbstractState DEF ByEntry, Held
<1>3. iv[j].end < iv[k].start \/ iv[k].end < iv[j].start
  BY <1>1, <1>2 DEF ScanInv, NoClash, Disjoint
<1>4. /\ a.start \in Nat /\ a.end \in Nat /\ b.start \in Nat /\ b.end \in Nat
  BY <1>1, ActiveScanned
<1> QED
  BY <1>1, <1>3, <1>4 DEF Promise!Overlap

LEMMA InitMaps == Init => Promise!Init
<1> SUFFICES ASSUME Init PROVE Promise!Init
  OBVIOUS
<1>1. TypeOK /\ ScanInv
  BY InitInv
<1>2. \A k \in DOMAIN iv : reg[k] = NoReg
  BY DEF Init
<1>3. rmap = [id \in Ids |-> NoReg]
  BY <1>1, <1>2, AbstractState DEF ByEntry
<1>4. \A a \in Entries : a.start <= a.end /\ a.cls \in Class
  BY <1>1, ActiveScanned, AbstractState DEF ByEntry
<1>5. \A a, b \in Entries : a.iidx = b.iidx => a = b
  BY <1>1, AbstractState DEF ByEntry
<1>6. Unplaced = Ids
  BY DEF Unplaced, Init, Ids
<1>7. Promise!Ids(Entries) = Ids
  BY DEF Promise!Ids, Ids
<1> QED
  BY <1>3, <1>4, <1>5, <1>6, <1>7 DEF Promise!Init

---------------------------------------------------------------------------
(* The steps.                                                              *)

\* What srt_iv moves about is the same set of intervals.
LEMMA SortSameEntries ==
  ASSUME TypeOK, ScanInv, srt_iv
  PROVE  Entries' = Entries /\ DOMAIN iv' = DOMAIN iv
<1>1. PICK q \in 0 .. (i - 1) :
        iv' = [k \in DOMAIN iv |->
                 IF k <= q \/ k > i THEN iv[k]
                 ELSE IF k = q + 1 THEN iv[i] ELSE iv[k - 1]]
  BY DEF srt_iv
<1>2. i \in DOMAIN iv /\ DOMAIN iv = 1 .. Len(iv) /\ Len(iv) \in Nat /\ i \in Nat
  BY ActiveScanned DEF srt_iv, TypeOK
<1> DEFINE from(k) == IF k <= q \/ k > i THEN k ELSE IF k = q + 1 THEN i ELSE k - 1
           to(k) == IF k <= q \/ k > i THEN k ELSE IF k = i THEN q + 1 ELSE k + 1
<1>3. DOMAIN iv' = DOMAIN iv /\ \A k \in DOMAIN iv : iv'[k] = iv[from(k)]
  BY <1>1
<1>4. \A k \in DOMAIN iv : from(k) \in DOMAIN iv
  BY <1>1, <1>2
<1>5. \A k \in DOMAIN iv : to(k) \in DOMAIN iv /\ from(to(k)) = k
  BY <1>1, <1>2
<1> HIDE DEF from, to
<1>6. Entries' = {iv'[k] : k \in DOMAIN iv}
  BY <1>3 DEF Entries
<1> QED
  BY <1>3, <1>4, <1>5, <1>6 DEF Entries

\* While no interval has a register every table is the same assignment.
LEMMA NothingPlaced ==
  ASSUME TypeOK, TypeOK', Entries' = Entries,
         \A k \in DOMAIN iv : reg[k] = NoReg,
         \A k \in DOMAIN iv' : reg'[k] = NoReg
  PROVE  rmap' = rmap
<1>1. ByEntry /\ ByEntry'
  <2>1. (TypeOK => ByEntry)'
    BY AbstractState, PTL
  <2> QED
    BY <2>1, AbstractState
<1>2. Ids' = Ids
  BY DEF Ids
<1>3. ASSUME NEW id \in Ids PROVE rmap'[id] = rmap[id]
  BY <1>1, <1>2 DEF ByEntry
<1>4. rmap = [id \in Ids |-> rmap[id]] /\ rmap' = [id \in Ids |-> rmap'[id]]
  BY <1>1, <1>2 DEF ByEntry
<1> QED
  BY <1>3, <1>4

\* ra_scan goes on to the next interval: the current one is placed, and the
\* assignment is free of conflicts because the invariant holds afterwards.
LEMMA Placing ==
  ASSUME TypeOK, ScanInv, TypeOK', ScanInv', Scanning,
         pc' = pc, iv' = iv, i' = i + 1
  PROVE  Promise!Place(iv[i])
<1>1. pc = "scan" /\ i \in DOMAIN iv /\ DOMAIN iv \subseteq Nat /\ Entries' = Entries
  BY ActiveScanned DEF Scanning, Entries
<1>2. ByEntry
  BY AbstractState
<1>3. /\ Unplaced = {iv[k].iidx : k \in {j \in DOMAIN iv : j >= i}}
      /\ Unplaced' = {iv[k].iidx : k \in {j \in DOMAIN iv : j >= i + 1}}
  BY <1>1 DEF Unplaced
<1>4. iv[i].iidx \in Unplaced /\ Unplaced' = Unplaced \ {iv[i].iidx}
  BY <1>1, <1>2, <1>3 DEF ByEntry
<1>5. Promise!ConflictFree(Entries, rmap')
  <2>1. (TypeOK /\ ScanInv => Promise!ConflictFree(Entries, rmap))'
    BY AbstractConflictFree, PTL
  <2> QED
    BY <1>1, <2>1
<1> QED
  BY <1>1, <1>4, <1>5 DEF Promise!Place

\* The table of registers changes where the assignment does.
LEMMA SameChange ==
  ASSUME TypeOK, TypeOK', iv' = iv
  PROVE  /\ \A k \in DOMAIN iv : \A r :
              reg' = [reg EXCEPT ![k] = r]
              => rmap' = [rmap EXCEPT ![iv[k].iidx] = r]
         /\ \A j, k \in DOMAIN iv :
              (\A m \in DOMAIN iv : m # j /\ m # k => reg'[m] = reg[m])
              => rmap' = [rmap EXCEPT ![iv[j].iidx] = reg'[j],
                                      ![iv[k].iidx] = reg'[k]]
         /\ reg' = reg => rmap' = rmap
<1>1. ByEntry /\ ByEntry'
  <2>1. (TypeOK => ByEntry)'
    BY AbstractState, PTL
  <2> QED
    BY <2>1, AbstractState
<1>2. Ids' = Ids
  BY DEF Ids, Entries
<1>3. /\ rmap = [id \in Ids |-> rmap[id]] /\ rmap' = [id \in Ids |-> rmap'[id]]
      /\ \A k \in DOMAIN iv : rmap[iv[k].iidx] = reg[k] /\ rmap'[iv[k].iidx] = reg'[k]
      /\ \A id \in Ids : \E k \in DOMAIN iv : iv[k].iidx = id
      /\ \A j, k \in DOMAIN iv : iv[j].iidx = iv[k].iidx => j = k
      /\ DOMAIN reg = DOMAIN iv
  BY <1>1, <1>2 DEF ByEntry, TypeOK
<1>4. ASSUME NEW j \in DOMAIN iv, NEW k \in DOMAIN iv,
             \A m \in DOMAIN iv : m # j /\ m # k => reg'[m] = reg[m]
      PROVE  rmap' = [rmap EXCEPT ![iv[j].iidx] = reg'[j], ![iv[k].iidx] = reg'[k]]
  <2> DEFINE g == [rmap EXCEPT ![iv[j].iidx] = reg'[j], ![iv[k].iidx] = reg'[k]]
  <2>1. \A m \in DOMAIN iv : rmap'[iv[m].iidx] = g[iv[m].iidx]
    BY <1>1, <1>3, <1>4 DEF ByEntry
  <2>2. g = [id \in Ids |-> g[id]]
    BY <1>3
  <2> HIDE DEF g
  <2>3. \A id \in Ids : rmap'[id] = g[id]
    BY <1>3, <2>1
  <2>4. rmap' = g
    BY <1>3, <2>2, <2>3
  <2> QED
    BY <2>4 DEF g
<1>5. ASSUME NEW k \in DOMAIN iv, NEW r, reg' = [reg EXCEPT ![k] = r]
      PROVE  rmap' = [rmap EXCEPT ![iv[k].iidx] = r]
  <2>1. \A m \in DOMAIN iv :
          rmap'[iv[m].iidx] = [rmap EXCEPT ![iv[k].iidx] = r][iv[m].iidx]
    BY <1>1, <1>3, <1>5 DEF ByEntry
  <2> QED
    BY <1>3, <2>1
<1>6. ASSUME reg' = reg PROVE rmap' = rmap
  BY <1>3, <1>6
<1> QED
  BY <1>4, <1>5, <1>6

\* Sorting, starting, expiring and finishing leave the assignment as it is.
LEMMA StutterSteps ==
  ASSUME TypeOK, ScanInv, TypeOK', ScanInv',
         srt_iv \/ StartScan \/ exp_old \/ Finish
  PROVE  UNCHANGED Promise!vars
<1>1. CASE srt_iv
  <2>1. Entries' = Entries /\ DOMAIN iv' = DOMAIN iv /\ pc' = pc /\ pc = "sort"
    BY <1>1, SortSameEntries DEF srt_iv
  <2>2. /\ \A k \in DOMAIN iv : reg[k] = NoReg
        /\ \A k \in DOMAIN iv' : reg'[k] = NoReg
    BY <2>1 DEF ScanInv, ScannedOnly, Held
  <2>3. rmap' = rmap
    BY <2>1, <2>2, NothingPlaced
  <2>4. Unplaced' = Unplaced
    BY <2>1 DEF Unplaced
  <2> QED
    BY <2>1, <2>3, <2>4 DEF Promise!vars
<1>2. CASE StartScan
  <2>1. iv' = iv /\ reg' = reg /\ pc = "sort" /\ pc' = "scan" /\ i' = 1
    BY <1>2 DEF StartScan
  <2>2. rmap' = rmap /\ Entries' = Entries
    BY <2>1, SameChange DEF Entries
  <2>3. Unplaced = {iv[k].iidx : k \in DOMAIN iv}
    BY <2>1 DEF Unplaced, Entries
  <2>4. Unplaced' = {iv[k].iidx : k \in DOMAIN iv}
    <3>1. \A j \in DOMAIN iv : j >= 1
      BY ActiveScanned
    <3> QED
      BY <2>1, <3>1 DEF Unplaced
  <2> QED
    BY <2>2, <2>3, <2>4 DEF Promise!vars
<1>3. CASE exp_old \/ Finish
  <2>1. /\ iv' = iv /\ reg' = reg /\ i' = i
        /\ pc = "scan" /\ pc' \in {"scan", "done"}
    BY <1>3 DEF exp_old, Finish, Scanning
  <2>2. rmap' = rmap /\ Entries' = Entries
    BY <2>1, SameChange DEF Entries
  <2>3. Unplaced' = Unplaced
    BY <2>1 DEF Unplaced
  <2> QED
    BY <2>2, <2>3 DEF Promise!vars
<1> QED
  BY <1>1, <1>2, <1>3

\* A register from the stack of free ones settles the interval.
LEMMA TakeFreeSettles ==
  ASSUME TypeOK, ScanInv, TypeOK', ScanInv', TakeFree
  PROVE  Promise!Next
<1> DEFINE c == iv[i].cls
           s == free[c]
           r == Last(s)
<1>1. /\ Scanning /\ i \in DOMAIN iv /\ c \in Class /\ s # <<>>
      /\ pc' = pc /\ iv' = iv /\ i' = i + 1 /\ reg' = [reg EXCEPT ![i] = r]
  BY ActiveScanned DEF TakeFree, AllLive, Scanning, cls_i
<1>2. r \in Range(Pool[c])
  <2>1. s \in Seq(Nat) /\ s # <<>> /\ Range(s) \subseteq Range(Pool[c])
    BY <1>1 DEF TypeOK
  <2> HIDE DEF s
  <2>2. r = s[Len(s)] /\ Len(s) \in DOMAIN s
    BY <2>1, FrontProperties
  <2> QED
    BY <2>1, <2>2 DEF Range
<1>3. Promise!Place(iv[i]) /\ iv[i] \in Entries
  BY <1>1, Placing DEF Entries
<1> HIDE DEF r
<1>4. rmap' = [rmap EXCEPT ![iv[i].iidx] = r]
  BY <1>1, SameChange
<1>5. r \in [d \in Class |-> Range(Pool[d])][iv[i].cls]
  BY <1>1, <1>2
<1>6. Promise!Settle(iv[i])
  BY <1>3, <1>4, <1>5 DEF Promise!Settle
<1> QED
  BY <1>3, <1>6 DEF Promise!Next

\* spl_at settles the interval on the stack or evicts the victim.
LEMMA SpillSettlesOrEvicts ==
  ASSUME TypeOK, ScanInv, TypeOK', ScanInv', spl_at
  PROVE  Promise!Next
<1>1. /\ Scanning /\ i \in DOMAIN iv /\ pc = "scan"
      /\ pc' = pc /\ iv' = iv /\ i' = i + 1
      /\ SpillCurrent \/ \E k \in DOMAIN act : StealFrom(k)
  BY DEF spl_at, AllLive, Scanning
<1>2. Promise!Place(iv[i]) /\ iv[i] \in Entries
  BY <1>1, Placing DEF Entries
<1>3. CASE SpillCurrent
  <2>1. reg' = [reg EXCEPT ![i] = NoReg]
    <3>1. reg' = reg /\ ~ Held(i)
      BY <1>1, <1>3 DEF SpillCurrent, ScanInv, ScannedOnly, TypeOK
    <3> QED
      BY <1>1, <3>1 DEF Held, TypeOK
  <2>2. rmap' = [rmap EXCEPT ![iv[i].iidx] = NoReg]
    BY <1>1, <2>1, SameChange
  <2>3. Promise!Settle(iv[i])
    BY <1>2, <2>2 DEF Promise!Settle
  <2> QED
    BY <1>2, <2>3 DEF Promise!Next
<1>4. ASSUME NEW k \in DOMAIN act, StealFrom(k)
      PROVE  Promise!Next
  <2> DEFINE a == act[k]
             b == iv[a]
  <2>1. /\ a \in DOMAIN iv /\ a < i /\ Held(a) /\ b.cls = iv[i].cls
        /\ reg' = [reg EXCEPT ![i] = reg[a], ![a] = NoReg]
    BY <1>4, ActiveScanned DEF StealFrom, Victim, SameClass, cls_i
  <2>2. b \in Entries /\ rmap[b.iidx] = reg[a]
    BY <2>1, AbstractState DEF ByEntry
  <2>3. rmap' = [rmap EXCEPT ![iv[i].iidx] = reg[a], ![b.iidx] = NoReg]
    <3>1. /\ reg'[i] = reg[a] /\ reg'[a] = NoReg
          /\ \A m \in DOMAIN iv : m # i /\ m # a => reg'[m] = reg[m]
      BY <1>1, <2>1, ActiveScanned DEF TypeOK
    <3>2. iv' = iv /\ i \in DOMAIN iv /\ a \in DOMAIN iv
      BY <1>1, <2>1
    <3> HIDE DEF a
    <3>3. \A j, m \in DOMAIN iv :
            (\A n \in DOMAIN iv : n # j /\ n # m => reg'[n] = reg[n])
            => rmap' = [rmap EXCEPT ![iv[j].iidx] = reg'[j],
                                    ![iv[m].iidx] = reg'[m]]
      BY <3>2, SameChange
    <3>4. rmap' = [rmap EXCEPT ![iv[i].iidx] = reg'[i], ![iv[a].iidx] = reg'[a]]
      BY <3>1, <3>2, <3>3
    <3> QED
      BY <3>1, <3>4
  <2>4. b.iidx \notin Unplaced
    <3>1. \A j \in DOMAIN iv : j >= i => iv[j].iidx # b.iidx
      BY <2>1, ActiveScanned DEF TypeOK, IsTable
    <3> QED
      BY <1>1, <3>1 DEF Unplaced
  <2>5. Promise!Evict(iv[i], b)
    BY <1>2, <2>1, <2>2, <2>3, <2>4 DEF Promise!Evict, Held
  <2> QED
    BY <1>2, <2>2, <2>5 DEF Promise!Next
<1> QED
  BY <1>1, <1>3, <1>4

\* The linear scan implements the abstract allocator: whatever it does, an
\* interval finds its home once, without a conflict, and a register changes
\* hands only in favour of the interval being placed.
THEOREM ImplementsRegAlloc ==
  Spec => Promise!Init /\ [][Promise!Next]_(Promise!vars)
<1>1. Init => Promise!Init
  BY InitMaps
<1>2. TypeOK /\ ScanInv /\ [Next]_vars => [Promise!Next]_(Promise!vars)
  <2> SUFFICES ASSUME TypeOK, ScanInv, [Next]_vars
               PROVE  [Promise!Next]_(Promise!vars)
    OBVIOUS
  <2>1. TypeOK' /\ ScanInv'
    BY StepInv
  <2>2. CASE srt_iv \/ StartScan \/ exp_old \/ Finish
    BY <2>1, <2>2, StutterSteps
  <2>3. CASE TakeFree
    BY <2>1, <2>3, TakeFreeSettles
  <2>4. CASE spl_at
    BY <2>1, <2>4, SpillSettlesOrEvicts
  <2>5. CASE UNCHANGED vars
    BY <2>5 DEF vars, Promise!vars, Entries, rmap, Unplaced, IndexOf
  <2> QED
    BY <2>2, <2>3, <2>4, <2>5 DEF Next
<1> QED
  BY <1>1, <1>2, TypeCorrect, ScanInvariant, PTL DEF Spec

---------------------------------------------------------------------------
(* What the scan does with its registers when its tables are large enough  *)
(* for the pools.                                                          *)

\* csav_bit numbers every register of a pool within the masks, as it does
\* for the pools of x86_ra.c.  Those of rv_ra.c go beyond.
MasksWide == \A c \in Class : BitBase[c] + Len(Pool[c]) <= MaskWidth

\* g_act has room for every register, so that act_ins never drops an entry.
ActLongEnough == Len(Pool["gpr"]) + Len(Pool["flt"]) <= ActMax

---------------------------------------------------------------------------
(* The save masks.                                                         *)

\* A register of a pool has a bit of the mask.
LEMMA BitInMask ==
  ASSUME MasksWide, NEW c \in Class, NEW r \in Range(Pool[c])
  PROVE  MaskOf(r, c) = {csav_bit(r, c)}
<1> DEFINE k == CHOOSE j \in DOMAIN Pool[c] : Pool[c][j] = r
<1>1. k \in DOMAIN Pool[c]
  BY DEF Range
<1>2. Pool[c] \in Seq(Nat) /\ BitBase[c] \in Nat /\ MaskWidth \in Nat
  BY PoolAssumption, SaveAssumption
<1>3. Len(Pool[c]) \in Nat /\ k \in 1 .. Len(Pool[c])
  BY <1>1, <1>2, LenProperties
<1>4. csav_bit(r, c) = (BitBase[c] + k) - 1
  BY <1>2, <1>3 DEF csav_bit
<1> HIDE DEF k
<1>5. (BitBase[c] + k) - 1 \in 0 .. (MaskWidth - 1)
  BY <1>2, <1>3 DEF MasksWide
<1> QED
  BY <1>4, <1>5 DEF MaskOf

\* Register r of class c is named by the masks s and m.
Named(r, c, s, m) == csav_bit(r, c) \in IF r \in CalleeSaved[c] THEN s ELSE m

\* Recording a register names it and forgets no other.
LEMMA RecordNames ==
  ASSUME MasksWide, NEW c \in Class, NEW r \in Range(Pool[c]), Record(r, c)
  PROVE  /\ Named(r, c, csave', csrm')
         /\ \A d \in Class : \A q :
              Named(q, d, csave, csrm) => Named(q, d, csave', csrm')
<1>1. MaskOf(r, c) = {csav_bit(r, c)}
  BY BitInMask
<1>2. csav_bit(r, c) \in IF r \in CalleeSaved[c] THEN csave' ELSE csrm'
  BY <1>1 DEF Record
<1>3. csave \subseteq csave' /\ csrm \subseteq csrm'
  BY DEF Record
<1> QED
  BY <1>2, <1>3 DEF Named

\* Each step records the register it hands out.
LEMMA StepKeepsMasks ==
  MasksWide /\ TypeOK /\ ScanInv /\ MasksComplete /\ [Next]_vars => MasksComplete'
<1> SUFFICES ASSUME MasksWide, TypeOK, ScanInv, MasksComplete, [Next]_vars
             PROVE  MasksComplete'
  OBVIOUS
<1>1. \A k \in DOMAIN iv : Held(k) => Named(reg[k], iv[k].cls, csave, csrm)
  BY DEF MasksComplete, Named
<1>2. SUFFICES \A k \in DOMAIN iv' :
                 reg'[k] # NoReg => Named(reg'[k], iv'[k].cls, csave', csrm')
  BY DEF MasksComplete, Named, Held
<1>3. CASE UNCHANGED <<iv, reg, csave, csrm>>
  BY <1>1, <1>3 DEF Held
<1>4. CASE srt_iv
  <2>1. DOMAIN iv' = DOMAIN iv /\ reg' = reg /\ pc = "sort"
    BY <1>4 DEF srt_iv
  <2> QED
    BY <2>1 DEF ScanInv, ScannedOnly, Held
<1>5. CASE StartScan
  BY <1>5 DEF StartScan, ScanInv, ScannedOnly, Held
<1>6. CASE TakeFree
  <2> DEFINE c == iv[i].cls
             r == Last(free[c])
  <2>1. /\ i \in DOMAIN iv /\ c \in Class /\ iv' = iv
        /\ free[c] # <<>> /\ reg' = [reg EXCEPT ![i] = r] /\ Record(r, c)
    BY <1>6, ActiveScanned DEF TakeFree, AllLive, Scanning, cls_i
  <2>2. r \in Range(Pool[c])
    <3>1. free[c] \in Seq(Nat) /\ Range(free[c]) \subseteq Range(Pool[c])
      BY <2>1 DEF TypeOK
    <3>2. r = free[c][Len(free[c])] /\ Len(free[c]) \in DOMAIN free[c]
      BY <2>1, <3>1, FrontProperties
    <3> QED
      BY <3>1, <3>2 DEF Range
  <2> HIDE DEF r, c
  <2>3. /\ Named(r, c, csave', csrm')
        /\ \A d \in Class : \A q :
             Named(q, d, csave, csrm) => Named(q, d, csave', csrm')
    BY <2>1, <2>2, RecordNames
  <2>4. reg'[i] = r /\ \A k \in DOMAIN iv : k # i => reg'[k] = reg[k]
    BY <2>1 DEF TypeOK
  <2> QED
    BY <1>1, <2>1, <2>3, <2>4, ActiveScanned DEF Held, c
<1>7. CASE spl_at
  <2>1. /\ i \in DOMAIN iv /\ iv' = iv
        /\ SpillCurrent \/ \E k \in DOMAIN act : StealFrom(k)
    BY <1>7 DEF spl_at, AllLive, Scanning
  <2>2. CASE SpillCurrent
    BY <1>3, <2>1, <2>2 DEF SpillCurrent
  <2>3. ASSUME NEW k \in DOMAIN act, StealFrom(k)
        PROVE  \A j \in DOMAIN iv' :
                 reg'[j] # NoReg => Named(reg'[j], iv'[j].cls, csave', csrm')
    <3> DEFINE c == iv[i].cls
               a == act[k]
               r == reg[a]
    <3>1. /\ a \in DOMAIN iv /\ a < i /\ iv[a].cls = c /\ Held(a) /\ c \in Class
          /\ reg' = [reg EXCEPT ![i] = r, ![a] = NoReg] /\ Record(r, c)
      BY <2>1, <2>3, ActiveScanned DEF StealFrom, Victim, SameClass, cls_i
    <3>2. r \in Range(Pool[c])
      BY <3>1 DEF TypeOK
    <3> HIDE DEF r, c, a
    <3>3. /\ Named(r, c, csave', csrm')
        /\ \A d \in Class : \A q :
             Named(q, d, csave, csrm) => Named(q, d, csave', csrm')
      BY <3>1, <3>2, RecordNames
    <3>4. /\ reg'[i] = r \/ reg'[i] = NoReg
          /\ \A j \in DOMAIN iv : j # i => reg'[j] = reg[j] \/ reg'[j] = NoReg
      BY <2>1, <3>1 DEF TypeOK
    <3> QED
      BY <1>1, <2>1, <3>3, <3>4, ActiveScanned DEF Held, c
  <2> QED
    BY <2>1, <2>2, <2>3
<1> QED
  BY <1>3, <1>4, <1>5, <1>6, <1>7 DEF Next, exp_old, Finish, vars

\* The prologue and the call sequence save every register in use, if the
\* masks are as wide as the pools: g_csave and g_csrm name each register that
\* an interval holds.
THEOREM EveryRegisterNamed == ASSUME MasksWide PROVE Spec => []MasksComplete
<1>1. Init => MasksComplete
  BY DEF Init, MasksComplete, Held
<1>2. TypeOK /\ ScanInv /\ MasksComplete /\ [Next]_vars => MasksComplete'
  BY StepKeepsMasks
<1> QED
  BY <1>1, <1>2, TypeCorrect, ScanInvariant, PTL DEF Spec

---------------------------------------------------------------------------
(* What the sequence operations keep, besides what is said above of what   *)
(* they return.                                                            *)

\* All entries but the one at k stay.
LEMMA RemoveAtKeeps ==
  ASSUME NEW S, NEW s \in Seq(S), NEW k \in DOMAIN s, NEW m \in DOMAIN s, m # k
  PROVE  \E j \in DOMAIN RemoveAt(s, k) : RemoveAt(s, k)[j] = s[m]
<1> DEFINE r == RemoveAt(s, k)
<1>1. Len(s) \in Nat /\ DOMAIN s = 1 .. Len(s)
  BY LenProperties
<1>2. /\ r \in Seq(S) /\ Len(r) = Len(s) - 1
      /\ \A j \in 1 .. (Len(s) - 1) : r[j] = IF j < k THEN s[j] ELSE s[j + 1]
  BY RemoveAtProperties
<1> HIDE DEF r
<1>3. DOMAIN r = 1 .. (Len(s) - 1)
  BY <1>2, LenProperties
<1>4. CASE m < k
  BY <1>1, <1>2, <1>3, <1>4 DEF r
<1>5. CASE m > k
  <2>1. m - 1 \in 1 .. (Len(s) - 1) /\ ~ (m - 1 < k) /\ (m - 1) + 1 = m
    BY <1>1, <1>5
  <2> QED
    BY <1>2, <1>3, <2>1 DEF r
<1> QED
  BY <1>1, <1>4, <1>5

\* All entries stay, and the new one is among them.
LEMMA InsertAtKeeps ==
  ASSUME NEW S, NEW s \in Seq(S), NEW x \in S, NEW p, p \in 1 .. (Len(s) + 1)
  PROVE  /\ \E j \in DOMAIN InsertAt(s, p, x) : InsertAt(s, p, x)[j] = x
         /\ \A m \in DOMAIN s :
              \E j \in DOMAIN InsertAt(s, p, x) : InsertAt(s, p, x)[j] = s[m]
<1> DEFINE r == InsertAt(s, p, x)
<1>1. Len(s) \in Nat /\ DOMAIN s = 1 .. Len(s)
  BY LenProperties
<1>2. /\ r \in Seq(S) /\ Len(r) = Len(s) + 1
      /\ \A j \in 1 .. (Len(s) + 1) :
           r[j] = IF j < p THEN s[j] ELSE IF j = p THEN x ELSE s[j - 1]
  BY InsertAtProperties
<1> HIDE DEF r
<1>3. DOMAIN r = 1 .. (Len(s) + 1)
  BY <1>2, LenProperties
<1>4. p \in DOMAIN r /\ r[p] = x
  BY <1>1, <1>2, <1>3
<1>5. ASSUME NEW m \in DOMAIN s PROVE \E j \in DOMAIN r : r[j] = s[m]
  <2>1. CASE m < p
    <3>1. m \in DOMAIN r /\ r[m] = s[m]
      BY <1>1, <1>2, <1>3, <2>1
    <3> QED
      BY <3>1
  <2>2. CASE m >= p
    <3>1. m + 1 \in DOMAIN r /\ r[m + 1] = s[m]
      BY <1>1, <1>2, <1>3, <2>2
    <3> QED
      BY <3>1
  <2> QED
    BY <1>1, <2>1, <2>2
<1> QED
  BY <1>4, <1>5 DEF r

\* A reversed sequence has the entries of the sequence.
LEMMA ReverseKeeps ==
  ASSUME NEW S, NEW s \in Seq(S)
  PROVE  Range(s) \subseteq Range(Reverse(s))
<1> DEFINE r == Reverse(s)
           n == Len(s)
<1>1. n \in Nat /\ DOMAIN s = 1 .. n
  BY LenProperties
<1>2. DOMAIN r = 1 .. n /\ \A j \in 1 .. n : r[j] = s[(n - j) + 1]
  BY DEF Reverse
<1> HIDE DEF n, r
<1>3. ASSUME NEW m \in 1 .. n PROVE \E j \in DOMAIN r : r[j] = s[m]
  <2>1. (n - m) + 1 \in 1 .. n /\ (n - ((n - m) + 1)) + 1 = m
    BY <1>1
  <2> QED
    BY <1>2, <2>1
<1> QED
  BY <1>1, <1>3 DEF Range, r

---------------------------------------------------------------------------
(* Counting: every register has a number, and no two active intervals have *)
(* the same one.                                                           *)

Position(c, r) == CHOOSE k \in DOMAIN Pool[c] : Pool[c][k] = r
Slot(c, r) == IF c = "gpr" THEN Position(c, r)
              ELSE Len(Pool["gpr"]) + Position(c, r)
Slots == Len(Pool["gpr"]) + Len(Pool["flt"])

LEMMA PositionProperties ==
  ASSUME NEW c \in Class, NEW r \in Range(Pool[c])
  PROVE  /\ Len(Pool[c]) \in Nat
         /\ Position(c, r) \in 1 .. Len(Pool[c])
         /\ Pool[c][Position(c, r)] = r
<1>1. Position(c, r) \in DOMAIN Pool[c] /\ Pool[c][Position(c, r)] = r
  BY DEF Range, Position
<1>2. Pool[c] \in Seq(Nat)
  BY PoolAssumption
<1> QED
  BY <1>1, <1>2, LenProperties

LEMMA SlotProperties ==
  ASSUME NEW c \in Class, NEW r \in Range(Pool[c]),
         NEW d \in Class, NEW q \in Range(Pool[d])
  PROVE  /\ Slot(c, r) \in 1 .. Slots
         /\ Slot(c, r) = Slot(d, q) => c = d /\ r = q
<1>1. /\ Len(Pool["gpr"]) \in Nat /\ Len(Pool["flt"]) \in Nat
  BY PoolAssumption, LenProperties DEF Class
<1>2. /\ Position(c, r) \in 1 .. Len(Pool[c]) /\ Pool[c][Position(c, r)] = r
      /\ Position(d, q) \in 1 .. Len(Pool[d]) /\ Pool[d][Position(d, q)] = q
  BY PositionProperties
<1>3. Slot(c, r) \in 1 .. Slots
  <2> DEFINE g == Len(Pool["gpr"])
             h == Len(Pool["flt"])
             p == Position(c, r)
  <2>1. /\ \/ p \in 1 .. g /\ Slot(c, r) = p
           \/ p \in 1 .. h /\ Slot(c, r) = g + p
        /\ Slots = g + h /\ g \in Nat /\ h \in Nat
    BY <1>1, <1>2 DEF Slot, Slots, Class
  <2> HIDE DEF g, h, p
  <2> QED
    BY <2>1
<1>4. ASSUME Slot(c, r) = Slot(d, q) PROVE c = d
  BY <1>1, <1>2, <1>4 DEF Slot, Class
<1>5. ASSUME Slot(c, r) = Slot(d, q) PROVE Position(c, r) = Position(d, q)
  BY <1>1, <1>2, <1>4, <1>5 DEF Slot, Class
<1> QED
  BY <1>2, <1>3, <1>4, <1>5

\* A sequence of n entries with different numbers from 1 to top, none of
\* them x, is shorter than top.
LEMMA Pigeons ==
  ASSUME NEW n \in Nat, NEW top \in Nat, NEW f \in [1 .. n -> 1 .. top],
         \A j, k \in 1 .. n : f[j] = f[k] => j = k
  PROVE  /\ n <= top
         /\ \A x \in 1 .. top : (\A j \in 1 .. n : f[j] # x) => n < top
<1>1. /\ IsFiniteSet(1 .. n) /\ Cardinality(1 .. n) = n
      /\ IsFiniteSet(1 .. top) /\ Cardinality(1 .. top) = top
  BY FS_Interval
<1>2. f \in Injection(1 .. n, 1 .. top)
  BY DEF Injection, IsInjective
<1>3. n <= top
  BY <1>1, <1>2, FS_Injection
<1>4. ASSUME NEW x \in 1 .. top, \A j \in 1 .. n : f[j] # x PROVE n < top
  <2> DEFINE T == (1 .. top) \ {x}
  <2>1. IsFiniteSet(T) /\ Cardinality(T) = top - 1
    BY <1>1, FS_RemoveElement
  <2>2. f \in [1 .. n -> T]
    BY <1>4
  <2>3. f \in Injection(1 .. n, T)
    BY <2>2 DEF Injection, IsInjective
  <2>4. Cardinality(1 .. n) <= Cardinality(T)
    BY <2>1, <2>3, FS_Injection
  <2> QED
    BY <1>1, <2>1, <2>4
<1> QED
  BY <1>3, <1>4

\* Active intervals hold different registers, so that they are no more than
\* there are registers, and fewer while some register is not theirs.
LEMMA ActiveCount ==
  ASSUME TypeOK, ScanInv
  PROVE  /\ Len(act) \in Nat /\ Slots \in Nat
         /\ Len(act) <= Slots
         /\ \A c \in Class : \A r \in Range(Pool[c]) :
              (\A k \in DOMAIN act : iv[act[k]].cls = c => reg[act[k]] # r)
              => Len(act) < Slots
<1>1. DOMAIN act = 1 .. Len(act) /\ Len(act) \in Nat
  BY LenProperties DEF TypeOK
<1>2. Slots \in Nat
  BY PoolAssumption, LenProperties DEF Slots, Class
<1> DEFINE f == [k \in 1 .. Len(act) |-> Slot(iv[act[k]].cls, reg[act[k]])]
<1>3. \A k \in 1 .. Len(act) :
        iv[act[k]].cls \in Class /\ reg[act[k]] \in Range(Pool[iv[act[k]].cls])
  BY <1>1, ActiveScanned DEF TypeOK
<1>4. f \in [1 .. Len(act) -> 1 .. Slots]
  BY <1>3, SlotProperties
<1>5. ASSUME NEW j \in 1 .. Len(act), NEW k \in 1 .. Len(act), f[j] = f[k]
      PROVE  j = k
  <2>1. iv[act[j]].cls = iv[act[k]].cls /\ reg[act[j]] = reg[act[k]]
    BY <1>3, <1>5, SlotProperties
  <2> QED
    BY <1>1, <2>1, ActiveDiffer
<1>6. ASSUME NEW c \in Class, NEW r \in Range(Pool[c]),
             \A k \in DOMAIN act : iv[act[k]].cls = c => reg[act[k]] # r
      PROVE  Slot(c, r) \in 1 .. Slots /\ \A k \in 1 .. Len(act) : f[k] # Slot(c, r)
  BY <1>1, <1>3, <1>6, SlotProperties
<1> DEFINE n == Len(act)
<1> HIDE DEF f, n
<1>7. n <= Slots /\ \A x \in 1 .. Slots : (\A j \in 1 .. n : f[j] # x) => n < Slots
  <2>1. n \in Nat /\ Slots \in Nat /\ f \in [1 .. n -> 1 .. Slots]
    BY <1>1, <1>2, <1>4 DEF n
  <2>2. \A j, k \in 1 .. n : f[j] = f[k] => j = k
    BY <1>5 DEF n
  <2> QED
    BY <2>1, <2>2, Pigeons, ZenonT(30)
<1>8. ASSUME NEW c \in Class, NEW r \in Range(Pool[c]),
             \A k \in DOMAIN act : iv[act[k]].cls = c => reg[act[k]] # r
      PROVE  n < Slots
  BY <1>6, <1>7, <1>8, SMTT(30) DEF n
<1>9. n \in Nat /\ n <= Slots
  BY <1>1, <1>7 DEF n
<1> QED
  BY <1>2, <1>8, <1>9 DEF n

\* The stack of a class is not full while a register of the pool is not on
\* it: the guard of exp_old never fails.
LEMMA StackCount ==
  ASSUME TypeOK, ScanInv, NEW c \in Class,
         NEW r \in Range(Pool[c]), r \notin Range(free[c])
  PROVE  Len(free[c]) < Len(Pool[c])
<1> DEFINE n == Len(free[c])
           f == [k \in 1 .. n |-> Position(c, free[c][k])]
<1>1. DOMAIN free[c] = 1 .. n /\ n \in Nat
  BY LenProperties DEF TypeOK
<1>2. \A k \in 1 .. n : free[c][k] \in Range(free[c])
  BY <1>1 DEF Range
<1>3. \A k \in 1 .. n : free[c][k] \in Range(Pool[c])
  BY <1>2 DEF TypeOK
<1>4. f \in [1 .. n -> 1 .. Len(Pool[c])]
  BY <1>3, PositionProperties
<1>5. ASSUME NEW j \in 1 .. n, NEW k \in 1 .. n, f[j] = f[k] PROVE j = k
  <2>1. free[c][j] = free[c][k]
    BY <1>3, <1>5, PositionProperties
  <2> QED
    BY <1>1, <2>1 DEF ScanInv, FreeOnce
<1> DEFINE top == Len(Pool[c])
           x == Position(c, r)
<1>6. x \in 1 .. top /\ top \in Nat /\ \A k \in 1 .. n : f[k] # x
  BY <1>2, <1>3, PositionProperties
<1>7. f \in [1 .. n -> 1 .. top] /\ n \in Nat
  BY <1>1, <1>4
<1> HIDE DEF f, n, top, x
<1>8. \A j, k \in 1 .. n : f[j] = f[k] => j = k
  BY <1>5
<1>9. \A y \in 1 .. top : (\A j \in 1 .. n : f[j] # y) => n < top
  BY <1>6, <1>7, <1>8, Pigeons, ZenonT(30)
<1>10. n < top
  BY <1>6, <1>9
<1> QED
  BY <1>10 DEF n, top

\* With room in the list act_ins keeps every entry and adds the new one.
LEMMA ActInsKeeps ==
  ASSUME NEW D, NEW a \in Seq(D), NEW x \in D, act_ins(a, x),
         Len(a) < ActMax
  PROVE  /\ \E j \in DOMAIN act' : act'[j] = x
         /\ \A m \in DOMAIN a : \E j \in DOMAIN act' : act'[j] = a[m]
<1>1. PICK p \in 1 .. (Len(a) + 1) : act' = InsertAt(a, p, x)
  BY LenProperties, ActAssumption DEF act_ins
<1> DEFINE r == InsertAt(a, p, x)
<1>2. /\ \E j \in DOMAIN r : r[j] = x
      /\ \A m \in DOMAIN a : \E j \in DOMAIN r : r[j] = a[m]
  BY <1>1, InsertAtKeeps
<1> HIDE DEF r
<1> QED
  BY <1>1, <1>2 DEF r

---------------------------------------------------------------------------
(* No register is lost.                                                    *)

\* Some active interval of class c has register r.
Active(c, r) == \E k \in DOMAIN act : iv[act[k]].cls = c /\ reg[act[k]] = r
\* A register of the pool is free or in use, at every step of the scan.
NoneLost == \A c \in Class : \A r \in Range(Pool[c]) : r \in Range(free[c]) \/ Active(c, r)

\* exp_old: the register of the expired interval finds room on its stack.
LEMMA ExpireLosesNone ==
  ASSUME TypeOK, ScanInv, NoneLost, exp_old PROVE NoneLost'
<1>1. PICK k \in DOMAIN act : free' = Release(k) /\ act' = RemoveAt(act, k)
  BY DEF exp_old
<1> DEFINE a == act[k]
           d == iv[a].cls
<1>2. iv' = iv /\ reg' = reg /\ act \in Seq(DOMAIN iv) /\ d \in Class
  BY <1>1, ActiveScanned DEF exp_old, TypeOK
<1>3. reg[a] \in Range(Pool[d]) /\ reg[a] \notin Range(free[d]) /\ reg[a] \in Nat
  BY <1>1, <1>2, ActiveScanned DEF TypeOK, Held, ScanInv, FreeOnce
<1>4. free' = [free EXCEPT ![d] = Append(free[d], reg[a])]
  BY <1>1, <1>2, <1>3, StackCount DEF Release
<1>5. Range(Append(free[d], reg[a])) = Range(free[d]) \cup {reg[a]}
  <2>1. free[d] \in Seq(Nat)
    BY <1>2 DEF TypeOK
  <2> DEFINE s == free[d]
             t == Append(s, reg[a])
             n == Len(s)
  <2>2. n \in Nat /\ DOMAIN s = 1 .. n
    BY <2>1, LenProperties
  <2>3. /\ DOMAIN t = 1 .. (n + 1) /\ t[n + 1] = reg[a]
        /\ \A j \in 1 .. n : t[j] = s[j]
    BY <1>3, <2>1, <2>2, AppendProperties, LenProperties
  <2> HIDE DEF s, t, n
  <2>4. Range(t) = Range(s) \cup {reg[a]}
    BY <2>2, <2>3 DEF Range
  <2> QED
    BY <2>4 DEF s, t
<1>6. ASSUME NEW c \in Class, NEW r \in Range(Pool[c])
      PROVE  r \in Range(free'[c]) \/ \E j \in DOMAIN act' :
               iv[act'[j]].cls = c /\ reg[act'[j]] = r
  <2>1. CASE r \in Range(free[c])
    BY <1>2, <1>4, <1>5, <2>1 DEF TypeOK
  <2>2. CASE c = d /\ r = reg[a]
    BY <1>2, <1>4, <1>5, <2>2 DEF TypeOK
  <2>3. ASSUME NEW m \in DOMAIN act, iv[act[m]].cls = c, reg[act[m]] = r, m # k
        PROVE  \E j \in DOMAIN act' : act'[j] = act[m]
    BY <1>1, <1>2, <2>3, RemoveAtKeeps
  <2> QED
    BY <2>1, <2>2, <2>3 DEF NoneLost, Active
<1> QED
  BY <1>2, <1>6 DEF NoneLost, Active

\* TakeFree: while a register is free the active list has room.
LEMMA TakeLosesNone ==
  ASSUME ActLongEnough, TypeOK, ScanInv, NoneLost, TakeFree PROVE NoneLost'
<1> DEFINE d == iv[i].cls
           s == free[d]
           q == Last(s)
<1>1. /\ i \in DOMAIN iv /\ d \in Class /\ iv' = iv
      /\ s # <<>> /\ reg' = [reg EXCEPT ![i] = q]
      /\ free' = [free EXCEPT ![d] = Front(s)] /\ act_ins(act, i)
  BY ActiveScanned DEF TakeFree, AllLive, Scanning, cls_i
<1>2. s \in Seq(Nat) /\ act \in Seq(DOMAIN iv) /\ Range(s) \subseteq Range(Pool[d])
  BY <1>1 DEF TypeOK
<1>3. q \in Range(s) /\ Range(s) = Range(Front(s)) \cup {q}
  <2> DEFINE n == Len(s)
             t == Front(s)
  <2>1. s \in Seq(Nat) /\ s # <<>>
    BY <1>1, <1>2
  <2> HIDE DEF s
  <2>2. DOMAIN s = 1 .. n /\ n \in Nat
    BY <2>1, LenProperties
  <2>3. /\ n \in DOMAIN s /\ q = s[n] /\ t \in Seq(Nat) /\ Len(t) = n - 1
        /\ \A j \in 1 .. (n - 1) : t[j] = s[j]
    BY <2>1, FrontProperties
  <2> HIDE DEF n, t, q
  <2>4. DOMAIN t = 1 .. (n - 1)
    BY <2>3, LenProperties
  <2>5. \A j \in DOMAIN s : j = n \/ j \in DOMAIN t
    BY <2>2, <2>4
  <2>6. \A j \in DOMAIN t : j \in DOMAIN s /\ t[j] = s[j]
    BY <2>2, <2>3, <2>4
  <2>7. Range(s) = Range(t) \cup {q}
    BY <2>3, <2>5, <2>6 DEF Range
  <2> QED
    BY <2>7 DEF t
<1>4. q \in Range(s)
  BY <1>3
<1>5. Len(act) < ActMax
  <2>1. \A k \in DOMAIN act : iv[act[k]].cls = d => reg[act[k]] # q
    BY <1>1, <1>4 DEF ScanInv, FreeOnce
  <2>2. Len(act) < Slots /\ Len(act) \in Nat /\ Slots \in Nat
    BY <1>1, <1>2, <1>4, <2>1, ActiveCount
  <2>3. Slots <= ActMax /\ ActMax \in Nat
    BY ActAssumption DEF ActLongEnough, Slots
  <2> QED
    BY <2>2, <2>3
<1>6. /\ \E j \in DOMAIN act' : act'[j] = i
      /\ \A m \in DOMAIN act : \E j \in DOMAIN act' : act'[j] = act[m]
  BY <1>1, <1>2, <1>5, ActInsKeeps
<1>7. /\ reg'[i] = q
      /\ \A m \in DOMAIN act : act[m] # i /\ reg'[act[m]] = reg[act[m]]
  BY <1>1, ActiveScanned DEF TypeOK
<1>8. \A c \in Class : c # d => free'[c] = free[c]
  BY <1>1 DEF TypeOK
<1>9. free'[d] = Front(s)
  BY <1>1 DEF TypeOK
<1> HIDE DEF d, s, q
<1>10. ASSUME NEW c \in Class, NEW r \in Range(Pool[c])
       PROVE  r \in Range(free'[c]) \/ \E j \in DOMAIN act' :
                iv[act'[j]].cls = c /\ reg'[act'[j]] = r
  <2>1. CASE c = d /\ r = q
    BY <1>6, <1>7, <2>1 DEF d
  <2>2. CASE r \in Range(free[c]) /\ ~ (c = d /\ r = q)
    BY <1>3, <1>8, <1>9, <2>2 DEF s
  <2>3. CASE Active(c, r)
    BY <1>6, <1>7, <2>3 DEF Active
  <2> QED
    BY <2>1, <2>2, <2>3 DEF NoneLost
<1> QED
  BY <1>1, <1>10 DEF NoneLost, Active

\* spl_at: the newcomer keeps the victim's register in use.
LEMMA SpillLosesNone ==
  ASSUME ActLongEnough, TypeOK, ScanInv, NoneLost, spl_at PROVE NoneLost'
<1>1. /\ i \in DOMAIN iv /\ iv' = iv /\ free' = free
      /\ SpillCurrent \/ \E k \in DOMAIN act : StealFrom(k)
  BY DEF spl_at, AllLive, Scanning
<1>2. CASE SpillCurrent
  BY <1>1, <1>2 DEF SpillCurrent, NoneLost, Active
<1>3. ASSUME NEW k \in DOMAIN act, StealFrom(k)
      PROVE  NoneLost'
  <2> DEFINE a == RemoveAt(act, k)
  <2>1. /\ iv[act[k]].cls = iv[i].cls /\ act_ins(a, i)
        /\ reg' = [reg EXCEPT ![i] = reg[act[k]], ![act[k]] = NoReg]
    BY <1>3 DEF StealFrom, Victim, SameClass, cls_i
  <2>2. act \in Seq(DOMAIN iv) /\ act[k] \in DOMAIN iv /\ act[k] < i
    BY ActiveScanned DEF TypeOK
  <2>3. a \in Seq(DOMAIN iv) /\ Len(a) = Len(act) - 1
    BY <2>2, RemoveAtProperties
  <2>4. \A m \in DOMAIN act : m # k => \E j \in DOMAIN a : a[j] = act[m]
    BY <2>2, RemoveAtKeeps
  <2> HIDE DEF a
  <2>5. Len(a) < ActMax
    <3>1. Slots <= ActMax /\ ActMax \in Nat
      BY ActAssumption DEF ActLongEnough, Slots
    <3> QED
      BY <2>3, <3>1, ActiveCount
  <2>6. /\ \E j \in DOMAIN act' : act'[j] = i
        /\ \A m \in DOMAIN a : \E j \in DOMAIN act' : act'[j] = a[m]
    BY <1>1, <2>1, <2>3, <2>5, ActInsKeeps
  <2>7. /\ reg'[i] = reg[act[k]]
        /\ \A m \in DOMAIN act : m # k => reg'[act[m]] = reg[act[m]]
    BY <1>1, <2>1, <2>2, ActiveScanned DEF TypeOK, ScanInv, ActiveHold
  <2>8. ASSUME NEW c \in Class, NEW r \in Range(Pool[c]), Active(c, r)
        PROVE  \E j \in DOMAIN act' : iv[act'[j]].cls = c /\ reg'[act'[j]] = r
    <3>1. PICK m \in DOMAIN act : iv[act[m]].cls = c /\ reg[act[m]] = r
      BY <2>8 DEF Active
    <3>2. CASE m = k
      BY <2>1, <2>6, <2>7, <3>1, <3>2
    <3>3. CASE m # k
      BY <2>4, <2>6, <2>7, <3>1, <3>3
    <3> QED
      BY <3>2, <3>3
  <2> QED
    BY <1>1, <2>8 DEF NoneLost, Active
<1> QED
  BY <1>1, <1>2, <1>3

\* The registers are all there from the start of the scan to its end.
LEMMA StepLosesNone ==
  ActLongEnough /\ TypeOK /\ ScanInv /\ NoRegisterLost /\ [Next]_vars
    => NoRegisterLost'
<1> SUFFICES ASSUME ActLongEnough, TypeOK, ScanInv, NoRegisterLost, [Next]_vars,
                    pc' = "scan"
             PROVE  NoneLost'
  BY DEF NoRegisterLost, NoneLost, Active
<1>1. pc = "scan" => NoneLost
  BY DEF NoRegisterLost, NoneLost, Active
<1>2. CASE srt_iv
  BY <1>1, <1>2 DEF srt_iv
<1>3. CASE StartScan
  <2>1. ASSUME NEW c \in Class PROVE Range(Pool[c]) \subseteq Range(free'[c])
    BY <1>3, PoolAssumption, ReverseKeeps DEF StartScan
  <2> QED
    BY <2>1 DEF NoneLost
<1>4. CASE exp_old
  BY <1>1, <1>4, ExpireLosesNone DEF exp_old, Scanning
<1>5. CASE TakeFree
  BY <1>1, <1>5, TakeLosesNone DEF TakeFree, AllLive, Scanning
<1>6. CASE spl_at
  BY <1>1, <1>6, SpillLosesNone DEF spl_at, AllLive, Scanning
<1>7. CASE Finish
  BY <1>7 DEF Finish
<1>8. CASE UNCHANGED vars
  BY <1>1, <1>8 DEF NoneLost, Active, vars
<1> QED
  BY <1>2, <1>3, <1>4, <1>5, <1>6, <1>7, <1>8 DEF Next

\* exp_old gives every register back and act_ins drops none, if the list of
\* active intervals is as long as the two pools together.
THEOREM NoRegisterWasted == ASSUME ActLongEnough PROVE Spec => []NoRegisterLost
<1>1. Init => NoRegisterLost
  BY DEF Init, NoRegisterLost
<1>2. TypeOK /\ ScanInv /\ NoRegisterLost /\ [Next]_vars => NoRegisterLost'
  BY StepLosesNone
<1> QED
  BY <1>1, <1>2, TypeCorrect, ScanInvariant, PTL DEF Spec

---------------------------------------------------------------------------
(* Who goes to the stack, and when.                                        *)

\* Only spl_at spills: the current interval, or the one whose register that
\* interval takes.
LEMMA WhoSpills ==
  ASSUME TypeOK, ScanInv, [Next]_vars, NEW x \in DOMAIN iv, Spills(x)
  PROVE  /\ pc = "scan" /\ AllLive /\ free[cls_i] = <<>> /\ i \in DOMAIN iv
         /\ iv[x].cls = cls_i
         /\ \/ x = i /\ SpillCurrent
            \/ \E k \in DOMAIN act : StealFrom(k) /\ x = act[k]
<1>1. pc = "scan" /\ i \in Nat /\ reg'[x] = NoReg
  BY DEF Spills, TypeOK
<1>2. reg' # reg \/ i' # i
  BY <1>1 DEF Spills, Held
<1>3. ~ TakeFree
  <2>1. SUFFICES ASSUME TakeFree PROVE FALSE
    OBVIOUS
  <2>2. /\ i \in DOMAIN iv /\ cls_i \in Class /\ free[cls_i] # <<>>
        /\ reg' = [reg EXCEPT ![i] = Last(free[cls_i])]
    BY <2>1, ActiveScanned DEF TakeFree, AllLive, Scanning, cls_i
  <2>3. free[cls_i] \in Seq(Nat)
    BY <2>2 DEF TypeOK
  <2>4. Last(free[cls_i]) \in Nat
    <3> DEFINE s == free[cls_i]
    <3>1. s \in Seq(Nat) /\ s # <<>>
      BY <2>2, <2>3
    <3> HIDE DEF s
    <3>2. Last(s) = s[Len(s)] /\ Len(s) \in 1 .. Len(s)
      BY <3>1, FrontProperties, LenProperties
    <3> QED
      BY <3>1, <3>2, ElementOfSeq DEF s
  <2>5. Last(free[cls_i]) # NoReg
    BY <2>4 DEF NoReg
  <2> QED
    BY <1>1, <2>2, <2>5 DEF Spills, Held, TypeOK
<1>4. spl_at
  BY <1>1, <1>2, <1>3 DEF Next, srt_iv, StartScan, exp_old, Finish, vars
<1>5. AllLive /\ free[cls_i] = <<>> /\ i \in DOMAIN iv
  BY <1>4 DEF spl_at, AllLive, Scanning
<1>6. CASE SpillCurrent
  <2>1. x = i
    BY <1>1, <1>6 DEF SpillCurrent, Spills, Held
  <2> QED
    BY <1>1, <1>5, <1>6, <2>1 DEF cls_i
<1>7. ASSUME NEW k \in DOMAIN act, StealFrom(k)
      PROVE  x = act[k] /\ iv[x].cls = cls_i
  <2>1. /\ act[k] \in DOMAIN iv /\ act[k] < i /\ Held(act[k])
        /\ iv[act[k]].cls = cls_i
        /\ reg' = [reg EXCEPT ![i] = reg[act[k]], ![act[k]] = NoReg]
    BY <1>7, ActiveScanned DEF StealFrom, Victim, SameClass
  <2>2. reg'[i] # NoReg
    BY <1>1, <1>5, <2>1 DEF TypeOK, Held
  <2> QED
    BY <1>1, <2>1, <2>2 DEF Spills, Held, TypeOK
<1> QED
  BY <1>1, <1>4, <1>5, <1>6, <1>7 DEF spl_at

\* A full set of active intervals, one for each register of the class, and
\* the newcomer are one more than the registers.
LEMMA Pressure ==
  ASSUME TypeOK, ScanInv, AllLive, NEW c \in Class, iv[i].cls = c,
         i \in DOMAIN iv, \A r \in Range(Pool[c]) : Active(c, r)
  PROVE  Cardinality({k \in 1 .. i : iv[k].cls = c /\ iv[k].end >= iv[i].start})
           > Len(Pool[c])
<1> DEFINE n == Len(Pool[c])
           S == {k \in 1 .. i : iv[k].cls = c /\ iv[k].end >= iv[i].start}
           h(j) == CHOOSE k \in DOMAIN act : iv[act[k]].cls = c /\ reg[act[k]] = Pool[c][j]
           f == [j \in 1 .. (n + 1) |-> IF j = n + 1 THEN i ELSE act[h(j)]]
<1>1. n \in Nat /\ DOMAIN Pool[c] = 1 .. n
  BY PoolAssumption, LenProperties
<1>2. /\ i \in Nat \ {0} /\ i \in DOMAIN iv
      /\ iv[i].start \in Nat /\ iv[i].end \in Nat /\ iv[i].start <= iv[i].end
  BY ActiveScanned DEF TypeOK
<1>3. ASSUME NEW j \in 1 .. n
      PROVE  /\ act[h(j)] \in S /\ act[h(j)] # i
             /\ reg[act[h(j)]] = Pool[c][j]
  <2>1. Pool[c][j] \in Range(Pool[c])
    BY <1>1 DEF Range
  <2>2. \E k \in DOMAIN act : iv[act[k]].cls = c /\ reg[act[k]] = Pool[c][j]
    BY <2>1 DEF Active
  <2>3. /\ h(j) \in DOMAIN act /\ iv[act[h(j)]].cls = c
        /\ reg[act[h(j)]] = Pool[c][j]
    BY <2>2
  <2> HIDE DEF h
  <2>4. /\ act[h(j)] \in DOMAIN iv /\ act[h(j)] < i /\ act[h(j)] \in 1 .. Len(iv)
        /\ iv[act[h(j)]].end \in Nat
    BY <2>3, ActiveScanned
  <2>5. iv[act[h(j)]].end >= iv[i].start
    BY <1>2, <2>3, <2>4 DEF AllLive, Expired
  <2> QED
    BY <1>2, <2>3, <2>4, <2>5
<1> HIDE DEF h
<1>4. i \in S
  BY <1>2
<1>5. f \in [1 .. (n + 1) -> S]
  <2> HIDE DEF S
  <2>1. \A j \in 1 .. (n + 1) : j = n + 1 \/ j \in 1 .. n
    BY <1>1
  <2>2. \A j \in 1 .. (n + 1) : (IF j = n + 1 THEN i ELSE act[h(j)]) \in S
    BY <1>3, <1>4, <2>1
  <2> QED
    BY <2>2
<1>6. ASSUME NEW j \in 1 .. (n + 1), NEW k \in 1 .. (n + 1), f[j] = f[k]
      PROVE  j = k
  <2>1. CASE j = n + 1 \/ k = n + 1
    BY <1>1, <1>3, <1>6, <2>1
  <2>2. CASE j \in 1 .. n /\ k \in 1 .. n
    <3>1. Pool[c][j] = Pool[c][k]
      BY <1>1, <1>3, <1>6, <2>2
    <3> QED
      BY <1>1, <2>2, <3>1, PoolAssumption
  <2> QED
    BY <1>1, <2>1, <2>2
<1>7. IsFiniteSet(S) /\ Cardinality(S) \in Nat
  <2>1. IsFiniteSet(1 .. i)
    BY <1>2, FS_Interval
  <2>2. S \in SUBSET (1 .. i)
    OBVIOUS
  <2> HIDE DEF S
  <2> QED
    BY <2>1, <2>2, FS_Subset, FS_CardinalityType
<1> HIDE DEF f, S
<1>8. f \in Injection(1 .. (n + 1), S)
  BY <1>5, <1>6 DEF Injection, IsInjective
<1>9. Cardinality(1 .. (n + 1)) <= Cardinality(S)
  BY <1>7, <1>8, FS_Injection
<1>10. Cardinality(1 .. (n + 1)) = n + 1
  BY <1>1, FS_Interval
<1>11. Cardinality(S) > n
  BY <1>1, <1>7, <1>9, <1>10
<1> QED
  BY <1>11 DEF S, n

\* Values go to the stack only where more of them are live than the class has
\* registers, if no register can get lost.
THEOREM SpillsNeedPressure == ASSUME ActLongEnough PROVE Spec => SpillsUnderPressureOnly
<1> DEFINE A == \A x \in DOMAIN iv : Spills(x) =>
       Cardinality({k \in 1 .. i : /\ iv[k].cls = iv[x].cls
                                   /\ iv[k].end >= iv[i].start})
         > Len(Pool[iv[x].cls])
<1>1. TypeOK /\ ScanInv /\ NoRegisterLost /\ [Next]_vars => A
  <2> SUFFICES ASSUME TypeOK, ScanInv, NoRegisterLost, [Next]_vars,
                      NEW x \in DOMAIN iv, Spills(x)
               PROVE  Cardinality({k \in 1 .. i : /\ iv[k].cls = iv[x].cls
                                                  /\ iv[k].end >= iv[i].start})
                        > Len(Pool[iv[x].cls])
    OBVIOUS
  <2>1. /\ pc = "scan" /\ AllLive /\ free[iv[i].cls] = <<>> /\ i \in DOMAIN iv
        /\ iv[x].cls = iv[i].cls
    BY WhoSpills DEF cls_i
  <2>2. iv[i].cls \in Class
    BY <2>1, ActiveScanned
  <2>3. \A r \in Range(Pool[iv[i].cls]) : Active(iv[i].cls, r)
    <3>1. Range(free[iv[i].cls]) = {}
      BY <2>1 DEF Range
    <3> QED
      BY <2>1, <2>2, <3>1, ZenonT(30) DEF NoRegisterLost, Active
  <2> QED
    BY <2>1, <2>2, <2>3, Pressure
<1>2. Spec => [][A]_vars
  <2> HIDE DEF A
  <2> QED
    BY <1>1, TypeCorrect, ScanInvariant, NoRegisterWasted, PTL DEF Spec
<1> QED
  BY <1>2, PTL DEF SpillsUnderPressureOnly

\* Every interval that holds a register and has not ended is in the list, so
\* that spl_at, which looks at the list only, sees all of them.
LiveIsActive ==
  pc = "scan" /\ i \in DOMAIN iv =>
    \A k \in DOMAIN iv : Held(k) /\ iv[k].end >= iv[i].start =>
      \E m \in DOMAIN act : act[m] = k

\* Going on to the next interval, which starts no earlier, when the intervals
\* that had a register before and still have one stay in the list.
LEMMA NextKeepsLive ==
  ASSUME TypeOK, ScanInv, LiveIsActive, pc = "scan", i \in DOMAIN iv,
         iv' = iv, i' = i + 1,
         \A k \in DOMAIN iv : k # i /\ Held(k)' => Held(k),
         reg'[i] # NoReg => \E m \in DOMAIN act' : act'[m] = i,
         \A k \in DOMAIN act : reg'[act[k]] # NoReg =>
           \E m \in DOMAIN act' : act'[m] = act[k]
  PROVE  LiveIsActive'
<1> SUFFICES ASSUME i + 1 \in DOMAIN iv, NEW k \in DOMAIN iv, Held(k)',
                    iv[k].end >= iv[i + 1].start
             PROVE  \E m \in DOMAIN act' : act'[m] = k
  BY DEF LiveIsActive
<1>1. CASE k = i
  BY <1>1 DEF Held
<1>2. CASE k # i
  <2>1. iv[i].start <= iv[i + 1].start
    BY ActiveScanned DEF TypeOK, ScanInv, Ordered
  <2>2. /\ iv[i].start \in Nat /\ iv[i + 1].start \in Nat /\ iv[k].end \in Nat
    BY ActiveScanned
  <2>3. Held(k) /\ iv[k].end >= iv[i].start
    BY <1>2, <2>1, <2>2
  <2>4. PICK m \in DOMAIN act : act[m] = k
    BY <2>3 DEF LiveIsActive
  <2> QED
    BY <2>4 DEF Held
<1> QED
  BY <1>1, <1>2

\* The list loses an interval where that has ended, or loses its register.
LEMMA StepKeepsLive ==
  ActLongEnough /\ TypeOK /\ ScanInv /\ LiveIsActive /\ [Next]_vars => LiveIsActive'
<1> SUFFICES ASSUME ActLongEnough, TypeOK, ScanInv, LiveIsActive, [Next]_vars
             PROVE  LiveIsActive'
  OBVIOUS
<1>1. CASE srt_iv
  BY <1>1 DEF srt_iv, LiveIsActive
<1>2. CASE StartScan
  BY <1>2 DEF StartScan, LiveIsActive, ScanInv, ScannedOnly, Held
<1>3. CASE exp_old
  <2>1. /\ iv' = iv /\ reg' = reg /\ i' = i /\ pc = "scan" /\ i \in DOMAIN iv
        /\ act \in Seq(DOMAIN iv)
    BY <1>3 DEF exp_old, Scanning, TypeOK
  <2>2. PICK k \in DOMAIN act : Expired(k) /\ act' = RemoveAt(act, k)
    BY <1>3 DEF exp_old
  <2>3. \A m \in DOMAIN act : m # k => \E j \in DOMAIN act' : act'[j] = act[m]
    BY <2>1, <2>2, RemoveAtKeeps
  <2>4. ~ (iv[act[k]].end >= iv[i].start)
    BY <2>1, <2>2, ActiveScanned DEF Expired
  <2>5. ASSUME NEW j \in DOMAIN iv, Held(j), iv[j].end >= iv[i].start
        PROVE  \E m \in DOMAIN act' : act'[m] = j
    <3>1. PICK m \in DOMAIN act : act[m] = j
      BY <2>1, <2>5 DEF LiveIsActive
    <3>2. m # k
      BY <2>4, <2>5, <3>1
    <3> QED
      BY <2>3, <3>1, <3>2
  <2> QED
    BY <2>1, <2>5 DEF LiveIsActive, Held
<1>4. CASE TakeFree
  <2> DEFINE d == iv[i].cls
             q == Last(free[d])
  <2>1. /\ i \in DOMAIN iv /\ d \in Class /\ iv' = iv /\ i' = i + 1
        /\ pc = "scan" /\ free[d] # <<>> /\ reg' = [reg EXCEPT ![i] = q]
        /\ act_ins(act, i) /\ act \in Seq(DOMAIN iv)
    BY <1>4, ActiveScanned DEF TakeFree, AllLive, Scanning, cls_i, TypeOK
  <2>2. q \in Range(free[d]) /\ Range(free[d]) \subseteq Range(Pool[d])
    <3>1. free[d] \in Seq(Nat) /\ free[d] # <<>>
      BY <2>1 DEF TypeOK
    <3>2. q = free[d][Len(free[d])] /\ Len(free[d]) \in DOMAIN free[d]
      BY <3>1, FrontProperties
    <3> QED
      BY <2>1, <3>2 DEF TypeOK, Range
  <2> HIDE DEF q
  <2>3. Len(act) < ActMax
    <3>1. \A k \in DOMAIN act : iv[act[k]].cls = d => reg[act[k]] # q
      BY <2>1, <2>2 DEF ScanInv, FreeOnce
    <3>2. Len(act) < Slots /\ Len(act) \in Nat /\ Slots \in Nat
      BY <2>1, <2>2, <3>1, ActiveCount
    <3>3. Slots <= ActMax /\ ActMax \in Nat
      BY ActAssumption DEF ActLongEnough, Slots
    <3> QED
      BY <3>2, <3>3
  <2>4. /\ \E j \in DOMAIN act' : act'[j] = i
        /\ \A m \in DOMAIN act : \E j \in DOMAIN act' : act'[j] = act[m]
    BY <2>1, <2>3, ActInsKeeps
  <2>5. \A k \in DOMAIN iv : k # i => reg'[k] = reg[k]
    BY <2>1 DEF TypeOK
  <2> QED
    BY <2>1, <2>4, <2>5, NextKeepsLive DEF Held
<1>5. CASE spl_at
  <2>1. /\ i \in DOMAIN iv /\ iv' = iv /\ i' = i + 1 /\ pc = "scan"
        /\ SpillCurrent \/ \E k \in DOMAIN act : StealFrom(k)
    BY <1>5 DEF spl_at, AllLive, Scanning
  <2>2. CASE SpillCurrent
    <3>1. reg' = reg /\ act' = act /\ ~ Held(i)
      BY <2>1, <2>2 DEF SpillCurrent, ScanInv, ScannedOnly, TypeOK
    <3> QED
      BY <2>1, <3>1, NextKeepsLive DEF Held
  <2>3. ASSUME NEW k \in DOMAIN act, StealFrom(k)
        PROVE  LiveIsActive'
    <3> DEFINE a == RemoveAt(act, k)
    <3>1. /\ act_ins(a, i) /\ act \in Seq(DOMAIN iv)
          /\ reg' = [reg EXCEPT ![i] = reg[act[k]], ![act[k]] = NoReg]
          /\ act[k] \in DOMAIN iv /\ act[k] < i
      BY <2>3, ActiveScanned DEF StealFrom, TypeOK
    <3>2. a \in Seq(DOMAIN iv) /\ Len(a) = Len(act) - 1
      BY <3>1, RemoveAtProperties
    <3>3. \A m \in DOMAIN act : m # k => \E j \in DOMAIN a : a[j] = act[m]
      BY <3>1, RemoveAtKeeps
    <3> HIDE DEF a
    <3>4. Len(a) < ActMax
      <4>1. Slots <= ActMax /\ ActMax \in Nat
        BY ActAssumption DEF ActLongEnough, Slots
      <4> QED
        BY <3>2, <4>1, ActiveCount
    <3>5. /\ \E j \in DOMAIN act' : act'[j] = i
          /\ \A m \in DOMAIN a : \E j \in DOMAIN act' : act'[j] = a[m]
      BY <2>1, <3>1, <3>2, <3>4, ActInsKeeps
    <3>6. /\ reg'[act[k]] = NoReg
          /\ \A j \in DOMAIN iv : j # i => reg'[j] = reg[j] \/ reg'[j] = NoReg
      BY <2>1, <3>1 DEF TypeOK
    <3>7. \A j \in DOMAIN iv : j # i /\ Held(j)' => Held(j)
      BY <3>6 DEF Held
    <3>8. \A m \in DOMAIN act : reg'[act[m]] # NoReg =>
            \E j \in DOMAIN act' : act'[j] = act[m]
      <4> SUFFICES ASSUME NEW m \in DOMAIN act, m # k
                   PROVE  \E j \in DOMAIN act' : act'[j] = act[m]
        BY <3>6
      <4> QED
        BY <3>3, <3>5
    <3> QED
      BY <2>1, <3>5, <3>7, <3>8, NextKeepsLive
  <2> QED
    BY <2>1, <2>2, <2>3
<1>6. CASE Finish
  BY <1>6 DEF Finish, LiveIsActive
<1>7. CASE UNCHANGED vars
  BY <1>7 DEF vars, LiveIsActive, Held
<1> QED
  BY <1>1, <1>2, <1>3, <1>4, <1>5, <1>6, <1>7 DEF Next

\* If the list has intervals of the class, spl_at finds the first of those
\* with the furthest end: the entry with the fewest better ones has none.
LEMMA VictimExists ==
  ASSUME TypeOK, ScanInv, NEW m \in DOMAIN act, SameClass(m)
  PROVE  \E v \in DOMAIN act : Victim(v)
<1> DEFINE C == {k \in DOMAIN act : SameClass(k)}
           e(k) == iv[act[k]].end
           better(j, k) == e(j) > e(k) \/ (e(j) = e(k) /\ j < k)
           B(k) == {j \in C : better(j, k)}
           T == {B(k) : k \in C}
<1>1. \A k \in C : k \in Nat /\ e(k) \in Nat
  BY ActiveScanned, LenProperties DEF TypeOK
<1>2. IsFiniteSet(C)
  <2>1. DOMAIN act = 1 .. Len(act) /\ Len(act) \in Nat
    BY LenProperties DEF TypeOK
  <2>2. IsFiniteSet(1 .. Len(act))
    BY <2>1, FS_Interval
  <2>3. C \in SUBSET (1 .. Len(act))
    BY <2>1
  <2> HIDE DEF C
  <2> QED
    BY <2>2, <2>3, FS_Subset
<1>3. m \in C
  OBVIOUS
<1> HIDE DEF C, e
<1>4. T \subseteq FiniteSubsetsOf(C) /\ T # {}
  <2>1. \A k \in C : B(k) \in SUBSET C /\ IsFiniteSet(B(k))
    <3> TAKE k \in C
    <3> DEFINE X == B(k)
    <3>1. X \in SUBSET C
      OBVIOUS
    <3> HIDE DEF X
    <3>2. IsFiniteSet(X)
      BY <1>2, <3>1, FS_Subset
    <3> QED
      BY <3>1, <3>2 DEF X
  <2> HIDE DEF B
  <2> QED
    BY <1>3, <2>1 DEF FiniteSubsetsOf
<1>5. PICK X \in T : \A Y \in T : ~ (<<Y, X>> \in StrictSubsetOrdering(C))
  <2> HIDE DEF T
  <2> QED
    BY <1>4, WFMin, FS_StrictSubsetOrderingWellFounded
<1>6. PICK v \in C : X = B(v)
  OBVIOUS
<1>7. \A j \in C : ~ better(j, v)
  <2>1. SUFFICES ASSUME NEW j \in C, better(j, v) PROVE FALSE
    OBVIOUS
  <2>2. j \in B(v) /\ j \notin B(j)
    BY <1>1, <2>1
  <2>3. B(j) \subseteq B(v)
    <3> SUFFICES ASSUME NEW k \in C, better(k, j) PROVE better(k, v)
      OBVIOUS
    <3> QED
      BY <1>1, <2>1
  <2>4. B(j) \in T /\ B(j) \in SUBSET C /\ B(v) \in SUBSET C
    OBVIOUS
  <2> HIDE DEF B
  <2>5. <<B(j), B(v)>> \in StrictSubsetOrdering(C)
    BY <2>2, <2>3, <2>4 DEF StrictSubsetOrdering
  <2> QED
    BY <1>5, <1>6, <2>4, <2>5
<1>8. ASSUME NEW j \in C PROVE e(j) <= e(v) /\ (j < v => e(j) < e(v))
  BY <1>1, <1>7
<1> QED
  BY <1>8 DEF Victim, C, e

\* "spill at interval with furthest end": no live interval of the class that
\* keeps a register ends after the one that goes to the stack.
THEOREM FurthestGoes == ASSUME ActLongEnough PROVE Spec => SpillsFurthest
<1> DEFINE A == \A x \in DOMAIN iv : Spills(x) =>
       \A k \in 1 .. i :
         /\ iv[k].cls = iv[x].cls
         /\ iv[k].end >= iv[i].start
         /\ reg'[k] # NoReg
         => iv[k].end <= iv[x].end
<1>1. TypeOK /\ ScanInv /\ LiveIsActive /\ [Next]_vars => A
  <2> SUFFICES ASSUME TypeOK, ScanInv, LiveIsActive, [Next]_vars,
                      NEW x \in DOMAIN iv, Spills(x), NEW k \in 1 .. i,
                      iv[k].cls = iv[x].cls, iv[k].end >= iv[i].start,
                      reg'[k] # NoReg
               PROVE  iv[k].end <= iv[x].end
    OBVIOUS
  <2>1. /\ pc = "scan" /\ i \in DOMAIN iv /\ iv[x].cls = cls_i
        /\ (x = i /\ SpillCurrent) \/ \E v \in DOMAIN act : StealFrom(v) /\ x = act[v]
    BY WhoSpills
  <2>2. k \in DOMAIN iv /\ iv[k].end \in Nat /\ iv[i].end \in Nat
    BY <2>1, ActiveScanned DEF TypeOK
  <2>3. CASE x = i /\ SpillCurrent
    <3>1. CASE k = i
      BY <2>2, <2>3, <3>1
    <3>2. CASE k # i
      <4>1. PICK m \in DOMAIN act : act[m] = k
        BY <2>1, <2>2, <2>3 DEF SpillCurrent, Held, LiveIsActive
      <4>2. SameClass(m)
        BY <2>1, <4>1 DEF SameClass
      <4>3. PICK v \in DOMAIN act : Victim(v)
        BY <4>2, VictimExists
      <4>4. iv[act[m]].end <= iv[act[v]].end /\ iv[act[v]].end <= iv[i].end
        BY <2>3, <4>2, <4>3 DEF Victim, SpillCurrent
      <4>5. iv[act[v]].end \in Nat
        BY ActiveScanned
      <4> QED
        BY <2>2, <2>3, <4>1, <4>4, <4>5
    <3> QED
      BY <3>1, <3>2
  <2>4. ASSUME NEW v \in DOMAIN act, StealFrom(v), x = act[v]
        PROVE  iv[k].end <= iv[x].end
    <3>1. /\ Victim(v) /\ iv[act[v]].end > iv[i].end /\ act[v] \in DOMAIN iv
          /\ reg' = [reg EXCEPT ![i] = reg[act[v]], ![act[v]] = NoReg]
      BY <2>4, ActiveScanned DEF StealFrom
    <3>2. CASE k = i
      BY <2>2, <2>4, <3>1, <3>2, ActiveScanned
    <3>3. CASE k # i
      <4>1. Held(k)
        BY <2>1, <2>2, <3>1, <3>3 DEF TypeOK, Held
      <4>2. PICK m \in DOMAIN act : act[m] = k
        BY <2>1, <2>2, <4>1 DEF LiveIsActive
      <4>3. SameClass(m)
        BY <2>1, <4>2 DEF SameClass
      <4> QED
        BY <2>4, <3>1, <4>2, <4>3 DEF Victim
    <3> QED
      BY <3>2, <3>3
  <2> QED
    BY <2>1, <2>3, <2>4
<1>2. Spec => []LiveIsActive
  <2>1. Init => LiveIsActive
    BY DEF Init, LiveIsActive
  <2>2. TypeOK /\ ScanInv /\ LiveIsActive /\ [Next]_vars => LiveIsActive'
    BY StepKeepsLive
  <2> QED
    BY <2>1, <2>2, TypeCorrect, ScanInvariant, PTL DEF Spec
<1>3. Spec => [][A]_vars
  <2> HIDE DEF A
  <2> QED
    BY <1>1, <1>2, TypeCorrect, ScanInvariant, PTL DEF Spec
<1> QED
  BY <1>3, PTL DEF SpillsFurthest
=============================================================================
