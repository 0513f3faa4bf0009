---------------------------- MODULE BuildProofs ----------------------------
(***************************************************************************)
(* Proofs about Build: the tables keep their limits, no cut file passes as *)
(* whole, and V(name) gets one definition, for every sequence of units,    *)
(* every order of imports and every size of the tables.                    *)
(***************************************************************************)
EXTENDS Build, ProofBasics, FiniteSetTheorems

---------------------------------------------------------------------------
(* What the tables are made of.                                            *)

Names == STRING \cup {""}
TypeKinds == PlainTypes \cup {"error", "ptr", "status", "proc", "table"}
SymKinds == ExportedKinds \cup {"PROC", "CPOOL"}
TyRec == [kind : TypeKinds, width : Nat, n_extra : Nat, inner : Nat, extra : Nat]
SymRec == [name : Names, type : Nat, kind : SymKinds, cval : Int]
FldRec == [name : Names, jtype : Nat, by : {"plain", "overlay", "pos"}]
TabRec == [flds : Seq(FldRec), lo : Int, hi : Int, ast_nd : BOOLEAN, wordsz : Nat]
LimRec == [{"types", "syms", "scopes", "stdef", "tbldef", "strs"} -> Nat \ {0}]
Tables ==
  [types : Seq(TyRec), stdef : Seq(Seq(Names)), tbldef : Seq(TabRec), syms : Seq(SymRec),
   scp : Seq(Nat), n_params : Nat, errs : BOOLEAN, lim : LimRec]

InLimits(T) ==
  /\ Len(T.types) < T.lim.types
  /\ Len(T.syms) <= T.lim.syms
  /\ Len(T.stdef) <= T.lim.stdef
  /\ Len(T.tbldef) <= T.lim.tbldef
  /\ Len(T.scp) <= T.lim.scopes
\* Interning never stores a type twice, and an inner type is there before.
TypesApart(types) ==
  \A i, j \in 1 .. Len(types) : types[i] = types[j] => i = j
InnerFirst(types) == \A i \in 1 .. Len(types) : types[i].inner < i
SymTypes(T) == \A i \in 1 .. Len(T.syms) : T.syms[i].type <= Len(T.types)
ScopesNest(T) ==
  \A i \in 1 .. Len(T.scp) :
    T.scp[i] <= Len(T.syms) /\ \A j \in i .. Len(T.scp) : T.scp[i] <= T.scp[j]
Good(T) ==
  /\ T \in Tables /\ InLimits(T)
  /\ TypesApart(T.types) /\ InnerFirst(T.types)
  /\ SymTypes(T) /\ ScopesNest(T)

\* Every definition of a STATUS type has its type, and every type its definition.
TypesFull(T) == Len(T.types) + 1 >= T.lim.types
StdefFull(T) == Len(T.stdef) >= T.lim.stdef
TypeOfDef(types, i) ==
  \E t \in 1 .. Len(types) : types[t].kind = "status" /\ types[t].extra + 1 = i
DefsTyped(T) == \A i \in 1 .. Len(T.stdef) : TypeOfDef(T.types, i)
DefOfType(ty, n) == ty.kind = "status" => ty.extra < n
TypesDefined(T) == \A t \in 1 .. Len(T.types) : DefOfType(T.types[t], Len(T.stdef))
StatusInv(T) == TypesFull(T) \/ StdefFull(T) \/ (DefsTyped(T) /\ TypesDefined(T))

\* What no operation takes back, within a unit.
Later(T, U) ==
  /\ U.lim = T.lim
  /\ Len(T.types) <= Len(U.types)
  /\ \A k \in 1 .. Len(T.types) : U.types[k] = T.types[k]
  /\ Len(T.stdef) <= Len(U.stdef)
  /\ Len(T.tbldef) <= Len(U.tbldef)
Grown(T, U) == Good(U) /\ Later(T, U) /\ U.scp = T.scp /\ (StatusInv(T) => StatusInv(U))

---------------------------------------------------------------------------
(* Operators of the libraries.                                             *)

LEMMA Nonempty ==
  ASSUME NEW X, NEW s \in Seq(X)
  PROVE  /\ Len(s) \in Nat /\ DOMAIN s = 1 .. Len(s)
         /\ \A k \in 1 .. Len(s) : s[k] \in X
  BY LenProperties, ElementOfSeq

LEMMA Appended ==
  ASSUME NEW X, NEW s \in Seq(X), NEW x \in X
  PROVE  /\ Append(s, x) \in Seq(X) /\ Len(Append(s, x)) = Len(s) + 1
         /\ \A k \in 1 .. Len(s) : Append(s, x)[k] = s[k]
         /\ Append(s, x)[Len(s) + 1] = x
  BY AppendProperties

\* A function on 1 .. n with values in X is a sequence over X.
LEMMA MapTyped ==
  ASSUME NEW X, NEW n \in Nat, NEW f \in [1 .. n -> X]
  PROVE  f \in Seq(X) /\ Len(f) = n
<1>1. f \in Seq(X)
  OBVIOUS
<1> QED
  BY <1>1, LenProperties

\* A set of indices has a first and a last one.
LEMMA FirstIndex ==
  ASSUME NEW n \in Nat, NEW I, I \subseteq 1 .. n, I # {}
  PROVE  Min(I) \in I /\ \A i \in I : Min(I) <= i
<1> DEFINE Found == \E j \in I : \A k \in I : j <= k
           T == {m \in Nat : Found \/ \A i \in I : i > m}
<1>1. 0 \in T
  OBVIOUS
<1>2. ASSUME NEW m \in Nat, m \in T PROVE m + 1 \in T
  <2>1. CASE Found
    BY <2>1
  <2>2. CASE \A i \in I : i > m
    <3>1. CASE m + 1 \in I
      BY <2>2, <3>1
    <3>2. CASE m + 1 \notin I
      BY <2>2, <3>2
    <3> QED
      BY <3>1, <3>2
  <2> QED
    BY <1>2, <2>1, <2>2
<1>3. n \in T
  <2> HIDE DEF T
  <2> QED
    BY <1>1, <1>2, Induction
<1>4. Found
  <2>1. PICK i \in I : TRUE
    OBVIOUS
  <2>2. ~ (i > n)
    OBVIOUS
  <2> QED
    BY <1>3, <2>2
<1> QED
  BY <1>4 DEF Min
LEMMA LastIndex ==
  ASSUME NEW n \in Nat, NEW I, I \subseteq 1 .. n, I # {}
  PROVE  Max(I) \in I /\ \A i \in I : Max(I) >= i
<1> DEFINE J == {n + 1 - i : i \in I}
<1>1. J \subseteq 1 .. n /\ J # {}
  <2>1. \A i \in I : n + 1 - i \in 1 .. n
    OBVIOUS
  <2>2. PICK i \in I : TRUE
    OBVIOUS
  <2>3. n + 1 - i \in J
    OBVIOUS
  <2> QED
    BY <2>1, <2>3
<1>2. PICK j \in J : \A k \in J : j <= k
  BY <1>1, FirstIndex
<1>3. PICK m \in I : j = n + 1 - m
  OBVIOUS
<1>4. ASSUME NEW i \in I PROVE m >= i
  <2>1. n + 1 - i \in J
    OBVIOUS
  <2> QED
    BY <1>2, <1>3, <2>1
<1> QED
  BY <1>4 DEF Max

---------------------------------------------------------------------------
(* The operators of Sema.                                                  *)

\* The types of the tables and of their entries.
LEMMA GoodParts ==
  ASSUME NEW T, Good(T)
  PROVE  /\ T.types \in Seq(TyRec) /\ Len(T.types) \in Nat
         /\ T.stdef \in Seq(Seq(Names)) /\ Len(T.stdef) \in Nat
         /\ T.tbldef \in Seq(TabRec) /\ Len(T.tbldef) \in Nat
         /\ T.syms \in Seq(SymRec) /\ Len(T.syms) \in Nat
         /\ T.scp \in Seq(Nat) /\ Len(T.scp) \in Nat
         /\ T.n_params \in Nat /\ T.errs \in BOOLEAN
         /\ T.lim.types \in Nat \ {0} /\ T.lim.syms \in Nat \ {0}
         /\ T.lim.stdef \in Nat \ {0} /\ T.lim.tbldef \in Nat \ {0}
         /\ T.lim.scopes \in Nat \ {0}
         /\ \A k \in 1 .. Len(T.types) : T.types[k] \in TyRec
         /\ \A k \in 1 .. Len(T.stdef) : T.stdef[k] \in Seq(Names)
         /\ \A k \in 1 .. Len(T.tbldef) : T.tbldef[k] \in TabRec
         /\ \A k \in 1 .. Len(T.syms) : T.syms[k] \in SymRec
         /\ \A k \in 1 .. Len(T.scp) : T.scp[k] \in Nat
<1>1. /\ T.types \in Seq(TyRec) /\ T.stdef \in Seq(Seq(Names))
      /\ T.tbldef \in Seq(TabRec) /\ T.syms \in Seq(SymRec) /\ T.scp \in Seq(Nat)
      /\ T.n_params \in Nat /\ T.errs \in BOOLEAN
      /\ T.lim.types \in Nat \ {0} /\ T.lim.syms \in Nat \ {0}
      /\ T.lim.stdef \in Nat \ {0} /\ T.lim.tbldef \in Nat \ {0}
      /\ T.lim.scopes \in Nat \ {0}
  BY DEF Good, Tables, LimRec
<1>2. \A k \in 1 .. Len(T.types) : T.types[k] \in TyRec
  BY <1>1, ElementOfSeq
<1>3. \A k \in 1 .. Len(T.stdef) : T.stdef[k] \in Seq(Names)
  BY <1>1, ElementOfSeq
<1>4. \A k \in 1 .. Len(T.tbldef) : T.tbldef[k] \in TabRec
  BY <1>1, ElementOfSeq
<1>5. \A k \in 1 .. Len(T.syms) : T.syms[k] \in SymRec
  BY <1>1, ElementOfSeq
<1>6. \A k \in 1 .. Len(T.scp) : T.scp[k] \in Nat
  BY <1>1, ElementOfSeq
<1> QED
  BY <1>1, <1>2, <1>3, <1>4, <1>5, <1>6, LenProperties

LEMMA GrownSame ==
  ASSUME NEW T, Good(T)
  PROVE  Grown(T, T)
<1>1. Len(T.types) \in Nat /\ Len(T.stdef) \in Nat /\ Len(T.tbldef) \in Nat
  BY LenProperties DEF Good, Tables
<1> QED
  BY <1>1 DEF Grown, Later

LEMMA LaterTwice ==
  ASSUME NEW T, NEW U, NEW V, Good(T), Good(U), Good(V), Later(T, U), Later(U, V)
  PROVE  Later(T, V)
<1>1. /\ Len(T.types) \in Nat /\ Len(T.stdef) \in Nat /\ Len(T.tbldef) \in Nat
      /\ Len(U.types) \in Nat /\ Len(U.stdef) \in Nat /\ Len(U.tbldef) \in Nat
      /\ Len(V.types) \in Nat /\ Len(V.stdef) \in Nat /\ Len(V.tbldef) \in Nat
  BY LenProperties DEF Good, Tables
<1> QED
  BY <1>1 DEF Later

LEMMA GrownTwice ==
  ASSUME NEW T, NEW U, NEW V, Good(T), Grown(T, U), Grown(U, V)
  PROVE  Grown(T, V)
  BY LaterTwice DEF Grown

\* jt_intern answers a type equal to the one asked for, or 0 when the table is
\* full.
Interned(T, ty, a) ==
  /\ Good(a.s) /\ Later(T, a.s)
  /\ a.t \in 0 .. Len(a.s.types)
  /\ a.s.stdef = T.stdef /\ a.s.tbldef = T.tbldef /\ a.s.syms = T.syms /\ a.s.scp = T.scp
  /\ a.t = 0 => TypesFull(a.s)
  /\ a.t # 0 => a.s.types[a.t] = ty
  /\ \A k \in 1 .. Len(a.s.types) : k > Len(T.types) => a.s.types[k] = ty
LEMMA Intern ==
  ASSUME NEW T, Good(T), NEW ty \in TyRec, ty.inner <= Len(T.types)
  PROVE  Interned(T, ty, jt_intern(T, ty))
<1> DEFINE I == {i \in 1 .. Len(T.types) : T.types[i] = ty}
           n == Len(T.types)
<1>1. n \in Nat /\ Len(T.stdef) \in Nat /\ Len(T.tbldef) \in Nat /\ T.types \in Seq(TyRec)
  BY LenProperties DEF Good, Tables
<1>2. CASE I # {}
  <2>1. jt_intern(T, ty) = [s |-> T, t |-> Min(I)]
    <3>1. I \subseteq 1 .. n
      OBVIOUS
    <3>2. Min(I) \in I
      BY <1>1, <1>2, <3>1, FirstIndex
    <3>3. Min(I) # 0
      BY <1>1, <3>1, <3>2
    <3> QED
      BY <1>2, <3>3 DEF jt_intern, SelectInSeq, Res
  <2>2. Min(I) \in 1 .. n /\ T.types[Min(I)] = ty
    BY <1>1, <1>2, FirstIndex
  <2>3. Later(T, T)
    BY GrownSame DEF Grown
  <2> HIDE DEF I
  <2> QED
    BY <1>1, <2>1, <2>2, <2>3 DEF Interned
<1>3. CASE I = {} /\ n + 1 >= T.lim.types
  <2>1. jt_intern(T, ty) = [s |-> T, t |-> 0]
    BY <1>3 DEF jt_intern, SelectInSeq, Res
  <2>2. Later(T, T)
    BY GrownSame DEF Grown
  <2> QED
    BY <1>1, <1>3, <2>1, <2>2 DEF Interned, TypesFull
<1>4. CASE I = {} /\ ~ (n + 1 >= T.lim.types)
  <2> DEFINE U == [T EXCEPT !.types = Append(@, ty)]
  <2>1. jt_intern(T, ty) = [s |-> U, t |-> n + 1]
    BY <1>4 DEF jt_intern, SelectInSeq, Res
  <2>2. /\ U \in Tables /\ U.types = Append(T.types, ty) /\ U.stdef = T.stdef
        /\ U.tbldef = T.tbldef /\ U.syms = T.syms /\ U.scp = T.scp /\ U.lim = T.lim
    BY <1>1, Appended DEF Good, Tables
  <2>3. /\ Len(U.types) = n + 1
        /\ \A k \in 1 .. n : U.types[k] = T.types[k]
        /\ U.types[n + 1] = ty
    BY <1>1, <2>2, Appended
  <2> HIDE DEF U
  <2>4. InLimits(U)
    <3>1. T.lim.types \in Nat
      BY DEF Good, Tables, LimRec
    <3> QED
      BY <1>1, <1>4, <2>2, <2>3, <3>1 DEF Good, InLimits
  <2>5. TypesApart(U.types)
    <3>1. \A k \in 1 .. n : T.types[k] # ty
      BY ONLY <1>4 DEF I
    <3>2. \A i, j \in 1 .. n : T.types[i] = T.types[j] => i = j
      BY <1>1 DEF Good, TypesApart
    <3>3. \A i \in 1 .. n + 1 : i \in 1 .. n \/ i = n + 1
      BY ONLY <1>1
    <3>4. \A i, j \in 1 .. n + 1 : U.types[i] = U.types[j] => i = j
      <4> HIDE DEF n
      <4> QED
        BY ONLY <2>3, <3>1, <3>2, <3>3, Zenon
    <3> QED
      BY ONLY <2>3, <3>4 DEF TypesApart
  <2>6. InnerFirst(U.types)
    <3>1. ASSUME NEW k \in 1 .. n + 1 PROVE U.types[k].inner < k
      <4>1. CASE k \in 1 .. n
        BY <2>3, <4>1 DEF Good, InnerFirst
      <4>2. CASE k = n + 1
        <5>1. ty.inner \in Nat
          BY DEF TyRec
        <5> QED
          BY <1>1, <2>3, <4>2, <5>1
      <4> QED
        BY <1>1, <4>1, <4>2
    <3> QED
      BY <2>3, <3>1 DEF InnerFirst
  <2>7. SymTypes(U)
    <3>1. \A i \in 1 .. Len(T.syms) : T.syms[i].type \in Nat
      BY GoodParts DEF SymRec
    <3> QED
      BY <1>1, <2>2, <2>3, <3>1 DEF Good, SymTypes
  <2>8. ScopesNest(U)
    BY <2>2 DEF Good, ScopesNest
  <2>9. Good(U)
    BY <2>2, <2>4, <2>5, <2>6, <2>7, <2>8 DEF Good
  <2>10. Later(T, U)
    BY <1>1, <2>2, <2>3 DEF Later
  <2>11. \A k \in 1 .. n + 1 : k > n => U.types[k] = ty
    BY <1>1, <2>3
  <2> QED
    BY <1>1, <2>1, <2>2, <2>3, <2>9, <2>10, <2>11 DEF Interned
<1> QED
  BY <1>2, <1>3, <1>4

\* What has filled up stays full, and what has a type keeps it.
LEMMA LaterFull ==
  ASSUME NEW T, NEW U, Good(T), Good(U), Later(T, U)
  PROVE  /\ TypesFull(T) => TypesFull(U)
         /\ StdefFull(T) => StdefFull(U)
         /\ Len(T.tbldef) >= T.lim.tbldef => Len(U.tbldef) >= U.lim.tbldef
<1>1. /\ Len(T.types) \in Nat /\ Len(T.stdef) \in Nat /\ Len(T.tbldef) \in Nat
      /\ Len(U.types) \in Nat /\ Len(U.stdef) \in Nat /\ Len(U.tbldef) \in Nat
      /\ T.lim.types \in Nat /\ T.lim.stdef \in Nat /\ T.lim.tbldef \in Nat
  BY GoodParts
<1>2. /\ U.lim = T.lim /\ Len(T.types) <= Len(U.types) /\ Len(T.stdef) <= Len(U.stdef)
      /\ Len(T.tbldef) <= Len(U.tbldef)
  BY DEF Later
<1>3. TypesFull(T) => TypesFull(U)
  BY <1>1, <1>2 DEF TypesFull
<1>4. StdefFull(T) => StdefFull(U)
  BY <1>1, <1>2 DEF StdefFull
<1>5. Len(T.tbldef) >= T.lim.tbldef => Len(U.tbldef) >= U.lim.tbldef
  BY <1>1, <1>2
<1> QED
  BY <1>3, <1>4, <1>5

LEMMA LaterTyped ==
  ASSUME NEW T, NEW U, Good(T), Good(U), Later(T, U), NEW i, TypeOfDef(T.types, i)
  PROVE  TypeOfDef(U.types, i)
<1>1. PICK t \in 1 .. Len(T.types) : T.types[t].kind = "status" /\ T.types[t].extra + 1 = i
  BY DEF TypeOfDef
<1>2. Len(T.types) \in Nat /\ Len(U.types) \in Nat
  BY GoodParts
<1>3. t \in 1 .. Len(U.types) /\ U.types[t] = T.types[t]
  BY <1>2 DEF Later
<1> QED
  BY <1>1, <1>3 DEF TypeOfDef

\* A new type that is no STATUS, or refers to a definition that is there, upsets
\* nothing.
LEMMA InternGrows ==
  ASSUME NEW T, Good(T), NEW ty, NEW a, Interned(T, ty, a), DefOfType(ty, Len(T.stdef))
  PROVE  Grown(T, a.s)
<1> DEFINE U == a.s
<1>1. Good(U) /\ Later(T, U) /\ U.scp = T.scp /\ U.stdef = T.stdef
  BY DEF Interned
<1>2. Len(T.types) \in Nat /\ Len(U.types) \in Nat
  BY <1>1, GoodParts
<1>3. ASSUME DefsTyped(T) PROVE DefsTyped(U)
  BY <1>1, <1>3, LaterTyped DEF DefsTyped
<1>4. ASSUME TypesDefined(T) PROVE TypesDefined(U)
  <2>1. ASSUME NEW t \in 1 .. Len(U.types) PROVE DefOfType(U.types[t], Len(U.stdef))
    <3>1. CASE t <= Len(T.types)
      <4>1. t \in 1 .. Len(T.types) /\ U.types[t] = T.types[t]
        BY <1>1, <1>2, <3>1 DEF Later
      <4> QED
        BY <1>1, <1>4, <4>1 DEF TypesDefined
    <3>2. CASE t > Len(T.types)
      BY <1>1, <3>2 DEF Interned
    <3> QED
      BY <1>2, <3>1, <3>2
  <2> QED
    BY <2>1 DEF TypesDefined
<1>5. StatusInv(T) => StatusInv(U)
  BY <1>1, <1>3, <1>4, LaterFull DEF StatusInv
<1> QED
  BY <1>1, <1>5 DEF Grown

\* What the operators that may add a type answer.
Answers(T, a) ==
  Grown(T, a.s) /\ a.t \in 0 .. Len(a.s.types) /\ a.s.tbldef = T.tbldef

LEMMA InternAnswers ==
  ASSUME NEW T, Good(T), NEW ty \in TyRec, ty.inner <= Len(T.types),
         DefOfType(ty, Len(T.stdef))
  PROVE  Answers(T, jt_intern(T, ty))
<1> DEFINE a == jt_intern(T, ty)
<1>1. Interned(T, ty, a)
  BY Intern
<1> HIDE DEF a
<1>2. Grown(T, a.s)
  BY <1>1, InternGrows
<1>3. Answers(T, a)
  BY <1>1, <1>2 DEF Answers, Interned
<1> QED
  BY <1>3 DEF a

LEMMA AnswersGood ==
  ASSUME NEW T, NEW a, Answers(T, a)
  PROVE  Good(a.s) /\ Later(T, a.s) /\ a.t \in Nat /\ a.t <= Len(a.s.types)
<1>1. Good(a.s) /\ Later(T, a.s) /\ a.t \in 0 .. Len(a.s.types)
  BY DEF Answers, Grown
<1> QED
  BY <1>1, GoodParts

LEMMA AnswersTwice ==
  ASSUME NEW T, NEW U, NEW a, Good(T), Grown(T, U), U.tbldef = T.tbldef, Answers(U, a)
  PROVE  Answers(T, a)
  BY GrownTwice DEF Answers

LEMMA PlainAnswers ==
  ASSUME NEW T, Good(T), NEW kind \in TypeKinds, kind # "status", NEW width \in Nat
  PROVE  Answers(T, jt_plain(T, kind, width))
<1> DEFINE ty == Ty(kind, width, 0, 0, 0)
<1>1. ty \in TyRec /\ ty.inner = 0 /\ DefOfType(ty, Len(T.stdef))
  BY DEF TyRec, Ty, DefOfType
<1>2. ty.inner <= Len(T.types)
  BY <1>1, GoodParts
<1> HIDE DEF ty
<1>3. Answers(T, jt_intern(T, ty))
  BY <1>1, <1>2, InternAnswers
<1> QED
  BY <1>3 DEF jt_plain, ty

LEMMA VoidAnswers ==
  ASSUME NEW T, Good(T)
  PROVE  Answers(T, jt_void(T)) /\ Answers(T, jt_err(T))
<1>1. Answers(T, jt_plain(T, "void", 0))
  BY PlainAnswers DEF TypeKinds, PlainTypes
<1>2. Answers(T, jt_plain(T, "error", 0))
  BY PlainAnswers DEF TypeKinds
<1> QED
  BY <1>1, <1>2 DEF jt_void, jt_err

LEMMA PtrAnswers ==
  ASSUME NEW T, Good(T), NEW inner \in Nat, inner <= Len(T.types)
  PROVE  Answers(T, jt_ptr(T, inner))
<1> DEFINE ty == Ty("ptr", 0, 0, inner, 0)
<1>1. ty \in TyRec /\ ty.inner = inner
  BY DEF TyRec, Ty, TypeKinds
<1>2. DefOfType(ty, Len(T.stdef))
  BY DEF Ty, DefOfType
<1> HIDE DEF ty
<1>3. Answers(T, jt_intern(T, ty))
  BY <1>1, <1>2, InternAnswers
<1> QED
  BY <1>3 DEF jt_ptr, ty

\* An error is only noted.
LEMMA ErrGrows ==
  ASSUME NEW T, Good(T)
  PROVE  Grown(T, sm_err(T)) /\ sm_err(T).tbldef = T.tbldef
<1> DEFINE U == sm_err(T)
<1>1. /\ U \in Tables /\ U.types = T.types /\ U.stdef = T.stdef /\ U.tbldef = T.tbldef
      /\ U.syms = T.syms /\ U.scp = T.scp /\ U.lim = T.lim
  BY DEF Good, Tables, sm_err
<1> HIDE DEF U
<1>2. Good(U)
  BY <1>1 DEF Good, InLimits, SymTypes, ScopesNest
<1>3. Later(T, U)
  BY <1>1, GoodParts DEF Later
<1>4. StatusInv(T) => StatusInv(U)
  BY <1>1 DEF StatusInv, TypesFull, StdefFull, DefsTyped, TypesDefined
<1>5. Grown(T, U)
  BY <1>1, <1>2, <1>3, <1>4 DEF Grown
<1> QED
  BY <1>1, <1>5 DEF U

\* A name's type is there.
LEMMA NameAnswers ==
  ASSUME NEW T, Good(T), NEW name
  PROVE  Answers(T, TypeOfName(T, name))
<1> DEFINE I == {i \in 1 .. Len(T.syms) : T.syms[i].name = name}
           U == sm_err(T)
<1>1. find_sym(T, name) = IF I # {} THEN Max(I) ELSE 0
  BY DEF find_sym, SelectLastInSeq
<1>2. CASE find_sym(T, name) = 0
  <2>1. TypeOfName(T, name) = jt_err(U)
    BY <1>2 DEF TypeOfName
  <2>2. Grown(T, U) /\ U.tbldef = T.tbldef /\ Good(U)
    BY ErrGrows DEF Grown
  <2> HIDE DEF U
  <2>3. Answers(U, jt_err(U))
    BY <2>2, VoidAnswers
  <2>4. Answers(T, jt_err(U))
    BY <2>2, <2>3, AnswersTwice
  <2> QED
    BY <2>1, <2>4
<1>3. CASE find_sym(T, name) # 0
  <2> DEFINE k == find_sym(T, name)
  <2>1. Len(T.syms) \in Nat /\ I \subseteq 1 .. Len(T.syms)
    BY GoodParts
  <2>2. I # {} /\ k = Max(I)
    BY <1>1, <1>3
  <2>3. Max(I) \in I
    BY <2>1, <2>2, LastIndex
  <2>4. k \in 1 .. Len(T.syms)
    BY <2>1, <2>2, <2>3
  <2>5. TypeOfName(T, name) = [s |-> T, t |-> T.syms[k].type]
    BY <1>3 DEF TypeOfName, Res
  <2> HIDE DEF k
  <2>6. T.syms[k].type \in Nat /\ T.syms[k].type <= Len(T.types)
    BY <2>4, GoodParts DEF SymRec, Good, SymTypes
  <2>7. T.syms[k].type \in 0 .. Len(T.types)
    BY <2>6, GoodParts
  <2> QED
    BY <2>5, <2>7, GrownSame DEF Answers
<1> QED
  BY <1>2, <1>3

\* A STATUS type and its definition come together.
LEMMA StatusAnswers ==
  ASSUME NEW T, Good(T), NEW vals \in Seq(Names)
  PROVE  Answers(T, res_status(T, vals))
<1> DEFINE E == sm_err(T)
           U == [T EXCEPT !.stdef = Append(@, vals)]
           n == Len(T.stdef)
           ty == Ty("status", 0, Len(vals), 0, n)
           a == jt_intern(U, ty)
<1>1. CASE n >= T.lim.stdef
  <2>1. res_status(T, vals) = jt_err(E)
    BY <1>1 DEF res_status
  <2>2. Grown(T, E) /\ E.tbldef = T.tbldef /\ Good(E)
    BY ErrGrows DEF Grown
  <2> HIDE DEF E
  <2>3. Answers(E, jt_err(E))
    BY <2>2, VoidAnswers
  <2>4. Answers(T, jt_err(E))
    BY <2>2, <2>3, AnswersTwice
  <2> QED
    BY <2>1, <2>4
<1>2. CASE ~ (n >= T.lim.stdef)
  <2>1. res_status(T, vals) = a
    BY <1>2 DEF res_status
  <2>2. n \in Nat /\ T.lim.stdef \in Nat /\ T.stdef \in Seq(Seq(Names)) /\ Len(vals) \in Nat
    BY GoodParts, LenProperties
  <2>3. /\ U.types = T.types /\ U.stdef = Append(T.stdef, vals)
        /\ U.tbldef = T.tbldef /\ U.syms = T.syms /\ U.scp = T.scp /\ U.lim = T.lim
        /\ U \in Tables
    BY <2>2, Appended DEF Good, Tables
  <2>4. Len(U.stdef) = n + 1
    BY <2>2, <2>3, Appended
  <2>5. ty \in TyRec /\ ty.inner = 0 /\ ty.kind = "status" /\ ty.extra = n
    BY <2>2 DEF Ty, TyRec, TypeKinds
  <2> HIDE DEF U, ty
  <2>6. Good(U)
    BY <1>2, <2>2, <2>3, <2>4 DEF Good, InLimits, SymTypes, ScopesNest
  <2>7. Later(T, U)
    BY <2>2, <2>3, <2>4, GoodParts DEF Later
  <2>8. ty.inner <= Len(U.types)
    BY <2>5, <2>6, GoodParts
  <2>9. Interned(U, ty, a)
    BY <2>5, <2>6, <2>8, Intern
  <2> HIDE DEF a
  <2>10. /\ Good(a.s) /\ Later(U, a.s) /\ a.t \in 0 .. Len(a.s.types)
         /\ a.s.stdef = U.stdef /\ a.s.tbldef = T.tbldef /\ a.s.scp = T.scp
    BY <2>3, <2>9 DEF Interned
  <2>11. Later(T, a.s)
    BY <2>6, <2>7, <2>10, LaterTwice
  <2>12. ASSUME DefsTyped(T), TypesDefined(T), ~ TypesFull(a.s)
         PROVE  DefsTyped(a.s) /\ TypesDefined(a.s)
    <3>1. a.t \in 1 .. Len(a.s.types) /\ a.s.types[a.t] = ty
      BY <2>9, <2>10, <2>12, GoodParts DEF Interned
    <3>2. ASSUME NEW i \in 1 .. n + 1 PROVE TypeOfDef(a.s.types, i)
      <4>1. CASE i = n + 1
        BY <2>5, <3>1, <4>1 DEF TypeOfDef
      <4>2. CASE i # n + 1
        <5>1. i \in 1 .. n
          BY <2>2, <4>2
        <5> QED
          BY <2>10, <2>11, <2>12, <5>1, LaterTyped DEF DefsTyped
      <4> QED
        BY <4>1, <4>2
    <3>3. ASSUME NEW t \in 1 .. Len(a.s.types) PROVE DefOfType(a.s.types[t], n + 1)
      <4>0. Len(T.types) \in Nat /\ Len(a.s.types) \in Nat
        BY <2>10, GoodParts
      <4>1. CASE t <= Len(T.types)
        <5>1. t \in 1 .. Len(T.types) /\ a.s.types[t] = T.types[t]
          BY <2>11, <4>0, <4>1 DEF Later
        <5>2. DefOfType(T.types[t], n) /\ T.types[t].extra \in Nat
          BY <2>12, <5>1, GoodParts DEF TypesDefined, TyRec
        <5> QED
          BY <2>2, <5>1, <5>2 DEF DefOfType
      <4>2. CASE t > Len(T.types)
        <5>1. a.s.types[t] = ty
          BY <2>3, <2>9, <4>2 DEF Interned
        <5> QED
          BY <2>2, <2>5, <5>1 DEF DefOfType
      <4> QED
        BY <4>0, <4>1, <4>2
    <3> QED
      BY <2>4, <2>10, <3>2, <3>3 DEF DefsTyped, TypesDefined
  <2>13. StatusInv(T) => StatusInv(a.s)
    BY <2>10, <2>11, <2>12, LaterFull DEF StatusInv
  <2>14. Answers(T, a)
    BY <2>10, <2>11, <2>13 DEF Answers, Grown
  <2> QED
    BY <2>1, <2>14
<1> QED
  BY <1>1, <1>2

LEMMA BaseAnswers ==
  ASSUME NEW T, Good(T), NEW spec \in Specs
  PROVE  Answers(T, res_base(T, spec))
<1>1. CASE spec \in [bt : PlainTypes, width : Nat, ptrs : Nat]
  <2>1. res_base(T, spec) = jt_plain(T, spec.bt, spec.width)
    BY <1>1 DEF res_base, PlainTypes
  <2>2. spec.bt \in TypeKinds /\ spec.bt # "status" /\ spec.width \in Nat
    BY <1>1 DEF PlainTypes, TypeKinds
  <2> QED
    BY <2>1, <2>2, PlainAnswers
<1>2. CASE spec \in [bt : {"status"}, vals : Seq(STRING), ptrs : Nat]
  <2>1. res_base(T, spec) = res_status(T, spec.vals)
    BY <1>2 DEF res_base
  <2>2. spec.vals \in Seq(Names)
    <3>1. spec.vals \in Seq(STRING) /\ STRING \subseteq Names
      BY <1>2 DEF Names
    <3> QED
      BY <3>1, SeqMonotonic
  <2> QED
    BY <2>1, <2>2, StatusAnswers
<1>3. CASE spec \in [bt : {"ref", "like"}, name : STRING, ptrs : Nat]
  <2>1. res_base(T, spec) = TypeOfName(T, spec.name)
    BY <1>3 DEF res_base
  <2> QED
    BY <2>1, NameAnswers
<1> QED
  BY <1>1, <1>2, <1>3 DEF Specs

\* POINTERs are added one by one around the type inside.
LEMMA TypeAnswers ==
  ASSUME NEW T, Good(T), NEW spec \in Specs
  PROVE  Answers(T, res_type(T, spec))
<1> DEFINE void == IF spec.ptrs = 0 THEN T ELSE jt_void(T).s
           base == res_base(void, spec)
           Ptr(a) == jt_ptr(a.s, a.t)
           Is(f, m) == f = [n \in 0 .. m |-> IF n = 0 THEN base ELSE Ptr(f[n - 1])]
           Some == {m \in Nat : \E f : Is(f, m)}
<1>1. spec.ptrs \in Nat
  BY DEF Specs
<1>2. 0 \in Some
  <2> DEFINE f == [n \in 0 .. 0 |-> base]
  <2>1. Is(f, 0)
    OBVIOUS
  <2> QED
    BY <2>1
<1>3. ASSUME NEW m \in Nat, m \in Some PROVE m + 1 \in Some
  <2> HIDE DEF base, Ptr
  <2>1. PICK f : Is(f, m)
    BY <1>3
  <2> DEFINE g == [n \in 0 .. m + 1 |-> IF n <= m THEN f[n] ELSE Ptr(f[m])]
  <2>2. ASSUME NEW n \in 0 .. m + 1
        PROVE  g[n] = IF n = 0 THEN base ELSE Ptr(g[n - 1])
    <3>1. CASE n = 0
      BY <2>1, <3>1
    <3>2. CASE n # 0 /\ n <= m
      <4>1. g[n] = f[n] /\ g[n - 1] = f[n - 1]
        BY <3>2
      <4>2. f[n] = Ptr(f[n - 1])
        BY <2>1, <3>2
      <4> QED
        BY <3>2, <4>1, <4>2
    <3>3. CASE n = m + 1
      <4>1. g[n] = Ptr(f[m]) /\ g[n - 1] = f[m] /\ n # 0
        BY <3>3
      <4> QED
        BY <4>1
    <3> QED
      BY <3>1, <3>2, <3>3
  <2>3. DOMAIN g = 0 .. m + 1 /\ g = [n \in 0 .. m + 1 |-> g[n]]
    OBVIOUS
  <2> HIDE DEF g
  <2>4. Is(g, m + 1)
    BY <2>2, <2>3
  <2> QED
    BY <2>4
<1>4. spec.ptrs \in Some
  <2> HIDE DEF Some
  <2> QED
    BY <1>1, <1>2, <1>3, Induction
<1> DEFINE res == CHOOSE f : Is(f, spec.ptrs)
<1>5. Is(res, spec.ptrs)
  <2> HIDE DEF base, Ptr
  <2> QED
    BY <1>4
<1>6. res_type(T, spec) = res[spec.ptrs]
  BY DEF res_type
<1>7. Grown(T, void) /\ void.tbldef = T.tbldef /\ Good(void)
  BY GrownSame, VoidAnswers, AnswersGood DEF Answers
<1>8. Answers(T, base)
  <2> HIDE DEF void
  <2>1. Answers(void, base)
    BY <1>7, BaseAnswers
  <2> HIDE DEF base
  <2> QED
    BY <1>7, <2>1, AnswersTwice
<1>9. /\ res[0] = base
      /\ \A n \in 0 .. spec.ptrs : n # 0 => res[n] = Ptr(res[n - 1])
  <2> HIDE DEF base, res, Ptr
  <2> QED
    BY <1>1, <1>5
<1> HIDE DEF base, res, void, Is
<1> DEFINE Fine == {n \in Nat : n <= spec.ptrs => Answers(T, res[n])}
<1>10. 0 \in Fine
  BY <1>8, <1>9
<1>11. ASSUME NEW m \in Nat, m \in Fine PROVE m + 1 \in Fine
  <2>1. SUFFICES ASSUME m + 1 <= spec.ptrs PROVE Answers(T, res[m + 1])
    OBVIOUS
  <2> DEFINE a == res[m]
  <2>2. m + 1 \in 0 .. spec.ptrs /\ m + 1 # 0 /\ (m + 1) - 1 = m /\ m <= spec.ptrs
    BY <1>1, <2>1
  <2>3. res[m + 1] = jt_ptr(a.s, a.t)
    BY <1>9, <2>2
  <2>4. Answers(T, a)
    BY <1>11, <2>2
  <2> HIDE DEF a
  <2>5. Good(a.s) /\ a.t \in Nat /\ a.t <= Len(a.s.types) /\ Grown(T, a.s)
        /\ a.s.tbldef = T.tbldef
    BY <2>4, AnswersGood DEF Answers
  <2>6. Answers(a.s, jt_ptr(a.s, a.t))
    BY <2>5, PtrAnswers
  <2> QED
    BY <2>3, <2>5, <2>6, AnswersTwice
<1>12. spec.ptrs \in Fine
  <2> HIDE DEF Fine
  <2> QED
    BY <1>1, <1>10, <1>11, Induction
<1> QED
  BY <1>1, <1>6, <1>12

---------------------------------------------------------------------------
(* Declarations.                                                           *)

LEMMA SymGrows ==
  ASSUME NEW T, Good(T), NEW name \in Names, NEW t \in Nat, t <= Len(T.types),
         NEW kind \in SymKinds, NEW val \in Int
  PROVE  Grown(T, add_sym(T, Sym(name, t, kind, val)))
<1> DEFINE sy == Sym(name, t, kind, val)
           U == [T EXCEPT !.syms = Append(@, sy)]
           n == Len(T.syms)
<1>1. CASE n >= T.lim.syms
  BY <1>1, GrownSame DEF add_sym
<1>2. CASE ~ (n >= T.lim.syms)
  <2>1. add_sym(T, sy) = U
    BY <1>2 DEF add_sym
  <2>2. sy \in SymRec /\ sy.type = t
    BY DEF Sym, SymRec
  <2> HIDE DEF sy
  <2>3. n \in Nat /\ T.syms \in Seq(SymRec) /\ T.lim.syms \in Nat
    BY GoodParts
  <2>4. /\ U.types = T.types /\ U.stdef = T.stdef /\ U.tbldef = T.tbldef
        /\ U.syms = Append(T.syms, sy) /\ U.scp = T.scp /\ U.lim = T.lim
        /\ U \in Tables
    BY <2>2, <2>3, Appended DEF Good, Tables
  <2>5. Len(U.syms) = n + 1 /\ U.syms[n + 1] = sy /\ \A k \in 1 .. n : U.syms[k] = T.syms[k]
    BY <2>2, <2>3, <2>4, Appended
  <2> HIDE DEF U
  <2>6. InLimits(U)
    BY <1>2, <2>3, <2>4, <2>5 DEF Good, InLimits
  <2>7. SymTypes(U)
    BY <2>2, <2>3, <2>4, <2>5 DEF Good, SymTypes
  <2>8. ScopesNest(U)
    BY <2>3, <2>4, <2>5, GoodParts DEF Good, ScopesNest
  <2>9. Good(U)
    BY <2>4, <2>6, <2>7, <2>8 DEF Good
  <2>10. Later(T, U)
    BY <2>4, GoodParts DEF Later
  <2>11. StatusInv(T) => StatusInv(U)
    BY <2>4 DEF StatusInv, TypesFull, StdefFull, DefsTyped, TypesDefined
  <2> QED
    BY <2>1, <2>4, <2>9, <2>10, <2>11 DEF Grown, sy
<1> QED
  BY <1>1, <1>2

\* A name of the type just resolved.
LEMMA NamedGrows ==
  ASSUME NEW T, Good(T), NEW a, Answers(T, a),
         NEW name \in Names, NEW kind \in SymKinds, NEW val \in Int
  PROVE  Grown(T, add_sym(a.s, Sym(name, a.t, kind, val)))
<1>1. Good(a.s) /\ a.t \in Nat /\ a.t <= Len(a.s.types) /\ Grown(T, a.s)
  BY AnswersGood DEF Answers
<1>2. Grown(a.s, add_sym(a.s, Sym(name, a.t, kind, val)))
  BY <1>1, SymGrows
<1> QED
  BY <1>1, <1>2, GrownTwice

LEMMA ItemGrows ==
  ASSUME NEW T, Good(T), NEW d \in [k : {"item", "type"}, name : STRING, spec : Specs]
  PROVE  Grown(T, col_item(T, d)) /\ Grown(T, col_tdef(T, d))
<1>1. d.name \in Names /\ d.spec \in Specs /\ "VAR" \in SymKinds /\ "TYPE" \in SymKinds
  BY DEF Names, SymKinds, ExportedKinds
<1>2. Grown(T, col_item(T, d))
  <2> DEFINE a == res_type(T, d.spec)
  <2>1. Answers(T, a)
    BY <1>1, TypeAnswers
  <2>2. col_item(T, d) = add_sym(a.s, Sym(d.name, a.t, "VAR", 0))
    BY DEF col_item
  <2> HIDE DEF a
  <2> QED
    BY <1>1, <2>1, <2>2, NamedGrows
<1>3. Grown(T, col_tdef(T, d))
  <2> DEFINE e == jt_err(T).s
             a == res_type(e, d.spec)
  <2>1. Grown(T, e) /\ Good(e) /\ e.tbldef = T.tbldef
    BY VoidAnswers DEF Answers, Grown
  <2>2. col_tdef(T, d) = add_sym(a.s, Sym(d.name, a.t, "TYPE", 0))
    BY DEF col_tdef
  <2> HIDE DEF e
  <2>3. Answers(e, a)
    BY <1>1, <2>1, TypeAnswers
  <2> HIDE DEF a
  <2>4. Answers(T, a)
    BY <2>1, <2>3, AnswersTwice
  <2> QED
    BY <1>1, <2>2, <2>4, NamedGrows
<1> QED
  BY <1>2, <1>3

\* A constant expression has a number as its value, and at most notes an error.
Evaluated(T, c) ==
  Grown(T, c.s) /\ c.s.types = T.types /\ c.s.tbldef = T.tbldef /\ c.v \in Int

LEMMA ConstEvaluated ==
  ASSUME NEW T, Good(T), NEW e \in Consts
  PROVE  Evaluated(T, eval_const(T, e))
<1> DEFINE I == {i \in 1 .. Len(T.syms) : T.syms[i].name = e.name}
           k == find_sym(T, e.name)
           isConst == k # 0 /\ T.syms[k].kind = "CONST"
           U == sm_err(T)
<1>1. CASE e.op = "lit"
  <2>1. e.val \in Int
    BY <1>1 DEF Consts
  <2>2. eval_const(T, e) = [s |-> T, v |-> e.val]
    BY <1>1 DEF eval_const
  <2> QED
    BY <2>1, <2>2, GrownSame DEF Evaluated
<1>2. CASE e.op = "name" /\ isConst
  <2>1. k = IF I # {} THEN Max(I) ELSE 0
    BY DEF find_sym, SelectLastInSeq
  <2>2. Len(T.syms) \in Nat /\ I \subseteq 1 .. Len(T.syms)
    BY GoodParts
  <2>3. I # {} /\ k = Max(I)
    BY <1>2, <2>1
  <2>4. Max(I) \in I
    BY <2>2, <2>3, LastIndex
  <2>5. k \in 1 .. Len(T.syms)
    BY <2>2, <2>3, <2>4
  <2>6. eval_const(T, e) = [s |-> T, v |-> T.syms[k].cval]
    BY <1>2 DEF eval_const
  <2> HIDE DEF k
  <2>7. T.syms[k].cval \in Int
    BY <2>5, GoodParts DEF SymRec
  <2> QED
    BY <2>6, <2>7, GrownSame DEF Evaluated
<1>3. CASE e.op = "name" /\ ~ isConst
  <2>1. eval_const(T, e) = [s |-> U, v |-> 0]
    BY <1>3 DEF eval_const
  <2>2. Grown(T, U) /\ U.tbldef = T.tbldef
    BY ErrGrows
  <2>3. U.types = T.types
    BY DEF Good, Tables, sm_err
  <2> HIDE DEF U
  <2> QED
    BY <2>1, <2>2, <2>3 DEF Evaluated
<1>4. e.op = "lit" \/ e.op = "name"
  BY DEF Consts
<1> QED
  BY <1>1, <1>2, <1>3, <1>4

LEMMA ConstGrows ==
  ASSUME NEW T, Good(T),
         NEW d \in [k : {"const"}, name : STRING, spec : Specs, val : Consts]
  PROVE  Grown(T, col_const(T, d))
<1>1. d.name \in Names /\ d.spec \in Specs /\ d.val \in Consts /\ "CONST" \in SymKinds
  BY DEF Names, SymKinds, ExportedKinds
<1> DEFINE a == res_type(T, d.spec)
           c == eval_const(a.s, d.val)
           b == [s |-> c.s, t |-> a.t]
<1>2. Answers(T, a)
  BY <1>1, TypeAnswers
<1>3. col_const(T, d) = add_sym(b.s, Sym(d.name, b.t, "CONST", c.v))
  BY DEF col_const
<1> HIDE DEF a
<1>4. Good(a.s) /\ Grown(T, a.s)
  BY <1>2, AnswersGood DEF Answers
<1>5. Evaluated(a.s, c)
  BY <1>1, <1>4, ConstEvaluated
<1> HIDE DEF c
<1>6. Grown(T, c.s)
  BY <1>4, <1>5, GrownTwice DEF Evaluated
<1>7. b.t \in 0 .. Len(b.s.types) /\ b.s.tbldef = T.tbldef /\ b.s = c.s
  BY <1>2, <1>5 DEF Answers, Evaluated
<1> HIDE DEF b
<1>8. Answers(T, b) /\ c.v \in Int
  BY <1>5, <1>6, <1>7 DEF Answers, Evaluated
<1> QED
  BY <1>1, <1>3, <1>8, NamedGrows

LEMMA DefineGrows ==
  ASSUME NEW T, Good(T), NEW d \in [k : {"define"}, name : STRING, val : Consts]
  PROVE  Grown(T, col_defn(T, d))
<1>1. d.name \in Names /\ d.val \in Consts /\ "CONST" \in SymKinds /\ "s" \in TypeKinds
  BY DEF Names, SymKinds, ExportedKinds, TypeKinds, PlainTypes
<1> DEFINE c == eval_const(T, d.val)
           a == jt_plain(c.s, "s", 32)
<1>2. Evaluated(T, c)
  BY <1>1, ConstEvaluated
<1>3. col_defn(T, d) = add_sym(a.s, Sym(d.name, a.t, "CONST", c.v))
  BY DEF col_defn
<1> HIDE DEF c
<1>4. Grown(T, c.s) /\ Good(c.s) /\ c.s.tbldef = T.tbldef /\ c.v \in Int
  BY <1>2 DEF Evaluated, Grown
<1>5. Answers(c.s, a)
  BY <1>1, <1>4, PlainAnswers
<1> HIDE DEF a
<1>6. Answers(T, a)
  BY <1>4, <1>5, AnswersTwice
<1> QED
  BY <1>1, <1>3, <1>4, <1>6, NamedGrows

LEMMA CpoolGrows ==
  ASSUME NEW T, Good(T), NEW d \in [k : {"compool"}, name : STRING]
  PROVE  Grown(T, col_cpool(T, d))
<1>1. d.name \in Names /\ "CPOOL" \in SymKinds
  BY DEF Names, SymKinds
<1> DEFINE a == jt_void(T)
<1>2. Answers(T, a)
  BY VoidAnswers
<1>3. col_cpool(T, d) = add_sym(a.s, Sym(d.name, a.t, "CPOOL", 0))
  BY DEF col_cpool
<1> HIDE DEF a
<1> QED
  BY <1>1, <1>2, <1>3, NamedGrows

\* The parameters' pool is on nobody else's way.
LEMMA ProcGrows ==
  ASSUME NEW T, Good(T),
         NEW d \in [k : {"proc"}, name : STRING, spec : Specs, params : Nat]
  PROVE  Grown(T, col_proc(T, d))
<1>1. d.name \in Names /\ d.spec \in Specs /\ d.params \in Nat /\ "PROC" \in SymKinds
  BY DEF Names, SymKinds
<1> DEFINE P == [T EXCEPT !.n_params = @ + d.params]
           v == jt_void(P).s
           ret == res_type(v, d.spec)
           ty == Ty("proc", 0, d.params, ret.t, T.n_params)
           a == jt_intern(ret.s, ty)
<1>2. col_proc(T, d) = add_sym(a.s, Sym(d.name, a.t, "PROC", 0))
  BY DEF col_proc
<1>3. T.n_params \in Nat /\ T.n_params + d.params \in Nat
  BY <1>1, GoodParts
<1>4. /\ P \in Tables /\ P.types = T.types /\ P.stdef = T.stdef /\ P.tbldef = T.tbldef
      /\ P.syms = T.syms /\ P.scp = T.scp /\ P.lim = T.lim
  BY <1>1, <1>3 DEF Good, Tables
<1> HIDE DEF P
<1>5. Good(P)
  BY <1>4 DEF Good, InLimits, SymTypes, ScopesNest
<1>6. Grown(T, P)
  <2>1. Later(T, P)
    BY <1>4, GoodParts DEF Later
  <2>2. StatusInv(T) => StatusInv(P)
    BY <1>4 DEF StatusInv, TypesFull, StdefFull, DefsTyped, TypesDefined
  <2> QED
    BY <1>4, <1>5, <2>1, <2>2 DEF Grown
<1>7. Grown(P, v) /\ Good(v) /\ v.tbldef = P.tbldef
  BY <1>5, VoidAnswers DEF Answers, Grown
<1> HIDE DEF v
<1>8. Answers(v, ret)
  BY <1>1, <1>7, TypeAnswers
<1> HIDE DEF ret
<1>9. Good(ret.s) /\ ret.t \in Nat /\ ret.t <= Len(ret.s.types) /\ Grown(v, ret.s)
      /\ ret.s.tbldef = v.tbldef
  BY <1>8, AnswersGood DEF Answers
<1>10. ty \in TyRec /\ ty.inner = ret.t /\ ty.kind # "status"
  BY <1>1, <1>3, <1>9 DEF Ty, TyRec, TypeKinds
<1> HIDE DEF ty
<1>11. Answers(ret.s, a)
  BY <1>9, <1>10, InternAnswers DEF DefOfType
<1> HIDE DEF a
<1>12. Grown(T, v) /\ v.tbldef = T.tbldef
  BY <1>4, <1>6, <1>7, GrownTwice
<1>13. Grown(T, ret.s) /\ ret.s.tbldef = T.tbldef
  BY <1>9, <1>12, GrownTwice
<1>14. Answers(T, a)
  BY <1>11, <1>13, AnswersTwice
<1> QED
  BY <1>1, <1>2, <1>14, NamedGrows

\* A TABLE with its fields so far.
TableSoFar(T, ti, U) == Grown(T, U) /\ Len(U.tbldef) = ti + 1

LEMMA NewTableGrows ==
  ASSUME NEW T, Good(T), Len(T.tbldef) < T.lim.tbldef, NEW td \in TabRec
  PROVE  TableSoFar(T, Len(T.tbldef), [T EXCEPT !.tbldef = Append(@, td)])
<1> DEFINE U == [T EXCEPT !.tbldef = Append(@, td)]
           n == Len(T.tbldef)
<1>1. n \in Nat /\ T.tbldef \in Seq(TabRec) /\ T.lim.tbldef \in Nat
  BY GoodParts
<1>2. /\ U.types = T.types /\ U.stdef = T.stdef /\ U.tbldef = Append(T.tbldef, td)
      /\ U.syms = T.syms /\ U.scp = T.scp /\ U.lim = T.lim /\ U \in Tables
  BY <1>1, Appended DEF Good, Tables
<1>3. Len(U.tbldef) = n + 1
  BY <1>1, <1>2, Appended
<1> HIDE DEF U
<1>4. Good(U)
  BY <1>1, <1>2, <1>3 DEF Good, InLimits, SymTypes, ScopesNest
<1>5. Later(T, U)
  BY <1>1, <1>2, <1>3, GoodParts DEF Later
<1>6. StatusInv(T) => StatusInv(U)
  BY <1>2 DEF StatusInv, TypesFull, StdefFull, DefsTyped, TypesDefined
<1>7. TableSoFar(T, n, U)
  BY <1>2, <1>3, <1>4, <1>5, <1>6 DEF TableSoFar, Grown
<1> QED
  BY <1>7 DEF U

\* An entry of the table definitions gets other fields.
LEMMA FieldsGrow ==
  ASSUME NEW U, Good(U), NEW i \in 1 .. Len(U.tbldef), NEW flds \in Seq(FldRec)
  PROVE  /\ Grown(U, [U EXCEPT !.tbldef[i].flds = flds])
         /\ Len([U EXCEPT !.tbldef[i].flds = flds].tbldef) = Len(U.tbldef)
<1> DEFINE td == [U.tbldef[i] EXCEPT !.flds = flds]
           V == [U EXCEPT !.tbldef[i].flds = flds]
<1>1. /\ U.tbldef \in Seq(TabRec) /\ Len(U.tbldef) \in Nat /\ DOMAIN U.tbldef = 1 .. Len(U.tbldef)
      /\ U.tbldef[i] \in TabRec
  BY GoodParts, LenProperties
<1>2. td \in TabRec
  BY <1>1 DEF TabRec
<1>3. V = [U EXCEPT !.tbldef = [U.tbldef EXCEPT ![i] = td]]
  BY <1>1 DEF Good, Tables
<1> HIDE DEF td, V
<1>4. [U.tbldef EXCEPT ![i] = td] \in Seq(TabRec)
      /\ Len([U.tbldef EXCEPT ![i] = td]) = Len(U.tbldef)
  BY <1>1, <1>2, ExceptSeq
<1>5. /\ V.types = U.types /\ V.stdef = U.stdef /\ Len(V.tbldef) = Len(U.tbldef)
      /\ V.syms = U.syms /\ V.scp = U.scp /\ V.lim = U.lim /\ V \in Tables
  BY <1>3, <1>4 DEF Good, Tables
<1>6. Good(V)
  BY <1>5 DEF Good, InLimits, SymTypes, ScopesNest
<1>7. Later(U, V)
  BY <1>1, <1>5, GoodParts DEF Later
<1>8. StatusInv(U) => StatusInv(V)
  BY <1>5 DEF StatusInv, TypesFull, StdefFull, DefsTyped, TypesDefined
<1>9. Grown(U, V) /\ Len(V.tbldef) = Len(U.tbldef)
  BY <1>5, <1>6, <1>7, <1>8 DEF Grown
<1> QED
  BY <1>9 DEF V

LEMMA TableBegun ==
  ASSUME NEW T, Good(T), Len(T.tbldef) < T.lim.tbldef,
         NEW d \in [k : {"table"}, name : STRING, lo : Consts, hi : Consts, wordsz : Nat,
                    flds : Seq(Fields)]
  PROVE  TableSoFar(T, Len(T.tbldef), NewTable(T, d))
<1>1. d.lo \in Consts /\ d.hi \in Consts /\ d.wordsz \in Nat
  OBVIOUS
<1> DEFINE lo == eval_const(T, d.lo)
           hi == eval_const(lo.s, d.hi)
           td == [flds |-> <<>>, lo |-> lo.v, hi |-> hi.v, ast_nd |-> TRUE,
                  wordsz |-> d.wordsz]
           U == [hi.s EXCEPT !.tbldef = Append(@, td)]
<1>2. NewTable(T, d) = U
  BY DEF NewTable
<1>3. Evaluated(T, lo)
  BY <1>1, ConstEvaluated
<1> HIDE DEF lo
<1>4. Grown(T, lo.s) /\ Good(lo.s) /\ lo.s.tbldef = T.tbldef /\ lo.v \in Int
  BY <1>3 DEF Evaluated, Grown
<1>5. Evaluated(lo.s, hi)
  BY <1>1, <1>4, ConstEvaluated
<1> HIDE DEF hi
<1>6. Grown(lo.s, hi.s) /\ Good(hi.s) /\ hi.s.tbldef = T.tbldef /\ hi.v \in Int
  BY <1>4, <1>5 DEF Evaluated, Grown
<1>7. Grown(T, hi.s) /\ hi.s.lim = T.lim
  <2>1. Grown(T, hi.s)
    BY <1>4, <1>6, GrownTwice
  <2> QED
    BY <2>1 DEF Grown, Later
<1>8. <<>> \in Seq(FldRec)
  OBVIOUS
<1>9. td \in TabRec
  BY <1>1, <1>4, <1>6, <1>8 DEF TabRec
<1> HIDE DEF td
<1>10. TableSoFar(hi.s, Len(T.tbldef), U)
  BY <1>6, <1>7, <1>9, NewTableGrows
<1> HIDE DEF U
<1> QED
  BY <1>2, <1>7, <1>10, GrownTwice DEF TableSoFar

LEMMA FieldAdded ==
  ASSUME NEW T, Good(T), NEW ti \in Nat, NEW U, TableSoFar(T, ti, U), NEW f \in Fields
  PROVE  TableSoFar(T, ti, AddField(ti + 1, U, f))
<1> DEFINE a == res_type(U, f.spec)
           W == a.s
           fld == [name |-> f.name, jtype |-> a.t, by |-> f.by]
           flds == Append(W.tbldef[ti + 1].flds, fld)
           V == [W EXCEPT !.tbldef[ti + 1].flds = flds]
<1>1. AddField(ti + 1, U, f) = V \/ AddField(ti + 1, U, f) = sm_err(V)
  BY DEF AddField
<1>2. f.spec \in Specs /\ f.name \in Names /\ f.by \in {"plain", "overlay", "pos"}
  BY DEF Fields, Names
<1>3. Good(U) /\ Grown(T, U) /\ Len(U.tbldef) = ti + 1
  BY DEF TableSoFar, Grown
<1>4. Answers(U, a)
  BY <1>2, <1>3, TypeAnswers
<1> HIDE DEF a
<1>5. Good(W) /\ a.t \in Nat /\ Grown(U, W) /\ Len(W.tbldef) = ti + 1
  BY <1>3, <1>4, AnswersGood DEF Answers
<1> HIDE DEF W
<1>6. ti + 1 \in 1 .. Len(W.tbldef) /\ W.tbldef[ti + 1] \in TabRec
  BY <1>5, GoodParts
<1>7. fld \in FldRec
  BY <1>2, <1>5 DEF FldRec
<1> HIDE DEF fld
<1>8. flds \in Seq(FldRec)
  BY <1>6, <1>7, Appended DEF TabRec
<1> HIDE DEF flds
<1>9. Grown(W, V) /\ Len(V.tbldef) = ti + 1
  BY <1>5, <1>6, <1>8, FieldsGrow
<1> HIDE DEF V
<1>10. Grown(T, V) /\ Good(V)
  BY <1>3, <1>5, <1>9, GrownTwice DEF Grown
<1>11. Grown(T, sm_err(V)) /\ Len(sm_err(V).tbldef) = ti + 1
  BY <1>9, <1>10, ErrGrows, GrownTwice
<1> QED
  BY <1>1, <1>9, <1>10, <1>11 DEF TableSoFar

LEMMA TableGrows ==
  ASSUME NEW T, Good(T),
         NEW d \in [k : {"table"}, name : STRING, lo : Consts, hi : Consts, wordsz : Nat,
                    flds : Seq(Fields)]
  PROVE  Grown(T, col_tabl(T, d))
<1> DEFINE ti == Len(T.tbldef)
           nf == Len(d.flds)
           base == NewTable(T, d)
           More(U, n) == AddField(ti + 1, U, d.flds[n])
           Is(f, m) == f = [n \in 0 .. m |-> IF n = 0 THEN base ELSE More(f[n - 1], n)]
           Some == {m \in Nat : \E f : Is(f, m)}
<1>1. nf \in Nat /\ ti \in Nat /\ \A n \in 1 .. nf : d.flds[n] \in Fields
  <2>1. d.flds \in Seq(Fields)
    OBVIOUS
  <2> QED
    BY <2>1, GoodParts, LenProperties, ElementOfSeq
<1>2. 0 \in Some
  <2> DEFINE f == [n \in 0 .. 0 |-> base]
  <2>1. Is(f, 0)
    OBVIOUS
  <2> QED
    BY <2>1
<1>3. ASSUME NEW m \in Nat, m \in Some PROVE m + 1 \in Some
  <2> HIDE DEF base, More
  <2>1. PICK f : Is(f, m)
    BY <1>3
  <2> DEFINE g == [n \in 0 .. m + 1 |-> IF n <= m THEN f[n] ELSE More(f[m], m + 1)]
  <2>2. ASSUME NEW n \in 0 .. m + 1
        PROVE  g[n] = IF n = 0 THEN base ELSE More(g[n - 1], n)
    <3>1. CASE n = 0
      BY <2>1, <3>1
    <3>2. CASE n # 0 /\ n <= m
      <4>1. g[n] = f[n] /\ g[n - 1] = f[n - 1]
        BY <3>2
      <4>2. f[n] = More(f[n - 1], n)
        BY <2>1, <3>2
      <4> QED
        BY <3>2, <4>1, <4>2
    <3>3. CASE n = m + 1
      <4>1. g[n] = More(f[m], m + 1) /\ g[n - 1] = f[m] /\ n # 0
        BY <3>3
      <4> QED
        BY <3>3, <4>1
    <3> QED
      BY <3>1, <3>2, <3>3
  <2>3. DOMAIN g = 0 .. m + 1 /\ g = [n \in 0 .. m + 1 |-> g[n]]
    OBVIOUS
  <2> HIDE DEF g
  <2>4. Is(g, m + 1)
    BY <2>2, <2>3
  <2> QED
    BY <2>4
<1>4. nf \in Some
  <2> HIDE DEF Some
  <2> QED
    BY <1>1, <1>2, <1>3, Induction
<1> DEFINE filled == CHOOSE f : Is(f, nf)
           U == filled[nf]
           ty == Ty("table", 0, nf, 0, ti)
           a == jt_intern(U, ty)
<1>5. Is(filled, nf)
  <2> HIDE DEF base, More, nf
  <2> QED
    BY <1>4
<1>6. col_tabl(T, d) =
        IF ti >= T.lim.tbldef THEN sm_err(T) ELSE add_sym(a.s, Sym(d.name, a.t, "TABLE", 0))
  BY DEF col_tabl
<1>7. CASE ti >= T.lim.tbldef
  BY <1>6, <1>7, ErrGrows
<1>8. CASE ~ (ti >= T.lim.tbldef)
  <2>1. TableSoFar(T, ti, base)
    <3>1. Len(T.tbldef) < T.lim.tbldef
      BY <1>1, <1>8, GoodParts
    <3> QED
      BY <3>1, TableBegun
  <2>2. /\ filled[0] = base
        /\ \A n \in 1 .. nf : filled[n] = More(filled[n - 1], n)
    <3> HIDE DEF base, filled, More, nf
    <3> QED
      BY <1>1, <1>5
  <2> HIDE DEF filled, Is, base
  <2> DEFINE Fine == {n \in Nat : n <= nf => TableSoFar(T, ti, filled[n])}
  <2>3. 0 \in Fine
    BY <2>1, <2>2
  <2>4. ASSUME NEW m \in Nat, m \in Fine PROVE m + 1 \in Fine
    <3>1. SUFFICES ASSUME m + 1 <= nf PROVE TableSoFar(T, ti, filled[m + 1])
      OBVIOUS
    <3>2. m + 1 \in 1 .. nf /\ (m + 1) - 1 = m /\ m <= nf
      BY <1>1, <3>1
    <3>3. filled[m + 1] = AddField(ti + 1, filled[m], d.flds[m + 1])
      BY <2>2, <3>2
    <3>4. TableSoFar(T, ti, filled[m]) /\ d.flds[m + 1] \in Fields
      BY <1>1, <2>4, <3>2
    <3> HIDE DEF ti
    <3> QED
      BY <1>1, <3>3, <3>4, FieldAdded
  <2>5. nf \in Fine
    <3> HIDE DEF Fine
    <3> QED
      BY <1>1, <2>3, <2>4, Induction
  <2>6. Grown(T, U) /\ Good(U)
    BY <1>1, <2>5 DEF TableSoFar, Grown
  <2> HIDE DEF U
  <2>7. ty \in TyRec /\ ty.inner = 0 /\ ty.kind # "status" /\ ty.inner <= Len(U.types)
    <3>1. Len(U.types) \in Nat
      BY <2>6, GoodParts
    <3> QED
      BY <1>1, <3>1 DEF Ty, TyRec, TypeKinds
  <2> HIDE DEF ty
  <2>8. Answers(U, a)
    BY <2>6, <2>7, InternAnswers DEF DefOfType
  <2> HIDE DEF a
  <2>9. d.name \in Names /\ "TABLE" \in SymKinds
    BY DEF Names, SymKinds, ExportedKinds
  <2>10. Grown(U, add_sym(a.s, Sym(d.name, a.t, "TABLE", 0)))
    BY <2>6, <2>8, <2>9, NamedGrows
  <2>11. Grown(T, add_sym(a.s, Sym(d.name, a.t, "TABLE", 0)))
    BY <2>6, <2>10, GrownTwice
  <2> QED
    BY <1>6, <1>8, <2>11
<1> QED
  BY <1>7, <1>8

\* A declaration, or the beginning or end of a BLOCK.
Collected(T, U) == Good(U) /\ Later(T, U) /\ (StatusInv(T) => StatusInv(U))

LEMMA PushCollected ==
  ASSUME NEW T, Good(T)
  PROVE  Collected(T, push_scp(T))
<1> DEFINE U == [T EXCEPT !.scp = Append(@, Len(T.syms))]
           n == Len(T.scp)
<1>1. CASE n >= T.lim.scopes
  BY <1>1, GrownSame DEF push_scp, Collected, Grown
<1>2. CASE ~ (n >= T.lim.scopes)
  <2>1. push_scp(T) = U
    BY <1>2 DEF push_scp
  <2>2. n \in Nat /\ T.scp \in Seq(Nat) /\ T.lim.scopes \in Nat /\ Len(T.syms) \in Nat
    BY GoodParts
  <2>3. /\ U.types = T.types /\ U.stdef = T.stdef /\ U.tbldef = T.tbldef
        /\ U.syms = T.syms /\ U.scp = Append(T.scp, Len(T.syms)) /\ U.lim = T.lim
        /\ U \in Tables
    BY <2>2, Appended DEF Good, Tables
  <2>4. /\ Len(U.scp) = n + 1 /\ U.scp[n + 1] = Len(T.syms)
        /\ \A k \in 1 .. n : U.scp[k] = T.scp[k]
    BY <2>2, <2>3, Appended
  <2> HIDE DEF U
  <2>5. InLimits(U)
    BY <1>2, <2>2, <2>3, <2>4 DEF Good, InLimits
  <2>6. ScopesNest(U)
    <3>1. ASSUME NEW i \in 1 .. n + 1, NEW j \in i .. n + 1
          PROVE  U.scp[i] <= Len(U.syms) /\ U.scp[i] <= U.scp[j]
      <4>1. \A k \in 1 .. n : T.scp[k] <= Len(T.syms)
        BY <2>2 DEF Good, ScopesNest
      <4>2. CASE i = n + 1
        BY <2>2, <2>3, <2>4, <4>2
      <4>3. CASE i # n + 1 /\ j = n + 1
        BY <2>2, <2>3, <2>4, <4>1, <4>3
      <4>4. CASE i # n + 1 /\ j # n + 1
        <5>1. i \in 1 .. n /\ j \in i .. n /\ j \in 1 .. n
          BY <2>2, <4>4
        <5>2. T.scp[i] <= T.scp[j]
          BY <5>1 DEF Good, ScopesNest
        <5> QED
          BY <2>3, <2>4, <4>1, <5>1, <5>2
      <4> QED
        BY <4>2, <4>3, <4>4
    <3>2. ASSUME NEW i \in 1 .. n + 1 PROVE U.scp[i] <= Len(U.syms)
      <4>1. i \in i .. n + 1
        BY <2>2
      <4> QED
        BY <3>1, <4>1
    <3> QED
      BY <2>4, <3>1, <3>2 DEF ScopesNest
  <2>7. Good(U)
    BY <2>3, <2>5, <2>6 DEF Good, SymTypes
  <2>8. Later(T, U)
    BY <2>3, GoodParts DEF Later
  <2>9. StatusInv(T) => StatusInv(U)
    BY <2>3 DEF StatusInv, TypesFull, StdefFull, DefsTyped, TypesDefined
  <2> QED
    BY <2>1, <2>7, <2>8, <2>9 DEF Collected
<1> QED
  BY <1>1, <1>2

\* The scope left has the last snapshot, which lies within the table.
LEMMA PopCollected ==
  ASSUME NEW T, Good(T)
  PROVE  Collected(T, pop_scp(T))
<1> DEFINE n == Len(T.scp)
           m == T.scp[n]
           U == [T EXCEPT !.syms = SubSeq(T.syms, 1, m), !.scp = Front(T.scp)]
<1>1. CASE T.scp = <<>>
  BY <1>1, GrownSame DEF pop_scp, Collected, Grown
<1>2. CASE T.scp # <<>>
  <2>1. IsSeq(T.scp) /\ IsSeq(T.syms)
    BY GoodParts, SeqIsSeq
  <2>2. /\ n \in Nat \ {0} /\ Last(T.scp) = m /\ Len(Front(T.scp)) = n - 1
        /\ \A k \in 1 .. n - 1 : Front(T.scp)[k] = T.scp[k]
    BY <1>2, <2>1, FrontAny
  <2>3. pop_scp(T) = U
    BY <1>2, <2>2 DEF pop_scp
  <2>4. n \in 1 .. n /\ n \in n .. n
    BY <2>2
  <2>5. m \in Nat /\ m <= Len(T.syms) /\ Len(T.syms) \in Nat
    BY <2>4, GoodParts DEF Good, ScopesNest
  <2>6. /\ Len(SubSeq(T.syms, 1, m)) = m
        /\ \A k \in 1 .. m : SubSeq(T.syms, 1, m)[k] = T.syms[k]
    BY <2>1, <2>5, PrefixAny
  <2>7. SubSeq(T.syms, 1, m) \in Seq(SymRec)
    <3>1. \A k \in 1 .. m : T.syms[k] \in SymRec
      BY <2>5, GoodParts
    <3> QED
      BY <2>5, <3>1, SubSeqProperties
  <2>8. Front(T.scp) \in Seq(Nat)
    <3>1. \A k \in 1 .. n - 1 : T.scp[k] \in Nat
      BY <2>2, GoodParts
    <3>2. SubSeq(T.scp, 1, n - 1) \in Seq(Nat)
      BY <2>2, <3>1, SubSeqProperties
    <3> QED
      BY <3>2 DEF Front
  <2>9. /\ U.types = T.types /\ U.stdef = T.stdef /\ U.tbldef = T.tbldef
        /\ U.syms = SubSeq(T.syms, 1, m) /\ U.scp = Front(T.scp) /\ U.lim = T.lim
        /\ U \in Tables
    BY <2>7, <2>8 DEF Good, Tables
  <2> HIDE DEF U
  <2>10. InLimits(U)
    <3>1. Len(T.syms) <= T.lim.syms /\ n <= T.lim.scopes
      BY DEF Good, InLimits
    <3>2. Len(U.syms) <= T.lim.syms /\ Len(U.scp) <= T.lim.scopes
      <4>1. Len(U.syms) = m /\ Len(U.scp) = n - 1
        BY <2>2, <2>6, <2>9
      <4>2. T.lim.syms \in Nat /\ T.lim.scopes \in Nat
        BY GoodParts
      <4> HIDE DEF m, n
      <4> QED
        BY <2>2, <2>5, <3>1, <4>1, <4>2
    <3> QED
      BY <2>9, <3>2 DEF Good, InLimits
  <2>11. ScopesNest(U)
    <3>1. ASSUME NEW i \in 1 .. n - 1, NEW j \in i .. n - 1
          PROVE  U.scp[i] <= m /\ U.scp[i] <= U.scp[j]
      <4>1. i \in 1 .. n /\ n \in i .. n /\ j \in i .. n /\ j \in 1 .. n - 1
        BY <2>2
      <4>2. T.scp[i] <= T.scp[n] /\ T.scp[i] <= T.scp[j]
        BY <4>1 DEF Good, ScopesNest
      <4> QED
        BY <2>2, <2>9, <4>1, <4>2
    <3>2. ASSUME NEW i \in 1 .. n - 1 PROVE U.scp[i] <= m
      <4>1. i \in i .. n - 1
        BY <2>2
      <4> QED
        BY <3>1, <4>1
    <3> QED
      BY <2>2, <2>6, <2>9, <3>1, <3>2 DEF ScopesNest
  <2>12. SymTypes(U)
    <3>1. \A i \in 1 .. m : T.syms[i].type <= Len(T.types)
      BY <2>5 DEF Good, SymTypes
    <3> QED
      BY <2>6, <2>9, <3>1 DEF SymTypes
  <2>13. Good(U)
    BY <2>9, <2>10, <2>11, <2>12 DEF Good
  <2>14. Later(T, U)
    BY <2>9, GoodParts DEF Later
  <2>15. StatusInv(T) => StatusInv(U)
    BY <2>9 DEF StatusInv, TypesFull, StdefFull, DefsTyped, TypesDefined
  <2> QED
    BY <2>3, <2>13, <2>14, <2>15 DEF Collected
<1> QED
  BY <1>1, <1>2

LEMMA DeclCollected ==
  ASSUME NEW T, Good(T), NEW d \in Nodes
  PROVE  Collected(T, col_decl(T, d))
<1>1. CASE d \in [k : {"item", "type"}, name : STRING, spec : Specs]
  <2>1. col_decl(T, d) = col_item(T, d) \/ col_decl(T, d) = col_tdef(T, d)
    BY <1>1 DEF col_decl
  <2> QED
    BY <1>1, <2>1, ItemGrows DEF Grown, Collected
<1>2. CASE d \in [k : {"const"}, name : STRING, spec : Specs, val : Consts]
  <2>1. col_decl(T, d) = col_const(T, d)
    BY <1>2 DEF col_decl
  <2> QED
    BY <1>2, <2>1, ConstGrows DEF Grown, Collected
<1>3. CASE d \in [k : {"define"}, name : STRING, val : Consts]
  <2>1. col_decl(T, d) = col_defn(T, d)
    BY <1>3 DEF col_decl
  <2> QED
    BY <1>3, <2>1, DefineGrows DEF Grown, Collected
<1>4. CASE d \in [k : {"proc"}, name : STRING, spec : Specs, params : Nat]
  <2>1. col_decl(T, d) = col_proc(T, d)
    BY <1>4 DEF col_decl
  <2> QED
    BY <1>4, <2>1, ProcGrows DEF Grown, Collected
<1>5. CASE d \in [k : {"table"}, name : STRING, lo : Consts, hi : Consts, wordsz : Nat,
                  flds : Seq(Fields)]
  <2>1. col_decl(T, d) = col_tabl(T, d)
    BY <1>5 DEF col_decl
  <2> QED
    BY <1>5, <2>1, TableGrows DEF Grown, Collected
<1>6. CASE d \in [k : {"compool"}, name : STRING]
  <2>1. col_decl(T, d) = col_cpool(T, d)
    BY <1>6 DEF col_decl
  <2> QED
    BY <1>6, <2>1, CpoolGrows DEF Grown, Collected
<1>7. CASE d \in [k : {"block", "end"}]
  <2>1. col_decl(T, d) = push_scp(T) \/ col_decl(T, d) = pop_scp(T)
    BY <1>7 DEF col_decl
  <2> QED
    BY <2>1, PushCollected, PopCollected
<1> QED
  BY <1>1, <1>2, <1>3, <1>4, <1>5, <1>6, <1>7 DEF Nodes

---------------------------------------------------------------------------
(* Files.                                                                  *)

FileFld == [name : Nat, jtype : Nat]
FileTab == [lo : Int, hi : Int, flds : Seq(FileFld)]
FileSym == [name : Nat, type : Nat, kind : SymKinds, cval : Int]
FileRec ==
  [strs : Seq(Names), types : Seq(TyRec), stdef : Seq(Seq(Nat)), tbldef : Seq(FileTab),
   syms : Seq(FileSym)]
FileStatus(f, l) ==
  \/ Len(f.types) + 1 >= l.types
  \/ Len(f.stdef) >= l.stdef
  \/ DefsTyped(f) /\ TypesDefined(f)
GoodFile(f, l) ==
  /\ f \in FileRec /\ Len(f.strs) <= l.strs
  /\ TypesApart(f.types) /\ InnerFirst(f.types)
  /\ FileStatus(f, l)

\* The symbols selected are symbols.
LEMMA ExportedTyped ==
  ASSUME NEW syms \in Seq(SymRec)
  PROVE  Exported(syms) \in Seq(SymRec)
<1> DEFINE N == Len(syms)
           More(out, n) ==
             IF syms[n].kind \in ExportedKinds THEN Append(out, syms[n]) ELSE out
           Is(f, m) == f = [n \in 0 .. m |-> IF n = 0 THEN <<>> ELSE More(f[n - 1], n)]
           Some == {m \in Nat : \E f : Is(f, m)}
<1>1. N \in Nat /\ \A n \in 1 .. N : syms[n] \in SymRec
  BY LenProperties, ElementOfSeq
<1>2. 0 \in Some
  <2> DEFINE f == [n \in 0 .. 0 |-> <<>>]
  <2>1. Is(f, 0)
    OBVIOUS
  <2> QED
    BY <2>1
<1>3. ASSUME NEW m \in Nat, m \in Some PROVE m + 1 \in Some
  <2> HIDE DEF More
  <2>1. PICK f : Is(f, m)
    BY <1>3
  <2> DEFINE g == [n \in 0 .. m + 1 |-> IF n <= m THEN f[n] ELSE More(f[m], m + 1)]
  <2>2. ASSUME NEW n \in 0 .. m + 1
        PROVE  g[n] = IF n = 0 THEN <<>> ELSE More(g[n - 1], n)
    <3>1. CASE n = 0
      BY <2>1, <3>1
    <3>2. CASE n # 0 /\ n <= m
      <4>1. g[n] = f[n] /\ g[n - 1] = f[n - 1]
        BY <3>2
      <4>2. f[n] = More(f[n - 1], n)
        BY <2>1, <3>2
      <4> QED
        BY <3>2, <4>1, <4>2
    <3>3. CASE n = m + 1
      <4>1. g[n] = More(f[m], m + 1) /\ g[n - 1] = f[m] /\ n # 0
        BY <3>3
      <4> QED
        BY <3>3, <4>1
    <3> QED
      BY <3>1, <3>2, <3>3
  <2>3. DOMAIN g = 0 .. m + 1 /\ g = [n \in 0 .. m + 1 |-> g[n]]
    OBVIOUS
  <2> HIDE DEF g
  <2>4. Is(g, m + 1)
    BY <2>2, <2>3
  <2> QED
    BY <2>4
<1>4. N \in Some
  <2> HIDE DEF Some
  <2> QED
    BY <1>1, <1>2, <1>3, Induction
<1> DEFINE out == CHOOSE f : Is(f, N)
<1>5. Is(out, N)
  <2> HIDE DEF More, N
  <2> QED
    BY <1>4
<1>6. Exported(syms) = out[N]
  BY DEF Exported
<1>7. out[0] = <<>> /\ \A n \in 1 .. N : out[n] = More(out[n - 1], n)
  <2> HIDE DEF out, More, N
  <2> QED
    BY <1>1, <1>5
<1> HIDE DEF out, Is
<1> DEFINE Fine == {n \in Nat : n <= N => out[n] \in Seq(SymRec)}
<1>8. 0 \in Fine
  <2>1. <<>> \in Seq(SymRec)
    BY EmptySeq
  <2>2. out[0] \in Seq(SymRec)
    BY <1>7, <2>1
  <2> QED
    BY <2>2
<1>9. ASSUME NEW m \in Nat, m \in Fine PROVE m + 1 \in Fine
  <2>1. SUFFICES ASSUME m + 1 <= N PROVE out[m + 1] \in Seq(SymRec)
    OBVIOUS
  <2>2. m + 1 \in 1 .. N /\ (m + 1) - 1 = m /\ m <= N
    BY <1>1, <2>1
  <2>3. out[m] \in Seq(SymRec) /\ syms[m + 1] \in SymRec
    BY <1>1, <1>9, <2>2
  <2>4. Append(out[m], syms[m + 1]) \in Seq(SymRec)
    BY <2>3, Appended
  <2>5. out[m + 1] = More(out[m], m + 1)
    BY <1>7, <2>2
  <2> QED
    BY <2>3, <2>4, <2>5
<1>10. N \in Fine
  <2> HIDE DEF Fine
  <2> QED
    BY <1>1, <1>8, <1>9, Induction
<1> QED
  BY <1>1, <1>6, <1>10

\* So are the strings of the string table, which keeps its limit.
LEMMA StringsTyped ==
  ASSUME NEW names \in Seq(Names), NEW max \in Nat
  PROVE  AddAll(names, max) \in Seq(Names) /\ Len(AddAll(names, max)) <= max
<1> DEFINE N == Len(names)
           More(strs, n) == str_add(strs, names[n], max)
           Is(f, m) == f = [n \in 0 .. m |-> IF n = 0 THEN <<>> ELSE More(f[n - 1], n)]
           Some == {m \in Nat : \E f : Is(f, m)}
<1>1. N \in Nat /\ \A n \in 1 .. N : names[n] \in Names
  BY LenProperties, ElementOfSeq
<1>2. 0 \in Some
  <2> DEFINE f == [n \in 0 .. 0 |-> <<>>]
  <2>1. Is(f, 0)
    OBVIOUS
  <2> QED
    BY <2>1
<1>3. ASSUME NEW m \in Nat, m \in Some PROVE m + 1 \in Some
  <2> HIDE DEF More
  <2>1. PICK f : Is(f, m)
    BY <1>3
  <2> DEFINE g == [n \in 0 .. m + 1 |-> IF n <= m THEN f[n] ELSE More(f[m], m + 1)]
  <2>2. ASSUME NEW n \in 0 .. m + 1
        PROVE  g[n] = IF n = 0 THEN <<>> ELSE More(g[n - 1], n)
    <3>1. CASE n = 0
      BY <2>1, <3>1
    <3>2. CASE n # 0 /\ n <= m
      <4>1. g[n] = f[n] /\ g[n - 1] = f[n - 1]
        BY <3>2
      <4>2. f[n] = More(f[n - 1], n)
        BY <2>1, <3>2
      <4> QED
        BY <3>2, <4>1, <4>2
    <3>3. CASE n = m + 1
      <4>1. g[n] = More(f[m], m + 1) /\ g[n - 1] = f[m] /\ n # 0
        BY <3>3
      <4> QED
        BY <3>3, <4>1
    <3> QED
      BY <3>1, <3>2, <3>3
  <2>3. DOMAIN g = 0 .. m + 1 /\ g = [n \in 0 .. m + 1 |-> g[n]]
    OBVIOUS
  <2> HIDE DEF g
  <2>4. Is(g, m + 1)
    BY <2>2, <2>3
  <2> QED
    BY <2>4
<1>4. N \in Some
  <2> HIDE DEF Some
  <2> QED
    BY <1>1, <1>2, <1>3, Induction
<1> DEFINE strs == CHOOSE f : Is(f, N)
<1>5. Is(strs, N)
  <2> HIDE DEF More, N
  <2> QED
    BY <1>4
<1>6. AddAll(names, max) = strs[N]
  BY DEF AddAll
<1>7. strs[0] = <<>> /\ \A n \in 1 .. N : strs[n] = More(strs[n - 1], n)
  <2> HIDE DEF strs, More, N
  <2> QED
    BY <1>1, <1>5
<1> HIDE DEF strs, Is
<1> DEFINE Fine == {n \in Nat : n <= N => strs[n] \in Seq(Names) /\ Len(strs[n]) <= max}
<1>8. 0 \in Fine
  <2>1. <<>> \in Seq(Names) /\ Len(<<>>) = 0
    BY EmptySeq
  <2>2. strs[0] = <<>>
    BY <1>7
  <2>3. strs[0] \in Seq(Names) /\ Len(strs[0]) = 0
    BY <2>1, <2>2
  <2> QED
    BY <2>3
<1>9. ASSUME NEW m \in Nat, m \in Fine PROVE m + 1 \in Fine
  <2>1. SUFFICES ASSUME m + 1 <= N
                 PROVE  strs[m + 1] \in Seq(Names) /\ Len(strs[m + 1]) <= max
    OBVIOUS
  <2>2. m + 1 \in 1 .. N /\ (m + 1) - 1 = m /\ m <= N
    BY <1>1, <2>1
  <2>3. strs[m] \in Seq(Names) /\ Len(strs[m]) <= max /\ names[m + 1] \in Names
        /\ Len(strs[m]) \in Nat
    BY <1>1, <1>9, <2>2, LenProperties
  <2>4. /\ Append(strs[m], names[m + 1]) \in Seq(Names)
        /\ Len(Append(strs[m], names[m + 1])) = Len(strs[m]) + 1
    BY <2>3, Appended
  <2>5. \/ strs[m + 1] = strs[m]
        \/ strs[m + 1] = Append(strs[m], names[m + 1]) /\ ~ (Len(strs[m]) >= max)
    BY <1>7, <2>2 DEF str_add
  <2>6. CASE strs[m + 1] = strs[m]
    BY <2>3, <2>6
  <2>7. CASE strs[m + 1] = Append(strs[m], names[m + 1]) /\ ~ (Len(strs[m]) >= max)
    <3>1. Len(strs[m + 1]) = Len(strs[m]) + 1
      BY <2>4, <2>7
    <3>2. Len(strs[m + 1]) <= max
      BY <2>3, <2>7, <3>1
    <3> QED
      BY <2>4, <2>7, <3>2
  <2> QED
    BY <2>5, <2>6, <2>7
<1>10. N \in Fine
  <2> HIDE DEF Fine
  <2> QED
    BY <1>1, <1>8, <1>9, Induction
<1> QED
  BY <1>1, <1>6, <1>10

\* The values of all definitions, and the names of all fields, in a row.
LEMMA FlatTyped ==
  ASSUME NEW X, NEW ss \in Seq(Seq(X))
  PROVE  FlattenSeq(ss) \in Seq(X)
<1> DEFINE N == Len(ss)
           More(s, n) == s \o ss[n]
           Is(f, m) == f = [n \in 1 .. m |-> IF n = 1 THEN ss[n] ELSE More(f[n - 1], n)]
           Some == {m \in Nat : \E f : Is(f, m)}
<1>1. N \in Nat /\ \A n \in 1 .. N : ss[n] \in Seq(X)
  BY LenProperties, ElementOfSeq
<1>2. 0 \in Some
  <2> DEFINE f == [n \in 1 .. 0 |-> <<>>]
  <2>1. Is(f, 0)
    OBVIOUS
  <2> QED
    BY <2>1
<1>3. ASSUME NEW m \in Nat, m \in Some PROVE m + 1 \in Some
  <2> HIDE DEF More
  <2>1. PICK f : Is(f, m)
    BY <1>3
  <2> DEFINE g == [n \in 1 .. m + 1 |->
                     IF n <= m THEN f[n] ELSE IF n = 1 THEN ss[n] ELSE More(f[m], m + 1)]
  <2>2. ASSUME NEW n \in 1 .. m + 1
        PROVE  g[n] = IF n = 1 THEN ss[n] ELSE More(g[n - 1], n)
    <3>1. CASE n <= m
      <4>1. g[n] = f[n] /\ (n # 1 => g[n - 1] = f[n - 1])
        BY <3>1
      <4>2. f[n] = IF n = 1 THEN ss[n] ELSE More(f[n - 1], n)
        BY <2>1, <3>1
      <4> QED
        BY <4>1, <4>2
    <3>2. CASE n = m + 1
      <4>1. g[n] = IF n = 1 THEN ss[n] ELSE More(f[m], m + 1)
        BY <3>2
      <4>2. n # 1 => g[n - 1] = f[m]
        BY <3>2
      <4> QED
        BY <3>2, <4>1, <4>2
    <3> QED
      BY <3>1, <3>2
  <2>3. DOMAIN g = 1 .. m + 1 /\ g = [n \in 1 .. m + 1 |-> g[n]]
    OBVIOUS
  <2> HIDE DEF g
  <2>4. Is(g, m + 1)
    BY <2>2, <2>3
  <2> QED
    BY <2>4
<1>4. N \in Some
  <2> HIDE DEF Some
  <2> QED
    BY <1>1, <1>2, <1>3, Induction
<1> DEFINE all == CHOOSE f : Is(f, N)
<1>5. Is(all, N)
  <2> HIDE DEF More, N
  <2> QED
    BY <1>4
<1>6. CASE N = 0
  <2>1. FlattenSeq(ss) = ss /\ ss = <<>>
    BY <1>6, EmptySeq DEF FlattenSeq
  <2> QED
    BY <2>1
<1>7. CASE N # 0
  <2>1. FlattenSeq(ss) = all[N]
    BY <1>7 DEF FlattenSeq
  <2>2. \A n \in 1 .. N : all[n] = IF n = 1 THEN ss[n] ELSE More(all[n - 1], n)
    <3> HIDE DEF all, More, N
    <3> QED
      BY <1>1, <1>5
  <2> HIDE DEF all, Is
  <2> DEFINE Fine == {n \in Nat : n \in 1 .. N => all[n] \in Seq(X)}
  <2>3. 0 \in Fine
    OBVIOUS
  <2>4. ASSUME NEW m \in Nat, m \in Fine PROVE m + 1 \in Fine
    <3>1. SUFFICES ASSUME m + 1 \in 1 .. N PROVE all[m + 1] \in Seq(X)
      OBVIOUS
    <3>2. CASE m = 0
      BY <1>1, <2>2, <3>1, <3>2
    <3>3. CASE m # 0
      <4>1. m \in 1 .. N /\ m + 1 # 1 /\ (m + 1) - 1 = m
        BY <1>1, <3>1, <3>3
      <4>2. all[m + 1] = all[m] \o ss[m + 1] /\ all[m] \in Seq(X) /\ ss[m + 1] \in Seq(X)
        BY <1>1, <2>2, <2>4, <3>1, <4>1
      <4> QED
        BY <4>2, ConcatProperties
    <3> QED
      BY <3>2, <3>3
  <2>5. N \in Fine
    <3> HIDE DEF Fine
    <3> QED
      BY <1>1, <2>3, <2>4, Induction
  <2> QED
    BY <1>1, <1>7, <2>1, <2>5
<1> QED
  BY <1>6, <1>7

\* Where a string sits in the string table.
LEMMA OffsetTyped ==
  ASSUME NEW strs \in Seq(Names), NEW name
  PROVE  StrOff(strs, name) \in Nat
<1> DEFINE I == {i \in 1 .. Len(strs) : strs[i] = name}
<1>1. Len(strs) \in Nat /\ DOMAIN strs = 1 .. Len(strs)
  BY LenProperties
<1>2. CASE I = {}
  BY <1>2 DEF StrOff, SelectInSeq
<1>3. CASE I # {}
  <2>1. I \subseteq 1 .. Len(strs)
    BY <1>1
  <2>2. Min(I) \in I
    BY <1>1, <1>3, <2>1, FirstIndex
  <2>3. Min(I) # 0
    BY <1>1, <2>1, <2>2
  <2>4. StrOff(strs, name) = Min(I)
    BY <1>3, <2>3 DEF StrOff, SelectInSeq
  <2> QED
    BY <1>1, <2>1, <2>2, <2>4
<1> QED
  BY <1>2, <1>3

\* What is written has the form of a file and keeps what the importer relies on.
LEMMA WrittenFile ==
  ASSUME NEW T, Good(T), StatusInv(T)
  PROVE  GoodFile(cpl_write(T), T.lim)
<1> DEFINE ex == Exported(T.syms)
           fldnames == MapSeq(T.tbldef, LAMBDA td : MapSeq(td.flds, LAMBDA f : f.name))
           names == MapSeq(ex, LAMBDA s : s.name) \o FlattenSeq(T.stdef) \o FlattenSeq(fldnames)
           strs == AddAll(names, T.lim.strs)
           stdef == MapSeq(T.stdef, LAMBDA vals : MapSeq(vals, LAMBDA n : StrOff(strs, n)))
           tbldef == MapSeq(T.tbldef, LAMBDA td :
                       [lo |-> td.lo, hi |-> td.hi,
                        flds |-> MapSeq(td.flds, LAMBDA f :
                                   [name |-> StrOff(strs, f.name), jtype |-> f.jtype])])
           syms == MapSeq(ex, LAMBDA s : [s EXCEPT !.name = StrOff(strs, s.name)])
           file == cpl_write(T)
<1>1. file = [strs |-> strs, types |-> T.types, stdef |-> stdef, tbldef |-> tbldef,
              syms |-> syms]
  BY DEF cpl_write
<1>2. ex \in Seq(SymRec)
  BY GoodParts, ExportedTyped
<1> HIDE DEF file, ex
<1>3. T.lim.strs \in Nat
  BY DEF Good, Tables, LimRec
<1>4. names \in Seq(Names)
  <2>1. MapSeq(ex, LAMBDA s : s.name) \in Seq(Names)
    <3>1. Len(ex) \in Nat /\ DOMAIN ex = 1 .. Len(ex) /\ \A k \in 1 .. Len(ex) : ex[k] \in SymRec
      BY <1>2, Nonempty
    <3>2. [i \in DOMAIN ex |-> ex[i].name] \in [1 .. Len(ex) -> Names]
      BY <3>1 DEF SymRec
    <3> QED
      BY <3>1, <3>2, MapTyped DEF MapSeq
  <2>2. FlattenSeq(T.stdef) \in Seq(Names)
    BY GoodParts, FlatTyped
  <2>3. fldnames \in Seq(Seq(Names))
    <3>1. /\ Len(T.tbldef) \in Nat /\ DOMAIN T.tbldef = 1 .. Len(T.tbldef)
          /\ \A k \in 1 .. Len(T.tbldef) : T.tbldef[k] \in TabRec
      BY GoodParts, Nonempty
    <3>2. ASSUME NEW td \in TabRec PROVE MapSeq(td.flds, LAMBDA f : f.name) \in Seq(Names)
      <4>1. td.flds \in Seq(FldRec)
        BY DEF TabRec
      <4>2. /\ Len(td.flds) \in Nat /\ DOMAIN td.flds = 1 .. Len(td.flds)
            /\ \A k \in 1 .. Len(td.flds) : td.flds[k] \in FldRec
        BY <4>1, Nonempty
      <4>3. [i \in DOMAIN td.flds |-> td.flds[i].name] \in [1 .. Len(td.flds) -> Names]
        BY <4>2 DEF FldRec
      <4> QED
        BY <4>2, <4>3, MapTyped DEF MapSeq
    <3>3. fldnames \in [1 .. Len(T.tbldef) -> Seq(Names)]
      <4>1. fldnames = [i \in 1 .. Len(T.tbldef) |-> MapSeq(T.tbldef[i].flds, LAMBDA f : f.name)]
        BY <3>1, Zenon DEF MapSeq
      <4> QED
        BY <3>1, <3>2, <4>1
    <3> QED
      BY <3>1, <3>3, MapTyped
  <2>4. FlattenSeq(fldnames) \in Seq(Names)
    BY <2>3, FlatTyped
  <2> QED
    BY <2>1, <2>2, <2>4, ConcatProperties
<1>5. strs \in Seq(Names) /\ Len(strs) <= T.lim.strs
  BY <1>3, <1>4, StringsTyped
<1> HIDE DEF names, strs
<1>6. stdef \in Seq(Seq(Nat)) /\ Len(stdef) = Len(T.stdef)
  <2>1. /\ Len(T.stdef) \in Nat /\ DOMAIN T.stdef = 1 .. Len(T.stdef)
        /\ \A k \in 1 .. Len(T.stdef) : T.stdef[k] \in Seq(Names)
    BY GoodParts, Nonempty
  <2>2. ASSUME NEW vals \in Seq(Names)
        PROVE  MapSeq(vals, LAMBDA n : StrOff(strs, n)) \in Seq(Nat)
    <3>1. Len(vals) \in Nat /\ DOMAIN vals = 1 .. Len(vals)
      BY Nonempty
    <3>2. \A i \in 1 .. Len(vals) : StrOff(strs, vals[i]) \in Nat
      BY <1>5, OffsetTyped
    <3>3. [i \in DOMAIN vals |-> StrOff(strs, vals[i])] \in [1 .. Len(vals) -> Nat]
      BY <3>1, <3>2
    <3> QED
      BY <3>1, <3>3, MapTyped DEF MapSeq
  <2>3. stdef \in [1 .. Len(T.stdef) -> Seq(Nat)]
    <3>1. stdef = [i \in 1 .. Len(T.stdef) |-> MapSeq(T.stdef[i], LAMBDA n : StrOff(strs, n))]
      BY <2>1, Zenon DEF MapSeq
    <3> QED
      BY <2>1, <2>2, <3>1
  <2> QED
    BY <2>1, <2>3, MapTyped
<1>7. tbldef \in Seq(FileTab)
  <2>1. /\ Len(T.tbldef) \in Nat /\ DOMAIN T.tbldef = 1 .. Len(T.tbldef)
        /\ \A k \in 1 .. Len(T.tbldef) : T.tbldef[k] \in TabRec
    BY GoodParts, Nonempty
  <2> DEFINE Fields1(td) ==
               MapSeq(td.flds, LAMBDA f : [name |-> StrOff(strs, f.name), jtype |-> f.jtype])
             Tab(td) == [lo |-> td.lo, hi |-> td.hi, flds |-> Fields1(td)]
  <2>2. ASSUME NEW td \in TabRec PROVE Tab(td) \in FileTab
    <3>1. td.flds \in Seq(FldRec) /\ td.lo \in Int /\ td.hi \in Int
      BY DEF TabRec
    <3>2. /\ Len(td.flds) \in Nat /\ DOMAIN td.flds = 1 .. Len(td.flds)
          /\ \A k \in 1 .. Len(td.flds) : td.flds[k] \in FldRec
      BY <3>1, Nonempty
    <3>3. \A k \in 1 .. Len(td.flds) :
            [name |-> StrOff(strs, td.flds[k].name), jtype |-> td.flds[k].jtype] \in FileFld
      <4>1. \A k \in 1 .. Len(td.flds) : StrOff(strs, td.flds[k].name) \in Nat
        BY <1>5, OffsetTyped
      <4>2. \A k \in 1 .. Len(td.flds) : td.flds[k].jtype \in Nat
        BY <3>2 DEF FldRec
      <4> QED
        BY <4>1, <4>2 DEF FileFld
    <3>4. [k \in DOMAIN td.flds |->
             [name |-> StrOff(strs, td.flds[k].name), jtype |-> td.flds[k].jtype]]
            \in [1 .. Len(td.flds) -> FileFld]
      BY <3>2, <3>3
    <3>5. Fields1(td) \in Seq(FileFld)
      BY <3>2, <3>4, MapTyped DEF MapSeq
    <3> QED
      BY <3>1, <3>5 DEF FileTab
  <2>3. tbldef = [i \in 1 .. Len(T.tbldef) |-> Tab(T.tbldef[i])]
    BY <2>1, Zenon DEF MapSeq
  <2> HIDE DEF Tab
  <2>4. tbldef \in [1 .. Len(T.tbldef) -> FileTab]
    BY <2>1, <2>2, <2>3
  <2> QED
    BY <2>1, <2>4, MapTyped
<1>8. syms \in Seq(FileSym)
  <2>1. Len(ex) \in Nat /\ DOMAIN ex = 1 .. Len(ex) /\ \A k \in 1 .. Len(ex) : ex[k] \in SymRec
    BY <1>2, Nonempty
  <2>2. ASSUME NEW k \in 1 .. Len(ex)
        PROVE  [ex[k] EXCEPT !.name = StrOff(strs, ex[k].name)] \in FileSym
    <3>1. StrOff(strs, ex[k].name) \in Nat
      BY <1>5, OffsetTyped
    <3>2. ex[k] \in SymRec
      BY <2>1
    <3> QED
      BY <3>1, <3>2 DEF FileSym, SymRec
  <2>3. syms = [k \in 1 .. Len(ex) |-> [ex[k] EXCEPT !.name = StrOff(strs, ex[k].name)]]
    BY <2>1, Zenon DEF MapSeq
  <2>4. syms \in [1 .. Len(ex) -> FileSym]
    BY <2>2, <2>3
  <2> QED
    BY <2>1, <2>4, MapTyped
<1> HIDE DEF stdef, tbldef, syms
<1>9. file \in FileRec
  BY <1>1, <1>5, <1>6, <1>7, <1>8, GoodParts DEF FileRec
<1>10. /\ file.types = T.types /\ file.strs = strs
       /\ Len(file.stdef) = Len(T.stdef) /\ Len(file.types) = Len(T.types)
  BY <1>1, <1>6
<1>11. FileStatus(file, T.lim)
  BY <1>10 DEF StatusInv, TypesFull, StdefFull, DefsTyped, TypesDefined, FileStatus
<1>12. GoodFile(file, T.lim)
  BY <1>5, <1>9, <1>10, <1>11 DEF Good, GoodFile
<1> QED
  BY <1>12 DEF file

---------------------------------------------------------------------------
(* Where the records of a file end.                                        *)

LEMMA EndsRun ==
  ASSUME NEW start \in Nat, NEW words \in Seq(Nat)
  PROVE  /\ Ends(start, words)[0] = start
         /\ \A k \in 0 .. Len(words) :
              /\ Ends(start, words)[k] \in Nat
              /\ Ends(start, words)[k] <= Ends(start, words)[Len(words)]
         /\ \A k \in 1 .. Len(words) :
              Ends(start, words)[k] = Ends(start, words)[k - 1] + words[k]
<1> DEFINE N == Len(words)
           More(e, n) == e + words[n]
           Is(f, m) == f = [n \in 0 .. m |-> IF n = 0 THEN start ELSE More(f[n - 1], n)]
           Some == {m \in Nat : \E f : Is(f, m)}
<1>1. N \in Nat /\ \A n \in 1 .. N : words[n] \in Nat
  BY LenProperties, ElementOfSeq
<1>2. 0 \in Some
  <2> DEFINE f == [n \in 0 .. 0 |-> start]
  <2>1. Is(f, 0)
    OBVIOUS
  <2> QED
    BY <2>1
<1>3. ASSUME NEW m \in Nat, m \in Some PROVE m + 1 \in Some
  <2> HIDE DEF More
  <2>1. PICK f : Is(f, m)
    BY <1>3
  <2> DEFINE g == [n \in 0 .. m + 1 |-> IF n <= m THEN f[n] ELSE More(f[m], m + 1)]
  <2>2. ASSUME NEW n \in 0 .. m + 1
        PROVE  g[n] = IF n = 0 THEN start ELSE More(g[n - 1], n)
    <3>1. CASE n = 0
      BY <2>1, <3>1
    <3>2. CASE n # 0 /\ n <= m
      <4>1. g[n] = f[n] /\ g[n - 1] = f[n - 1]
        BY <3>2
      <4>2. f[n] = More(f[n - 1], n)
        BY <2>1, <3>2
      <4> QED
        BY <3>2, <4>1, <4>2
    <3>3. CASE n = m + 1
      <4>1. g[n] = More(f[m], m + 1) /\ g[n - 1] = f[m] /\ n # 0
        BY <3>3
      <4> QED
        BY <3>3, <4>1
    <3> QED
      BY <3>1, <3>2, <3>3
  <2>3. DOMAIN g = 0 .. m + 1 /\ g = [n \in 0 .. m + 1 |-> g[n]]
    OBVIOUS
  <2> HIDE DEF g
  <2>4. Is(g, m + 1)
    BY <2>2, <2>3
  <2> QED
    BY <2>4
<1>4. N \in Some
  <2> HIDE DEF Some
  <2> QED
    BY <1>1, <1>2, <1>3, Induction
<1> DEFINE end == CHOOSE f : Is(f, N)
<1>5. Is(end, N)
  <2> HIDE DEF More, N
  <2> QED
    BY <1>4
<1>6. Ends(start, words) = end
  BY DEF Ends
<1>7. end[0] = start /\ \A n \in 1 .. N : end[n] = More(end[n - 1], n)
  <2> HIDE DEF end, More, N
  <2> QED
    BY <1>1, <1>5
<1> HIDE DEF end, Is
<1> DEFINE Fine == {n \in Nat : n <= N => end[n] \in Nat}
<1>8. 0 \in Fine
  BY <1>7
<1>9. ASSUME NEW m \in Nat, m \in Fine PROVE m + 1 \in Fine
  <2>1. SUFFICES ASSUME m + 1 <= N PROVE end[m + 1] \in Nat
    OBVIOUS
  <2>2. m + 1 \in 1 .. N /\ (m + 1) - 1 = m /\ m <= N
    BY <1>1, <2>1
  <2>3. end[m] \in Nat /\ words[m + 1] \in Nat /\ end[m + 1] = end[m] + words[m + 1]
    BY <1>1, <1>7, <1>9, <2>2
  <2> QED
    BY <2>3
<1>10. Nat \subseteq Fine
  <2> HIDE DEF Fine
  <2> QED
    BY <1>8, <1>9, Induction
<1>11. \A n \in 0 .. N : end[n] \in Nat
  BY <1>1, <1>10
<1> HIDE DEF Fine
<1> DEFINE Before == {n \in Nat : n <= N => end[N - n] <= end[N]}
<1>12. 0 \in Before
  BY <1>1, <1>11
<1>13. ASSUME NEW m \in Nat, m \in Before PROVE m + 1 \in Before
  <2>1. SUFFICES ASSUME m + 1 <= N PROVE end[N - (m + 1)] <= end[N]
    OBVIOUS
  <2> DEFINE n == N - m
  <2>2. n \in 1 .. N /\ m <= N /\ N - (m + 1) = n - 1 /\ n \in 0 .. N /\ n - 1 \in 0 .. N
        /\ N \in 0 .. N
    BY <1>1, <2>1
  <2>3. end[n] <= end[N]
    BY <1>13, <2>2
  <2> HIDE DEF n
  <2>4. end[n] = end[n - 1] + words[n] /\ words[n] \in Nat
    BY <1>1, <1>7, <2>2
  <2>5. end[n] \in Nat /\ end[n - 1] \in Nat /\ end[N] \in Nat
    BY <1>11, <2>2
  <2>6. end[n - 1] <= end[N]
    BY <2>3, <2>4, <2>5
  <2> QED
    BY <2>2, <2>6
<1>14. Nat \subseteq Before
  <2> HIDE DEF Before
  <2> QED
    BY <1>12, <1>13, Induction
<1>15. ASSUME NEW k \in 0 .. N PROVE end[k] <= end[N]
  <2>1. N - k \in Nat /\ N - k <= N /\ N - (N - k) = k
    BY <1>1
  <2> QED
    BY <1>14, <2>1
<1> QED
  BY <1>6, <1>7, <1>11, <1>15

LEMMA FilePlaces ==
  ASSUME NEW f \in FileRec
  PROVE  /\ Len(f.strs) \in Nat /\ Len(f.types) \in Nat /\ Len(f.stdef) \in Nat
         /\ Len(f.tbldef) \in Nat /\ Len(f.syms) \in Nat
         /\ TypesEnd(f) \in Nat /\ StatusEnds(f)[0] = TypesEnd(f)
         /\ \A k \in 0 .. Len(f.stdef) :
              StatusEnds(f)[k] \in Nat /\ StatusEnds(f)[k] <= FileWords(f)
         /\ \A k \in 1 .. Len(f.stdef) :
              StatusEnds(f)[k] = StatusEnds(f)[k - 1] + 1 + Len(f.stdef[k])
         /\ TableEnds(f)[0] = StatusEnds(f)[Len(f.stdef)]
         /\ \A k \in 0 .. Len(f.tbldef) :
              TableEnds(f)[k] \in Nat /\ TableEnds(f)[k] <= FileWords(f)
         /\ \A k \in 1 .. Len(f.tbldef) :
              TableEnds(f)[k] = TableEnds(f)[k - 1] + 4 + 5 * Len(f.tbldef[k].flds)
         /\ FileWords(f) \in Nat
         /\ FileWords(f) = TableEnds(f)[Len(f.tbldef)] + 5 * Len(f.syms)
<1> DEFINE sw == MapSeq(f.stdef, LAMBDA vals : StatusWords(Len(vals)))
           tw == MapSeq(f.tbldef, LAMBDA td : TableWords(Len(td.flds)))
           se == StatusEnds(f)
           te == TableEnds(f)
<1>1. /\ Len(f.strs) \in Nat /\ Len(f.types) \in Nat /\ Len(f.stdef) \in Nat
      /\ Len(f.tbldef) \in Nat /\ Len(f.syms) \in Nat
      /\ f.stdef \in Seq(Seq(Nat)) /\ f.tbldef \in Seq(FileTab)
  BY LenProperties DEF FileRec
<1>2. TypesEnd(f) \in Nat
  <2>1. \A m, n \in Nat : 6 + m + 4 * n \in Nat
    OBVIOUS
  <2> QED
    BY <1>1, <2>1 DEF TypesEnd, HeaderWords, TypeWords
<1>3. sw \in Seq(Nat) /\ Len(sw) = Len(f.stdef)
      /\ \A k \in 1 .. Len(f.stdef) : sw[k] = 1 + Len(f.stdef[k])
  <2>1. DOMAIN f.stdef = 1 .. Len(f.stdef) /\ \A k \in 1 .. Len(f.stdef) : Len(f.stdef[k]) \in Nat
    <3>1. \A k \in 1 .. Len(f.stdef) : f.stdef[k] \in Seq(Nat)
      BY <1>1, ElementOfSeq
    <3> QED
      BY <1>1, <3>1, LenProperties
  <2>2. sw = [k \in 1 .. Len(f.stdef) |-> 1 + Len(f.stdef[k])]
    BY <2>1 DEF MapSeq, StatusWords
  <2>3. sw \in [1 .. Len(f.stdef) -> Nat]
    <3>1. \A k \in 1 .. Len(f.stdef) : 1 + Len(f.stdef[k]) \in Nat
      BY <2>1
    <3> HIDE DEF sw
    <3> QED
      BY <2>2, <3>1
  <2> QED
    BY <1>1, <2>2, <2>3, MapTyped
<1>4. tw \in Seq(Nat) /\ Len(tw) = Len(f.tbldef)
      /\ \A k \in 1 .. Len(f.tbldef) : tw[k] = 4 + 5 * Len(f.tbldef[k].flds)
  <2>1. /\ DOMAIN f.tbldef = 1 .. Len(f.tbldef)
        /\ \A k \in 1 .. Len(f.tbldef) : Len(f.tbldef[k].flds) \in Nat
    <3>1. \A k \in 1 .. Len(f.tbldef) : f.tbldef[k] \in FileTab
      BY <1>1, ElementOfSeq
    <3>2. \A k \in 1 .. Len(f.tbldef) : f.tbldef[k].flds \in Seq(FileFld)
      BY <3>1 DEF FileTab
    <3> QED
      BY <1>1, <3>2, LenProperties
  <2>2. tw = [k \in 1 .. Len(f.tbldef) |-> 4 + 5 * Len(f.tbldef[k].flds)]
    BY <2>1 DEF MapSeq, TableWords
  <2>3. tw \in [1 .. Len(f.tbldef) -> Nat]
    <3>1. \A n \in Nat : 4 + 5 * n \in Nat
      OBVIOUS
    <3>2. \A k \in 1 .. Len(f.tbldef) : 4 + 5 * Len(f.tbldef[k].flds) \in Nat
      BY <2>1, <3>1
    <3> HIDE DEF tw
    <3> QED
      BY <2>2, <3>2
  <2> QED
    BY <1>1, <2>2, <2>3, MapTyped
<1>5. se = Ends(TypesEnd(f), sw) /\ te = Ends(se[Len(f.stdef)], tw)
  BY DEF StatusEnds, TableEnds
<1>6. FileWords(f) = te[Len(f.tbldef)] + 5 * Len(f.syms)
  BY DEF FileWords, SymbolWords
<1> HIDE DEF sw, tw, se, te
<1>7. /\ se[0] = TypesEnd(f)
      /\ \A k \in 0 .. Len(f.stdef) : se[k] \in Nat /\ se[k] <= se[Len(f.stdef)]
      /\ \A k \in 1 .. Len(f.stdef) : se[k] = se[k - 1] + sw[k]
  BY <1>2, <1>3, <1>5, EndsRun
<1>8. se[Len(f.stdef)] \in Nat
  BY <1>1, <1>7
<1>9. /\ te[0] = se[Len(f.stdef)]
      /\ \A k \in 0 .. Len(f.tbldef) : te[k] \in Nat /\ te[k] <= te[Len(f.tbldef)]
      /\ \A k \in 1 .. Len(f.tbldef) : te[k] = te[k - 1] + tw[k]
  BY <1>4, <1>5, <1>8, EndsRun
<1>10. te[Len(f.tbldef)] \in Nat /\ te[0] <= te[Len(f.tbldef)]
  BY <1>1, <1>9
<1>11. FileWords(f) \in Nat /\ te[Len(f.tbldef)] <= FileWords(f)
  BY <1>1, <1>6, <1>10
<1>12. \A k \in 0 .. Len(f.tbldef) : te[k] \in Nat /\ te[k] <= FileWords(f)
  BY <1>9, <1>10, <1>11
<1>13. \A k \in 0 .. Len(f.stdef) : se[k] \in Nat /\ se[k] <= FileWords(f)
  BY <1>7, <1>8, <1>9, <1>10, <1>11
<1>14. \A k \in 1 .. Len(f.stdef) : se[k] = se[k - 1] + 1 + Len(f.stdef[k])
  <2>1. ASSUME NEW k \in 1 .. Len(f.stdef) PROVE se[k] = se[k - 1] + 1 + Len(f.stdef[k])
    <3>1. k - 1 \in 0 .. Len(f.stdef)
      BY <1>1
    <3>2. se[k - 1] \in Nat /\ f.stdef[k] \in Seq(Nat)
      BY <1>1, <1>7, <3>1, ElementOfSeq
    <3>3. Len(f.stdef[k]) \in Nat
      BY <3>2, LenProperties
    <3>4. se[k] = se[k - 1] + (1 + Len(f.stdef[k]))
      BY <1>3, <1>7
    <3>5. \A m, n \in Nat : m + (1 + n) = m + 1 + n
      OBVIOUS
    <3> QED
      BY <3>2, <3>3, <3>4, <3>5
  <2> QED
    BY <2>1
<1>15. \A k \in 1 .. Len(f.tbldef) : te[k] = te[k - 1] + 4 + 5 * Len(f.tbldef[k].flds)
  <2>1. ASSUME NEW k \in 1 .. Len(f.tbldef)
        PROVE  te[k] = te[k - 1] + 4 + 5 * Len(f.tbldef[k].flds)
    <3>1. k - 1 \in 0 .. Len(f.tbldef)
      BY <1>1
    <3>2. te[k - 1] \in Nat /\ f.tbldef[k] \in FileTab
      BY <1>1, <1>9, <3>1, ElementOfSeq
    <3>3. f.tbldef[k].flds \in Seq(FileFld)
      BY <3>2 DEF FileTab
    <3>4. Len(f.tbldef[k].flds) \in Nat
      BY <3>3, LenProperties
    <3>5. te[k] = te[k - 1] + (4 + 5 * Len(f.tbldef[k].flds))
      BY <1>4, <1>9
    <3>6. \A m, n \in Nat : m + (4 + 5 * n) = m + 4 + 5 * n
      OBVIOUS
    <3> QED
      BY <3>2, <3>4, <3>5, <3>6
  <2> QED
    BY <2>1
<1> QED
  BY <1>1, <1>2, <1>6, <1>7, <1>9, <1>11, <1>12, <1>13, <1>14, <1>15 DEF se, te

---------------------------------------------------------------------------
(* The reader.                                                             *)

Phases == {"stdef", "tbldef", "types", "syms", "SK_OK"}
Readers ==
  [file : FileRec, size : Nat, p : Nat, i : Nat, at : Phases, base_stdef : Nat,
   base_tbldf : Nat, base_syms : Nat, remap : Seq(Nat)]

\* Every loop stands at the start of its next record.
Placed(rd) ==
  LET f == rd.file IN
    \/ /\ rd.at = "stdef" /\ rd.i \in 1 .. Len(f.stdef) + 1
       /\ rd.p = StatusEnds(f)[rd.i - 1] /\ Len(rd.remap) = 0
    \/ /\ rd.at = "tbldef" /\ rd.i \in 1 .. Len(f.tbldef) + 1
       /\ rd.p = TableEnds(f)[rd.i - 1] /\ Len(rd.remap) = 0
    \/ /\ rd.at = "types" /\ rd.i \in 1 .. Len(f.types) + 1
       /\ rd.p = TableEnds(f)[Len(f.tbldef)] /\ Len(rd.remap) = rd.i - 1
    \/ /\ rd.at = "syms" /\ rd.i \in 1 .. Len(f.syms) + 1
       /\ rd.p = TableEnds(f)[Len(f.tbldef)] + 5 * (rd.i - 1)
       /\ Len(rd.remap) = Len(f.types)
    \/ /\ rd.at = "SK_OK" /\ rd.p = FileWords(f) /\ Len(rd.remap) = Len(f.types)

\* It is past the end of the file only behind what it did not look at: the last
\* word of a TABLE without fields, or entries of full tables.
LastEmpty(rd) ==
  LET td == rd.file.tbldef IN
    \/ rd.at = "tbldef" /\ rd.i > 1 /\ td[rd.i - 1].flds = <<>>
    \/ /\ rd.at \in {"types", "syms", "SK_OK"} /\ td # <<>> /\ td[Len(td)].flds = <<>>
       /\ rd.at = "syms" => rd.i = 1
       /\ rd.at = "SK_OK" => rd.file.syms = <<>>
TbldefFull(T) == Len(T.tbldef) >= T.lim.tbldef
InFile(T, rd) ==
  \/ rd.p <= rd.size
  \/ StdefFull(T)
  \/ TbldefFull(T)
  \/ rd.p = rd.size + 1 /\ LastEmpty(rd)

\* The definitions of the file follow those that were there.
Stored(T, rd) ==
  \/ StdefFull(T)
  \/ rd.at = "stdef" /\ Len(T.stdef) = rd.base_stdef + (rd.i - 1)
  \/ rd.at # "stdef" /\ Len(T.stdef) = rd.base_stdef + Len(rd.file.stdef)

\* As long as there is room, the types of the file have got indices of their own,
\* at which they stand with their references renamed and shifted.
NewType(rd, ty) == [ty EXCEPT !.inner = Renamed(rd.remap, ty.inner), !.extra = Shifted(ty, rd)]
Faithful(T, rd) ==
  /\ \A k \in 1 .. Len(rd.remap) :
       rd.remap[k] # 0 /\ T.types[rd.remap[k]] = NewType(rd, rd.file.types[k])
  /\ \A j, k \in 1 .. Len(rd.remap) : rd.remap[j] = rd.remap[k] => j = k
Remapped(T, rd) ==
  /\ \A k \in 1 .. Len(rd.remap) : rd.remap[k] <= Len(T.types)
  /\ TypesFull(T) \/ Faithful(T, rd)

\* The definitions that were there have their types, and those of the file whose
\* types have come.
FileTypesFull(f, l) == Len(f.types) + 1 >= l.types
Linked(T, rd) ==
  \/ TypesFull(T) \/ StdefFull(T) \/ FileTypesFull(rd.file, T.lim)
  \/ /\ TypesDefined(T)
     /\ \A d \in 1 .. rd.base_stdef : TypeOfDef(T.types, d)
     /\ \A k \in 1 .. Len(rd.remap) :
          rd.file.types[k].kind = "status" =>
            TypeOfDef(T.types, rd.base_stdef + rd.file.types[k].extra + 1)

ReadInv(T, rd) ==
  /\ rd \in Readers /\ GoodFile(rd.file, T.lim) /\ Placed(rd) /\ InFile(T, rd)
  /\ Stored(T, rd) /\ Remapped(T, rd) /\ Linked(T, rd)
  /\ rd.at \in {"syms", "SK_OK"} => StatusInv(T)

\* What a step of the reader may answer.
Failed == [at |-> "SK_ERR_IO"]
ReadOut(T, a) ==
  /\ Good(a.s) /\ Later(T, a.s) /\ a.s.scp = T.scp
  /\ a.r = Failed \/ ReadInv(a.s, a.r)

LEMMA FailOut ==
  ASSUME NEW T, NEW U, Good(U), Later(T, U), U.scp = T.scp
  PROVE  ReadOut(T, Fail(U))
  BY DEF ReadOut, Fail, Read, Failed

\* The header.
LEMMA HeaderOut ==
  ASSUME NEW T, Good(T), StatusInv(T), NEW file, GoodFile(file, T.lim), NEW size \in Nat
  PROVE  ReadOut(T, ReadHeader(T, file, size))
<1> DEFINE rd == [file |-> file, size |-> size, p |-> TypesEnd(file), i |-> 1, at |-> "stdef",
                  base_stdef |-> Len(T.stdef), base_tbldf |-> Len(T.tbldef),
                  base_syms |-> Len(T.syms), remap |-> <<>>]
<1>1. Later(T, T)
  BY GrownSame DEF Grown
<1>2. CASE TypesEnd(file) > size
  <2>1. ReadHeader(T, file, size) = Fail(T)
    BY <1>2 DEF ReadHeader
  <2> QED
    BY <1>1, <2>1, FailOut
<1>3. CASE ~ (TypesEnd(file) > size)
  <2>1. ReadHeader(T, file, size) = Read(T, rd)
    BY <1>3 DEF ReadHeader
  <2>2. file \in FileRec
    BY DEF GoodFile
  <2>3. TypesEnd(file) \in Nat /\ StatusEnds(file)[0] = TypesEnd(file) /\ Len(file.stdef) \in Nat
    BY <2>2, FilePlaces
  <2>4. Len(T.stdef) \in Nat /\ Len(T.tbldef) \in Nat /\ Len(T.syms) \in Nat
    BY GoodParts
  <2>5. <<>> \in Seq(Nat) /\ Len(<<>>) = 0
    BY EmptySeq
  <2>6. rd \in Readers
    BY <2>2, <2>3, <2>4, <2>5 DEF Readers, Phases
  <2>7. /\ rd.file = file /\ rd.size = size /\ rd.p = TypesEnd(file) /\ rd.i = 1
        /\ rd.at = "stdef" /\ rd.base_stdef = Len(T.stdef) /\ rd.remap = <<>>
    OBVIOUS
  <2> HIDE DEF rd
  <2>8. Len(rd.remap) = 0
    BY <2>5, <2>7
  <2>9. Placed(rd)
    BY <2>3, <2>7, <2>8 DEF Placed
  <2>10. InFile(T, rd)
    BY <1>3, <2>3, <2>7 DEF InFile
  <2>11. Stored(T, rd)
    BY <2>4, <2>7 DEF Stored
  <2>12. Remapped(T, rd)
    BY <2>8 DEF Remapped, Faithful
  <2>13. Linked(T, rd)
    BY <2>7, <2>8 DEF Linked, StatusInv, DefsTyped
  <2>14. ReadInv(T, rd)
    BY <2>6, <2>7, <2>9, <2>10, <2>11, <2>12, <2>13 DEF ReadInv
  <2> QED
    BY <1>1, <2>1, <2>14 DEF ReadOut, Read
<1> QED
  BY <1>2, <1>3

\* A step that leaves the types alone, and the reader its file and its remap.
SameFile(rd, nx) ==
  /\ nx.file = rd.file /\ nx.size = rd.size /\ nx.remap = rd.remap
  /\ nx.base_stdef = rd.base_stdef /\ nx.base_tbldf = rd.base_tbldf
  /\ nx.base_syms = rd.base_syms

LEMMA TypesStay ==
  ASSUME NEW T, Good(T), NEW U, Good(U), Later(T, U), U.types = T.types,
         NEW rd, ReadInv(T, rd), NEW nx, SameFile(rd, nx)
  PROVE  GoodFile(nx.file, U.lim) /\ Remapped(U, nx) /\ Linked(U, nx)
<1>1. U.lim = T.lim /\ (TypesFull(T) => TypesFull(U)) /\ (StdefFull(T) => StdefFull(U))
  BY LaterFull DEF Later
<1>2. GoodFile(nx.file, U.lim)
  BY <1>1 DEF ReadInv, SameFile
<1>3. Remapped(U, nx)
  <2>1. \A ty : NewType(nx, ty) = NewType(rd, ty)
    BY DEF SameFile, NewType, Shifted
  <2>2. Remapped(T, rd) /\ nx.remap = rd.remap /\ nx.file = rd.file
    BY DEF ReadInv, SameFile
  <2>3. Faithful(T, rd) => Faithful(U, nx)
    BY <2>1, <2>2 DEF Faithful
  <2> QED
    BY <1>1, <2>2, <2>3 DEF Remapped
<1>4. TypesDefined(T) => TypesDefined(U)
  <2>1. Len(T.stdef) \in Nat /\ Len(U.stdef) \in Nat /\ Len(T.stdef) <= Len(U.stdef)
        /\ \A t \in 1 .. Len(T.types) : T.types[t].extra \in Nat
    BY GoodParts DEF Later, TyRec
  <2> QED
    BY <2>1 DEF TypesDefined, DefOfType
<1>5. Linked(U, nx)
  BY <1>1, <1>4 DEF ReadInv, SameFile, Linked
<1> QED
  BY <1>2, <1>3, <1>5

\* What a reader is made of.
LEMMA ReaderParts ==
  ASSUME NEW T, NEW rd, ReadInv(T, rd)
  PROVE  /\ rd.file \in FileRec /\ rd.size \in Nat /\ rd.p \in Nat /\ rd.i \in Nat
         /\ rd.at \in Phases /\ rd.base_stdef \in Nat /\ rd.base_tbldf \in Nat
         /\ rd.base_syms \in Nat /\ rd.remap \in Seq(Nat) /\ Len(rd.remap) \in Nat
         /\ \A k \in 1 .. Len(rd.remap) : rd.remap[k] \in Nat
         /\ rd.file.strs \in Seq(Names) /\ rd.file.types \in Seq(TyRec)
         /\ rd.file.stdef \in Seq(Seq(Nat)) /\ rd.file.tbldef \in Seq(FileTab)
         /\ rd.file.syms \in Seq(FileSym)
<1>1. rd \in Readers
  BY DEF ReadInv
<1>2. /\ rd.file \in FileRec /\ rd.size \in Nat /\ rd.p \in Nat /\ rd.i \in Nat
      /\ rd.at \in Phases /\ rd.base_stdef \in Nat /\ rd.base_tbldf \in Nat
      /\ rd.base_syms \in Nat /\ rd.remap \in Seq(Nat)
  BY <1>1 DEF Readers
<1>3. Len(rd.remap) \in Nat /\ \A k \in 1 .. Len(rd.remap) : rd.remap[k] \in Nat
  BY <1>2, LenProperties, ElementOfSeq
<1> QED
  BY <1>2, <1>3 DEF FileRec

LEMMA StringTyped ==
  ASSUME NEW strs \in Seq(Names), NEW o
  PROVE  SGET(strs, o) \in Names
<1>1. CASE o \in DOMAIN strs
  BY <1>1, Nonempty DEF SGET
<1>2. CASE o \notin DOMAIN strs
  BY <1>2 DEF SGET, Names
<1> QED
  BY <1>1, <1>2

LEMMA RenamedTyped ==
  ASSUME NEW remap \in Seq(Nat), NEW n \in Nat, \A k \in 1 .. Len(remap) : remap[k] <= n,
         NEW t
  PROVE  Renamed(remap, t) \in Nat /\ Renamed(remap, t) <= n
<1>1. DOMAIN remap = 1 .. Len(remap) /\ \A k \in 1 .. Len(remap) : remap[k] \in Nat
  BY Nonempty
<1> QED
  BY <1>1 DEF Renamed

\* The next record, and the next loop.
LEMMA NextTyped ==
  ASSUME NEW rd \in Readers, NEW w \in Nat
  PROVE  LET nx == NextRecord(rd, w) IN
           /\ nx \in Readers /\ SameFile(rd, nx)
           /\ nx.p = rd.p + w /\ nx.i = rd.i + 1 /\ nx.at = rd.at
<1>1. rd.p \in Nat /\ rd.i \in Nat
  BY DEF Readers
<1>2. rd.p + w \in Nat /\ rd.i + 1 \in Nat
  BY <1>1
<1> QED
  BY <1>2 DEF Readers, SameFile, NextRecord
LEMMA LoopTyped ==
  ASSUME NEW rd \in Readers, NEW next \in Phases
  PROVE  LET nx == [rd EXCEPT !.i = 1, !.at = next] IN
           /\ nx \in Readers /\ SameFile(rd, nx)
           /\ nx.p = rd.p /\ nx.i = 1 /\ nx.at = next
  BY DEF Readers, SameFile

\* A definition comes in.
LEMMA DefinitionAdded ==
  ASSUME NEW T, Good(T), ~ StdefFull(T), NEW vals \in Seq(Names)
  PROVE  LET U == [T EXCEPT !.stdef = Append(@, vals)] IN
           /\ Good(U) /\ Later(T, U) /\ U.types = T.types /\ U.scp = T.scp
           /\ U.tbldef = T.tbldef /\ Len(U.stdef) = Len(T.stdef) + 1
<1> DEFINE U == [T EXCEPT !.stdef = Append(@, vals)]
           n == Len(T.stdef)
<1>1. n \in Nat /\ T.lim.stdef \in Nat /\ T.stdef \in Seq(Seq(Names))
  BY GoodParts
<1>2. /\ U.types = T.types /\ U.stdef = Append(T.stdef, vals)
      /\ U.tbldef = T.tbldef /\ U.syms = T.syms /\ U.scp = T.scp /\ U.lim = T.lim
      /\ U \in Tables
  BY <1>1, Appended DEF Good, Tables
<1>3. Len(U.stdef) = n + 1
  BY <1>1, <1>2, Appended
<1> HIDE DEF U
<1>4. Good(U)
  <2>1. InLimits(U)
    <3>1. n + 1 <= T.lim.stdef
      BY <1>1 DEF StdefFull
    <3> QED
      BY <1>2, <1>3, <3>1 DEF Good, InLimits
  <2>2. SymTypes(U) /\ ScopesNest(U)
    BY <1>2 DEF Good, SymTypes, ScopesNest
  <2> QED
    BY <1>2, <2>1, <2>2 DEF Good
<1>5. Later(T, U)
  BY <1>1, <1>2, <1>3, GoodParts DEF Later
<1> QED
  BY <1>2, <1>3, <1>4, <1>5 DEF U

\* The loop over the definitions.
LEMMA StatusOut ==
  ASSUME NEW T, Good(T), NEW rd, ReadInv(T, rd), rd.at = "stdef"
  PROVE  ReadOut(T, ReadStatus(T, rd))
<1> DEFINE f == rd.file
           N == Len(f.stdef)
           se == StatusEnds(f)
           offs == f.stdef[rd.i]
           there == IF rd.size - rd.p - 1 < Len(offs) THEN rd.size - rd.p - 1 ELSE Len(offs)
           vals == MapSeq(SubSeq(offs, 1, there), LAMBDA o : SGET(f.strs, o))
           kept == [T EXCEPT !.stdef = Append(@, vals)]
           next == NextRecord(rd, StatusWords(Len(offs)))
<1>1. /\ f \in FileRec /\ rd.size \in Nat /\ rd.p \in Nat /\ rd.i \in Nat
      /\ f.stdef \in Seq(Seq(Nat)) /\ f.strs \in Seq(Names) /\ rd.base_stdef \in Nat
      /\ rd \in Readers
  BY ReaderParts DEF ReadInv
<1>2. rd.i \in 1 .. N + 1 /\ rd.p = se[rd.i - 1] /\ Len(rd.remap) = 0
  BY DEF ReadInv, Placed
<1>3. /\ N \in Nat /\ TableEnds(f)[0] = se[N] /\ Len(f.tbldef) \in Nat
      /\ \A k \in 1 .. N : se[k] = se[k - 1] + 1 + Len(f.stdef[k])
      /\ \A k \in 0 .. N : se[k] \in Nat
  BY <1>1, FilePlaces
<1>4. Good(T) /\ Later(T, T)
  BY GrownSame DEF Grown
<1>5. Len(T.stdef) \in Nat /\ InFile(T, rd) /\ Stored(T, rd)
  BY GoodParts DEF ReadInv
<1> HIDE DEF N
<1>6. CASE rd.i > N
  <2> DEFINE nx == [rd EXCEPT !.i = 1, !.at = "tbldef"]
  <2>1. ReadStatus(T, rd) = Read(T, nx)
    BY <1>6, Zenon DEF ReadStatus, LoopDone, N
  <2>2. nx \in Readers /\ SameFile(rd, nx) /\ nx.p = rd.p /\ nx.i = 1 /\ nx.at = "tbldef"
    BY <1>1, LoopTyped DEF Phases
  <2> HIDE DEF nx
  <2>3. rd.i = N + 1 /\ rd.i - 1 = N
    <3>1. N \in Nat /\ rd.i \in 1 .. N + 1
      BY <1>2, <1>3
    <3> QED
      BY <1>6, <3>1
  <2>4. Placed(nx)
    BY <1>2, <1>3, <2>2, <2>3 DEF Placed, SameFile
  <2>5. InFile(T, nx)
    BY <1>5, <2>2 DEF InFile, LastEmpty, SameFile
  <2>6. Stored(T, nx)
    BY <1>5, <2>2, <2>3 DEF Stored, SameFile, N
  <2>7. GoodFile(nx.file, T.lim) /\ Remapped(T, nx) /\ Linked(T, nx)
    BY <1>4, <2>2, TypesStay
  <2>8. ReadInv(T, nx)
    BY <2>2, <2>4, <2>5, <2>6, <2>7 DEF ReadInv
  <2> QED
    BY <1>4, <2>1, <2>8 DEF ReadOut, Read
<1>7. CASE ~ (rd.i > N)
  <2> DEFINE L == Len(offs)
  <2>1. rd.i \in 1 .. N /\ offs \in Seq(Nat) /\ L \in Nat
    <3>1. rd.i \in 1 .. N
      BY <1>1, <1>2, <1>3, <1>7
    <3>2. offs \in Seq(Nat)
      BY <1>1, <3>1, ElementOfSeq DEF N
    <3> QED
      BY <3>1, <3>2, LenProperties
  <2> HIDE DEF L
  <2>2. next \in Readers /\ SameFile(rd, next) /\ next.p = rd.p + 1 + L
        /\ next.i = rd.i + 1 /\ next.at = "stdef"
    <3>0. \A m, n \in Nat : 1 + n \in Nat /\ m + (1 + n) = m + 1 + n
      OBVIOUS
    <3>1. 1 + L \in Nat /\ rd.p + (1 + L) = rd.p + 1 + L
      BY <1>1, <2>1, <3>0
    <3>2. next = NextRecord(rd, 1 + L)
      BY DEF StatusWords, L
    <3> HIDE DEF next
    <3> QED
      BY <1>1, <3>1, <3>2, NextTyped
  <2>3. ReadStatus(T, rd) =
          IF Past(rd, 1) THEN Fail(T)
          ELSE IF StdefFull(T) THEN Read(T, next)
          ELSE IF there < Len(offs) THEN Fail(kept)
          ELSE Read(kept, next)
    BY <1>7, Zenon DEF ReadStatus, StdefFull, N
  <2> HIDE DEF next
  <2>4. Placed(next)
    <3>0. N \in Nat /\ rd.i \in 1 .. N /\ next.i = rd.i + 1
      BY <1>3, <2>1, <2>2
    <3>1. next.i \in 1 .. N + 1 /\ next.i - 1 = rd.i
      BY <3>0
    <3>2. next.p = se[rd.i]
      BY <1>2, <1>3, <2>1, <2>2 DEF L
    <3> QED
      BY <1>2, <2>2, <3>1, <3>2 DEF Placed, SameFile, N
  <2>5. CASE Past(rd, 1)
    BY <1>4, <2>3, <2>5, FailOut
  <2>6. CASE ~ Past(rd, 1) /\ StdefFull(T)
    <3>1. ReadStatus(T, rd) = Read(T, next)
      BY <2>3, <2>6
    <3>2. GoodFile(next.file, T.lim) /\ Remapped(T, next) /\ Linked(T, next)
      BY <1>4, <2>2, TypesStay
    <3>3. InFile(T, next) /\ Stored(T, next)
      BY <2>6 DEF InFile, Stored
    <3>4. ReadInv(T, next)
      BY <2>2, <2>4, <3>2, <3>3 DEF ReadInv
    <3> QED
      BY <1>4, <3>1, <3>4 DEF ReadOut, Read
  <2>7. CASE ~ Past(rd, 1) /\ ~ StdefFull(T)
    <3>1. rd.p + 1 <= rd.size /\ there \in 0 .. L /\ (there < L \/ rd.p + 1 + L <= rd.size)
      <4>1. there = IF rd.size - rd.p - 1 < L THEN rd.size - rd.p - 1 ELSE L
        BY DEF L
      <4>2. rd.p \in Nat /\ rd.size \in Nat /\ L \in Nat /\ ~ (rd.p + 1 > rd.size)
        BY <1>1, <2>1, <2>7 DEF Past
      <4> HIDE DEF there
      <4>3. \A m, n, o \in Nat, t \in Int :
              ~ (m + 1 > n) /\ t = (IF n - m - 1 < o THEN n - m - 1 ELSE o)
                => m + 1 <= n /\ t \in 0 .. o /\ (t < o \/ m + 1 + o <= n)
        OBVIOUS
      <4>4. there \in Int
        BY <4>1, <4>2
      <4> QED
        BY <4>1, <4>2, <4>3, <4>4
    <3>2. vals \in Seq(Names)
      <4> DEFINE sub == SubSeq(offs, 1, there)
      <4>1. sub \in Seq(Nat)
        <5>1. IsSeq(offs) /\ Len(offs) \in Nat /\ there \in 0 .. Len(offs)
          BY <2>1, <3>1, SeqIsSeq DEF L
        <5> HIDE DEF there, offs
        <5>2. /\ IsSeq(sub) /\ Len(sub) = there /\ \A k \in 1 .. there : sub[k] = offs[k]
          BY <5>1, PrefixAny
        <5>3. DOMAIN sub = 1 .. there
          BY <5>2, DomainOfSeq
        <5>4. \A k \in 1 .. there : sub[k] \in Nat
          <6>1. \A k \in 1 .. Len(offs) : offs[k] \in Nat
            BY <2>1, ElementOfSeq
          <6>2. \A k \in 1 .. there : k \in 1 .. Len(offs)
            BY <5>1
          <6> QED
            BY <5>2, <6>1, <6>2
        <5>5. \A x \in Range(sub) : x \in Nat
          BY <5>3, <5>4 DEF Range
        <5>6. sub \in Seq(Range(sub))
          BY <5>2 DEF IsSeq
        <5> QED
          BY <5>5, <5>6, SeqMonotonic
      <4> HIDE DEF sub
      <4>2. Len(sub) \in Nat /\ DOMAIN sub = 1 .. Len(sub)
        BY <4>1, Nonempty
      <4>3. \A k \in 1 .. Len(sub) : SGET(f.strs, sub[k]) \in Names
        BY <1>1, StringTyped
      <4>4. [k \in DOMAIN sub |-> SGET(f.strs, sub[k])] \in [1 .. Len(sub) -> Names]
        BY <4>2, <4>3
      <4>5. [k \in DOMAIN sub |-> SGET(f.strs, sub[k])] \in Seq(Names)
        BY <4>2, <4>4, MapTyped
      <4> QED
        BY <4>5 DEF MapSeq, sub
    <3> HIDE DEF vals
    <3>3. /\ Good(kept) /\ Later(T, kept) /\ kept.types = T.types /\ kept.scp = T.scp
          /\ kept.tbldef = T.tbldef /\ Len(kept.stdef) = Len(T.stdef) + 1
      BY <2>7, <3>2, DefinitionAdded
    <3> HIDE DEF kept
    <3>4. CASE there < Len(offs)
      <4>1. ReadStatus(T, rd) = Fail(kept)
        BY <2>3, <2>7, <3>4
      <4> QED
        BY <3>3, <4>1, FailOut
    <3>5. CASE ~ (there < Len(offs))
      <4>1. ReadStatus(T, rd) = Read(kept, next)
        BY <2>3, <2>7, <3>5
      <4>2. GoodFile(next.file, kept.lim) /\ Remapped(kept, next) /\ Linked(kept, next)
        BY <2>2, <3>3, TypesStay
      <4>3. rd.p + 1 + L <= rd.size
        BY <3>1, <3>5 DEF L
      <4>4. InFile(kept, next)
        BY <2>2, <4>3 DEF InFile, SameFile
      <4>5. Stored(kept, next)
        <5>1. Len(T.stdef) = rd.base_stdef + (rd.i - 1)
          BY <1>5, <2>7 DEF Stored
        <5>2. Len(kept.stdef) = rd.base_stdef + (next.i - 1)
          BY <1>1, <2>2, <3>3, <5>1
        <5> QED
          BY <2>2, <5>2 DEF Stored, SameFile
      <4>6. ReadInv(kept, next)
        BY <2>2, <2>4, <4>2, <4>4, <4>5 DEF ReadInv
      <4> QED
        BY <3>3, <4>1, <4>6 DEF ReadOut, Read
    <3> QED
      BY <3>4, <3>5
  <2> QED
    BY <2>5, <2>6, <2>7
<1> QED
  BY <1>6, <1>7

\* A TABLE of the file as it is kept.
LEMMA ImportedTyped ==
  ASSUME NEW f \in FileRec, NEW td \in FileTab, NEW got \in Nat, got <= Len(td.flds)
  PROVE  Imported(f, td, got) \in TabRec
<1> DEFINE flds == [j \in 1 .. got |-> [name |-> SGET(f.strs, td.flds[j].name),
                                        jtype |-> td.flds[j].jtype, by |-> "plain"]]
<1>1. td.lo \in Int /\ td.hi \in Int /\ td.flds \in Seq(FileFld) /\ f.strs \in Seq(Names)
  BY DEF FileTab, FileRec
<1>2. Len(td.flds) \in Nat
  BY <1>1, LenProperties
<1>3. ASSUME NEW j \in 1 .. got
      PROVE  [name |-> SGET(f.strs, td.flds[j].name), jtype |-> td.flds[j].jtype,
              by |-> "plain"] \in FldRec
  <2>1. j \in 1 .. Len(td.flds)
    BY <1>2
  <2>2. td.flds[j] \in FileFld
    BY <1>1, <2>1, ElementOfSeq
  <2>3. td.flds[j].jtype \in Nat
    BY <2>2 DEF FileFld
  <2>4. SGET(f.strs, td.flds[j].name) \in Names
    BY <1>1, StringTyped
  <2> QED
    BY <2>3, <2>4 DEF FldRec
<1>4. flds \in [1 .. got -> FldRec]
  BY <1>3
<1>5. flds \in Seq(FldRec)
  BY <1>4, MapTyped
<1>6. Imported(f, td, got) =
        [flds |-> flds, lo |-> td.lo, hi |-> td.hi, ast_nd |-> FALSE, wordsz |-> 16]
  BY DEF Imported
<1> HIDE DEF flds
<1> QED
  BY <1>1, <1>5, <1>6 DEF TabRec

\* The fields that are there are as many as there are, or the last one is missing.
LEMMA FieldsThere ==
  ASSUME NEW nf \in Nat, NEW rd
  PROVE  LET got == Cardinality({j \in 1 .. nf : ~ Past(rd, TableWords(j))}) IN
           /\ got \in Nat /\ got <= nf
           /\ got >= nf /\ nf > 0 => ~ Past(rd, TableWords(nf))
<1> DEFINE I == {j \in 1 .. nf : ~ Past(rd, TableWords(j))}
<1>1. IsFiniteSet(1 .. nf) /\ Cardinality(1 .. nf) = nf
  BY FS_Interval
<1>2. I \in SUBSET (1 .. nf)
  OBVIOUS
<1> HIDE DEF I
<1>3. /\ IsFiniteSet(I) /\ Cardinality(I) <= nf
      /\ nf = Cardinality(I) => I = 1 .. nf
  BY <1>1, <1>2, FS_Subset
<1>4. Cardinality(I) \in Nat
  BY <1>3, FS_CardinalityType
<1>5. ASSUME Cardinality(I) >= nf, nf > 0 PROVE ~ Past(rd, TableWords(nf))
  <2>1. Cardinality(I) = nf
    BY <1>3, <1>4, <1>5
  <2>2. nf \in I
    BY <1>3, <1>5, <2>1
  <2> QED
    BY <2>2 DEF I
<1> QED
  BY <1>3, <1>4, <1>5 DEF I

\* The loop over the TABLEs.
LEMMA TableOut ==
  ASSUME NEW T, Good(T), NEW rd, ReadInv(T, rd), rd.at = "tbldef"
  PROVE  ReadOut(T, ReadTable(T, rd))
<1> DEFINE f == rd.file
           N == Len(f.tbldef)
           te == TableEnds(f)
           td == f.tbldef[rd.i]
           nf == Len(td.flds)
           got == Cardinality({j \in 1 .. nf : ~ Past(rd, TableWords(j))})
           seen == IF Past(rd, 4) THEN [td EXCEPT !.hi = Stale] ELSE td
           kept == [T EXCEPT !.tbldef = Append(@, Imported(f, seen, got))]
           next == NextRecord(rd, TableWords(nf))
<1>1. /\ f \in FileRec /\ rd.size \in Nat /\ rd.p \in Nat /\ rd.i \in Nat
      /\ f.tbldef \in Seq(FileTab) /\ rd.base_stdef \in Nat
      /\ rd \in Readers
  BY ReaderParts DEF ReadInv
<1>2. rd.i \in 1 .. N + 1 /\ rd.p = te[rd.i - 1] /\ Len(rd.remap) = 0
  BY DEF ReadInv, Placed
<1>3. /\ N \in Nat /\ Len(f.types) \in Nat
      /\ \A k \in 1 .. N : te[k] = te[k - 1] + 4 + 5 * Len(f.tbldef[k].flds)
  BY <1>1, FilePlaces
<1>4. Good(T) /\ Later(T, T)
  BY GrownSame DEF Grown
<1>5. InFile(T, rd) /\ Stored(T, rd)
  BY DEF ReadInv
<1> HIDE DEF N
<1>6. CASE rd.i > N
  <2> DEFINE nx == [rd EXCEPT !.i = 1, !.at = "types"]
  <2>1. ReadTable(T, rd) = Read(T, nx)
    BY <1>6, Zenon DEF ReadTable, LoopDone, N
  <2>2. nx \in Readers /\ SameFile(rd, nx) /\ nx.p = rd.p /\ nx.i = 1 /\ nx.at = "types"
    BY <1>1, LoopTyped DEF Phases
  <2> HIDE DEF nx
  <2>3. rd.i = N + 1 /\ rd.i - 1 = N /\ (rd.i > 1 => N # 0)
    <3>1. N \in Nat /\ rd.i \in 1 .. N + 1
      BY <1>2, <1>3
    <3> QED
      BY <1>6, <3>1
  <2>4. Placed(nx)
    <3>1. nx.i \in 1 .. Len(f.types) + 1 /\ Len(nx.remap) = nx.i - 1
      BY <1>2, <1>3, <2>2 DEF SameFile
    <3>2. nx.p = te[N]
      BY <1>2, <2>2, <2>3
    <3> QED
      BY <2>2, <3>1, <3>2 DEF Placed, SameFile, N
  <2>5. InFile(T, nx)
    <3>1. ASSUME LastEmpty(rd) PROVE LastEmpty(nx)
      <4>1. rd.i > 1 /\ f.tbldef[N].flds = <<>>
        BY <2>3, <3>1 DEF LastEmpty
      <4>2. f.tbldef # <<>>
        <5>1. N # 0
          BY <2>3, <4>1
        <5> QED
          BY <5>1, EmptySeq DEF N
      <4> QED
        BY <2>2, <4>1, <4>2 DEF LastEmpty, SameFile, N
    <3> QED
      BY <1>5, <2>2, <3>1 DEF InFile, SameFile
  <2>6. Stored(T, nx)
    BY <1>5, <2>2 DEF Stored, SameFile
  <2>7. GoodFile(nx.file, T.lim) /\ Remapped(T, nx) /\ Linked(T, nx)
    BY <1>4, <2>2, TypesStay
  <2>8. ReadInv(T, nx)
    BY <2>2, <2>4, <2>5, <2>6, <2>7 DEF ReadInv
  <2> QED
    BY <1>4, <2>1, <2>8 DEF ReadOut, Read
<1>7. CASE ~ (rd.i > N)
  <2>1. rd.i \in 1 .. N /\ td \in FileTab /\ td.flds \in Seq(FileFld) /\ nf \in Nat
    <3>1. rd.i \in 1 .. N
      BY <1>1, <1>2, <1>3, <1>7
    <3>2. td \in FileTab
      BY <1>1, <3>1, ElementOfSeq DEF N
    <3>3. td.flds \in Seq(FileFld)
      BY <3>2 DEF FileTab
    <3> QED
      BY <3>1, <3>2, <3>3, LenProperties
  <2>2. ReadTable(T, rd) =
          IF Past(rd, 3) THEN Fail(T)
          ELSE IF TbldefFull(T) THEN Read(T, next)
          ELSE IF got < nf THEN Fail(kept)
          ELSE Read(kept, next)
    BY <1>7, Zenon DEF ReadTable, TbldefFull, N
  <2>3. /\ got \in Nat /\ got <= nf
        /\ got >= nf /\ nf > 0 => ~ Past(rd, TableWords(nf))
    BY <2>1, FieldsThere
  <2>4. seen \in FileTab /\ seen.flds = td.flds
    BY <2>1 DEF FileTab, Stale
  <2>5. nf = 0 => td.flds = <<>>
    BY <2>1, EmptySeq
  <2>6. Imported(f, seen, got) \in TabRec
    <3> HIDE DEF seen, got
    <3>1. got <= Len(seen.flds)
      BY <2>3, <2>4
    <3> QED
      BY <1>1, <2>3, <2>4, <3>1, ImportedTyped
  <2> DEFINE imp == Imported(f, seen, got)
  <2> HIDE DEF got, seen, nf, imp
  <2>7. next \in Readers /\ SameFile(rd, next) /\ next.p = rd.p + 4 + 5 * nf
        /\ next.i = rd.i + 1 /\ next.at = "tbldef"
    <3>1. \A m, n \in Nat : 4 + 5 * n \in Nat /\ m + (4 + 5 * n) = m + 4 + 5 * n
      OBVIOUS
    <3>2. 4 + 5 * nf \in Nat /\ rd.p + (4 + 5 * nf) = rd.p + 4 + 5 * nf
      BY <1>1, <2>1, <3>1
    <3>3. next = NextRecord(rd, 4 + 5 * nf)
      BY DEF TableWords
    <3> HIDE DEF next
    <3> QED
      BY <1>1, <3>2, <3>3, NextTyped
  <2> HIDE DEF next
  <2>8. Placed(next)
    <3>1. N \in Nat /\ rd.i \in 1 .. N /\ next.i = rd.i + 1
      BY <1>3, <2>1, <2>7
    <3>2. next.i \in 1 .. N + 1 /\ next.i - 1 = rd.i
      BY <3>1
    <3>3. next.p = te[rd.i]
      BY <1>2, <1>3, <2>1, <2>7 DEF nf
    <3> QED
      BY <1>2, <2>7, <3>2, <3>3 DEF Placed, SameFile, N
  <2>9. Stored(T, next)
    BY <1>5, <2>7 DEF Stored, SameFile
  <2>10. CASE Past(rd, 3)
    BY <1>4, <2>2, <2>10, FailOut
  <2>11. CASE ~ Past(rd, 3) /\ TbldefFull(T)
    <3>1. ReadTable(T, rd) = Read(T, next)
      BY <2>2, <2>11
    <3>2. GoodFile(next.file, T.lim) /\ Remapped(T, next) /\ Linked(T, next)
      BY <1>4, <2>7, TypesStay
    <3>3. InFile(T, next)
      BY <2>11 DEF InFile
    <3>4. ReadInv(T, next)
      BY <2>7, <2>8, <2>9, <3>2, <3>3 DEF ReadInv
    <3> QED
      BY <1>4, <3>1, <3>4 DEF ReadOut, Read
  <2>12. CASE ~ Past(rd, 3) /\ ~ TbldefFull(T)
    <3>1. Len(T.tbldef) < T.lim.tbldef
      <4>1. Len(T.tbldef) \in Nat /\ T.lim.tbldef \in Nat
        BY GoodParts
      <4> QED
        BY <2>12, <4>1 DEF TbldefFull
    <3>2. kept = [T EXCEPT !.tbldef = Append(@, imp)]
      BY DEF imp
    <3>3. imp \in TabRec
      BY <2>6 DEF imp
    <3> HIDE DEF kept
    <3>4. Grown(T, kept)
      BY <3>1, <3>2, <3>3, NewTableGrows DEF TableSoFar
    <3>5. /\ Good(kept) /\ Later(T, kept) /\ kept.scp = T.scp
          /\ kept.types = T.types /\ kept.stdef = T.stdef /\ kept.lim = T.lim
      BY <3>2, <3>4 DEF Grown, Good, Tables
    <3>6. CASE got < nf
      <4>1. ReadTable(T, rd) = Fail(kept)
        BY <2>2, <2>12, <3>6
      <4> QED
        BY <3>5, <4>1, FailOut
    <3>7. CASE ~ (got < nf)
      <4>1. ReadTable(T, rd) = Read(kept, next)
        BY <2>2, <2>12, <3>7
      <4>2. GoodFile(next.file, kept.lim) /\ Remapped(kept, next) /\ Linked(kept, next)
        BY <2>7, <3>5, TypesStay
      <4>3. InFile(kept, next)
        <5>1. rd.p \in Nat /\ rd.size \in Nat /\ nf \in Nat /\ got \in Nat
          BY <1>1, <2>1, <2>3
        <5>2. rd.p + 3 <= rd.size
          BY <2>12, <5>1 DEF Past
        <5>3. CASE nf = 0
          <6>1. td.flds = <<>>
            BY <2>5, <5>3
          <6>2. next.i > 1 /\ next.i - 1 = rd.i
            BY <2>1, <2>7, <1>1
          <6>3. LastEmpty(next)
            BY <2>7, <6>1, <6>2 DEF LastEmpty, SameFile
          <6>4. \A m, n \in Nat : m + 3 <= n => m + 4 + 5 * 0 <= n \/ m + 4 + 5 * 0 = n + 1
            OBVIOUS
          <6>5. next.p <= rd.size \/ next.p = rd.size + 1
            BY <2>7, <5>1, <5>2, <5>3, <6>4
          <6> QED
            BY <2>7, <6>3, <6>5 DEF InFile, SameFile
        <5>4. CASE nf # 0
          <6>1. got >= nf /\ nf > 0
            BY <3>7, <5>1, <5>4
          <6>2. ~ (rd.p + (4 + 5 * nf) > rd.size)
            BY <2>3, <6>1 DEF Past, TableWords
          <6>3. \A m, n, o \in Nat : ~ (m + (4 + 5 * n) > o) => m + 4 + 5 * n <= o
            OBVIOUS
          <6>4. next.p <= rd.size
            BY <2>7, <5>1, <6>2, <6>3
          <6> QED
            BY <2>7, <6>4 DEF InFile, SameFile
        <5> QED
          BY <5>3, <5>4
      <4>4. Stored(kept, next)
        BY <2>9, <3>5 DEF Stored, StdefFull
      <4>5. ReadInv(kept, next)
        BY <2>7, <2>8, <4>2, <4>3, <4>4 DEF ReadInv
      <4> QED
        BY <3>5, <4>1, <4>5 DEF ReadOut, Read
    <3> QED
      BY <3>6, <3>7
  <2> QED
    BY <2>10, <2>11, <2>12
<1> QED
  BY <1>6, <1>7

\* The fields that came with the file get the new indices of their types.
LEMMA FieldsFixed ==
  ASSUME NEW T, Good(T), NEW remap \in Seq(Nat), NEW from \in Nat
  PROVE  LET U == FixFields(T, remap, from) IN
           /\ Good(U) /\ Later(T, U) /\ U.types = T.types /\ U.stdef = T.stdef
           /\ U.scp = T.scp /\ U.lim = T.lim
<1> DEFINE N == Len(T.tbldef)
           Fixed(fld) == [fld EXCEPT !.jtype = Renamed(remap, fld.jtype)]
           Tab(td) == [td EXCEPT !.flds = MapSeq(td.flds, LAMBDA f : Fixed(f))]
           tabs == [i \in DOMAIN T.tbldef |->
                      IF i <= from THEN T.tbldef[i] ELSE Tab(T.tbldef[i])]
           U == FixFields(T, remap, from)
<1>1. /\ N \in Nat /\ T.tbldef \in Seq(TabRec) /\ DOMAIN T.tbldef = 1 .. N
      /\ \A i \in 1 .. N : T.tbldef[i] \in TabRec
  BY GoodParts, Nonempty
<1>2. ASSUME NEW fld \in FldRec PROVE Fixed(fld) \in FldRec
  <2>1. Renamed(remap, fld.jtype) \in Nat
    <3>1. DOMAIN remap = 1 .. Len(remap) /\ \A k \in 1 .. Len(remap) : remap[k] \in Nat
      BY Nonempty
    <3> QED
      BY <3>1 DEF Renamed
  <2> QED
    BY <2>1 DEF FldRec
<1>3. ASSUME NEW td \in TabRec PROVE Tab(td) \in TabRec
  <2>1. td.flds \in Seq(FldRec)
    BY DEF TabRec
  <2>2. /\ Len(td.flds) \in Nat /\ DOMAIN td.flds = 1 .. Len(td.flds)
        /\ \A k \in 1 .. Len(td.flds) : td.flds[k] \in FldRec
    BY <2>1, Nonempty
  <2> DEFINE fixed == [k \in DOMAIN td.flds |-> Fixed(td.flds[k])]
  <2>3. fixed \in [1 .. Len(td.flds) -> FldRec]
    <3> HIDE DEF Fixed
    <3> QED
      BY <1>2, <2>2
  <2>4. fixed \in Seq(FldRec)
    BY <2>2, <2>3, MapTyped
  <2>5. Tab(td) = [td EXCEPT !.flds = fixed]
    BY DEF MapSeq
  <2> HIDE DEF fixed, Tab
  <2> QED
    BY <2>4, <2>5 DEF TabRec
<1>4. U = [T EXCEPT !.tbldef = tabs]
  BY DEF FixFields, MapSeq
<1> HIDE DEF Tab, U
<1>5. tabs \in [1 .. N -> TabRec]
  BY <1>1, <1>3
<1>6. tabs \in Seq(TabRec) /\ Len(tabs) = N
  BY <1>1, <1>5, MapTyped
<1> HIDE DEF tabs
<1>7. /\ U.types = T.types /\ U.stdef = T.stdef /\ U.tbldef = tabs
      /\ U.syms = T.syms /\ U.scp = T.scp /\ U.lim = T.lim /\ U \in Tables
  BY <1>4, <1>6 DEF Good, Tables
<1>8. Good(U)
  <2>1. InLimits(U)
    BY <1>6, <1>7 DEF Good, InLimits
  <2> QED
    BY <1>7, <2>1 DEF Good, SymTypes, ScopesNest
<1>9. Later(T, U)
  BY <1>6, <1>7, GoodParts DEF Later
<1> QED
  BY <1>7, <1>8, <1>9 DEF U

\* Different types of the file stay different.
LEMMA NewTypeApart ==
  ASSUME NEW T, NEW rd, ReadInv(T, rd), Faithful(T, rd), NEW ty \in TyRec, NEW ot \in TyRec,
         ty.inner <= Len(rd.remap), ot.inner <= Len(rd.remap),
         NewType(rd, ty) = NewType(rd, ot)
  PROVE  ty = ot
<1>1. /\ rd.remap \in Seq(Nat) /\ rd.base_stdef \in Nat /\ rd.base_tbldf \in Nat
      /\ Len(rd.remap) \in Nat
  BY ReaderParts
<1>2. /\ ty.kind \in TypeKinds /\ ty.width \in Nat /\ ty.n_extra \in Nat /\ ty.inner \in Nat
      /\ ty.extra \in Nat
      /\ ot.kind \in TypeKinds /\ ot.width \in Nat /\ ot.n_extra \in Nat /\ ot.inner \in Nat
      /\ ot.extra \in Nat
  BY DEF TyRec
<1>3. /\ ty.kind = ot.kind /\ ty.width = ot.width /\ ty.n_extra = ot.n_extra
      /\ Renamed(rd.remap, ty.inner) = Renamed(rd.remap, ot.inner)
      /\ Shifted(ty, rd) = Shifted(ot, rd)
  <2> DEFINE a == NewType(rd, ty)
             b == NewType(rd, ot)
  <2>1. /\ a.kind = ty.kind /\ a.width = ty.width /\ a.n_extra = ty.n_extra
        /\ a.inner = Renamed(rd.remap, ty.inner) /\ a.extra = Shifted(ty, rd)
    BY DEF NewType, TyRec
  <2>2. /\ b.kind = ot.kind /\ b.width = ot.width /\ b.n_extra = ot.n_extra
        /\ b.inner = Renamed(rd.remap, ot.inner) /\ b.extra = Shifted(ot, rd)
    BY DEF NewType, TyRec
  <2>3. a = b
    OBVIOUS
  <2> HIDE DEF a, b
  <2> QED
    BY <2>1, <2>2, <2>3
<1>4. ty.extra = ot.extra
  <2>1. \A m, n, o \in Nat : m + o = n + o => m = n
    OBVIOUS
  <2> QED
    BY <1>1, <1>2, <1>3, <2>1 DEF Shifted
<1>5. ty.inner = ot.inner
  <2>1. DOMAIN rd.remap = 1 .. Len(rd.remap)
    BY <1>1, Nonempty
  <2>2. ASSUME NEW n \in Nat, n <= Len(rd.remap)
        PROVE  Renamed(rd.remap, n) = IF n = 0 THEN 0 ELSE rd.remap[n]
    BY <1>1, <2>1, <2>2 DEF Renamed
  <2>3. \A n \in Nat : n <= Len(rd.remap) /\ n # 0 => n \in 1 .. Len(rd.remap)
    BY <1>1
  <2>4. CASE ty.inner = 0 \/ ot.inner = 0
    BY <1>2, <1>3, <2>2, <2>3, <2>4 DEF Faithful
  <2>5. CASE ty.inner # 0 /\ ot.inner # 0
    <3>1. ty.inner \in 1 .. Len(rd.remap) /\ ot.inner \in 1 .. Len(rd.remap)
      BY <1>2, <2>3, <2>5
    <3>2. rd.remap[ty.inner] = rd.remap[ot.inner]
      BY <1>2, <1>3, <2>2, <2>5
    <3> QED
      BY <3>1, <3>2 DEF Faithful
  <2> QED
    BY <2>4, <2>5
<1> QED
  BY <1>3, <1>4, <1>5 DEF TyRec

LEMMA Injected ==
  ASSUME NEW n \in Nat, NEW m \in Nat, NEW g \in [1 .. n -> 1 .. m],
         \A j, k \in 1 .. n : g[j] = g[k] => j = k
  PROVE  n <= m
<1>1. IsFiniteSet(1 .. n) /\ Cardinality(1 .. n) = n
  BY FS_Interval
<1>2. IsFiniteSet(1 .. m) /\ Cardinality(1 .. m) = m
  BY FS_Interval
<1>3. ASSUME m < n PROVE FALSE
  <2>1. \E j, k \in 1 .. n : j # k /\ g[j] = g[k]
    BY <1>1, <1>2, <1>3, FS_PigeonHole
  <2> QED
    BY <2>1
<1> QED
  BY <1>3

\* When all types have come, every definition has its type.
LEMMA AllLinked ==
  ASSUME NEW T, Good(T), NEW rd, ReadInv(T, rd), rd.at = "types",
         Len(rd.remap) = Len(rd.file.types)
  PROVE  StatusInv(T)
<1> DEFINE f == rd.file
           n == Len(f.types)
           m == Len(T.types)
           base == rd.base_stdef
           D == Len(f.stdef)
<1>1. /\ f \in FileRec /\ n \in Nat /\ m \in Nat /\ base \in Nat /\ D \in Nat
      /\ rd.remap \in Seq(Nat) /\ Len(T.stdef) \in Nat
      /\ T.lim.types \in Nat /\ T.lim.stdef \in Nat
  BY ReaderParts, FilePlaces, GoodParts
<1>2. /\ StdefFull(T) \/ Len(T.stdef) = base + D
      /\ Remapped(T, rd) /\ Linked(T, rd) /\ FileStatus(f, T.lim)
  BY DEF ReadInv, Stored, GoodFile
<1> HIDE DEF D, base
<1>3. CASE FileTypesFull(f, T.lim) /\ ~ TypesFull(T)
  <2>1. rd.remap \in [1 .. n -> 1 .. m]
    <3>1. rd.remap \in [1 .. n -> Nat]
      BY <1>1, LenProperties
    <3>2. \A k \in 1 .. n : rd.remap[k] \in 1 .. m
      <4>1. ASSUME NEW k \in 1 .. n PROVE rd.remap[k] \in 1 .. m
        <5>1. rd.remap[k] \in Nat /\ rd.remap[k] # 0 /\ rd.remap[k] <= m
          BY <1>2, <1>3, <3>1 DEF Remapped, Faithful
        <5> QED
          BY <1>1, <5>1
      <4> QED
        BY <4>1
    <3> QED
      BY <3>1, <3>2
  <2>2. \A j, k \in 1 .. n : rd.remap[j] = rd.remap[k] => j = k
    BY <1>2, <1>3 DEF Remapped, Faithful
  <2> HIDE DEF n, m
  <2>5. n <= m
    BY <1>1, <2>1, <2>2, Injected
  <2>6. n + 1 >= T.lim.types
    BY <1>3 DEF FileTypesFull, n
  <2>7. m + 1 >= T.lim.types
    BY <1>1, <2>5, <2>6
  <2> QED
    BY <1>3, <2>7 DEF TypesFull, m
<1>4. CASE D >= T.lim.stdef
  <2>1. \A a, b, c \in Nat : b >= c => a + b >= c
    OBVIOUS
  <2>2. StdefFull(T)
    BY <1>1, <1>2, <1>4, <2>1 DEF StdefFull
  <2> QED
    BY <2>2 DEF StatusInv
<1>5. CASE /\ ~ TypesFull(T) /\ ~ StdefFull(T) /\ ~ FileTypesFull(f, T.lim)
           /\ ~ (D >= T.lim.stdef)
  <2>1. DefsTyped(f)
    BY <1>2, <1>5 DEF FileStatus, FileTypesFull, D
  <2>2. /\ TypesDefined(T)
        /\ \A d \in 1 .. base : TypeOfDef(T.types, d)
        /\ \A k \in 1 .. n : f.types[k].kind = "status" =>
                               TypeOfDef(T.types, base + f.types[k].extra + 1)
    BY <1>2, <1>5 DEF Linked, base
  <2>3. ASSUME NEW i \in 1 .. Len(T.stdef) PROVE TypeOfDef(T.types, i)
    <3>1. i \in 1 .. base + D
      BY <1>2, <1>5
    <3>2. CASE i <= base
      BY <1>1, <2>2, <3>1, <3>2
    <3>3. CASE ~ (i <= base)
      <4> DEFINE d == i - base
      <4>1. d \in 1 .. D /\ base + d = i
        BY <1>1, <3>1, <3>3
      <4> HIDE DEF d
      <4>2. TypeOfDef(f.types, d)
        BY <2>1, <4>1 DEF DefsTyped, D
      <4>3. PICK k \in 1 .. n : f.types[k].kind = "status" /\ f.types[k].extra + 1 = d
        BY <4>2 DEF TypeOfDef
      <4>4. f.types[k].extra \in Nat
        <5>1. f.types \in Seq(TyRec)
          BY ReaderParts
        <5>2. f.types[k] \in TyRec
          BY <5>1, ElementOfSeq
        <5> QED
          BY <5>2 DEF TyRec
      <4>5. base + f.types[k].extra + 1 = i
        <5>1. \A a, b, c \in Nat : b + 1 = c => a + b + 1 = a + c
          OBVIOUS
        <5>2. d \in Nat
          BY <1>1, <4>1
        <5> DEFINE x == f.types[k].extra
        <5>3. x \in Nat /\ x + 1 = d /\ base \in Nat
          BY <1>1, <4>3, <4>4
        <5> HIDE DEF x
        <5>4. base + x + 1 = base + d
          BY <5>1, <5>2, <5>3
        <5> QED
          BY <4>1, <5>4 DEF x
      <4>6. TypeOfDef(T.types, base + f.types[k].extra + 1)
        BY <2>2, <4>3
      <4> QED
        BY <4>5, <4>6
    <3> QED
      BY <3>2, <3>3
  <2>4. DefsTyped(T)
    BY <2>3 DEF DefsTyped
  <2> QED
    BY <2>2, <2>4 DEF StatusInv
<1> QED
  BY <1>3, <1>4, <1>5 DEF StatusInv

\* One more type renamed: those before it keep their new indices.
LEMMA RenamedLonger ==
  ASSUME NEW remap \in Seq(Nat), NEW t \in Nat, NEW n \in Nat, n <= Len(remap)
  PROVE  /\ Append(remap, t) \in Seq(Nat)
         /\ Renamed(Append(remap, t), n) = Renamed(remap, n)
<1>1. /\ Append(remap, t) \in Seq(Nat) /\ Len(Append(remap, t)) = Len(remap) + 1
      /\ \A k \in 1 .. Len(remap) : Append(remap, t)[k] = remap[k]
  BY Appended
<1>2. Len(remap) \in Nat /\ DOMAIN remap = 1 .. Len(remap)
      /\ DOMAIN Append(remap, t) = 1 .. Len(remap) + 1
  BY <1>1, Nonempty
<1>3. CASE n = 0
  BY <1>1, <1>2, <1>3 DEF Renamed
<1>4. CASE n # 0
  <2>1. n \in 1 .. Len(remap) /\ n \in 1 .. Len(remap) + 1
    BY <1>2, <1>4
  <2> QED
    BY <1>1, <1>2, <2>1 DEF Renamed
<1> QED
  BY <1>1, <1>3, <1>4

\* The loop over the types.
LEMMA TypesOut ==
  ASSUME NEW T, Good(T), NEW rd, ReadInv(T, rd), rd.at = "types"
  PROVE  ReadOut(T, ImportType(T, rd))
<1> DEFINE f == rd.file
           N == Len(f.types)
<1>1. /\ f \in FileRec /\ rd.p \in Nat /\ rd.i \in Nat /\ rd.base_stdef \in Nat
      /\ rd.base_tbldf \in Nat /\ f.types \in Seq(TyRec) /\ rd \in Readers
      /\ rd.remap \in Seq(Nat) /\ Len(rd.remap) \in Nat
  BY ReaderParts DEF ReadInv
<1>2. rd.i \in 1 .. N + 1 /\ rd.p = TableEnds(f)[Len(f.tbldef)] /\ Len(rd.remap) = rd.i - 1
  BY DEF ReadInv, Placed
<1>3. N \in Nat /\ Len(f.syms) \in Nat /\ TableEnds(f)[Len(f.tbldef)] \in Nat
  <2>1. Len(f.tbldef) \in Nat
    BY <1>1, FilePlaces
  <2> QED
    BY <1>1, <2>1, FilePlaces
<1>4. InFile(T, rd) /\ Stored(T, rd) /\ Remapped(T, rd) /\ Linked(T, rd)
  BY DEF ReadInv
<1> HIDE DEF N
<1>5. CASE rd.i > N
  <2> DEFINE nx == [rd EXCEPT !.i = 1, !.at = "syms"]
             U == FixFields(T, rd.remap, rd.base_tbldf)
  <2>1. ImportType(T, rd) = Read(U, nx)
    BY <1>5, Zenon DEF ImportType, LoopDone, N
  <2>2. nx \in Readers /\ SameFile(rd, nx) /\ nx.p = rd.p /\ nx.i = 1 /\ nx.at = "syms"
    BY <1>1, LoopTyped DEF Phases
  <2>3. /\ Good(U) /\ Later(T, U) /\ U.types = T.types /\ U.stdef = T.stdef
        /\ U.scp = T.scp /\ U.lim = T.lim
    BY <1>1, FieldsFixed
  <2> HIDE DEF nx, U
  <2>4. Len(rd.remap) = N
    <3>1. N \in Nat /\ rd.i \in 1 .. N + 1
      BY <1>2, <1>3
    <3>2. rd.i - 1 = N
      BY <1>5, <3>1
    <3> QED
      BY <1>2, <3>2
  <2>5. Placed(nx)
    <3>1. nx.i \in 1 .. Len(f.syms) + 1
      BY <1>3, <2>2
    <3>2. nx.p = TableEnds(f)[Len(f.tbldef)] + 5 * (nx.i - 1)
      <4>1. \A n \in Nat : n + 5 * (1 - 1) = n
        OBVIOUS
      <4> QED
        BY <1>2, <1>3, <2>2, <4>1
    <3> QED
      BY <2>2, <2>4, <3>1, <3>2 DEF Placed, SameFile, N
  <2>6. InFile(U, nx)
    BY <1>4, <2>2, <2>3, LaterFull DEF InFile, LastEmpty, SameFile, TbldefFull
  <2>7. Stored(U, nx)
    BY <1>4, <2>2, <2>3 DEF Stored, SameFile, StdefFull
  <2>8. GoodFile(nx.file, U.lim) /\ Remapped(U, nx) /\ Linked(U, nx)
    BY <2>2, <2>3, TypesStay
  <2>9. StatusInv(T)
    BY <2>4, AllLinked DEF N
  <2>10. StatusInv(U)
    BY <2>3, <2>9 DEF StatusInv, TypesFull, StdefFull, DefsTyped, TypesDefined
  <2>11. ReadInv(U, nx)
    BY <2>2, <2>5, <2>6, <2>7, <2>8, <2>10 DEF ReadInv
  <2> QED
    BY <2>1, <2>3, <2>11 DEF ReadOut, Read
<1>6. CASE ~ (rd.i > N)
  <2> DEFINE i == rd.i
             ty == f.types[i]
             newty == NewType(rd, ty)
             new == jt_intern(T, newty)
             U == new.s
             nx == [rd EXCEPT !.i = @ + 1, !.remap = Append(@, new.t)]
             m == Len(rd.remap)
  <2>1. ImportType(T, rd) = Read(U, nx)
    BY <1>6, Zenon DEF ImportType, NewType, N
  <2>2. i \in 1 .. N /\ m = i - 1 /\ m \in Nat /\ m + 1 = i
    BY <1>1, <1>2, <1>3, <1>6
  <2>3. /\ \A k \in 1 .. N : f.types[k] \in TyRec /\ f.types[k].inner < k
        /\ \A j, k \in 1 .. N : f.types[j] = f.types[k] => j = k
        /\ FileStatus(f, T.lim)
    <3>1. \A k \in 1 .. N : f.types[k] \in TyRec
      BY <1>1, ElementOfSeq DEF N
    <3> QED
      BY <3>1 DEF ReadInv, GoodFile, InnerFirst, TypesApart, N
  <2>4. ty \in TyRec /\ ty.inner \in Nat /\ ty.extra \in Nat
    BY <2>2, <2>3 DEF TyRec
  <2>5. /\ newty \in TyRec /\ newty.inner <= Len(T.types)
        /\ newty.kind = ty.kind /\ newty.extra = Shifted(ty, rd)
    <3>1. Renamed(rd.remap, ty.inner) \in Nat /\ Renamed(rd.remap, ty.inner) <= Len(T.types)
      BY <1>1, <1>4, GoodParts, RenamedTyped DEF Remapped
    <3>2. Shifted(ty, rd) \in Nat
      <4> HIDE DEF ty
      <4> DEFINE x == ty.extra
                 ends == rd.base_stdef
                 tables == rd.base_tbldf
      <4>1. x \in Nat /\ ends \in Nat /\ tables \in Nat
        BY <1>1, <2>4 DEF Readers
      <4>2. \A a, b \in Nat : a + b \in Nat
        OBVIOUS
      <4>3. x + ends \in Nat /\ x + tables \in Nat /\ ends + x \in Nat /\ tables + x \in Nat
        BY <4>1, <4>2
      <4> QED
        BY <4>1, <4>3, Zenon DEF Shifted
    <3> HIDE DEF ty
    <3> QED
      BY <2>4, <3>1, <3>2 DEF NewType, TyRec
  <2> HIDE DEF newty
  <2>6. Interned(T, newty, new)
    BY <2>5, Intern
  <2> HIDE DEF new
  <2>7. /\ Good(U) /\ Later(T, U) /\ new.t \in Nat /\ new.t <= Len(U.types)
        /\ U.stdef = T.stdef /\ U.tbldef = T.tbldef /\ U.scp = T.scp /\ U.lim = T.lim
        /\ Len(T.types) \in Nat /\ Len(U.types) \in Nat /\ Len(T.types) <= Len(U.types)
    <3>1. /\ Good(U) /\ Later(T, U) /\ new.t \in 0 .. Len(U.types)
          /\ U.stdef = T.stdef /\ U.tbldef = T.tbldef /\ U.scp = T.scp
      BY <2>6 DEF Interned
    <3>2. Len(T.types) \in Nat /\ Len(U.types) \in Nat
      BY <3>1, GoodParts
    <3> QED
      BY <3>1, <3>2 DEF Later
  <2>8. /\ Append(rd.remap, new.t) \in Seq(Nat) /\ Len(Append(rd.remap, new.t)) = m + 1
        /\ \A k \in 1 .. m : Append(rd.remap, new.t)[k] = rd.remap[k]
        /\ Append(rd.remap, new.t)[m + 1] = new.t
    BY <1>1, <2>7, Appended
  <2>9. /\ nx \in Readers /\ nx.file = f /\ nx.size = rd.size /\ nx.p = rd.p
        /\ nx.i = i + 1 /\ nx.at = "types" /\ nx.remap = Append(rd.remap, new.t)
        /\ nx.base_stdef = rd.base_stdef /\ nx.base_tbldf = rd.base_tbldf
        /\ nx.base_syms = rd.base_syms
    <3>1. rd.i + 1 \in Nat
      BY <1>1
    <3> QED
      BY <1>1, <2>8, <3>1 DEF Readers
  <2> HIDE DEF nx, U, ty
  <2>10. Placed(nx)
    <3>1. N \in Nat /\ i \in Nat /\ i \in 1 .. N
      BY <1>1, <1>3, <2>2
    <3>2. nx.i \in 1 .. N + 1 /\ nx.i - 1 = i
      BY <2>9, <3>1
    <3>3. Len(nx.remap) = i
      BY <2>2, <2>8, <2>9
    <3> QED
      BY <1>2, <2>9, <3>2, <3>3 DEF Placed, N
  <2>11. InFile(U, nx)
    BY <1>4, <2>7, <2>9 DEF InFile, LastEmpty, TbldefFull, StdefFull
  <2>12. Stored(U, nx)
    BY <1>4, <2>7, <2>9 DEF Stored, StdefFull
  <2>13. ASSUME NEW k \in 1 .. N, k <= i
         PROVE  NewType(nx, f.types[k]) = NewType(rd, f.types[k])
    <3>1. f.types[k].inner \in Nat /\ f.types[k].inner < k
      BY <2>3 DEF TyRec
    <3>2. f.types[k].inner <= m
      <4>1. \A a, b, c, d \in Nat : a < b /\ b <= d /\ c + 1 = d => a <= c
        OBVIOUS
      <4>2. k \in Nat /\ k <= i /\ i \in Nat
        BY <1>1, <1>3, <2>13
      <4> QED
        BY <2>2, <3>1, <4>1, <4>2, Zenon
    <3>3. Renamed(nx.remap, f.types[k].inner) = Renamed(rd.remap, f.types[k].inner)
      <4> DEFINE x == f.types[k].inner
      <4>1. rd.remap \in Seq(Nat) /\ new.t \in Nat /\ nx.remap = Append(rd.remap, new.t)
        BY <1>1, <2>7, <2>9
      <4>2. x \in Nat /\ x <= m
        BY <3>1, <3>2
      <4> HIDE DEF x
      <4>3. Renamed(nx.remap, x) = Renamed(rd.remap, x)
        BY <4>1, <4>2, RenamedLonger
      <4> QED
        BY <4>3 DEF x
    <3>4. Shifted(f.types[k], nx) = Shifted(f.types[k], rd)
      BY <2>9 DEF Shifted
    <3> QED
      BY <3>3, <3>4 DEF NewType
  <2>14. Remapped(U, nx)
    <3>1. \A k \in 1 .. m : rd.remap[k] \in Nat /\ rd.remap[k] <= Len(T.types)
      BY <1>4, ReaderParts DEF Remapped
    <3>2. \A k \in 1 .. m + 1 : nx.remap[k] <= Len(U.types)
      <4>1. \A k \in 1 .. m : nx.remap[k] <= Len(U.types)
        BY <2>7, <2>8, <2>9, <3>1
      <4>2. nx.remap[m + 1] <= Len(U.types)
        BY <2>7, <2>8, <2>9
      <4>3. \A k \in 1 .. m + 1 : k = m + 1 \/ k \in 1 .. m
        BY <2>2
      <4> QED
        BY <4>1, <4>2, <4>3
    <3>3. ASSUME ~ TypesFull(U) PROVE Faithful(U, nx)
      <4>1. Faithful(T, rd)
        BY <1>4, <2>7, <3>3, LaterFull DEF Remapped
      <4>2. new.t # 0 /\ U.types[new.t] = newty
        BY <2>6, <3>3 DEF Interned, U
      <4>3. ASSUME NEW k \in 1 .. m
            PROVE  /\ nx.remap[k] # 0 /\ U.types[nx.remap[k]] = NewType(rd, f.types[k])
                   /\ k \in 1 .. N /\ k <= i /\ k # i
        <5>1. rd.remap[k] \in Nat /\ rd.remap[k] # 0 /\ rd.remap[k] <= Len(T.types)
              /\ T.types[rd.remap[k]] = NewType(rd, f.types[k])
          BY <3>1, <4>1 DEF Faithful
        <5>2. rd.remap[k] \in 1 .. Len(T.types)
          BY <2>7, <5>1
        <5>3. U.types[rd.remap[k]] = T.types[rd.remap[k]]
          BY <2>7, <5>2 DEF Later
        <5>4. k \in 1 .. N /\ k <= i /\ k # i
          <6>1. N \in Nat
            BY <1>3
          <6>2. i \in 1 .. N /\ m = i - 1 /\ m \in Nat /\ k \in 1 .. m
            BY <2>2
          <6>3. \A a, c \in Nat : \A b \in 1 .. a :
                  c = b - 1 => \A d \in 1 .. c : d \in 1 .. a /\ d <= b /\ d # b
            OBVIOUS
          <6> HIDE DEF N, i, m
          <6> QED
            BY <6>1, <6>2, <6>3
        <5> QED
          BY <2>8, <2>9, <5>1, <5>3, <5>4
      <4>4. nx.remap[i] = new.t /\ newty = NewType(rd, f.types[i]) /\ i <= i
        BY <1>1, <2>2, <2>8, <2>9 DEF newty, ty
      <4>5. \A k \in 1 .. m + 1 : k = i \/ k \in 1 .. m
        BY <2>2
      <4>6. \A k \in 1 .. m + 1 :
              nx.remap[k] # 0 /\ U.types[nx.remap[k]] = NewType(nx, f.types[k])
        <5>1. \A k \in 1 .. m :
                nx.remap[k] # 0 /\ U.types[nx.remap[k]] = NewType(nx, f.types[k])
          BY <2>13, <4>3
        <5>2. nx.remap[i] # 0 /\ U.types[nx.remap[i]] = NewType(nx, f.types[i])
          BY <2>2, <2>13, <4>2, <4>4
        <5> QED
          BY <4>5, <5>1, <5>2
      <4>7. ASSUME NEW k \in 1 .. m PROVE nx.remap[k] # nx.remap[i]
        <5>1. SUFFICES ASSUME nx.remap[k] = nx.remap[i] PROVE FALSE
          OBVIOUS
        <5>2. NewType(rd, f.types[k]) = NewType(rd, f.types[i])
          BY <4>2, <4>3, <4>4, <5>1
        <5>3. k \in 1 .. N /\ k <= i /\ k # i
          BY <4>3
        <5>4. /\ f.types[k] \in TyRec /\ f.types[k].inner < k
              /\ f.types[i] \in TyRec /\ f.types[i].inner < i
          BY <2>2, <2>3, <5>3
        <5>5. f.types[k].inner <= m /\ f.types[i].inner <= m
          <6>1. f.types[k].inner \in Nat /\ f.types[i].inner \in Nat
            BY <5>4 DEF TyRec
          <6>2. k \in Nat /\ k <= m
            OBVIOUS
          <6> DEFINE a == f.types[k].inner
                     b == f.types[i].inner
          <6>3. a \in Nat /\ b \in Nat /\ a < k /\ b < i
            BY <5>4, <6>1
          <6> HIDE DEF a, b
          <6>4. a <= m /\ b <= m
            BY <2>2, <6>2, <6>3
          <6> QED
            BY <6>4 DEF a, b
        <5>6. f.types[k] = f.types[i]
          BY <4>1, <5>2, <5>4, <5>5, NewTypeApart
        <5> QED
          BY <2>2, <2>3, <5>3, <5>6
      <4>8. \A j, k \in 1 .. m : nx.remap[j] = nx.remap[k] => j = k
        BY <2>8, <2>9, <4>1 DEF Faithful
      <4>9. \A j, k \in 1 .. m + 1 : nx.remap[j] = nx.remap[k] => j = k
        BY <4>5, <4>7, <4>8
      <4> QED
        BY <2>8, <2>9, <4>6, <4>9 DEF Faithful
    <3> QED
      BY <2>8, <2>9, <3>2, <3>3 DEF Remapped
  <2>15. Linked(U, nx)
    <3>1. /\ TypesFull(T) => TypesFull(U)
          /\ StdefFull(T) => StdefFull(U)
      BY <2>7, LaterFull
    <3>2. SUFFICES ASSUME ~ TypesFull(U), ~ StdefFull(U), ~ FileTypesFull(f, T.lim)
                   PROVE  /\ TypesDefined(U)
                          /\ \A d \in 1 .. rd.base_stdef : TypeOfDef(U.types, d)
                          /\ \A k \in 1 .. m + 1 :
                               f.types[k].kind = "status" =>
                                 TypeOfDef(U.types, rd.base_stdef + f.types[k].extra + 1)
      BY <2>7, <2>8, <2>9 DEF Linked
    <3>3. /\ TypesDefined(T)
          /\ \A d \in 1 .. rd.base_stdef : TypeOfDef(T.types, d)
          /\ \A k \in 1 .. m :
               f.types[k].kind = "status" =>
                 TypeOfDef(T.types, rd.base_stdef + f.types[k].extra + 1)
      BY <1>4, <3>1, <3>2 DEF Linked
    <3>4. Len(T.stdef) = rd.base_stdef + Len(f.stdef)
      BY <1>4, <3>1, <3>2 DEF Stored
    <3>5. Len(f.stdef) \in Nat /\ T.lim.stdef \in Nat
      BY <1>1, FilePlaces, GoodParts
    <3>6. TypesDefined(f)
      <4>1. ~ (Len(f.stdef) >= T.lim.stdef)
        <5>1. ~ (Len(T.stdef) >= T.lim.stdef)
          BY <3>1, <3>2 DEF StdefFull
        <5>2. \A a, b, c \in Nat : ~ (a + b >= c) => ~ (b >= c)
          OBVIOUS
        <5> QED
          BY <1>1, <3>4, <3>5, <5>1, <5>2
      <4> QED
        BY <2>3, <3>2, <4>1 DEF FileStatus, FileTypesFull
    <3>7. DefOfType(newty, Len(T.stdef))
      <4>1. SUFFICES ASSUME ty.kind = "status" PROVE newty.extra < Len(T.stdef)
        BY <2>5 DEF DefOfType
      <4>2. ty.extra < Len(f.stdef)
        BY <2>2, <3>6, <4>1 DEF TypesDefined, DefOfType, ty, N
      <4>3. newty.extra = ty.extra + rd.base_stdef
        BY <2>5, <4>1 DEF Shifted
      <4>4. \A a, b, c \in Nat : b < c => b + a < a + c
        OBVIOUS
      <4> QED
        BY <1>1, <2>4, <3>4, <3>5, <4>2, <4>3, <4>4
    <3>8. TypesDefined(U)
      <4>1. ASSUME NEW t \in 1 .. Len(U.types) PROVE DefOfType(U.types[t], Len(U.stdef))
        <5>1. CASE t <= Len(T.types)
          <6>1. t \in 1 .. Len(T.types)
            BY <2>7, <5>1
          <6>2. U.types[t] = T.types[t]
            BY <2>7, <6>1 DEF Later
          <6> QED
            BY <2>7, <3>3, <6>1, <6>2 DEF TypesDefined
        <5>2. CASE ~ (t <= Len(T.types))
          <6>1. t > Len(T.types)
            BY <2>7, <5>2
          <6>2. U.types[t] = newty
            BY <2>6, <6>1 DEF Interned, U
          <6> QED
            BY <2>7, <3>7, <6>2
        <5> QED
          BY <5>1, <5>2
      <4> QED
        BY <4>1 DEF TypesDefined
    <3>9. ASSUME NEW d, TypeOfDef(T.types, d) PROVE TypeOfDef(U.types, d)
      BY <2>7, <3>9, LaterTyped
    <3>10. ASSUME ty.kind = "status" PROVE TypeOfDef(U.types, rd.base_stdef + ty.extra + 1)
      <4>1. new.t # 0 /\ U.types[new.t] = newty
        BY <2>6, <3>2 DEF Interned, U
      <4>2. new.t \in 1 .. Len(U.types)
        BY <2>7, <4>1
      <4>3. newty.kind = "status" /\ newty.extra = ty.extra + rd.base_stdef
        BY <2>5, <3>10 DEF Shifted
      <4>4. \A a, b \in Nat : (b + a) + 1 = a + b + 1
        OBVIOUS
      <4>5. newty.extra + 1 = rd.base_stdef + ty.extra + 1
        BY <1>1, <2>4, <4>3, <4>4
      <4> QED
        BY <4>1, <4>2, <4>3, <4>5 DEF TypeOfDef
    <3>11. \A k \in 1 .. m + 1 : k = i \/ k \in 1 .. m
      BY <2>2
    <3> QED
      BY <3>3, <3>8, <3>9, <3>10, <3>11 DEF ty
  <2>16. ReadInv(U, nx)
    <3>1. GoodFile(nx.file, U.lim)
      BY <2>7, <2>9 DEF ReadInv
    <3> QED
      BY <2>9, <2>10, <2>11, <2>12, <2>14, <2>15, <3>1 DEF ReadInv
  <2> QED
    BY <2>1, <2>7, <2>16 DEF ReadOut, Read
<1> QED
  BY <1>5, <1>6

LEMMA SymbolIs ==
  ASSUME NEW sy \in FileSym, NEW name, NEW type
  PROVE  [sy EXCEPT !.name = name, !.type = type] = Sym(name, type, sy.kind, sy.cval)
<1> DEFINE u == [sy EXCEPT !.name = name, !.type = type]
<1>1. DOMAIN u = {"name", "type", "kind", "cval"}
  BY DEF FileSym
<1>2. u.name = name /\ u.type = type /\ u.kind = sy.kind /\ u.cval = sy.cval
  BY DEF FileSym
<1>3. u = [k \in DOMAIN u |-> u[k]]
  OBVIOUS
<1> HIDE DEF u
<1>4. u = Sym(name, type, sy.kind, sy.cval)
  BY <1>1, <1>2, <1>3 DEF Sym
<1> QED
  BY <1>4 DEF u

\* The loop over the symbols.
LEMMA SymbolOut ==
  ASSUME NEW T, Good(T), NEW rd, ReadInv(T, rd), rd.at = "syms"
  PROVE  ReadOut(T, ReadSymbol(T, rd))
<1> DEFINE f == rd.file
           N == Len(f.syms)
           start == TableEnds(f)[Len(f.tbldef)]
<1>1. /\ f \in FileRec /\ rd.p \in Nat /\ rd.i \in Nat /\ rd.size \in Nat
      /\ f.syms \in Seq(FileSym) /\ f.strs \in Seq(Names) /\ rd \in Readers
      /\ rd.remap \in Seq(Nat) /\ Len(rd.remap) \in Nat
  BY ReaderParts DEF ReadInv
<1>2. rd.i \in 1 .. N + 1 /\ rd.p = start + 5 * (rd.i - 1) /\ Len(rd.remap) = Len(f.types)
  BY DEF ReadInv, Placed
<1>3. N \in Nat /\ start \in Nat /\ FileWords(f) = start + 5 * N
  <2> DEFINE te == TableEnds(f)
             M == Len(f.tbldef)
  <2>1. /\ N \in Nat /\ M \in Nat /\ \A k \in 0 .. M : te[k] \in Nat
        /\ FileWords(f) = te[M] + 5 * N
    BY <1>1, FilePlaces
  <2>2. start = te[M]
    OBVIOUS
  <2> HIDE DEF te, M, start, N
  <2> QED
    BY <2>1, <2>2
<1>4. InFile(T, rd) /\ Stored(T, rd) /\ Remapped(T, rd) /\ StatusInv(T)
  BY DEF ReadInv
<1>5. Good(T) /\ Later(T, T)
  BY GrownSame DEF Grown
<1> HIDE DEF N, start
<1>6. CASE rd.i > N
  <2> DEFINE nx == [rd EXCEPT !.i = 1, !.at = "SK_OK"]
  <2>1. ReadSymbol(T, rd) = Read(T, nx)
    BY <1>6, Zenon DEF ReadSymbol, LoopDone, N
  <2>2. nx \in Readers /\ SameFile(rd, nx) /\ nx.p = rd.p /\ nx.i = 1 /\ nx.at = "SK_OK"
    BY <1>1, LoopTyped DEF Phases
  <2> HIDE DEF nx
  <2>3. rd.i = N + 1 /\ rd.i - 1 = N
    <3>1. N \in Nat /\ rd.i \in 1 .. N + 1
      BY <1>2, <1>3
    <3> QED
      BY <1>6, <3>1
  <2>4. Placed(nx)
    BY <1>2, <1>3, <2>2, <2>3 DEF Placed, SameFile
  <2>5. InFile(T, nx)
    <3>1. ASSUME LastEmpty(rd) PROVE LastEmpty(nx)
      <4>1. N = 0
        BY <1>3, <2>3, <3>1 DEF LastEmpty
      <4>2. f.syms = <<>>
        BY <1>1, <4>1, EmptySeq DEF N
      <4> QED
        BY <2>2, <3>1, <4>2 DEF LastEmpty, SameFile
    <3> QED
      BY <1>4, <2>2, <3>1 DEF InFile, SameFile
  <2>6. Stored(T, nx)
    BY <1>4, <2>2 DEF Stored, SameFile
  <2>7. GoodFile(nx.file, T.lim) /\ Remapped(T, nx) /\ Linked(T, nx)
    BY <1>5, <2>2, TypesStay
  <2>8. ReadInv(T, nx)
    BY <1>4, <2>2, <2>4, <2>5, <2>6, <2>7 DEF ReadInv
  <2> QED
    BY <1>5, <2>1, <2>8 DEF ReadOut, Read
<1>7. CASE ~ (rd.i > N)
  <2> DEFINE sy == f.syms[rd.i]
             name == SGET(f.strs, sy.name)
             type == Renamed(rd.remap, sy.type)
             U == add_sym(T, Sym(name, type, sy.kind, sy.cval))
             nx == NextRecord(rd, SymbolWords)
  <2>1. rd.i \in 1 .. N
    BY <1>1, <1>2, <1>3, <1>7
  <2>2. sy \in FileSym
    BY <1>1, <2>1, ElementOfSeq DEF N
  <2>3. sy.kind \in SymKinds /\ sy.cval \in Int /\ name \in Names
    BY <1>1, <2>2, StringTyped DEF FileSym
  <2>4. type \in Nat /\ type <= Len(T.types)
    BY <1>1, <1>4, GoodParts, RenamedTyped DEF Remapped
  <2>5. [sy EXCEPT !.name = name, !.type = type] = Sym(name, type, sy.kind, sy.cval)
    <3> HIDE DEF sy, name, type
    <3> QED
      BY <2>2, SymbolIs
  <2>6. ReadSymbol(T, rd) = IF Past(rd, SymbolWords) THEN Fail(T) ELSE Read(U, nx)
    <3>1. ReadSymbol(T, rd) =
            IF Past(rd, SymbolWords) THEN Fail(T)
            ELSE Read(add_sym(T, [sy EXCEPT !.name = name, !.type = type]), nx)
      BY <1>7, Zenon DEF ReadSymbol, N
    <3> QED
      BY <2>5, <3>1, Zenon
  <2> HIDE DEF sy, name, type
  <2>7. Grown(T, U)
    BY <2>3, <2>4, SymGrows
  <2>8. U.types = T.types /\ U.stdef = T.stdef /\ U.tbldef = T.tbldef /\ U.lim = T.lim
    BY DEF add_sym, Good, Tables
  <2>9. Good(U) /\ Later(T, U) /\ U.scp = T.scp /\ StatusInv(U)
    BY <1>4, <2>7 DEF Grown
  <2> HIDE DEF U
  <2>10. nx \in Readers /\ SameFile(rd, nx) /\ nx.p = rd.p + 5 /\ nx.i = rd.i + 1
         /\ nx.at = "syms"
    BY <1>1, NextTyped DEF SymbolWords
  <2> HIDE DEF nx
  <2>11. CASE Past(rd, SymbolWords)
    BY <1>5, <2>6, <2>11, FailOut
  <2>12. CASE ~ Past(rd, SymbolWords)
    <3>1. ReadSymbol(T, rd) = Read(U, nx)
      BY <2>6, <2>12
    <3>2. Placed(nx)
      <4>1. N \in Nat /\ rd.i \in 1 .. N /\ nx.i = rd.i + 1
        BY <1>3, <2>1, <2>10
      <4>2. nx.i \in 1 .. N + 1
        BY <4>1
      <4>3. \A m, n \in Nat : m + 5 * (n - 1) + 5 = m + 5 * (n + 1 - 1)
        OBVIOUS
      <4>4. nx.p = start + 5 * (nx.i - 1)
        BY <1>1, <1>2, <1>3, <2>10, <4>3
      <4> QED
        BY <1>2, <2>10, <4>2, <4>4 DEF Placed, SameFile, N, start
    <3>3. InFile(U, nx)
      <4>1. rd.p + 5 <= rd.size
        BY <1>1, <2>12 DEF Past, SymbolWords
      <4> QED
        BY <2>10, <4>1 DEF InFile, SameFile
    <3>4. Stored(U, nx)
      BY <1>4, <2>8, <2>10 DEF Stored, SameFile, StdefFull
    <3>5. GoodFile(nx.file, U.lim) /\ Remapped(U, nx) /\ Linked(U, nx)
      BY <2>8, <2>9, <2>10, TypesStay
    <3>6. ReadInv(U, nx)
      BY <2>9, <2>10, <3>2, <3>3, <3>4, <3>5 DEF ReadInv
    <3> QED
      BY <2>9, <3>1, <3>6 DEF ReadOut, Read
  <2> QED
    BY <2>11, <2>12
<1> QED
  BY <1>6, <1>7

\* A step of the reader.
LEMMA StepOut ==
  ASSUME NEW T, Good(T), NEW rd, ReadInv(T, rd), rd.at \in {"stdef", "tbldef", "types", "syms"}
  PROVE  ReadOut(T, cpl_read_step(T, rd))
<1>1. CASE rd.at = "stdef"
  BY <1>1, StatusOut DEF cpl_read_step
<1>2. CASE rd.at = "tbldef"
  BY <1>2, TableOut DEF cpl_read_step
<1>3. CASE rd.at = "types"
  BY <1>3, TypesOut DEF cpl_read_step
<1>4. CASE rd.at = "syms"
  BY <1>4, SymbolOut DEF cpl_read_step
<1> QED
  BY <1>1, <1>2, <1>3, <1>4

\* Reading never goes past the end of the file.
LEMMA PlaceInFile ==
  ASSUME NEW T, NEW rd, ReadInv(T, rd)
  PROVE  rd.p <= FileWords(rd.file)
<1> DEFINE f == rd.file
           te == TableEnds(f)
           se == StatusEnds(f)
           start == te[Len(f.tbldef)]
<1>1. f \in FileRec /\ rd.i \in Nat /\ Placed(rd)
  BY ReaderParts DEF ReadInv
<1>2. /\ Len(f.stdef) \in Nat /\ Len(f.tbldef) \in Nat /\ Len(f.syms) \in Nat
      /\ \A k \in 0 .. Len(f.stdef) : se[k] <= FileWords(f)
      /\ \A k \in 0 .. Len(f.tbldef) : te[k] \in Nat /\ te[k] <= FileWords(f)
      /\ FileWords(f) \in Nat /\ FileWords(f) = start + 5 * Len(f.syms)
  BY <1>1, FilePlaces
<1>3. start \in Nat /\ start <= FileWords(f)
  BY <1>2
<1> HIDE DEF start, te, se
<1>4. CASE rd.at = "stdef"
  <2>1. rd.p = se[rd.i - 1] /\ rd.i \in 1 .. Len(f.stdef) + 1
    BY <1>1, <1>4 DEF Placed, se
  <2>2. rd.i - 1 \in 0 .. Len(f.stdef)
    BY <1>2, <2>1
  <2> QED
    BY <1>2, <2>1, <2>2
<1>5. CASE rd.at = "tbldef"
  <2>1. rd.p = te[rd.i - 1] /\ rd.i \in 1 .. Len(f.tbldef) + 1
    BY <1>1, <1>5 DEF Placed, te
  <2>2. rd.i - 1 \in 0 .. Len(f.tbldef)
    BY <1>2, <2>1
  <2> QED
    BY <1>2, <2>1, <2>2
<1>6. CASE rd.at = "types"
  BY <1>1, <1>3, <1>6 DEF Placed, start, te
<1>7. CASE rd.at = "syms"
  <2>1. rd.p = start + 5 * (rd.i - 1) /\ rd.i \in 1 .. Len(f.syms) + 1
    BY <1>1, <1>7 DEF Placed, start, te
  <2>2. \A m, n, o \in Nat : n \in 1 .. o + 1 => m + 5 * (n - 1) <= m + 5 * o
    OBVIOUS
  <2> QED
    BY <1>1, <1>2, <1>3, <2>1, <2>2
<1>8. CASE rd.at = "SK_OK"
  BY <1>1, <1>2, <1>8 DEF Placed
<1> QED
  BY <1>1, <1>4, <1>5, <1>6, <1>7, <1>8 DEF Placed

---------------------------------------------------------------------------
(* The build.                                                              *)

\* A file that was read to its end was there to its end.
CutOk(T, rd) ==
  rd.size < FileWords(rd.file) => EndsInTable(rd.file) \/ StdefFull(T) \/ TbldefFull(T)

BuildInv ==
  /\ lim \in Limits /\ S.lim = lim /\ Good(S)
  /\ files \in Seq(FileRec) /\ Len(files) < Program
  /\ \A u \in 1 .. Len(files) : GoodFile(files[u], lim)
  /\ at \in {"idle", "import", "read", "compiled", "stopped"}
  /\ src \in Seq(Nodes) /\ imps \in Seq(1 .. Len(files))
  /\ imps # <<>> /\ at \in {"import", "read"} => S.scp = <<>>
  /\ at = "read" =>
       r.at \in {"stdef", "tbldef", "types", "syms"} /\ ReadInv(S, r) /\ imps # <<>>
  /\ at \in {"import", "compiled"} => StatusInv(S)
  /\ at = "idle" => r = NoReader
  /\ r.at = "SK_OK" => CutOk(S, r)

LEMMA EmptyTables ==
  ASSUME NEW l \in LimRec
  PROVE  /\ Good(sema_init(l)) /\ StatusInv(sema_init(l)) /\ sema_init(l).lim = l
         /\ sema_init(l).scp = <<>>
<1> DEFINE T == sema_init(l)
<1>1. /\ T.types = <<>> /\ T.stdef = <<>> /\ T.tbldef = <<>> /\ T.syms = <<>> /\ T.scp = <<>>
      /\ T.n_params = 0 /\ T.errs = FALSE /\ T.lim = l
      /\ T = [types |-> <<>>, stdef |-> <<>>, tbldef |-> <<>>, syms |-> <<>>, scp |-> <<>>,
              n_params |-> 0, errs |-> FALSE, lim |-> l]
  BY DEF sema_init
<1> HIDE DEF T
<1>2. Len(<<>>) = 0 /\ \A X : <<>> \in Seq(X)
  BY EmptySeq
<1>3. T \in Tables
  BY <1>1, <1>2 DEF Tables
<1>4. /\ l.types \in Nat \ {0} /\ l.syms \in Nat /\ l.stdef \in Nat /\ l.tbldef \in Nat
      /\ l.scopes \in Nat
  BY DEF LimRec
<1>5. /\ Len(T.types) = 0 /\ Len(T.stdef) = 0 /\ Len(T.tbldef) = 0 /\ Len(T.syms) = 0
      /\ Len(T.scp) = 0
  BY <1>1, <1>2
<1>6. InLimits(T)
  BY <1>1, <1>4, <1>5 DEF InLimits
<1>7. /\ TypesApart(T.types) /\ InnerFirst(T.types) /\ SymTypes(T) /\ ScopesNest(T)
      /\ DefsTyped(T) /\ TypesDefined(T)
  BY <1>5 DEF TypesApart, InnerFirst, SymTypes, ScopesNest, DefsTyped, TypesDefined
<1>8. Good(T) /\ StatusInv(T)
  BY <1>3, <1>6, <1>7 DEF Good, StatusInv
<1> QED
  BY <1>1, <1>8 DEF T

\* The file was there, or it ends in what nobody looks at.
LEMMA ReadToEnd ==
  ASSUME NEW T, NEW rd, ReadInv(T, rd), rd.at = "SK_OK"
  PROVE  CutOk(T, rd)
<1>1. /\ rd.p = FileWords(rd.file) /\ rd.p \in Nat /\ rd.size \in Nat /\ InFile(T, rd)
  BY ReaderParts DEF ReadInv, Placed
<1>2. SUFFICES ASSUME rd.size < FileWords(rd.file), ~ StdefFull(T), ~ TbldefFull(T)
               PROVE  EndsInTable(rd.file)
  BY DEF CutOk
<1>3. LastEmpty(rd)
  BY <1>1, <1>2 DEF InFile
<1> QED
  BY <1>3 DEF LastEmpty, EndsInTable, Last

LEMMA CutLater ==
  ASSUME NEW T, NEW U, Good(T), Good(U), Later(T, U), NEW rd, CutOk(T, rd)
  PROVE  CutOk(U, rd)
  BY LaterFull DEF CutOk, TbldefFull

LEMMA LimitsTyped == Limits \subseteq LimRec
  BY BuildAssumption DEF LimRec

LEMMA BuildInvInit == Init => BuildInv
<1> SUFFICES ASSUME Init PROVE BuildInv
  OBVIOUS
<1>1. lim \in Limits /\ lim \in LimRec
  BY LimitsTyped DEF Init
<1>2. Good(S) /\ StatusInv(S) /\ S.lim = lim
  BY <1>1, EmptyTables DEF Init
<1>3. Len(<<>>) = 0 /\ \A X : <<>> \in Seq(X)
  BY EmptySeq
<1>4. Program \in Nat /\ 0 < Program
  <2>1. Sources \in Seq(SUBSET Seq(Nodes)) /\ Sources # <<>>
    BY BuildAssumption
  <2>2. Len(Sources) \in Nat /\ Len(Sources) # 0
    BY <2>1, EmptySeq, LenProperties
  <2> QED
    BY <2>2 DEF Program
<1>5. files = <<>> /\ src = <<>> /\ imps = <<>> /\ at = "idle" /\ r = NoReader
  BY DEF Init
<1>6. files \in Seq(FileRec) /\ Len(files) < Program /\ src \in Seq(Nodes)
      /\ imps \in Seq(1 .. Len(files)) /\ Len(files) = 0
  BY <1>3, <1>4, <1>5
<1>7. \A u \in 1 .. Len(files) : GoodFile(files[u], lim)
  BY <1>6
<1>8. r.at = "none"
  BY <1>5 DEF NoReader
<1> QED
  BY <1>1, <1>2, <1>5, <1>6, <1>7, <1>8 DEF BuildInv

\* Whatever the reader answers.
LEMMA AfterReadInv ==
  ASSUME BuildInv, at \in {"import", "read"}, imps # <<>>, NEW a, ReadOut(S, a), AfterRead(a)
  PROVE  BuildInv'
<1>1. /\ S' = a.s /\ r' = a.r
      /\ at' = CASE a.r.at = "SK_ERR_IO" -> "stopped"
                 [] a.r.at = "SK_OK" -> "import"
                 [] OTHER -> "read"
      /\ imps' = IF a.r.at = "SK_OK" THEN Tail(imps) ELSE imps
      /\ lim' = lim /\ files' = files /\ src' = src
  BY DEF AfterRead
<1>2. /\ Good(a.s) /\ Later(S, a.s) /\ a.s.scp = S.scp /\ S.scp = <<>>
      /\ a.r = Failed \/ ReadInv(a.s, a.r)
  BY DEF ReadOut, BuildInv
<1>3. /\ lim \in Limits /\ S.lim = lim /\ files \in Seq(FileRec) /\ Len(files) < Program
      /\ \A u \in 1 .. Len(files) : GoodFile(files[u], lim)
      /\ src \in Seq(Nodes) /\ imps \in Seq(1 .. Len(files))
  BY DEF BuildInv
<1>4. /\ lim' \in Limits /\ S'.lim = lim' /\ Good(S)' /\ files' \in Seq(FileRec)
      /\ Len(files') < Program
      /\ \A u \in 1 .. Len(files') : GoodFile(files'[u], lim')
      /\ src' \in Seq(Nodes) /\ S'.scp = <<>>
  <2>1. Good(S') /\ S'.lim = lim'
    BY <1>1, <1>2, <1>3 DEF Later
  <2>2. Good(S)'
    BY <2>1
  <2> QED
    BY <1>1, <1>2, <1>3, <2>1, <2>2
<1>5. imps' \in Seq(1 .. Len(files'))
  BY <1>1, <1>3, HeadTailProperties
<1>6. CASE a.r = Failed
  <2>1. r'.at = "SK_ERR_IO" /\ at' = "stopped"
    BY <1>1, <1>6 DEF Failed
  <2> QED
    BY <1>4, <1>5, <2>1 DEF BuildInv
<1>7. CASE ReadInv(a.s, a.r) /\ a.r.at = "SK_OK"
  <2>1. r'.at = "SK_OK" /\ at' = "import"
    BY <1>1, <1>7
  <2>2. StatusInv(S')
    BY <1>1, <1>7 DEF ReadInv
  <2>3. CutOk(S', r')
    BY <1>1, <1>7, ReadToEnd
  <2>4. StatusInv(S)' /\ CutOk(S, r)'
    BY <2>2, <2>3
  <2> QED
    BY <1>4, <1>5, <2>1, <2>4 DEF BuildInv
<1>8. CASE ReadInv(a.s, a.r) /\ a.r.at # "SK_OK"
  <2>1. a.r.at \in {"stdef", "tbldef", "types", "syms"}
    BY <1>8 DEF ReadInv, Placed
  <2>2. r'.at = a.r.at /\ at' = "read" /\ imps' = imps
    BY <1>1, <2>1
  <2>3. ReadInv(S', r')
    BY <1>1, <1>8
  <2>4. ReadInv(S, r)'
    BY <2>3
  <2> QED
    BY <1>4, <1>5, <2>1, <2>2, <2>4 DEF BuildInv
<1> QED
  BY <1>2, <1>6, <1>7, <1>8

LEMMA BuildInvNext == BuildInv /\ [Next]_vars => BuildInv'
<1> SUFFICES ASSUME BuildInv, [Next]_vars PROVE BuildInv'
  OBVIOUS
<1>0. /\ lim \in Limits /\ S.lim = lim /\ Good(S)
      /\ files \in Seq(FileRec) /\ Len(files) < Program /\ Len(files) \in Nat
      /\ \A u \in 1 .. Len(files) : GoodFile(files[u], lim)
      /\ src \in Seq(Nodes) /\ imps \in Seq(1 .. Len(files))
      /\ imps # <<>> /\ at \in {"import", "read"} => S.scp = <<>>
      /\ at = "read" =>
           r.at \in {"stdef", "tbldef", "types", "syms"} /\ ReadInv(S, r) /\ imps # <<>>
      /\ at \in {"import", "compiled"} => StatusInv(S)
      /\ at = "idle" => r = NoReader
      /\ r.at = "SK_OK" => CutOk(S, r)
  BY LenProperties DEF BuildInv
<1>1. CASE Start
  <2>1. /\ at' = "import" /\ S' = sema_init(lim) /\ src' \in Sources[unit]
        /\ imps' \in Orders[unit] /\ lim' = lim /\ files' = files /\ r' = NoReader
    BY <1>0, <1>1 DEF Start
  <2>2. Good(S') /\ StatusInv(S') /\ S'.lim = lim' /\ S'.scp = <<>>
    BY <1>0, <2>1, LimitsTyped, EmptyTables
  <2>3. Good(S)' /\ StatusInv(S)'
    BY <2>2
  <2>4. src' \in Seq(Nodes) /\ imps' \in Seq(1 .. Len(files'))
    <3>1. unit \in 1 .. Program /\ unit - 1 = Len(files)
      <4>1. Program \in Nat
        BY BuildAssumption, LenProperties DEF Program
      <4> QED
        BY <1>0, <4>1 DEF unit
    <3>2. DOMAIN Sources = 1 .. Program /\ Sources[unit] \subseteq Seq(Nodes)
      BY <3>1, BuildAssumption, Nonempty DEF Program
    <3>3. Orders[unit] \subseteq Seq(1 .. unit - 1)
      BY <3>1, <3>2, BuildAssumption
    <3> QED
      BY <2>1, <3>1, <3>2, <3>3
  <2>5. r'.at = "none"
    BY <2>1 DEF NoReader
  <2> QED
    BY <1>0, <2>1, <2>2, <2>3, <2>4, <2>5 DEF BuildInv
<1>2. CASE Open
  <2> DEFINE file == files[Head(imps)]
  <2>1. at = "import" /\ imps # <<>>
    BY <1>2 DEF Open
  <2>2. PICK size \in 0 .. FileWords(file) : AfterRead(ReadHeader(S, file, size))
    BY <1>2 DEF Open
  <2>3. Head(imps) \in 1 .. Len(files)
    BY <1>0, <2>1, HeadTailProperties
  <2>4. file \in FileRec /\ GoodFile(file, S.lim)
    BY <1>0, <2>3 DEF GoodFile
  <2>5. size \in Nat
    BY <2>4, FilePlaces
  <2> HIDE DEF file
  <2>6. ReadOut(S, ReadHeader(S, file, size))
    BY <1>0, <2>1, <2>4, <2>5, HeaderOut
  <2> QED
    BY <2>1, <2>2, <2>6, AfterReadInv
<1>3. CASE ReadOn
  <2>1. at = "read" /\ AfterRead(cpl_read_step(S, r))
    BY <1>3 DEF ReadOn
  <2>2. ReadOut(S, cpl_read_step(S, r)) /\ imps # <<>>
    BY <1>0, <2>1, StepOut
  <2> QED
    BY <2>1, <2>2, AfterReadInv
<1>4. CASE Collect
  <2>1. /\ at = "import" /\ imps = <<>> /\ src # <<>> /\ S' = col_decl(S, Head(src))
        /\ src' = Tail(src) /\ lim' = lim /\ files' = files /\ at' = at /\ imps' = imps
        /\ r' = r
    BY <1>4 DEF Collect
  <2>2. Head(src) \in Nodes /\ src' \in Seq(Nodes)
    BY <1>0, <2>1, HeadTailProperties
  <2>3. Collected(S, S')
    BY <1>0, <2>1, <2>2, DeclCollected
  <2>4. Good(S') /\ Later(S, S') /\ StatusInv(S') /\ S'.lim = lim'
    BY <1>0, <2>1, <2>3 DEF Collected, Later
  <2>5. r.at = "SK_OK" => CutOk(S', r)
    BY <1>0, <2>4, CutLater
  <2>6. Good(S)' /\ StatusInv(S)' /\ (r.at = "SK_OK" => CutOk(S, r))'
    BY <2>1, <2>4, <2>5
  <2> QED
    BY <1>0, <2>1, <2>2, <2>4, <2>6 DEF BuildInv
<1>5. CASE GiveUp
  <2>1. /\ at' = "stopped" /\ lim' = lim /\ S' = S /\ files' = files /\ imps' = imps
        /\ src' = src /\ r' = r
    BY <1>5 DEF GiveUp
  <2>2. Good(S)' /\ (r.at = "SK_OK" => CutOk(S, r))'
    BY <1>0, <2>1
  <2> QED
    BY <1>0, <2>1, <2>2 DEF BuildInv
<1>6. CASE Write
  <2>1. /\ at = "import" /\ imps = <<>> /\ unit < Program
        /\ files' = Append(files, cpl_write(S)) /\ at' = "idle" /\ r' = NoReader
        /\ lim' = lim /\ S' = S /\ imps' = imps /\ src' = src
    BY <1>6 DEF Write, Declared
  <2>2. GoodFile(cpl_write(S), lim)
    BY <1>0, <2>1, WrittenFile
  <2> DEFINE file == cpl_write(S)
  <2> HIDE DEF file
  <2>3. file \in FileRec /\ GoodFile(file, lim)
    BY <2>2 DEF file, GoodFile
  <2>4. /\ files' \in Seq(FileRec) /\ Len(files') = Len(files) + 1
        /\ \A u \in 1 .. Len(files) : files'[u] = files[u]
        /\ files'[Len(files) + 1] = file
    <3>1. files' = Append(files, file)
      BY <2>1 DEF file
    <3> QED
      BY <1>0, <2>3, <3>1, Appended
  <2>5. \A u \in 1 .. Len(files') : GoodFile(files'[u], lim')
    <3>1. \A u \in 1 .. Len(files) + 1 : u = Len(files) + 1 \/ u \in 1 .. Len(files)
      BY <1>0
    <3> QED
      BY <1>0, <2>1, <2>3, <2>4, <3>1
  <2>6. Len(files') < Program
    BY <2>1, <2>4 DEF unit
  <2>7. imps' \in Seq(1 .. Len(files'))
    <3>1. <<>> \in Seq(1 .. Len(files'))
      BY EmptySeq
    <3> QED
      BY <2>1, <3>1
  <2>8. Good(S)' /\ r'.at = "none"
    BY <1>0, <2>1 DEF NoReader
  <2> QED
    BY <1>0, <2>1, <2>4, <2>5, <2>6, <2>7, <2>8 DEF BuildInv
<1>7. CASE Compile
  <2>1. /\ at = "import" /\ at' = "compiled" /\ lim' = lim /\ S' = S /\ files' = files
        /\ imps' = imps /\ src' = src /\ r' = r /\ imps = <<>>
    BY <1>7 DEF Compile, Declared
  <2>2. Good(S)' /\ StatusInv(S)' /\ (r.at = "SK_OK" => CutOk(S, r))'
    BY <1>0, <2>1
  <2> QED
    BY <1>0, <2>1, <2>2 DEF BuildInv
<1>8. CASE UNCHANGED vars
  <2>1. /\ lim' = lim /\ S' = S /\ files' = files /\ at' = at /\ imps' = imps /\ src' = src
        /\ r' = r
    BY <1>8 DEF vars
  <2>2. /\ Good(S)' <=> Good(S) 
        /\ StatusInv(S)' <=> StatusInv(S)
        /\ ReadInv(S, r)' <=> ReadInv(S, r)
        /\ CutOk(S, r)' <=> CutOk(S, r)
    BY <2>1
  <2> QED
    BY <1>0, <2>1, <2>2 DEF BuildInv
<1> QED
  BY <1>1, <1>2, <1>3, <1>4, <1>5, <1>6, <1>7, <1>8 DEF Next

LEMMA BuildInvAlways == Spec => []BuildInv
<1>1. Init => BuildInv
  BY BuildInvInit
<1>2. BuildInv /\ [Next]_vars => BuildInv'
  BY BuildInvNext
<1> QED
  BY <1>1, <1>2, PTL DEF Spec

\* The tables and the string table of every file keep their limits at every step of
\* a build, the scopes' marks stay within the symbols, and the reader within the file.
THEOREM TablesKeepLimits == Spec => []TypeOK
<1>1. BuildInv => TypeOK
  <2> SUFFICES ASSUME BuildInv PROVE TypeOK
    OBVIOUS
  <2>1. /\ Len(S.types) < lim.types /\ Len(S.syms) <= lim.syms
        /\ Len(S.stdef) <= lim.stdef /\ Len(S.tbldef) <= lim.tbldef
        /\ Len(S.scp) <= lim.scopes /\ S.lim = lim
    BY DEF BuildInv, Good, InLimits
  <2>2. \A i \in DOMAIN S.scp : S.scp[i] <= Len(S.syms)
    <3>1. DOMAIN S.scp = 1 .. Len(S.scp)
      BY GoodParts, Nonempty DEF BuildInv
    <3>2. \A i \in 1 .. Len(S.scp) : S.scp[i] <= Len(S.syms)
      BY DEF BuildInv, Good, ScopesNest
    <3> QED
      BY <3>1, <3>2
  <2>3. at = "read" =>
          r.at \in {"stdef", "tbldef", "types", "syms"} /\ r.p <= FileWords(r.file)
          /\ S.scp = <<>>
    BY PlaceInFile DEF BuildInv
  <2>4. \A u \in DOMAIN files : Len(files[u].strs) <= lim.strs
    <3>1. DOMAIN files = 1 .. Len(files)
      BY Nonempty DEF BuildInv
    <3> QED
      BY <3>1 DEF BuildInv, GoodFile
  <2>5. at \in {"idle", "import", "read", "compiled", "stopped"}
    BY DEF BuildInv
  <2> QED
    BY <2>1, <2>2, <2>3, <2>4, <2>5 DEF TypeOK
<1> QED
  BY <1>1, BuildInvAlways, PTL

\* No .cpl file cut short passes as whole, wherever it is cut, but for one that ends
\* in a TABLE without fields, and for what full tables skip (cpl_read).
THEOREM CutsAreNoticed == Spec => []CutNoticed
<1>1. BuildInv => CutNoticed
  BY DEF BuildInv, CutOk, StdefFull, TbldefFull, CutNoticed
<1> QED
  BY <1>1, BuildInvAlways, PTL

\* A status literal gets its type (sema) and its ordinal (lowering) from the same
\* definition, after any imports in any order, as long as no table is full.
THEOREM LiteralsHaveOneDefinition == Spec => []StatusLiterals
<1>1. BuildInv => StatusLiterals
  <2> SUFFICES ASSUME BuildInv, at = "compiled", ~ Full,
                      NEW k \in DOMAIN S.syms, IsKind(S, S.syms[k].type, "status")
               PROVE  LET def == S.types[S.syms[k].type].extra + 1 IN
                        /\ def \in DOMAIN S.stdef
                        /\ \A i \in DOMAIN S.stdef[def] :
                             LET v == S.stdef[def][i]
                                 found == S.types[StatusType(S, v)]
                             IN /\ found.kind = "status"
                                /\ S.stdef[found.extra + 1][StatusOrd(S, v)] = v
                                /\ NumberedAlike(v) => StatusOrd(S, v) = i
    BY Zenon DEF StatusLiterals
  <2> DEFINE t == S.syms[k].type
             def == S.types[t].extra + 1
             N == Len(S.stdef)
  <2>1. Good(S) /\ StatusInv(S) /\ S.lim = lim
    BY DEF BuildInv
  <2>2. /\ N \in Nat /\ S.stdef \in Seq(Seq(Names)) /\ DOMAIN S.stdef = 1 .. N
        /\ \A d \in 1 .. N : S.stdef[d] \in Seq(Names)
        /\ Len(S.types) \in Nat /\ DOMAIN S.types = 1 .. Len(S.types)
        /\ \A j \in 1 .. Len(S.types) : S.types[j] \in TyRec
    BY <2>1, GoodParts, Nonempty
  <2>3. DefsTyped(S) /\ TypesDefined(S)
    BY <2>1 DEF StatusInv, Full, TypesFull, StdefFull
  <2>4. t \in 1 .. Len(S.types) /\ S.types[t].kind = "status"
    BY <2>2 DEF IsKind
  <2> HIDE DEF t
  <2>5. def \in 1 .. N
    <3>1. S.types[t].extra < N
      BY <2>3, <2>4 DEF TypesDefined, DefOfType
    <3>2. S.types[t].extra \in Nat
      BY <2>2, <2>4 DEF TyRec
    <3> QED
      BY <2>2, <3>1, <3>2
  <2> HIDE DEF def
  <2>6. ASSUME NEW i \in DOMAIN S.stdef[def]
        PROVE  LET v == S.stdef[def][i]
                   found == S.types[StatusType(S, v)]
               IN /\ found.kind = "status"
                  /\ S.stdef[found.extra + 1][StatusOrd(S, v)] = v
                  /\ NumberedAlike(v) => StatusOrd(S, v) = i
    <3> DEFINE v == S.stdef[def][i]
               TypesFor(d) == {j \in 1 .. Len(S.types) :
                                 S.types[j].kind = "status" /\ S.types[j].extra = d - 1}
               TypeFor(d) == SelectInSeq(S.types, LAMBDA ty : ty.kind = "status"
                                                              /\ ty.extra = d - 1)
               H == {d \in 1 .. N : v \in ToSet(S.stdef[d])}
               hit == Min(H)
               flags == [d \in DOMAIN S.stdef |-> v \in ToSet(S.stdef[d]) /\ TypeFor(d) # 0]
    <3>1. ASSUME NEW d \in 1 .. N
          PROVE  TypeFor(d) = Min(TypesFor(d)) /\ Min(TypesFor(d)) \in TypesFor(d)
                 /\ TypeFor(d) # 0
      <4>1. PICK j \in 1 .. Len(S.types) : S.types[j].kind = "status" /\ S.types[j].extra + 1 = d
        BY <2>3 DEF DefsTyped, TypeOfDef
      <4>2. S.types[j].extra \in Nat
        BY <2>2 DEF TyRec
      <4>3. S.types[j].extra = d - 1
        BY <4>1, <4>2
      <4>4. j \in TypesFor(d)
        BY <4>1, <4>3
      <4>5. TypesFor(d) \subseteq 1 .. Len(S.types) /\ TypesFor(d) # {}
        BY <4>4
      <4>6. TypeFor(d) = Min(TypesFor(d))
        BY <4>5 DEF SelectInSeq
      <4> HIDE DEF TypesFor, TypeFor
      <4>7. Min(TypesFor(d)) \in TypesFor(d)
        BY <2>2, <4>5, FirstIndex
      <4> QED
        BY <4>5, <4>6, <4>7
    <3>2. flags = [d \in 1 .. N |-> v \in ToSet(S.stdef[d])]
      <4> HIDE DEF TypeFor, v
      <4>1. \A d \in 1 .. N : TypeFor(d) # 0
        BY <3>1
      <4>2. \A d \in 1 .. N :
              (v \in ToSet(S.stdef[d]) /\ TypeFor(d) # 0) = (v \in ToSet(S.stdef[d]))
        BY <4>1
      <4>3. DOMAIN S.stdef = 1 .. N
        BY <2>2
      <4> HIDE DEF N
      <4> QED
        BY <4>2, <4>3, Zenon
    <3>3. Len(flags) = N
      <4>1. flags \in [1 .. N -> BOOLEAN]
        <5> HIDE DEF flags, v, N
        <5> QED
          BY <3>2
      <4> HIDE DEF flags
      <4> QED
        BY <2>2, <4>1, MapTyped
    <3>4. def \in H
      <4>1. v \in ToSet(S.stdef[def])
        BY DEF ToSet
      <4> QED
        BY <2>5, <4>1
    <3>5. hit \in 1 .. N /\ v \in ToSet(S.stdef[hit]) /\ H # {}
      <4>1. H \subseteq 1 .. N /\ H # {}
        BY <3>4
      <4>2. hit \in H
        <5> HIDE DEF H
        <5> QED
          BY <2>2, <4>1, FirstIndex
      <4> QED
        BY <4>1, <4>2
    <3>6. StatusType(S, v) = TypeFor(hit)
      <4> DEFINE sel == SelectInSeq(flags, LAMBDA b : b)
      <4>1. {d \in 1 .. Len(flags) : flags[d]} = H
        <5> HIDE DEF flags, v, N
        <5> QED
          BY <3>2, <3>3
      <4>2. sel = IF {d \in 1 .. Len(flags) : flags[d]} # {}
                  THEN Min({d \in 1 .. Len(flags) : flags[d]}) ELSE 0
        <5> HIDE DEF flags
        <5> QED
          BY Zenon DEF SelectInSeq
      <4>3. sel = hit
        BY <3>5, <4>1, <4>2
      <4>4. StatusType(S, v) = IF sel = 0 THEN jt_err(S).t ELSE TypeFor(sel)
        BY Zenon DEF StatusType
      <4> HIDE DEF sel, TypeFor, H, hit, flags
      <4> QED
        BY <2>2, <3>5, <4>3, <4>4
    <3> DEFINE found == S.types[StatusType(S, v)]
    <3>7. found.kind = "status" /\ found.extra + 1 = hit
      <4>1. StatusType(S, v) \in TypesFor(hit)
        <5> HIDE DEF TypeFor, TypesFor, hit, H, v, flags
        <5> QED
          BY <3>1, <3>5, <3>6
      <4> HIDE DEF hit, v
      <4>2. found.kind = "status" /\ found.extra = hit - 1
        BY <4>1
      <4> QED
        BY <3>5, <4>2
    <3> DEFINE O == {j \in 1 .. Len(S.stdef[hit]) : S.stdef[hit][j] = v}
               o == Min(O)
    <3>8. o \in DOMAIN S.stdef[hit] /\ S.stdef[hit][o] = v /\ O # {}
      <4> HIDE DEF hit, v
      <4>1. /\ S.stdef[hit] \in Seq(Names) /\ Len(S.stdef[hit]) \in Nat
            /\ DOMAIN S.stdef[hit] = 1 .. Len(S.stdef[hit])
        BY <2>2, <3>5, Nonempty
      <4>2. O \subseteq 1 .. Len(S.stdef[hit]) /\ O # {}
        BY <3>5, <4>1 DEF ToSet
      <4>3. o \in O
        <5> HIDE DEF O
        <5> QED
          BY <4>1, <4>2, FirstIndex
      <4> QED
        BY <4>1, <4>2, <4>3
    <3>9. StatusOrd(S, v) = o
      <4> DEFINE first == SelectInSeq(S.stdef, LAMBDA vals : v \in ToSet(vals))
      <4>1. first = hit
        <5> HIDE DEF v
        <5> QED
          BY <3>5 DEF SelectInSeq
      <4>2. StatusOrd(S, v) = IF first = 0 THEN 0
                              ELSE SelectInSeq(S.stdef[first], LAMBDA x : x = v)
        BY Zenon DEF StatusOrd
      <4> HIDE DEF first, hit
      <4>3. hit # 0
        BY <2>2, <3>5
      <4>4. SelectInSeq(S.stdef[hit], LAMBDA x : x = v) = o
        <5> HIDE DEF v
        <5> QED
          BY <3>8 DEF SelectInSeq
      <4> QED
        BY <4>1, <4>2, <4>3, <4>4
    <3>10. NumberedAlike(v) => o = i
      <4>1. i \in DOMAIN S.stdef[def] /\ S.stdef[def][i] = v
        OBVIOUS
      <4> HIDE DEF v, o, hit
      <4> QED
        BY <2>2, <2>5, <3>5, <3>8, <4>1 DEF NumberedAlike
    <3> HIDE DEF v, o, hit, O, H
    <3>11. /\ found.kind = "status"
           /\ S.stdef[found.extra + 1][StatusOrd(S, v)] = v
           /\ NumberedAlike(v) => StatusOrd(S, v) = i
      BY <3>7, <3>8, <3>9, <3>10
    <3> QED
      BY <3>11 DEF v
  <2>7. def \in DOMAIN S.stdef
    BY <2>2, <2>5
  <2> QED
    BY <2>6, <2>7 DEF def, t
<1> QED
  BY <1>1, BuildInvAlways, PTL
=============================================================================
