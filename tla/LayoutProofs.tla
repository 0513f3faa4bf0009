--------------------------- MODULE LayoutProofs ---------------------------
(***************************************************************************)
(* Proofs that the fields lay_tabl places do not overlap, lie within the   *)
(* entry and, where they are wide, start on words, whatever the word size, *)
(* the types and the number of fields.                                     *)
(***************************************************************************)
EXTENDS Layout, TLAPS

---------------------------------------------------------------------------
(* The arithmetic of bits, bytes and words.                                *)

\* Bytes rounds up.
LEMMA BytesHold ==
  ASSUME NEW n \in Nat
  PROVE  Bytes(n) \in Nat /\ n <= 8 * Bytes(n)
  BY DEF Bytes

\* A bit position is a byte and a bit of it.
LEMMA BitSplit ==
  ASSUME NEW n \in Nat
  PROVE  n \div 8 \in Nat /\ n % 8 \in 0 .. 7 /\ 8 * (n \div 8) + (n % 8) = n
  OBVIOUS

\* A byte and a bit give a bit position.
LEMMA BitPosition ==
  ASSUME NEW byte \in Nat, NEW bit \in Nat
  PROVE  8 * byte + bit \in Nat
  OBVIOUS

\* A remainder modulo the word size is a bit of a word.
LEMMA BitOfWord ==
  ASSUME NEW n \in Nat, NEW w \in Nat \ {0}
  PROVE  n % w \in 0 .. w
  OBVIOUS

\* The width of a field.
LEMMA WidthIsNat ==
  ASSUME NEW t \in Types
  PROVE  BitWid(t) \in Nat
<1>1. fld_bits(t) \in Nat
  BY LayoutAssumption DEF Kinds, fld_bits
<1> QED
  BY <1>1 DEF BitWid

---------------------------------------------------------------------------
(* The invariant: no field reaches behind the cursor.                      *)

Cursor == 8 * cur_byte + cur_bit
BehindCursor == PosForward => \A k \in Owned : End(k) <= Cursor
LayInv == TypeOK /\ BehindCursor /\ NoOverlap /\ InEntry

\* Put appends one field and leaves the others.
LEMMA PutProperties ==
  ASSUME TypeOK,
         NEW how \in {"plain", "pos", "overlay"}, NEW t \in Types,
         NEW byte \in Nat, NEW bit \in 0 .. 7,
         Put(how, t, byte, bit)
  PROVE  /\ flds' \in Seq(FieldSet)
         /\ DOMAIN flds = 1 .. Len(flds) /\ Len(flds) \in Nat
         /\ DOMAIN flds' = 1 .. (Len(flds) + 1)
         /\ \A k \in DOMAIN flds : flds'[k] = flds[k]
         /\ flds'[Len(flds) + 1] = Field(how, t, byte, bit)
<1>1. Field(how, t, byte, bit) \in FieldSet
  <2>1. BitWid(t) \in Nat
    BY WidthIsNat
  <2> QED
    BY <2>1 DEF Field, FieldSet
<1>2. flds \in Seq(FieldSet) /\ flds' = Append(flds, Field(how, t, byte, bit))
  BY DEF TypeOK, Put
<1> QED
  BY <1>1, <1>2

\* Start and end of a field are numbers.
LEMMA FieldBounds ==
  ASSUME TypeOK, NEW k \in DOMAIN flds
  PROVE  Start(k) \in Nat /\ End(k) \in Nat /\ Start(k) <= End(k)
<1>1. flds[k] \in FieldSet
  BY DEF TypeOK
<1>2. flds[k].byte_off \in Nat /\ flds[k].bit_off \in Nat /\ flds[k].bit_wid \in Nat
  BY <1>1 DEF FieldSet
<1> QED
  BY <1>2 DEF Start, End

\* A new field that does not start before the cursor, unless POS puts it
\* there, and a cursor that does not end up before it keep the invariant.
LEMMA PlaceKeepsInv ==
  ASSUME LayInv,
         NEW how \in {"plain", "pos", "overlay"}, NEW t \in Types,
         NEW byte \in Nat, NEW bit \in 0 .. 7,
         Put(how, t, byte, bit),
         cur_byte' \in Nat, cur_bit' \in 0 .. wordsz,
         how = "plain" => Cursor <= 8 * byte + bit,
         how # "overlay" => 8 * byte + bit + BitWid(t) <= Cursor',
         how # "pos" => Cursor <= Cursor'
  PROVE  LayInv'
<1>t. TypeOK
  BY DEF LayInv
<1>n. PICK n \in Nat : n = Len(flds) + 1
  BY <1>t DEF TypeOK
<1>put. /\ flds' \in Seq(FieldSet)
        /\ DOMAIN flds = 1 .. Len(flds) /\ Len(flds) \in Nat
        /\ DOMAIN flds' = 1 .. n
        /\ \A k \in DOMAIN flds : flds'[k] = flds[k]
        /\ flds'[n] = Field(how, t, byte, bit)
  BY <1>t, <1>n, PutProperties
<1>1. TypeOK'
  BY <1>t, <1>put DEF TypeOK, Put
<1>old. \A k \in DOMAIN flds : Start(k)' = Start(k) /\ End(k)' = End(k)
  BY <1>put DEF Start, End
<1>new. Start(n)' = 8 * byte + bit /\ End(n)' = 8 * byte + bit + BitWid(t)
  BY <1>put DEF Start, End, Field
<1>own. Owned' = IF how = "overlay" THEN Owned ELSE Owned \cup {n}
  <2>1. flds'[n].by = how
    BY <1>put DEF Field
  <2>2. \A k \in 1 .. n : k \in DOMAIN flds \/ k = n
    BY <1>put, <1>n
  <2>3. \A k \in DOMAIN flds : k \in 1 .. n /\ k # n
    BY <1>put, <1>n
  <2>4. ASSUME NEW k
        PROVE  k \in Owned' <=> k \in Owned \/ (k = n /\ how # "overlay")
    <3>1. CASE k = n
      BY <3>1, <1>n, <1>put, <2>1, <2>3 DEF Owned
    <3>2. CASE k \in DOMAIN flds
      BY <3>2, <1>put, <2>3 DEF Owned
    <3>3. CASE k # n /\ k \notin DOMAIN flds
      BY <3>3, <1>put, <2>2 DEF Owned
    <3> QED
      BY <3>1, <3>2, <3>3
  <2> QED
    BY <2>4
<1>dom. /\ Owned \subseteq DOMAIN flds
        /\ \A k \in Owned : k \in Int /\ k < n
  BY <1>put, <1>n DEF Owned
<1>bnd. \A k \in DOMAIN flds : Start(k) \in Nat /\ End(k) \in Nat
  BY <1>t, FieldBounds
<1>cur. Cursor \in Nat /\ Cursor' \in Nat /\ BitWid(t) \in Nat
  <2>1. BitWid(t) \in Nat
    BY WidthIsNat
  <2>2. wordsz \in Nat
    BY <1>t, LayoutAssumption DEF TypeOK
  <2>3. cur_bit \in Nat /\ cur_bit' \in Nat /\ cur_byte \in Nat
    BY <1>t, <2>2 DEF TypeOK
  <2>4. Cursor \in Nat
    BY <2>2, <2>3 DEF Cursor
  <2>5. Cursor' \in Nat
    <3>1. cur_byte' \in Nat
      OBVIOUS
    <3>2. Cursor' = 8 * cur_byte' + cur_bit'
      BY DEF Cursor
    <3>3. 8 * cur_byte' + cur_bit' \in Nat
      BY <2>3, <3>1, BitPosition
    <3> QED
      BY <3>2, <3>3
  <2> QED
    BY <2>1, <2>4, <2>5
<1>fwd. PosForward' => PosForward
  BY <1>put, <1>old, <1>own, <1>dom DEF PosForward
<1>pos. ASSUME PosForward', how # "overlay", NEW j \in Owned
        PROVE  End(j) <= 8 * byte + bit
  <2>1. CASE how = "plain"
    <3>1. End(j) <= Cursor
      BY <1>pos, <1>fwd DEF LayInv, BehindCursor
    <3> QED
      BY <2>1, <3>1, <1>cur, <1>bnd, <1>dom
  <2>2. CASE how = "pos"
    <3>1. flds'[n].by = "pos" /\ n \in Owned' /\ j \in Owned' /\ j < n
      BY <2>2, <1>put, <1>own, <1>dom DEF Field
    <3>2. End(j)' <= Start(n)'
      BY <3>1, <1>pos DEF PosForward
    <3> QED
      BY <3>2, <1>old, <1>new, <1>dom
  <2> QED
    BY <2>1, <2>2, <1>pos
<1>2. BehindCursor'
  <2> SUFFICES ASSUME PosForward', NEW k \in Owned'
               PROVE  End(k)' <= Cursor'
    BY DEF BehindCursor
  <2>1. CASE k = n /\ how # "overlay"
    BY <2>1, <1>new, <1>cur
  <2>2. CASE k \in Owned /\ how # "pos"
    <3>1. End(k) <= Cursor
      BY <2>2, <1>fwd DEF LayInv, BehindCursor
    <3> QED
      BY <2>2, <3>1, <1>old, <1>cur, <1>bnd, <1>dom
  <2>3. CASE k \in Owned /\ how = "pos"
    <3>1. End(k) <= 8 * byte + bit
      BY <2>3, <1>pos
    <3> QED
      BY <2>3, <3>1, <1>old, <1>cur, <1>bnd, <1>dom
  <2> QED
    BY <2>1, <2>2, <2>3, <1>own
<1>3. NoOverlap'
  <2> SUFFICES ASSUME PosForward', NEW j \in Owned', NEW k \in Owned', j < k
               PROVE  End(j)' <= Start(k)'
    BY DEF NoOverlap
  <2>1. CASE k \in Owned
    <3>1. j \in Owned
      BY <2>1, <1>own, <1>dom, <1>put
    <3> QED
      BY <2>1, <3>1, <1>fwd, <1>old, <1>dom DEF LayInv, NoOverlap
  <2>2. CASE k = n /\ how # "overlay"
    <3>1. j \in Owned
      BY <2>2, <1>own, <1>put
    <3> QED
      BY <2>2, <3>1, <1>pos, <1>old, <1>new, <1>dom
  <2> QED
    BY <2>1, <2>2, <1>own
<1>4. InEntry'
  BY DEF InEntry, Put
<1> QED
  BY <1>1, <1>2, <1>3, <1>4 DEF LayInv

---------------------------------------------------------------------------
(* The steps.                                                              *)

\* The numbers of a state.
LEMMA Numbers ==
  ASSUME TypeOK
  PROVE  /\ wordsz \in Nat \ {0} /\ cur_byte \in Nat /\ cur_bit \in Nat
         /\ cur_bit <= wordsz
         /\ Bytes(wordsz) \in Nat /\ wordsz <= 8 * Bytes(wordsz)
<1>1. wordsz \in Nat \ {0}
  BY LayoutAssumption DEF TypeOK
<1> QED
  BY <1>1, BytesHold DEF TypeOK

\* The next word is behind the cursor.
LEMMA NextWordBehind ==
  ASSUME TypeOK
  PROVE  NextWord \in Nat /\ Cursor <= 8 * NextWord
  BY Numbers DEF NextWord, Cursor

\* A new table.
LEMMA InitInv ==
  ASSUME Init
  PROVE  LayInv
<1>1. TypeOK
  <2>1. wordsz \in WordSizes /\ wordsz \in Nat
    BY LayoutAssumption DEF Init
  <2>2. cur_bit \in 0 .. wordsz
    BY <2>1 DEF Init
  <2>3. flds \in Seq(FieldSet)
    BY DEF Init
  <2>4. cur_byte \in Nat /\ total_bytes \in Nat /\ done \in BOOLEAN
    BY DEF Init
  <2> QED
    BY <2>1, <2>2, <2>3, <2>4 DEF TypeOK
<1>2. Owned = {}
  BY DEF Init, Owned
<1> QED
  BY <1>1, <1>2 DEF LayInv, BehindCursor, NoOverlap, InEntry

\* An overlay takes the place of the field before it and leaves the cursor.
LEMMA OverlayStep ==
  ASSUME LayInv, NEW t \in Types, Overlay(t)
  PROVE  LayInv'
<1>t. TypeOK
  BY DEF LayInv
<1>cur. cur_byte' \in Nat /\ cur_bit' \in 0 .. wordsz
  BY <1>t DEF Overlay, TypeOK
<1>1. Cursor' = Cursor /\ Cursor \in Nat
  BY Numbers, <1>t, BitPosition DEF Overlay, Cursor
<1>2. PICK byte \in Nat, bit \in 0 .. 7 : Put("overlay", t, byte, bit)
  <2>1. CASE flds = <<>>
    BY <2>1 DEF Overlay
  <2>2. CASE flds # <<>>
    <3>1. Prev \in FieldSet
      BY <1>t, <2>2 DEF TypeOK, Prev
    <3>2. Prev.byte_off \in Nat /\ Prev.bit_off \in 0 .. 7
      BY <3>1 DEF FieldSet
    <3> QED
      BY <2>2, <3>2 DEF Overlay
  <2> QED
    BY <2>1, <2>2
<1> QED
  BY <1>cur, <1>1, <1>2, PlaceKeepsInv

\* POS places the field and the cursor.
LEMMA PosStep ==
  ASSUME LayInv, NEW t \in Types, NEW p \in Positions, Pos(t, p)
  PROVE  LayInv'
<1>t. TypeOK
  BY DEF LayInv
<1>p. p \in Nat
  BY LayoutAssumption
<1>w. BitWid(t) \in Nat
  BY WidthIsNat
<1>e. PICK e \in Nat : e = p + BitWid(t)
  BY <1>p, <1>w
<1>1. /\ Put("pos", t, p \div 8, p % 8)
      /\ cur_byte' = Bytes(e) /\ cur_bit' = e % wordsz
  BY <1>e DEF Pos
<1>2. p \div 8 \in Nat /\ p % 8 \in 0 .. 7 /\ 8 * (p \div 8) + (p % 8) = p
  BY <1>p, BitSplit
<1>3. cur_byte' \in Nat /\ e <= 8 * cur_byte'
  BY <1>1, BytesHold
<1>4. cur_bit' \in 0 .. wordsz /\ cur_bit' \in Nat
  BY <1>t, <1>1, Numbers, BitOfWord
<1>5. 8 * (p \div 8) + (p % 8) + BitWid(t) <= Cursor'
  BY <1>e, <1>2, <1>3, <1>4 DEF Cursor
<1> QED
  BY <1>1, <1>2, <1>3, <1>4, <1>5, PlaceKeepsInv

\* A field of a word or more goes to the next word.
LEMMA WideStep ==
  ASSUME LayInv, NEW t \in Types, Wide(t)
  PROVE  LayInv'
<1>t. TypeOK
  BY DEF LayInv
<1>w. BitWid(t) \in Nat
  BY WidthIsNat
<1>1. NextWord \in Nat /\ Cursor <= 8 * NextWord /\ Cursor \in Nat
  BY <1>t, NextWordBehind, Numbers, BitPosition DEF Cursor
<1>2. Bytes(BitWid(t)) \in Nat /\ BitWid(t) <= 8 * Bytes(BitWid(t))
  BY <1>w, BytesHold
<1>3. cur_byte' = NextWord + Bytes(BitWid(t)) /\ cur_bit' = 0
  BY DEF Wide
<1>4. cur_byte' \in Nat /\ cur_bit' \in 0 .. wordsz
  BY <1>t, <1>1, <1>2, <1>3, Numbers
<1>5. 8 * NextWord + 0 + BitWid(t) <= Cursor' /\ Cursor <= Cursor'
  BY <1>w, <1>1, <1>2, <1>3 DEF Cursor
<1>6. Put("plain", t, NextWord, 0)
  BY DEF Wide
<1> QED
  BY <1>1, <1>4, <1>5, <1>6, PlaceKeepsInv

\* A smaller one goes to the cursor, or to the next word.
LEMMA SmallStep ==
  ASSUME LayInv, NEW t \in Types, Small(t)
  PROVE  LayInv'
<1>t. TypeOK
  BY DEF LayInv
<1>w. BitWid(t) \in Nat /\ BitWid(t) < wordsz
  BY WidthIsNat DEF Small
<1>num. /\ wordsz \in Nat /\ cur_byte \in Nat /\ cur_bit \in Nat /\ cur_bit <= wordsz
        /\ Bytes(wordsz) \in Nat /\ wordsz <= 8 * Bytes(wordsz)
  BY <1>t, Numbers
<1>1. PICK byte \in Nat, bit \in Nat :
        /\ Put("plain", t, byte + bit \div 8, bit % 8)
        /\ cur_byte' = byte /\ cur_bit' = bit + BitWid(t)
        /\ bit + BitWid(t) <= wordsz
        /\ Cursor <= 8 * byte + bit
  <2>1. CASE cur_bit + BitWid(t) <= wordsz
    BY <2>1, <1>num, SMTT(30) DEF Small, Cursor
  <2>2. CASE ~ (cur_bit + BitWid(t) <= wordsz)
    <3>1. cur_byte + Bytes(wordsz) \in Nat /\ 0 + BitWid(t) <= wordsz
      BY <1>num, <1>w
    <3>2. Cursor <= 8 * (cur_byte + Bytes(wordsz)) + 0
      BY <1>num DEF Cursor
    <3> QED
      BY <2>2, <3>1, <3>2 DEF Small
  <2> QED
    BY <2>1, <2>2
<1>2. bit \div 8 \in Nat /\ bit % 8 \in 0 .. 7 /\ 8 * (bit \div 8) + (bit % 8) = bit
  BY <1>1, BitSplit
<1>3. PICK off \in Nat : off = byte + bit \div 8
  BY <1>1, <1>2
<1>4. 8 * off + (bit % 8) = 8 * byte + bit
  BY <1>1, <1>2, <1>3
<1>5. cur_byte' \in Nat /\ cur_bit' \in 0 .. wordsz
  BY <1>1, <1>w, <1>num
<1>6. Cursor \in Nat /\ Cursor' = 8 * byte + bit + BitWid(t)
  BY <1>1, <1>w, <1>num DEF Cursor
<1>7. /\ Cursor <= 8 * off + (bit % 8)
      /\ 8 * off + (bit % 8) + BitWid(t) <= Cursor'
      /\ Cursor <= Cursor'
  BY <1>1, <1>4, <1>6, <1>w
<1>8. Put("plain", t, off, bit % 8)
  BY <1>1, <1>3
<1> QED
  BY <1>2, <1>5, <1>7, <1>8, PlaceKeepsInv

\* The entry ends at the next word.
LEMMA FinishStep ==
  ASSUME LayInv, Finish
  PROVE  LayInv'
<1>t. TypeOK
  BY DEF LayInv
<1>1. NextWord \in Nat /\ Cursor <= 8 * NextWord /\ Cursor \in Nat
  BY <1>t, NextWordBehind, Numbers, BitPosition DEF Cursor
<1>2. TypeOK'
  BY <1>t, <1>1 DEF TypeOK, Finish
<1>3. /\ Owned' = Owned /\ PosForward' = PosForward /\ Cursor' = Cursor
      /\ \A k \in Owned : Start(k)' = Start(k) /\ End(k)' = End(k)
  BY DEF Finish, Owned, PosForward, Cursor, Start, End
<1>4. BehindCursor' /\ NoOverlap'
  BY <1>3 DEF LayInv, BehindCursor, NoOverlap
<1>5. InEntry'
  <2> SUFFICES ASSUME PosForward, NEW k \in Owned
               PROVE  End(k) <= 8 * NextWord
    BY <1>3 DEF InEntry, Finish
  <2>1. End(k) <= Cursor
    BY DEF LayInv, BehindCursor
  <2>2. End(k) \in Nat
    BY <1>t, FieldBounds DEF Owned
  <2> QED
    BY <1>1, <2>1, <2>2
<1> QED
  BY <1>2, <1>4, <1>5 DEF LayInv

---------------------------------------------------------------------------
(* The theorems.                                                           *)

\* What lay_tabl keeps true from field to field.
THEOREM LayInvInvariant == Spec => []LayInv
<1>1. Init => LayInv
  BY InitInv
<1>2. LayInv /\ [Next]_vars => LayInv'
  <2> SUFFICES ASSUME LayInv, [Next]_vars
               PROVE  LayInv'
    OBVIOUS
  <2>1. ASSUME NEW t \in Types, Overlay(t)
        PROVE  LayInv'
    BY <2>1, OverlayStep
  <2>2. ASSUME NEW t \in Types, NEW p \in Positions, Pos(t, p)
        PROVE  LayInv'
    BY <2>2, PosStep
  <2>3. ASSUME NEW t \in Types, Wide(t)
        PROVE  LayInv'
    BY <2>3, WideStep
  <2>4. ASSUME NEW t \in Types, Small(t)
        PROVE  LayInv'
    BY <2>4, SmallStep
  <2>5. CASE Finish
    BY <2>5, FinishStep
  <2>6. CASE UNCHANGED vars
    BY <2>6 DEF vars, LayInv, TypeOK, BehindCursor, NoOverlap, InEntry, PosForward,
                Owned, Cursor, Start, End
  <2> QED
    BY <2>1, <2>2, <2>3, <2>4, <2>5, <2>6 DEF Next
<1> QED
  BY <1>1, <1>2, PTL DEF Spec

\* The cursor stays within a word and offsets within a byte.
THEOREM TypeCorrect == Spec => []TypeOK
<1>1. LayInv => TypeOK
  BY DEF LayInv
<1> QED
  BY <1>1, LayInvInvariant, PTL

\* Fields that overlay no other do not overlap, as long as no POS goes back:
\* for every word size, also one that is no number of bytes.
THEOREM FieldsApart == Spec => []NoOverlap
<1>1. LayInv => NoOverlap
  BY DEF LayInv
<1> QED
  BY <1>1, LayInvInvariant, PTL

\* They lie within the entry.
THEOREM FieldsInEntry == Spec => []InEntry
<1>1. LayInv => InEntry
  BY DEF LayInv
<1> QED
  BY <1>1, LayInvInvariant, PTL

---------------------------------------------------------------------------
(* Word alignment.                                                         *)

\* The multiples of m: the remainder is 0 just for products with m.
LEMMA Multiple ==
  ASSUME NEW m \in Nat \ {0}, NEW q \in Nat
  PROVE  (m * q) % m = 0
<1> DEFINE d == (m * q) \div m
           e == (m * q) % m
<1>1. m * q \in Nat
  OBVIOUS
<1>2. d \in Int /\ e \in 0 .. (m - 1) /\ m * q = m * d + e
  BY <1>1
<1> HIDE DEF d, e
<1>3. PICK k \in Int : k = q - d
  BY <1>2
<1>4. e = m * k
  BY <1>2, <1>3
<1>5. CASE k = 0
  BY <1>4, <1>5 DEF e
<1>6. CASE k >= 1
  <2>1. m * k >= m
    BY <1>6
  <2> QED
    BY <1>2, <1>4, <2>1
<1>7. CASE k <= -1
  <2>1. m * k <= -m
    BY <1>7
  <2> QED
    BY <1>2, <1>4, <2>1
<1> QED
  BY <1>3, <1>5, <1>6, <1>7

\* A number without remainder is a product.
LEMMA Quotient ==
  ASSUME NEW m \in Nat \ {0}, NEW a \in Nat, a % m = 0
  PROVE  \E q \in Nat : a = m * q
<1>1. PICK d \in Nat : d = a \div m
  OBVIOUS
<1>2. a = m * (a \div m) + (a % m)
  OBVIOUS
<1>3. a = m * d
  BY <1>1, <1>2
<1> QED
  BY <1>3

\* The sum of two multiples is a multiple.
LEMMA SumOfMultiples ==
  ASSUME NEW m \in Nat \ {0}, NEW a \in Nat, NEW b \in Nat, a % m = 0, b % m = 0
  PROVE  (a + b) % m = 0
<1>1. PICK q \in Nat : a = m * q
  BY Quotient
<1>2. PICK r \in Nat : b = m * r
  BY Quotient
<1>3. PICK s \in Nat : s = q + r
  OBVIOUS
<1>4. a + b = m * s
  BY <1>1, <1>2, <1>3
<1> QED
  BY <1>4, Multiple

\* The tables WordAligned speaks of, and what makes it inductive: the cursor
\* is on a word.
WholeFields ==
  \A k \in Owned :
    /\ flds[k].by = "plain"
    /\ flds[k].bit_wid >= wordsz => WholeWords(Bytes(flds[k].bit_wid))
OnWords ==
  WholeFields =>
    /\ WholeWords(cur_byte)
    /\ \A k \in Owned : flds[k].bit_wid >= wordsz => WholeWords(flds[k].byte_off)
    /\ done => WholeWords(total_bytes)

\* A word has bytes, and is a number of words.
LEMMA WordBytes ==
  ASSUME TypeOK
  PROVE  Bytes(wordsz) \in Nat \ {0} /\ WholeWords(Bytes(wordsz)) /\ WholeWords(0)
<1>1. wordsz \in Nat \ {0}
  BY Numbers
<1>2. PICK m \in Nat \ {0} : m = Bytes(wordsz)
  BY <1>1 DEF Bytes
<1>3. m * 1 = m /\ m * 0 = 0
  OBVIOUS
<1>4. m % m = 0 /\ 0 % m = 0
  BY <1>3, Multiple
<1> QED
  BY <1>2, <1>4 DEF WholeWords

\* A table with one field more is such a table only if it was one before and
\* the new field keeps to the rules.
LEMMA FieldsBefore ==
  ASSUME TypeOK,
         NEW how \in {"plain", "pos", "overlay"}, NEW t \in Types,
         NEW byte \in Nat, NEW bit \in 0 .. 7,
         Put(how, t, byte, bit), WholeFields'
  PROVE  /\ WholeFields /\ how # "pos"
         /\ how = "plain" /\ BitWid(t) >= wordsz => WholeWords(Bytes(BitWid(t)))
<1> DEFINE n == Len(flds) + 1
<1>1. /\ DOMAIN flds = 1 .. Len(flds) /\ Len(flds) \in Nat
      /\ DOMAIN flds' = 1 .. (Len(flds) + 1)
      /\ \A k \in DOMAIN flds : flds'[k] = flds[k]
      /\ flds'[n] = Field(how, t, byte, bit)
      /\ wordsz' = wordsz
  BY PutProperties DEF Put
<1>2. /\ flds'[n].by = how /\ flds'[n].bit_wid = BitWid(t)
      /\ n \in DOMAIN flds' /\ DOMAIN flds \subseteq DOMAIN flds'
  BY <1>1 DEF Field
<1> HIDE DEF n
<1>3. \A k \in DOMAIN flds' : flds'[k].by # "overlay" =>
        /\ flds'[k].by = "plain"
        /\ flds'[k].bit_wid >= wordsz => WholeWords(Bytes(flds'[k].bit_wid))
  BY <1>1 DEF WholeFields, Owned, WholeWords
<1> QED
  BY <1>1, <1>2, <1>3 DEF WholeFields, Owned

\* A field placed on a word, if it is a wide one, and a cursor on a word keep
\* everything on words.
LEMMA PlaceOnWords ==
  ASSUME TypeOK, OnWords,
         NEW how \in {"plain", "pos", "overlay"}, NEW t \in Types,
         NEW byte \in Nat, NEW bit \in 0 .. 7,
         Put(how, t, byte, bit), WholeFields',
         WholeWords(cur_byte)',
         how = "plain" /\ BitWid(t) >= wordsz => WholeWords(byte)
  PROVE  OnWords'
<1> DEFINE n == Len(flds) + 1
<1>1. WholeFields /\ how # "pos"
  BY FieldsBefore
<1>2. /\ DOMAIN flds = 1 .. Len(flds) /\ Len(flds) \in Nat
      /\ DOMAIN flds' = 1 .. (Len(flds) + 1)
      /\ \A k \in DOMAIN flds : flds'[k] = flds[k]
      /\ flds'[n] = Field(how, t, byte, bit)
      /\ wordsz' = wordsz /\ done' = FALSE
  BY PutProperties DEF Put
<1>3. /\ flds'[n].by = how /\ flds'[n].bit_wid = BitWid(t) /\ flds'[n].byte_off = byte
      /\ \A k \in DOMAIN flds' : k = n \/ k \in DOMAIN flds
  BY <1>2 DEF Field
<1> HIDE DEF n
<1>4. \A k \in DOMAIN flds' : flds'[k].by # "overlay" =>
        (flds'[k].bit_wid >= wordsz => WholeWords(flds'[k].byte_off))
  BY <1>1, <1>2, <1>3 DEF OnWords, Owned
<1> QED
  BY <1>2, <1>4 DEF OnWords, Owned, WholeWords

\* The start of the next word is on a word.
LEMMA NextWordOnWord ==
  ASSUME TypeOK, WholeWords(cur_byte)
  PROVE  NextWord \in Nat /\ WholeWords(NextWord) /\ WholeWords(cur_byte + Bytes(wordsz))
<1>1. WholeWords(cur_byte + Bytes(wordsz))
  BY WordBytes, SumOfMultiples DEF WholeWords, TypeOK
<1> QED
  BY <1>1, NextWordBehind DEF NextWord

LEMMA WordStep == TypeOK /\ OnWords /\ [Next]_vars => OnWords'
<1> SUFFICES ASSUME TypeOK, OnWords, [Next]_vars, WholeFields' PROVE OnWords'
  BY DEF OnWords
<1>1. ASSUME NEW t \in Types, Overlay(t) PROVE OnWords'
  <2>1. PICK byte \in Nat, bit \in 0 .. 7 : Put("overlay", t, byte, bit)
    <3>1. flds # <<>> => Prev \in FieldSet
      BY DEF TypeOK, Prev
    <3> QED
      BY <1>1, <3>1 DEF Overlay, FieldSet
  <2>2. WholeFields
    BY <2>1, FieldsBefore
  <2>3. WholeWords(cur_byte)'
    BY <1>1, <2>1, <2>2 DEF Overlay, Put, OnWords, WholeWords
  <2> QED
    BY <2>1, <2>3, PlaceOnWords
<1>2. ASSUME NEW t \in Types, NEW p \in Positions, Pos(t, p) PROVE OnWords'
  <2>1. p \div 8 \in Nat /\ p % 8 \in 0 .. 7
    BY LayoutAssumption, BitSplit
  <2>2. Put("pos", t, p \div 8, p % 8)
    BY <1>2 DEF Pos
  <2> QED
    BY <2>1, <2>2, FieldsBefore
<1>3. ASSUME NEW t \in Types, Wide(t) PROVE OnWords'
  <2>1. /\ Put("plain", t, NextWord, 0) /\ BitWid(t) >= wordsz
        /\ cur_byte' = NextWord + Bytes(BitWid(t))
    BY <1>3 DEF Wide
  <2>2. NextWord \in Nat
    BY NextWordBehind
  <2>3. WholeFields /\ WholeWords(Bytes(BitWid(t)))
    BY <2>1, <2>2, FieldsBefore
  <2>4. WholeWords(NextWord)
    BY <2>3, NextWordOnWord DEF OnWords
  <2>5. WholeWords(NextWord + Bytes(BitWid(t)))
    BY <2>2, <2>3, <2>4, WordBytes, WidthIsNat, BytesHold, SumOfMultiples DEF WholeWords
  <2>6. WholeWords(cur_byte)'
    BY <2>1, <2>5 DEF Put, WholeWords
  <2> QED
    BY <2>1, <2>2, <2>4, <2>6, PlaceOnWords
<1>4. ASSUME NEW t \in Types, Small(t) PROVE OnWords'
  <2>1. PICK byte \in {cur_byte, cur_byte + Bytes(wordsz)}, bit \in Nat :
          /\ Put("plain", t, byte + bit \div 8, bit % 8)
          /\ cur_byte' = byte /\ BitWid(t) < wordsz
    BY <1>4, Numbers DEF Small
  <2>2. byte + bit \div 8 \in Nat /\ bit % 8 \in 0 .. 7
    BY <2>1, Numbers, BitSplit
  <2>3. WholeFields
    BY <2>1, <2>2, FieldsBefore
  <2>4. WholeWords(byte)
    BY <2>1, <2>3, NextWordOnWord DEF OnWords
  <2>5. WholeWords(cur_byte)'
    BY <2>1, <2>4 DEF Put, WholeWords
  <2>6. ~ (BitWid(t) >= wordsz)
    BY <2>1, Numbers, WidthIsNat
  <2> QED
    BY <2>1, <2>2, <2>5, <2>6, PlaceOnWords
<1>5. CASE Finish
  <2>1. /\ wordsz' = wordsz /\ flds' = flds /\ cur_byte' = cur_byte
        /\ total_bytes' = NextWord
    BY <1>5 DEF Finish
  <2>2. WholeFields
    BY <2>1 DEF WholeFields, Owned, WholeWords
  <2>3. WholeWords(NextWord)
    BY <2>2, NextWordOnWord DEF OnWords
  <2> QED
    BY <2>1, <2>2, <2>3 DEF OnWords, Owned, WholeWords
<1>6. CASE UNCHANGED vars
  BY <1>6 DEF vars, OnWords, WholeFields, Owned, WholeWords
<1> QED
  BY <1>1, <1>2, <1>3, <1>4, <1>5, <1>6 DEF Next

\* "items >= wordsize get word-aligned", whatever the word size, in tables
\* without POS whose wide fields fill whole words; their entries are a number
\* of words.
THEOREM ItemsOnWords == Spec => []WordAligned
<1>1. Init => OnWords
  <2> SUFFICES ASSUME Init PROVE OnWords
    OBVIOUS
  <2>1. TypeOK
    BY InitInv DEF LayInv
  <2>2. Owned = {} /\ cur_byte = 0 /\ total_bytes = 0
    BY DEF Init, Owned
  <2> QED
    BY <2>1, <2>2, WordBytes DEF OnWords
<1>2. TypeOK /\ OnWords /\ [Next]_vars => OnWords'
  BY WordStep
<1>3. OnWords => WordAligned
  BY DEF OnWords, WholeFields, WordAligned
<1> QED
  BY <1>1, <1>2, <1>3, TypeCorrect, PTL DEF Spec
=============================================================================
