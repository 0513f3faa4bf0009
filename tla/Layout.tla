------------------------------ MODULE Layout ------------------------------
(***************************************************************************)
(* lay_tabl of src/fe/layout.c: the place of every field in an entry of a  *)
(* TABLE.  One action lays out one field; which field comes next is free,  *)
(* so that the behaviours are the layouts of all tables whose fields are   *)
(* of Types and, with POS, at Positions, and that sema accepts.            *)
(***************************************************************************)
EXTENDS Integers, Sequences

CONSTANTS
  WordSizes, \* 16, or what WORDSIZE says
  Types,     \* the types of the fields: a kind and a width
  Positions, \* the bit positions POS gives
  MaxFlds    \* LY_MAX_FLDS

\* The width of a character type counts characters, every other counts bits.
Kinds == {"bits", "chars"}

ASSUME LayoutAssumption ==
  /\ WordSizes \subseteq Nat \ {0}
  /\ Types \subseteq [kind : Kinds, width : Nat]
  /\ Positions \subseteq Nat
  /\ MaxFlds \in Nat

VARIABLES
  wordsz,      \* L->wordsz
  flds,        \* L->flds with the flag (by) and the type of each field
  cur_byte,    \* the cursor: a byte of the entry ...
  cur_bit,     \* ... and a bit of the word that starts there
  total_bytes, \* L->total_bytes
  done         \* lay_tabl has returned

vars == <<wordsz, flds, cur_byte, cur_bit, total_bytes, done>>

Bytes(bits) == (bits + 7) \div 8
\* The bits of a type; lf->bit_wid keeps 16 bits of the number.
fld_bits(t) == IF t.kind = "chars" THEN t.width * 8 ELSE t.width
BitWid(t) == fld_bits(t) % 65536

Init ==
  /\ wordsz \in WordSizes
  /\ flds = <<>>
  /\ cur_byte = 0 /\ cur_bit = 0
  /\ total_bytes = 0
  /\ done = FALSE

Field(how, t, byte, bit) ==
  [by |-> how, type |-> t, byte_off |-> byte, bit_off |-> bit, bit_wid |-> BitWid(t)]
Put(how, t, byte, bit) ==
  /\ ~ done
  /\ Len(flds) < MaxFlds
  /\ flds' = Append(flds, Field(how, t, byte, bit))
  /\ UNCHANGED <<wordsz, total_bytes, done>>
Prev == flds[Len(flds)]

\* col_table of sema.c refuses an overlay of greater width, as its type counts.
Overlay(t) ==
  /\ IF flds = <<>> THEN Put("overlay", t, 0, 0)
     ELSE t.width <= Prev.type.width /\ Put("overlay", t, Prev.byte_off, Prev.bit_off)
  /\ UNCHANGED <<cur_byte, cur_bit>>

\* (Mutant: the bit is not taken from the word.)
PosWhole(t, bpos) ==
  LET end_bit == bpos + BitWid(t) IN
    /\ Put("pos", t, bpos \div 8, bpos % 8)
    /\ cur_byte' = Bytes(end_bit)
    /\ cur_bit' = end_bit
Pos(t, bpos) ==
  LET end_bit == bpos + BitWid(t) IN
    /\ Put("pos", t, bpos \div 8, bpos % 8)
    /\ cur_byte' = Bytes(end_bit)
    /\ cur_bit' = end_bit % wordsz

\* (Mutants: the next byte only; the started word goes on.)
NextByte == cur_byte + Bytes(cur_bit)
NextWordNot == cur_byte
\* A field of a word or more starts on a word of its own.
NextWord == IF cur_bit # 0 THEN cur_byte + Bytes(wordsz) ELSE cur_byte
Wide(t) ==
  /\ BitWid(t) >= wordsz
  /\ Put("plain", t, NextWord, 0)
  /\ cur_byte' = NextWord + Bytes(BitWid(t))
  /\ cur_bit' = 0

\* A smaller field goes into the current word, or the next if it does not fit.
Small(t) ==
  LET fits == cur_bit + BitWid(t) <= wordsz
      byte == IF fits THEN cur_byte ELSE cur_byte + Bytes(wordsz)
      bit == IF fits THEN cur_bit ELSE 0
  IN /\ BitWid(t) < wordsz
     /\ Put("plain", t, byte + bit \div 8, bit % 8)
     /\ cur_byte' = byte
     /\ cur_bit' = bit + BitWid(t)

\* (Mutant: the started word is not counted.)
FinishShort ==
  /\ ~ done
  /\ done' = TRUE
  /\ total_bytes' = cur_byte
  /\ UNCHANGED <<wordsz, flds, cur_byte, cur_bit>>
Finish ==
  /\ ~ done
  /\ done' = TRUE
  /\ total_bytes' = NextWord
  /\ UNCHANGED <<wordsz, flds, cur_byte, cur_bit>>

Next ==
  \/ \E t \in Types : Overlay(t) \/ Wide(t) \/ Small(t)
  \/ \E t \in Types, p \in Positions : Pos(t, p)
  \/ Finish
Spec == Init /\ [][Next]_vars

---------------------------------------------------------------------------
(* Properties.                                                             *)

FieldSet ==
  [by : {"plain", "pos", "overlay"}, type : Types,
   byte_off : Nat, bit_off : 0 .. 7, bit_wid : Nat]

\* The cursor stays within a word, and offsets within a byte.
TypeOK ==
  /\ wordsz \in WordSizes
  /\ flds \in Seq(FieldSet)
  /\ cur_byte \in Nat
  /\ cur_bit \in 0 .. wordsz
  /\ total_bytes \in Nat
  /\ done \in BOOLEAN

Start(k) == 8 * flds[k].byte_off + flds[k].bit_off
End(k) == Start(k) + flds[k].bit_wid
Owned == {k \in DOMAIN flds : flds[k].by # "overlay"}
\* Every POS is behind the fields before it.
PosForward ==
  \A k \in Owned : flds[k].by = "pos" => \A j \in Owned : j < k => End(j) <= Start(k)

\* Fields that overlay no other do not overlap, however word alignment,
\* packing and POS alternate, as long as no POS goes back.
NoOverlap ==
  PosForward => \A j, k \in Owned : j < k => End(j) <= Start(k)

\* They lie within the bytes of the entry.
InEntry ==
  done /\ PosForward => \A k \in Owned : End(k) <= 8 * total_bytes

\* "items >= wordsize get word-aligned": they are, and the entry is a number of
\* words, in a table without POS whose wide fields fill whole words.
WholeWords(n) == n % Bytes(wordsz) = 0
WordAligned ==
  (\A k \in Owned :
     /\ flds[k].by = "plain"
     /\ flds[k].bit_wid >= wordsz => WholeWords(Bytes(flds[k].bit_wid)))
  => /\ \A k \in Owned : flds[k].bit_wid >= wordsz => WholeWords(flds[k].byte_off)
     /\ done => WholeWords(total_bytes)

\* "OVERLAY width check: overlay must not exceed overlaid".
OverlayInside ==
  \A k \in DOMAIN flds :
    flds[k].by = "overlay" /\ k - 1 \in Owned => End(k) <= End(k - 1)
=============================================================================
