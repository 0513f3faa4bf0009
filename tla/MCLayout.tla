----------------------------- MODULE MCLayout -----------------------------
(* Tables of up to four fields: smaller than a word, a word, several words, *)
(* and characters that do not fill a word.                                  *)
EXTENDS Layout

Bits(n) == [kind |-> "bits", width |-> n]
Chars(n) == [kind |-> "chars", width |-> n]
MCTypes == {Bits(1), Bits(11), Bits(16), Bits(32), Chars(3)}
=============================================================================
