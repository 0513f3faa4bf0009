------------------------------- MODULE Bytes -------------------------------
(***************************************************************************)
(* Machine words as little-endian sequences of bytes, the only form in     *)
(* which the 64-bit constants of a JIR module, the immediates of its       *)
(* machine code and the values in a register can all be compared.          *)
(***************************************************************************)
EXTENDS Integers, Sequences, SequencesExt

Byte == 0 .. 255
Word64 == [1 .. 8 -> Byte]

\* The w low bytes of the two's complement of n.
LE(n, w) == [k \in 1 .. w |-> (n \div 256 ^ (k - 1)) % 256]

\* The integer n as a 64-bit word.
Sign(byte) == IF byte >= 128 THEN 255 ELSE 0
SExt(b) == [k \in 1 .. 8 |-> IF k <= Len(b) THEN b[k] ELSE Sign(b[Len(b)])]
W64(n) == SExt(LE(n, 4))

\* The signed integer of four bytes, and whether a word is one extended.
Int32(b) ==
  b[1] + 256 * b[2] + 65536 * b[3] + 16777216 * (IF b[4] >= 128 THEN b[4] - 256 ELSE b[4])
Lo32(w) == Int32(SubSeq(w, 1, 4))
Hi32(w) == Int32(SubSeq(w, 5, 8))
Fits32(w) == w = W64(Lo32(w))

\* The signed integer of the n low bits of u.
Signed(u, n) ==
  LET low == u % 2 ^ n IN IF low >= 2 ^ (n - 1) THEN low - 2 ^ n ELSE low

---------------------------------------------------------------------------
\* Arithmetic modulo 2^64.
AddC(a, b, cin) ==
  LET carry[k \in 0 .. 8] == IF k = 0 THEN cin ELSE (a[k] + b[k] + carry[k - 1]) \div 256
  IN [k \in 1 .. 8 |-> (a[k] + b[k] + carry[k - 1]) % 256]
Comp(a) == [k \in 1 .. 8 |-> 255 - a[k]]
Add64(a, b) == AddC(a, b, 0)
Sub64(a, b) == AddC(a, Comp(b), 1)

\* The word moved up by k bytes (down when k is negative).
Shift(a, k) == [j \in 1 .. 8 |-> IF j - k \in 1 .. 8 THEN a[j - k] ELSE 0]

\* a times a byte, and a times b.
Scale(a, d) ==
  LET carry[k \in 0 .. 8] == IF k = 0 THEN 0 ELSE (a[k] * d + carry[k - 1]) \div 256
  IN [k \in 1 .. 8 |-> (a[k] * d + carry[k - 1]) % 256]
Mul64(a, b) ==
  FoldLeft(LAMBDA s, k : Add64(s, Shift(Scale(a, b[k]), k - 1)), W64(0), [k \in 1 .. 8 |-> k])

\* a < b as signed words.
Less64(a, b) ==
  LET flip(w) == [w EXCEPT ![8] = (@ + 128) % 256]
      x == flip(a)
      y == flip(b)
  IN \E k \in 1 .. 8 : x[k] < y[k] /\ \A j \in k + 1 .. 8 : x[j] = y[j]
=============================================================================
