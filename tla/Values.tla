------------------------------ MODULE Values ------------------------------
(***************************************************************************)
(* The values a compiled program computes with: 64-bit words, addresses on *)
(* its stack, and terms over its inputs for what depends on them.  The     *)
(* instructions of JIR and of both machines share these operations, so two *)
(* runs agree on a value exactly when they apply the same operation to the *)
(* same operands.  Floats are neither NaN nor told apart by a zero's sign. *)
(***************************************************************************)
EXTENDS Bytes

Num(n) == <<"num", W64(n)>>
Word(w) == <<"num", w>>
Stk(off) == <<"stk", off>>
Junk == <<"junk">>
IsNum(v) == v[1] = "num"
Zero == Num(0)
One == Num(1)
Flag(b) == IF b THEN One ELSE Zero

Opposite == [lt |-> "ge", ge |-> "lt", eq |-> "ne", ne |-> "eq", feq |-> "fne", fne |-> "feq"]
Not(c) ==
  CASE c = Zero -> One
    [] c = One -> Zero
    [] c[1] \in DOMAIN Opposite -> <<Opposite[c[1]], c[2], c[3]>>
    [] OTHER -> <<"XOR", c, One>>

Add(a, b) ==
  CASE IsNum(a) /\ IsNum(b) -> Word(Add64(a[2], b[2]))
    [] a[1] = "stk" /\ IsNum(b) -> Stk(a[2] + Lo32(b[2]))
    [] b = Zero -> a
    [] OTHER -> <<"ADD", a, b>>
Sub(a, b) ==
  CASE IsNum(a) /\ IsNum(b) -> Word(Sub64(a[2], b[2]))
    [] a[1] = "stk" /\ IsNum(b) -> Stk(a[2] - Lo32(b[2]))
    [] b = Zero -> a
    [] OTHER -> <<"SUB", a, b>>

\* The operations of two operands; shifts by 32 are those constants need.
Alu(op, a, b) ==
  CASE op = "ADD" -> Add(a, b)
    [] op = "SUB" -> Sub(a, b)
    [] op = "MUL" /\ IsNum(a) /\ IsNum(b) -> Word(Mul64(a[2], b[2]))
    [] op = "SHL" /\ IsNum(a) /\ b = Num(32) -> Word(Shift(a[2], 4))
    [] op = "SHR" /\ IsNum(a) /\ b = Num(32) -> Word(Shift(a[2], -4))
    [] op = "XOR" /\ b = One -> Not(a)
    [] op = "FSUB" /\ a = Zero -> <<"FNEG", b>>
    [] OTHER -> <<op, a, b>>

IsZero(v) ==
  CASE IsNum(v) -> Flag(v = Zero)
    [] v[1] = "SUB" -> <<"eq", v[2], v[3]>>
    [] OTHER -> <<"eq", v, Zero>>
Less(a, b) == IF IsNum(a) /\ IsNum(b) THEN Flag(Less64(a[2], b[2])) ELSE <<"lt", a, b>>

\* Comparisons, of integers and of floats.
Compare(pred, a, b) ==
  CASE pred = "EQ" -> IsZero(Sub(a, b))
    [] pred = "NE" -> Not(IsZero(Sub(a, b)))
    [] pred = "LT" -> Less(a, b)
    [] pred = "GE" -> Not(Less(a, b))
    [] pred = "GT" -> Less(b, a)
    [] pred = "LE" -> Not(Less(b, a))
FCompare(pred, a, b) ==
  CASE pred = "EQ" -> <<"feq", a, b>>
    [] pred = "NE" -> <<"fne", a, b>>
    [] pred = "LT" -> <<"flt", a, b>>
    [] pred = "LE" -> <<"fle", a, b>>
    [] pred = "GT" -> <<"flt", b, a>>
    [] pred = "GE" -> <<"fle", b, a>>

\* Memory: words at multiples of eight; what was never written is junk.
Read(mem, a) == IF a[1] = "stk" /\ a[2] \in DOMAIN mem THEN mem[a[2]] ELSE Junk
Writable(a) == a[1] = "stk" /\ a[2] % 8 = 0
Above(mem, off) == [o \in {x \in DOMAIN mem : x >= off} |-> mem[o]]

\* The result of a function outside the module.
Result(xfn, args) == <<"call", xfn, args>>
=============================================================================
