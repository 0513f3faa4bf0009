---------------------------- MODULE X86Machine ----------------------------
(***************************************************************************)
(* The part of an x86-64 processor, and of the Win64 convention, that the  *)
(* code of x86_emit.c relies on: instructions are decoded from the bytes,  *)
(* and a function outside the module may use every register and stack word *)
(* the convention gives it.  The stack is aligned to 16 at offset 8, the   *)
(* caller's return address lies at offset 0.                               *)
(***************************************************************************)
EXTENDS Values, TLC

\* pc, registers, memory, what was compared last, how the run stands.
X86Start(entry, args) ==
  [pc |-> entry, st |-> "run", aligned |-> TRUE, flags |-> <<"none">>,
   gpr |-> [r \in 0 .. 15 |->
              CASE r = 4 -> Stk(0)
                [] r = 1 -> args[1] [] r = 2 -> args[2] [] r = 8 -> args[3] [] r = 9 -> args[4]
                [] OTHER -> <<"init", r>>],
   fpr |-> [r \in 0 .. 15 |-> <<"finit", r>>],
   mem |-> 0 :> <<"caller">>]

\* The fields of the instruction at m.pc.
X86Decode(code, pc) ==
  LET at(k) == IF pc + k <= Len(code) THEN code[pc + k] ELSE 0
      pfx == IF at(1) \in {242, 102} THEN at(1) ELSE 0
      p == IF pfx = 0 THEN 1 ELSE 2
      rex == IF at(p) \in 64 .. 79 THEN at(p) ELSE 64
      q == IF at(p) \in 64 .. 79 THEN p + 1 ELSE p
      o == IF at(q) = 15 THEN q + 1 ELSE q
      modrm == at(o + 1)
  IN [pfx |-> pfx, w |-> rex >= 72, esc |-> at(q) = 15, op |-> at(o),
      low |-> (at(o) % 8) + 8 * (rex % 2),
      mod |-> modrm \div 64,
      ext |-> (modrm \div 8) % 8,
      reg |-> ((modrm \div 8) % 8) + 8 * ((rex \div 4) % 2),
      rm |-> (modrm % 8) + 8 * (rex % 2),
      imm1 |-> [k \in 1 .. 8 |-> at(o + k)],
      imm2 |-> [k \in 1 .. 4 |-> at(o + 1 + k)],
      o |-> o]

Stop(m, st) == [m EXCEPT !.st = st]
Set(m, r, v, n) == [m EXCEPT !.gpr[r] = v, !.pc = @ + n]
\* (A jump onto itself stops the run for good.)
Goto(m, pc) == IF pc = m.pc THEN Stop(m, "stuck") ELSE [m EXCEPT !.pc = pc]
FSet(m, r, v, n) == [m EXCEPT !.fpr[r] = v, !.pc = @ + n]
Store(m, a, v, n) ==
  IF Writable(a) THEN [m EXCEPT !.mem = (a[2] :> v) @@ @, !.pc = @ + n] ELSE Stop(m, "stuck")

\* A call: past the end of its displacement, or out of the module.
Aligned(m) == m.aligned /\ m.gpr[4][1] = "stk" /\ (m.gpr[4][2] + 8) % 16 = 0
X86Call(m, d, target) ==
  LET sp == Add(m.gpr[4], Num(-8)) IN
  [Store(m, sp, <<"code", m.pc + d.o + 4>>, 0) EXCEPT !.gpr[4] = sp, !.pc = target,
                                                      !.aligned = Aligned(m)]
X86Outside(m, d, xfn, sig) ==
  LET args == [a \in 1 .. Len(sig.args) |->
                 IF sig.args[a] = "FLOAT" THEN m.fpr[a - 1] ELSE m.gpr[<<1, 2, 8, 9>>[a]]]
      result(kind) == IF sig.ret = kind THEN Result(xfn, args) ELSE Junk
  IN IF m.gpr[4][1] # "stk" THEN Stop(m, "stuck")
     ELSE [m EXCEPT !.pc = @ + d.o + 4, !.aligned = Aligned(m), !.flags = <<"none">>,
                    !.gpr = [r \in 0 .. 15 |-> IF r = 0 THEN result("INT")
                                               ELSE IF r \in {1, 2} \cup 8 .. 11 THEN Junk
                                               ELSE m.gpr[r]],
                    !.fpr = [r \in 0 .. 15 |-> IF r = 0 THEN result("FLOAT")
                                               ELSE IF r \in 1 .. 5 THEN Junk ELSE m.fpr[r]],
                    !.mem = Above(m.mem, m.gpr[4][2] + 32)]

CondOf(cc, flags, taken) ==
  LET a == flags[2]
      b == flags[3]
  IN CASE flags[1] = "cmp" /\ cc \in {4, 5, 12, 13, 14, 15} ->
            Compare(<<"EQ", "NE", "", "", "", "", "", "", "LT", "GE", "LE", "GT">>[cc - 3], a, b)
       [] flags[1] = "fcmp" /\ cc \in 2 .. 7 ->
            FCompare(<<"LT", "GE", "EQ", "NE", "LE", "GT">>[cc - 1], a, b)
       [] OTHER -> Junk

AluOp == (1 :> "ADD") @@ (41 :> "SUB") @@ (33 :> "AND") @@ (9 :> "OR") @@ (49 :> "XOR")
SseOp == (88 :> "FADD") @@ (92 :> "FSUB") @@ (89 :> "FMUL") @@ (94 :> "FDIV")
ShiftOp == (4 :> "SHL") @@ (5 :> "SHR") @@ (7 :> "SAR")

\* One step of m, of decoded instruction d; taken answers a test of a value
\* that is not a number.
X86Step(m, d, taken, Outside(_), Sig(_)) ==
  LET R(r) == m.gpr[r]
      F(r) == m.fpr[r]
      n == d.o + 1            \* length up to ModRM
      ea == IF d.mod = 2 THEN Add(R(d.rm), Num(Int32(d.imm2))) ELSE R(d.rm)
      len == IF d.mod = 2 THEN n + 4 ELSE n
      rr == d.w /\ d.mod = 3
      mem == d.mod = 2 \/ (d.mod = 0 /\ d.rm % 8 \notin {4, 5})
      sp == R(4)
      simple == d.pfx = 0 /\ ~ d.esc
      rel == Int32(SubSeq(d.imm1, 1, 4))
      truth == IF IsNum(m.flags[2]) THEN m.flags[2] # Zero ELSE taken
  IN
  CASE simple /\ rr /\ d.op \in DOMAIN AluOp -> Set(m, d.rm, Alu(AluOp[d.op], R(d.rm), R(d.reg)), n)
    [] simple /\ rr /\ d.op = 57 -> [m EXCEPT !.flags = <<"cmp", R(d.rm), R(d.reg)>>, !.pc = @ + n]
    [] simple /\ rr /\ d.op = 133 /\ d.rm = d.reg ->
         [m EXCEPT !.flags = <<"test", R(d.rm), Zero>>, !.pc = @ + n]
    [] simple /\ d.w /\ d.op = 139 /\ d.mod = 3 -> Set(m, d.reg, R(d.rm), n)
    [] simple /\ d.w /\ d.op = 139 /\ mem -> Set(m, d.reg, Read(m.mem, ea), len)
    [] simple /\ d.w /\ d.op = 137 /\ mem -> Store(m, ea, R(d.reg), len)
    [] simple /\ d.w /\ d.op = 141 /\ d.mod = 2 -> Set(m, d.reg, ea, len)
    [] simple /\ rr /\ d.op = 247 /\ d.ext = 2 -> Set(m, d.rm, Alu("XOR", R(d.rm), Num(-1)), n)
    [] simple /\ rr /\ d.op = 247 /\ d.ext = 3 -> Set(m, d.rm, Sub(Zero, R(d.rm)), n)
    [] simple /\ rr /\ d.op = 247 /\ d.ext = 7 /\ R(2) = <<"sign", R(0)>> ->
         [m EXCEPT !.gpr[0] = Alu("DIV", R(0), R(d.rm)), !.gpr[2] = Alu("MOD", R(0), R(d.rm)),
                   !.pc = @ + n]
    [] simple /\ rr /\ d.op = 211 /\ d.ext \in {4, 5, 7} ->
         Set(m, d.rm, Alu(ShiftOp[d.ext], R(d.rm), R(1)), n)
    [] simple /\ d.w /\ d.op = 153 -> Set(m, 2, <<"sign", R(0)>>, d.o)
    [] simple /\ d.w /\ d.op \in 184 .. 191 -> Set(m, d.low, Word(d.imm1), d.o + 8)
    [] simple /\ rr /\ d.op = 199 /\ d.ext = 0 -> Set(m, d.rm, Num(Int32(d.imm2)), n + 4)
    [] simple /\ rr /\ d.op = 129 /\ d.ext = 5 -> Set(m, d.rm, Sub(R(d.rm), Num(Int32(d.imm2))), n + 4)
    [] simple /\ rr /\ d.op = 129 /\ d.ext = 0 -> Set(m, d.rm, Add(R(d.rm), Num(Int32(d.imm2))), n + 4)
    [] simple /\ d.op \in 80 .. 87 ->
         [Store(m, Add(sp, Num(-8)), R(d.low), d.o) EXCEPT !.gpr[4] = Add(sp, Num(-8))]
    [] simple /\ d.op \in 88 .. 95 -> Set([m EXCEPT !.gpr[4] = Add(sp, Num(8))], d.low, Read(m.mem, sp), d.o)
    [] simple /\ d.op = 233 -> Goto(m, m.pc + d.o + 4 + rel)
    [] simple /\ d.op = 232 ->
         IF Outside(m.pc + d.o) = 0 THEN X86Call(m, d, m.pc + d.o + 4 + rel)
         ELSE X86Outside(m, d, Outside(m.pc + d.o), Sig(Outside(m.pc + d.o)))
    [] simple /\ d.op = 195 /\ Read(m.mem, sp)[1] = "code" ->
         [m EXCEPT !.gpr[4] = Add(sp, Num(8)), !.pc = Read(m.mem, sp)[2]]
    [] simple /\ d.op = 195 /\ Read(m.mem, sp) = <<"caller">> ->
         [m EXCEPT !.gpr[4] = Add(sp, Num(8)), !.st = "returned"]
    [] d.pfx = 0 /\ d.esc /\ rr /\ d.op = 175 -> Set(m, d.reg, Alu("MUL", R(d.reg), R(d.rm)), n)
    [] d.pfx = 0 /\ d.esc /\ d.mod = 3 /\ d.op \in 144 .. 159 ->
         Set(m, d.rm, <<"byte", CondOf(d.op - 144, m.flags, taken)>>, n)
    [] d.pfx = 0 /\ d.esc /\ rr /\ d.op = 182 /\ R(d.rm)[1] = "byte" -> Set(m, d.reg, R(d.rm)[2], n)
    [] d.pfx = 0 /\ d.esc /\ d.op \in {132, 133} /\ m.flags[1] = "test" ->
         Goto(m, m.pc + d.o + 4 + (IF truth = (d.op = 133) THEN rel ELSE 0))
    [] d.pfx = 242 /\ d.esc /\ d.op = 16 /\ d.mod = 3 -> FSet(m, d.reg, F(d.rm), n)
    [] d.pfx = 242 /\ d.esc /\ d.op = 16 /\ d.mod = 2 -> FSet(m, d.reg, Read(m.mem, ea), len)
    [] d.pfx = 242 /\ d.esc /\ d.op = 17 /\ d.mod = 2 -> Store(m, ea, F(d.reg), len)
    [] d.pfx = 242 /\ d.esc /\ d.op \in DOMAIN SseOp /\ d.mod = 3 ->
         FSet(m, d.reg, Alu(SseOp[d.op], F(d.reg), F(d.rm)), n)
    [] d.pfx = 242 /\ d.esc /\ rr /\ d.op = 42 -> FSet(m, d.reg, <<"SITOFP", R(d.rm)>>, n)
    [] d.pfx = 242 /\ d.esc /\ rr /\ d.op = 44 -> Set(m, d.reg, <<"FPTOSI", F(d.rm)>>, n)
    [] d.pfx = 102 /\ d.esc /\ d.op = 46 /\ d.mod = 3 ->
         [m EXCEPT !.flags = <<"fcmp", F(d.reg), F(d.rm)>>, !.pc = @ + n]
    [] d.pfx = 102 /\ d.esc /\ d.op = 87 /\ d.mod = 3 /\ d.reg = d.rm -> FSet(m, d.reg, Zero, n)
    [] OTHER -> Stop(m, "stuck")
=============================================================================
