----------------------------- MODULE RvMachine -----------------------------
(***************************************************************************)
(* The part of an RV64GD processor, and of the LP64D convention, that the  *)
(* code of rv_emit.c relies on.  The stack is aligned to 16 at offset 0,   *)
(* and RA holds the caller's return address on entry.                      *)
(***************************************************************************)
EXTENDS Values, TLC

RvStart(entry, args) ==
  [pc |-> entry, st |-> "run", aligned |-> TRUE, flags |-> <<"none">>,
   gpr |-> [r \in 0 .. 31 |->
              CASE r = 0 -> Zero
                [] r = 1 -> <<"caller">>
                [] r = 2 -> Stk(0)
                [] r \in 10 .. 9 + Len(args) -> args[r - 9]
                [] OTHER -> <<"init", r>>],
   fpr |-> [r \in 0 .. 31 |-> <<"finit", r>>],
   mem |-> <<>>]

\* The fields of the word at pc, and its immediates by format.
RvDecode(code, pc) ==
  LET at(k) == IF pc + k <= Len(code) THEN code[pc + k] ELSE 0
      op == at(1) % 128
      rd == (at(1) \div 128) + 2 * (at(2) % 16)
      f3 == (at(2) \div 16) % 8
      rs1 == (at(2) \div 128) + 2 * (at(3) % 16)
      rs2 == (at(3) \div 16) + 16 * (at(4) % 2)
      f7 == at(4) \div 2
      top == f7 \div 64
  IN [op |-> op, rd |-> rd, f3 |-> f3, rs1 |-> rs1, rs2 |-> rs2, f7 |-> f7,
      immI |-> Signed(rs2 + 32 * f7, 12),
      immS |-> Signed(rd + 32 * f7, 12),
      immB |-> 2 * (rd \div 2) + 32 * (f7 % 64) + 2048 * (rd % 2) - 4096 * top,
      immU |-> LE(Signed(f3 + 8 * rs1 + 256 * rs2 + 8192 * f7, 20), 4),
      immJ |-> 2 * ((rs2 \div 2) + 16 * (f7 % 64)) + 2048 * (rs2 % 2)
               + 4096 * (f3 + 8 * rs1) - 1048576 * top]

Stop(m, st) == [m EXCEPT !.st = st]
Set(m, r, v) == [m EXCEPT !.gpr[r] = IF r = 0 THEN Zero ELSE v, !.pc = @ + 4]
\* (A jump onto itself stops the run for good.)
Goto(m, pc) == IF pc = m.pc THEN Stop(m, "stuck") ELSE [m EXCEPT !.pc = pc]
FSet(m, r, v) == [m EXCEPT !.fpr[r] = v, !.pc = @ + 4]
Store(m, a, v) ==
  IF Writable(a) THEN [m EXCEPT !.mem = (a[2] :> v) @@ @, !.pc = @ + 4] ELSE Stop(m, "stuck")

Aligned(m) == m.aligned /\ m.gpr[2][1] = "stk" /\ m.gpr[2][2] % 16 = 0
RvOutside(m, xfn, sig) ==
  LET args == [a \in 1 .. Len(sig.args) |->
                 IF sig.args[a] = "FLOAT" THEN m.fpr[9 + a] ELSE m.gpr[9 + a]]
      result(kind) == IF sig.ret = kind THEN Result(xfn, args) ELSE Junk
  IN IF m.gpr[2][1] # "stk" THEN Stop(m, "stuck")
     ELSE [m EXCEPT !.pc = @ + 8, !.aligned = Aligned(m),
                    !.gpr = [r \in 0 .. 31 |-> IF r = 10 THEN result("INT")
                                               ELSE IF r \in {1} \cup 5 .. 7 \cup 11 .. 17 \cup 28 .. 31
                                                 THEN Junk ELSE m.gpr[r]],
                    !.fpr = [r \in 0 .. 31 |-> IF r = 10 THEN result("FLOAT")
                                               ELSE IF r \in 0 .. 7 \cup 11 .. 17 \cup 28 .. 31
                                                 THEN Junk ELSE m.fpr[r]],
                    !.mem = Above(m.mem, m.gpr[2][2])]

Reg0 == (<<0, 0>> :> "ADD") @@ (<<0, 32>> :> "SUB") @@ (<<0, 1>> :> "MUL") @@ (<<4, 1>> :> "DIV")
        @@ (<<6, 1>> :> "MOD") @@ (<<7, 0>> :> "AND") @@ (<<6, 0>> :> "OR") @@ (<<4, 0>> :> "XOR")
        @@ (<<1, 0>> :> "SHL") @@ (<<5, 32>> :> "SAR") @@ (<<5, 0>> :> "SHR")
FloatOp == (1 :> "FADD") @@ (5 :> "FSUB") @@ (9 :> "FMUL") @@ (13 :> "FDIV")

\* v <u w, when one of them is the bound of a test for zero.
Below(a, b) ==
  CASE b = One -> IsZero(a)
    [] a = Zero -> Not(IsZero(b))
    [] OTHER -> Junk

RvStep(m, d, taken, Outside(_), Sig(_)) ==
  LET a == m.gpr[d.rs1]
      b == m.gpr[d.rs2]
      fa == m.fpr[d.rs1]
      fb == m.fpr[d.rs2]
      key == <<d.f3, d.f7>>
      eaI == Add(a, Num(d.immI))
      eaS == Add(a, Num(d.immS))
      nonzero == IF IsNum(a) THEN a # Zero ELSE taken
  IN
  CASE d.op = 51 /\ key \in DOMAIN Reg0 -> Set(m, d.rd, Alu(Reg0[key], a, b))
    [] d.op = 51 /\ key = <<2, 0>> -> Set(m, d.rd, Less(a, b))
    [] d.op = 51 /\ key = <<3, 0>> -> Set(m, d.rd, Below(a, b))
    [] d.op = 19 /\ d.f3 = 0 -> Set(m, d.rd, eaI)
    [] d.op = 19 /\ d.f3 = 4 -> Set(m, d.rd, Alu("XOR", a, Num(d.immI)))
    [] d.op = 19 /\ d.f3 = 3 -> Set(m, d.rd, Below(a, Num(d.immI)))
    [] d.op = 19 /\ d.f3 = 1 /\ d.immI \in 0 .. 63 -> Set(m, d.rd, Alu("SHL", a, Num(d.immI)))
    [] d.op = 19 /\ d.f3 = 5 /\ d.immI \in 0 .. 63 -> Set(m, d.rd, Alu("SHR", a, Num(d.immI)))
    [] d.op = 3 /\ d.f3 = 3 -> Set(m, d.rd, Read(m.mem, eaI))
    [] d.op = 35 /\ d.f3 = 3 -> Store(m, eaS, b)
    [] d.op = 7 /\ d.f3 = 3 -> FSet(m, d.rd, Read(m.mem, eaI))
    [] d.op = 39 /\ d.f3 = 3 -> Store(m, eaS, fb)
    [] d.op = 55 -> Set(m, d.rd, Word(Mul64(SExt(d.immU), W64(4096))))
    [] d.op = 23 /\ Outside(m.pc) # 0 -> RvOutside(m, Outside(m.pc), Sig(Outside(m.pc)))
    [] d.op = 111 /\ d.rd \in {0, 1} ->
         Goto([m EXCEPT !.gpr[d.rd] = IF d.rd = 0 THEN Zero ELSE <<"code", m.pc + 4>>,
                        !.aligned = IF d.rd = 1 THEN Aligned(m) ELSE @], m.pc + d.immJ)
    [] d.op = 103 /\ d.rd = 0 /\ d.immI = 0 /\ a[1] = "code" -> [m EXCEPT !.pc = a[2]]
    [] d.op = 103 /\ d.rd = 0 /\ d.immI = 0 /\ a = <<"caller">> -> Stop(m, "returned")
    [] d.op = 99 /\ d.f3 \in {0, 1} /\ d.rs2 = 0 ->
         Goto(m, m.pc + (IF nonzero = (d.f3 = 1) THEN d.immB ELSE 4))
    [] d.op = 83 /\ d.f3 = 0 /\ d.f7 \in DOMAIN FloatOp -> FSet(m, d.rd, Alu(FloatOp[d.f7], fa, fb))
    [] d.op = 83 /\ d.f7 = 17 /\ d.rs1 = d.rs2 /\ d.f3 \in {0, 1} ->
         FSet(m, d.rd, IF d.f3 = 1 THEN <<"FNEG", fa>> ELSE fa)
    [] d.op = 83 /\ d.f7 = 81 /\ d.f3 \in 0 .. 2 ->
         Set(m, d.rd, FCompare(<<"LE", "LT", "EQ">>[d.f3 + 1], fa, fb))
    [] d.op = 83 /\ d.f7 = 105 /\ d.rs2 = 2 -> FSet(m, d.rd, <<"SITOFP", a>>)
    [] d.op = 83 /\ d.f7 = 97 /\ d.rs2 = 2 /\ d.f3 = 1 -> Set(m, d.rd, <<"FPTOSI", fa>>)
    [] d.op = 83 /\ d.f7 = 121 /\ d.rs2 = 0 -> FSet(m, d.rd, a)
    [] OTHER -> Stop(m, "stuck")
=============================================================================
