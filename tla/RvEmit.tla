------------------------------ MODULE RvEmit ------------------------------
(***************************************************************************)
(* src/rv/rv_emit.c: a JIR module to RV64GD code under the LP64D           *)
(* convention, in the same three steps as X86Emit.                         *)
(***************************************************************************)
EXTENDS Emit, RvCode

---------------------------------------------------------------------------
(* Operands.                                                               *)

is_flt(type) == Kind(type) = "FLOAT"
is_uns(type) == Kind(type) \in {"UNSIGN", "BIT"}
InReg(ii) == rmap[ii] # NoReg
slotof(ii) == frame.slots[ii]

ld_val(reg, op) ==
  CASE IsC(op) -> e_li64(reg, Const(op))
    [] ~ IsC(op) /\ InReg(op[2]) -> e_mv(reg, rmap[op[2]])
    [] OTHER -> e_ld(reg, S0, slotof(op[2]))
ld_fval(frd, op) ==
  CASE IsC(op) -> e_li64(T0, Const(op)) \o e_fmvdx(frd, T0)
    [] ~ IsC(op) /\ InReg(op[2]) -> e_fmvd(frd, rmap[op[2]])
    [] OTHER -> e_fld(frd, S0, slotof(op[2]))
st_val(ii, reg) == IF InReg(ii) THEN e_mv(rmap[ii], reg) ELSE e_sd(S0, reg, slotof(ii))
st_fval(ii, frd) == IF InReg(ii) THEN e_fmvd(rmap[ii], frd) ELSE e_fsd(S0, frd, slotof(ii))

---------------------------------------------------------------------------
(* PHIs: a copy for each of the target's, on the way out of a predecessor. *)

RV_MAXP == 8
rp_pred(to) == Preds(at[2], to, RV_MAXP)
has_phi(bi) == HasPhi(bi)
fnd_pid(from, to) == SelectInSeq(rp_pred(to), LAMBDA b : b = from)
phi_cpy(from, to) ==
  LET pidx == fnd_pid(from, to)
      copy(ii) == LET src == IF pidx <= 4 THEN Ops(ii)[pidx] ELSE <<"v", 1>> IN
        IF is_flt(J.insts[ii].type)
          THEN ld_fval(FT0, src) \o st_fval(ii, FT0)
          ELSE ld_val(T0, src) \o st_val(ii, T0)
  IN IF has_phi(to) /\ pidx # 0
       THEN FlattenSeq([k \in 1 .. Len(Phis(to)) |-> copy(Phis(to)[k])])
       ELSE <<>>

---------------------------------------------------------------------------
(* Prologue, epilogue and the registers a call would clobber.              *)

\* Bit i of the mask is taken for T0 .. T6 in this order; the save area lies
\* below the float scratch slot.
cs_regs == <<T0, T1, T2, T3, T4, T5, T6>>
SaveOrder == SelectSeq([i \in 1 .. 7 |-> i], LAMBDA i : (i - 1) \in csrm)
SaveSlot(k) == frame.scratch - 8 - 8 * (k - 1)
sv_call == FlattenSeq([k \in 1 .. Len(SaveOrder) |-> e_sd(S0, cs_regs[SaveOrder[k]], SaveSlot(k))])
rs_call == FlattenSeq([k \in 1 .. Len(SaveOrder) |-> e_ld(cs_regs[SaveOrder[k]], S0, SaveSlot(k))])

\* S1 .. S11 are bits 7 .. 17.
CS_GPRS == <<9, 18, 19, 20, 21, 22, 23, 24, 25, 26, 27>>
Saved == SelectSeq([i \in 1 .. 11 |-> i], LAMBDA i : (6 + i) \in csave)

em_prol ==
  e_addi(SP, SP, 0 - frame.frmsz) \o e_sd(SP, RA, 0) \o e_sd(SP, S0, 8)
  \o FlattenSeq([k \in 1 .. Len(Saved) |-> e_sd(SP, CS_GPRS[Saved[k]], 8 + 8 * k)])
  \o e_addi(S0, SP, frame.frmsz)
em_epil ==
  FlattenSeq([k \in 1 .. Len(Saved) |-> e_ld(CS_GPRS[Saved[k]], SP, 8 + 8 * k)])
  \o e_ld(S0, SP, 8) \o e_ld(RA, SP, 0) \o e_addi(SP, SP, frame.frmsz)
  \o e_jalr(ZERO, RA, 0)

---------------------------------------------------------------------------
(* em_inst, a group of its cases at a time.                                *)

Args2(ii) == ld_val(T0, Ops(ii)[1]) \o ld_val(T1, Ops(ii)[2])
FArgs2(ii) == ld_fval(FT0, Ops(ii)[1]) \o ld_fval(FT1, Ops(ii)[2])

em_arith(ii) ==
  CASE Op(ii) = "ADD" -> Args2(ii) \o e_add(T0, T0, T1) \o st_val(ii, T0)
    [] Op(ii) = "SUB" -> Args2(ii) \o e_sub(T0, T0, T1) \o st_val(ii, T0)
    [] Op(ii) = "MUL" -> Args2(ii) \o e_mul(T0, T0, T1) \o st_val(ii, T0)
    [] Op(ii) = "DIV" -> Args2(ii) \o e_div(T0, T0, T1) \o st_val(ii, T0)
    [] Op(ii) = "MOD" -> Args2(ii) \o e_rem(T0, T0, T1) \o st_val(ii, T0)
    [] Op(ii) = "NEG" -> ld_val(T0, Ops(ii)[1]) \o e_sub(T0, ZERO, T0) \o st_val(ii, T0)

em_bits(ii) ==
  CASE Op(ii) = "AND" -> Args2(ii) \o e_and(T0, T0, T1) \o st_val(ii, T0)
    [] Op(ii) = "OR" -> Args2(ii) \o e_or(T0, T0, T1) \o st_val(ii, T0)
    [] Op(ii) = "XOR" -> Args2(ii) \o e_xor(T0, T0, T1) \o st_val(ii, T0)
    [] Op(ii) = "NOT" -> ld_val(T0, Ops(ii)[1]) \o e_xori(T0, T0, -1) \o st_val(ii, T0)
    [] Op(ii) = "SHL" -> Args2(ii) \o e_sll(T0, T0, T1) \o st_val(ii, T0)
    [] Op(ii) = "SHR" ->
         Args2(ii) \o (IF is_uns(J.insts[ii].type) THEN e_srl(T0, T0, T1) ELSE e_sra(T0, T0, T1))
         \o st_val(ii, T0)

\* No flags: a comparison is a set-less-than, its negation an XORI.
em_icmp(ii) ==
  Args2(ii)
  \o (CASE J.insts[ii].subop = "LT" -> e_slt(T0, T0, T1)
        [] J.insts[ii].subop = "GE" -> e_slt(T0, T0, T1) \o e_xori(T0, T0, 1)
        [] J.insts[ii].subop = "GT" -> e_slt(T0, T1, T0)
        [] J.insts[ii].subop = "LE" -> e_slt(T0, T1, T0) \o e_xori(T0, T0, 1)
        [] J.insts[ii].subop = "EQ" -> e_sub(T0, T0, T1) \o e_sltiu(T0, T0, 1)
        [] J.insts[ii].subop = "NE" -> e_sub(T0, T0, T1) \o e_sltu(T0, ZERO, T0))
  \o st_val(ii, T0)

em_float(ii) ==
  CASE Op(ii) = "FADD" -> FArgs2(ii) \o e_faddd(FT0, FT0, FT1) \o st_fval(ii, FT0)
    [] Op(ii) = "FSUB" -> FArgs2(ii) \o e_fsubd(FT0, FT0, FT1) \o st_fval(ii, FT0)
    [] Op(ii) = "FMUL" -> FArgs2(ii) \o e_fmuld(FT0, FT0, FT1) \o st_fval(ii, FT0)
    [] Op(ii) = "FDIV" -> FArgs2(ii) \o e_fdivd(FT0, FT0, FT1) \o st_fval(ii, FT0)
    [] Op(ii) = "FNEG" -> ld_fval(FT0, Ops(ii)[1]) \o e_fnegd(FT0, FT0) \o st_fval(ii, FT0)

em_fcmp(ii) ==
  FArgs2(ii)
  \o (CASE J.insts[ii].subop = "EQ" -> e_feqd(T0, FT0, FT1)
        [] J.insts[ii].subop = "NE" -> e_feqd(T0, FT0, FT1) \o e_xori(T0, T0, 1)
        [] J.insts[ii].subop = "LT" -> e_fltd(T0, FT0, FT1)
        [] J.insts[ii].subop = "LE" -> e_fled(T0, FT0, FT1)
        [] J.insts[ii].subop = "GT" -> e_fltd(T0, FT1, FT0)
        [] J.insts[ii].subop = "GE" -> e_fled(T0, FT1, FT0))
  \o st_val(ii, T0)

em_load(ii) ==
  LET addr == Ops(ii)[1] IN
  CASE IsAlloca(addr) /\ is_flt(J.insts[ii].type) ->
         e_fld(FT0, S0, slotof(addr[2])) \o st_fval(ii, FT0)
    [] IsAlloca(addr) /\ ~ is_flt(J.insts[ii].type) ->
         e_ld(T0, S0, slotof(addr[2])) \o st_val(ii, T0)
    [] OTHER -> ld_val(T0, addr) \o e_ld(T0, T0, 0) \o st_val(ii, T0)

em_store(ii) ==
  LET val == Ops(ii)[1]
      addr == Ops(ii)[2]
  IN CASE IsAlloca(addr) /\ is_flt(J.insts[addr[2]].type) ->
            ld_fval(FT0, val) \o e_fsd(S0, FT0, slotof(addr[2]))
       [] IsAlloca(addr) /\ ~ is_flt(J.insts[addr[2]].type) ->
            ld_val(T0, val) \o e_sd(S0, T0, slotof(addr[2]))
       [] OTHER -> ld_val(T1, addr) \o ld_val(T0, val) \o e_sd(T1, T0, 0)

tbl_lo(type) == IF type \in DOMAIN J.types THEN J.types[type].lo ELSE 0
em_gep(ii) ==
  LET base == Ops(ii)[1]
      type == J.insts[ii].type
      lo == tbl_lo(type)
      index == ld_val(T1, Ops(ii)[2])
               \o (IF lo # 0 THEN e_li64(T2, W64(lo)) \o e_sub(T1, T1, T2) ELSE <<>>)
               \o e_li64(T2, W64(Row(type))) \o e_mul(T1, T1, T2) \o e_add(T0, T0, T1)
      foff == 8 * J.insts[ii].subop
      member == IF foff # 0 THEN e_addi(T0, T0, foff) ELSE <<>>
  IN (IF IsAlloca(base) THEN e_addi(T0, S0, slotof(base[2])) ELSE ld_val(T0, base))
     \o (IF J.insts[ii].n_ops >= 2 THEN index ELSE member) \o st_val(ii, T0)

---------------------------------------------------------------------------
(* Branches: a fix entry for every branch to a block.                      *)

Rel(bytes, kind, to) == [b |-> bytes, refs |-> <<[off |-> 0, kind |-> kind, to |-> to]>>]
Jump(bi, to) == Cat(<<Plain(phi_cpy(bi, to)), Rel(e_jal(ZERO, 0), "blk", to)>>)
em_br(ii, bi) == Jump(bi, Ops(ii)[1])
em_br_cond(ii, bi) ==
  LET tb == Ops(ii)[2]
      fb == Ops(ii)[3]
      onTrue == Jump(bi, tb)
      test == Plain(ld_val(T0, Ops(ii)[1]))
      skip == Plain(e_beq(T0, ZERO, 4 + Len(onTrue.b)))
  IN CASE ~ has_phi(tb) -> Cat(<<test, Rel(e_bne(T0, ZERO, 0), "blk", tb), Jump(bi, fb)>>)
       [] has_phi(tb) /\ ~ has_phi(fb) -> Cat(<<test, Rel(e_beq(T0, ZERO, 0), "blk", fb), onTrue>>)
       [] OTHER -> Cat(<<test, skip, onTrue, Jump(bi, fb)>>)

em_ret(ii) ==
  (CASE J.insts[ii].n_ops = 0 -> <<>>
     [] J.insts[ii].n_ops > 0 /\ is_flt(J.insts[ii].type) -> ld_fval(FA0, Ops(ii)[1])
     [] OTHER -> ld_val(A0, Ops(ii)[1]))
  \o em_epil

---------------------------------------------------------------------------
(* Calls: eight arguments in registers.                                    *)

CallOps(ii) ==
  IF J.insts[ii].n_ops = 255 THEN SubSeq(J.extra, Ops(ii)[1], Ops(ii)[1] + Ops(ii)[2] - 1)
  ELSE Ops(ii)
NArgs(ii) == Min({8, Len(CallOps(ii)) - 1})
em_call(ii) ==
  Cat(<<Plain(sv_call \o FlattenSeq([a \in 1 .. NArgs(ii) |-> ld_val(A0 + a - 1, CallOps(ii)[a + 1])])),
        Rel(e_jal(RA, 0), "fn", CallOps(ii)[1][2]),
        Plain(rs_call \o st_val(ii, A0))>>)

\* Float arguments go to FA0 to FA7 by position.
IsFltArg(op) == IF IsC(op) THEN J.consts[op[2]].kind = "FLT" ELSE is_flt(J.insts[op[2]].type)
em_xcall(ii) ==
  LET arg(a) == IF IsFltArg(Ops(ii)[a + 1]) THEN ld_fval(FA0 + a - 1, Ops(ii)[a + 1])
                ELSE ld_val(A0 + a - 1, Ops(ii)[a + 1])
  IN Cat(<<Plain(sv_call \o FlattenSeq([a \in 1 .. NArgs(ii) |-> arg(a)])),
           Rel(e_auipc(T0, 0) \o e_jalr(RA, T0, 0), "xfn", Lo32(Const(Ops(ii)[1]))),
           Plain(rs_call
                 \o (IF is_flt(J.insts[ii].type) THEN st_fval(ii, FA0) ELSE st_val(ii, A0)))>>)

em_conv(ii) ==
  CASE Op(ii) = "SITOFP" -> ld_val(T0, Ops(ii)[1]) \o e_cvtdl(FT0, T0) \o st_fval(ii, FT0)
    [] Op(ii) = "FPTOSI" -> ld_fval(FT0, Ops(ii)[1]) \o e_cvtld(T0, FT0) \o st_val(ii, T0)
    [] Op(ii) \in {"SEXT", "ZEXT", "TRUNC"} -> ld_val(T0, Ops(ii)[1]) \o st_val(ii, T0)
    [] Op(ii) \in {"FPEXT", "FPTRUNC"} -> ld_fval(FT0, Ops(ii)[1]) \o st_fval(ii, FT0)

em_inst(ii, bi) ==
  LET op == Op(ii) IN
  CASE op \in {"ADD", "SUB", "MUL", "DIV", "MOD", "NEG"} -> Plain(em_arith(ii))
    [] op \in {"AND", "OR", "XOR", "NOT", "SHL", "SHR"} -> Plain(em_bits(ii))
    [] op = "ICMP" -> Plain(em_icmp(ii))
    [] op \in {"FADD", "FSUB", "FMUL", "FDIV", "FNEG"} -> Plain(em_float(ii))
    [] op = "FCMP" -> Plain(em_fcmp(ii))
    [] op = "LOAD" -> Plain(em_load(ii))
    [] op = "STORE" -> Plain(em_store(ii))
    [] op = "GEP" -> Plain(em_gep(ii))
    [] op = "BR" -> em_br(ii, bi)
    [] op = "BR_COND" -> em_br_cond(ii, bi)
    [] op = "RET" -> Plain(em_ret(ii))
    [] op = "CALL" -> em_call(ii)
    [] op = "XCALL" -> em_xcall(ii)
    [] op \in {"SITOFP", "FPTOSI", "SEXT", "ZEXT", "TRUNC", "FPEXT", "FPTRUNC"} -> Plain(em_conv(ii))
    [] OTHER -> Plain(<<>>)

---------------------------------------------------------------------------
(* Functions.                                                              *)

\* Slots of the values, the float scratch slot and seven to save registers
\* over calls, then RA, S0 and the callee-saved registers; an ADDI must be
\* able to span it, so it is cut at 2040.
FrameSize(n_slots, n_cs) == Min({2040, RoundUp16(8 * (n_slots + 2 + n_cs))})

em_frame(ra) ==
  /\ at[1] = "frame" /\ at[2] <= Len(J.funcs)
  /\ LET n_slots == NSlots(at[2]) + 8 IN
       /\ rmap' = ra.rmap /\ csave' = ra.csave /\ csrm' = ra.csrm
       /\ frame' = [slots |-> Slots(at[2]), scratch |-> -8 * (n_slots - 7),
                    frmsz |-> FrameSize(n_slots, Cardinality(ra.csave \cap 7 .. 17))]
  /\ at' = <<"func", at[2]>>
  /\ UNCHANGED <<J, code, refs, blk_off, fn_off>>

Entry(fi) ==
  LET params == Params(fi) IN
  em_prol
  \o FlattenSeq([k \in 1 .. Min({8, Len(params)}) |-> e_sd(S0, A0 + k - 1, slotof(params[k]))])
em_block(bi) == Cat([k \in 1 .. J.blks[bi].n_inst |-> em_inst(InstsOf(bi)[k], bi)])

em_func ==
  /\ at[1] = "func"
  /\ \E w \in {WithBlocks(Plain(Entry(at[2])), at[2], em_block)} : Append1(at[2], w)
  /\ at' = IF at[2] = Len(J.funcs) THEN <<"fixups", 0>> ELSE <<"frame", at[2] + 1>>
  /\ UNCHANGED <<J, rmap, csave, csrm, frame>>

\* A JAL or a conditional branch is encoded again, with its distance.
Encoded(c, r) ==
  LET word == SubSeq(c, r.off + 1, r.off + 4)
      rel == Goal(r) - r.off
      rd == (word[1] \div 128) + 2 * (word[2] % 16)
      f3 == (word[2] \div 16) % 8
      rs1 == (word[2] \div 128) + 2 * (word[3] % 16)
      rs2 == (word[3] \div 16) + 16 * (word[4] % 2)
  IN IF word[1] % 128 = 111 THEN mk_J(111, rd, rel) ELSE mk_B(99, f3, rs1, rs2, rel)
fixups ==
  /\ at[1] = "fixups"
  /\ code' = FoldLeft(LAMBDA c, r : Patched(c, r.off, Encoded(c, r)), code, Resolved)
  /\ at' = <<"done", 0>>
  /\ UNCHANGED <<J, refs, blk_off, fn_off, rmap, csave, csrm, frame>>

rv_emit(maps) == (\E ra \in maps : em_frame(ra)) \/ em_func \/ fixups
=============================================================================
