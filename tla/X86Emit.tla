------------------------------ MODULE X86Emit ------------------------------
(***************************************************************************)
(* src/x86/x86_emit.c: a JIR module to x86-64 code under the Win64         *)
(* convention.  em_func is two steps here, the frame with the registers    *)
(* x86_ra returns, then the code; fixups is a third.                       *)
(***************************************************************************)
EXTENDS Emit, X86Code

---------------------------------------------------------------------------
(* Operands.                                                               *)

is_flt(type) == Kind(type) = "FLOAT"
is_uns(type) == Kind(type) \in {"UNSIGN", "BIT"}
InReg(ii) == rmap[ii] # NoReg
slotof(ii) == frame.slots[ii]

ld_val(reg, op) ==
  CASE IsC(op) /\ Fits32(Const(op)) -> e_mov_ri32(reg, Lo32(Const(op)))
    [] IsC(op) /\ ~ Fits32(Const(op)) -> e_mov_ri(reg, Const(op))
    [] ~ IsC(op) /\ InReg(op[2]) -> e_mov_rr(reg, rmap[op[2]])
    [] OTHER -> e_ld_stk(reg, slotof(op[2]))

\* A float constant goes through RAX and the scratch slot.
ld_fval(xmm, op) ==
  CASE IsC(op) -> e_mov_ri(RAX, Const(op)) \o e_st_stk(RAX, frame.scratch)
                  \o e_fld_stk(xmm, frame.scratch)
    [] ~ IsC(op) /\ InReg(op[2]) -> e_msd_rr(xmm, rmap[op[2]])
    [] OTHER -> e_fld_stk(xmm, slotof(op[2]))

st_val(ii, reg) == IF InReg(ii) THEN e_mov_rr(rmap[ii], reg) ELSE e_st_stk(reg, slotof(ii))
st_fval(ii, xmm) == IF InReg(ii) THEN e_msd_rr(rmap[ii], xmm) ELSE e_fst_stk(xmm, slotof(ii))

pred_cc == [EQ |-> CC_E, NE |-> CC_NE, LT |-> CC_L, LE |-> CC_LE, GT |-> CC_G, GE |-> CC_GE]
\* UCOMISD sets the flags of an unsigned comparison.
fpred_cc == [EQ |-> CC_E, NE |-> CC_NE, LT |-> CC_B, LE |-> CC_BE, GT |-> CC_A, GE |-> CC_AE]

---------------------------------------------------------------------------
(* PHIs: a copy for each of the target's, on the way out of a predecessor. *)

X86_MAXP == 8
xp_pred(to) == Preds(at[2], to, X86_MAXP)
has_phi(bi) == HasPhi(bi)
fnd_pid(from, to) == SelectInSeq(xp_pred(to), LAMBDA b : b = from)

\* (Mutant: the operand of the first predecessor, whichever is left.)
phi_cpyFirst(from, to) ==
  FlattenSeq([k \in 1 .. Len(Phis(to)) |->
    LET ii == Phis(to)[k] IN ld_val(RAX, Ops(ii)[1]) \o st_val(ii, RAX)])
phi_cpy(from, to) ==
  LET pidx == fnd_pid(from, to)
      copy(ii) == LET src_op == IF pidx <= 4 THEN Ops(ii)[pidx] ELSE <<"v", 1>> IN
        IF is_flt(J.insts[ii].type)
          THEN ld_fval(XMM0, src_op) \o st_fval(ii, XMM0)
          ELSE ld_val(RAX, src_op) \o st_val(ii, RAX)
  IN IF has_phi(to) /\ pidx # 0
       THEN FlattenSeq([k \in 1 .. Len(Phis(to)) |-> copy(Phis(to)[k])])
       ELSE <<>>

---------------------------------------------------------------------------
(* Prologue, epilogue and the registers a call would clobber.              *)

CS_GPRS == <<RBX, RSI, RDI, R12, R13, R14, R15>>
Saved == SelectSeq([i \in 1 .. 7 |-> i], LAMBDA i : (1 + i) \in csave)

em_prol(frmsz) == e_push(RBP) \o e_mov_bp_sp \o (IF frmsz > 0 THEN e_sub_rsp(frmsz) ELSE <<>>)
\* (Mutant: pops in push order.)
em_epilUp ==
  e_mov_sp_bp \o e_pop(RBP)
  \o FlattenSeq([k \in 1 .. Len(Saved) |-> e_pop(CS_GPRS[Saved[k]])]) \o e_ret
em_epil ==
  e_mov_sp_bp \o e_pop(RBP)
  \o FlattenSeq([k \in 1 .. Len(Saved) |-> e_pop(CS_GPRS[Reverse(Saved)[k]])]) \o e_ret

\* R10 and R11 are pushed, and the stack kept aligned.
Odd == Cardinality(csrm \cap {0, 1}) = 1
IfUsed(bit, bytes) == IF bit \in csrm THEN bytes ELSE <<>>
\* (Mutant: no padding.)
sv_callBare == IfUsed(0, e_push(R10)) \o IfUsed(1, e_push(R11))
sv_call == IfUsed(0, e_push(R10)) \o IfUsed(1, e_push(R11)) \o (IF Odd THEN e_sub_rsp(8) ELSE <<>>)
rs_call == (IF Odd THEN e_add_rsp(8) ELSE <<>>) \o IfUsed(1, e_pop(R11)) \o IfUsed(0, e_pop(R10))

---------------------------------------------------------------------------
(* em_inst, a group of its cases at a time.                                *)

Args2(ii) == ld_val(RAX, Ops(ii)[1]) \o ld_val(RCX, Ops(ii)[2])
FArgs2(ii) == ld_fval(XMM0, Ops(ii)[1]) \o ld_fval(XMM1, Ops(ii)[2])

em_arith(ii) ==
  CASE Op(ii) = "ADD" -> Args2(ii) \o e_add_rr(RAX, RCX) \o st_val(ii, RAX)
    [] Op(ii) = "SUB" -> Args2(ii) \o e_sub_rr(RAX, RCX) \o st_val(ii, RAX)
    [] Op(ii) = "MUL" -> Args2(ii) \o e_imul_rr(RAX, RCX) \o st_val(ii, RAX)
    [] Op(ii) \in {"DIV", "MOD"} ->
         ld_val(RAX, Ops(ii)[1]) \o e_cqo \o ld_val(RCX, Ops(ii)[2]) \o e_idiv_r(RCX)
         \o st_val(ii, IF Op(ii) = "DIV" THEN RAX ELSE RDX)
    [] Op(ii) = "NEG" -> ld_val(RAX, Ops(ii)[1]) \o e_neg_r(RAX) \o st_val(ii, RAX)

em_bits(ii) ==
  CASE Op(ii) = "AND" -> Args2(ii) \o e_and_rr(RAX, RCX) \o st_val(ii, RAX)
    [] Op(ii) = "OR" -> Args2(ii) \o e_or_rr(RAX, RCX) \o st_val(ii, RAX)
    [] Op(ii) = "XOR" -> Args2(ii) \o e_xor_rr(RAX, RCX) \o st_val(ii, RAX)
    [] Op(ii) = "NOT" -> ld_val(RAX, Ops(ii)[1]) \o e_not_r(RAX) \o st_val(ii, RAX)
    [] Op(ii) = "SHL" -> Args2(ii) \o e_shl_cl(RAX) \o st_val(ii, RAX)
    [] Op(ii) = "SHR" ->
         Args2(ii) \o (IF is_uns(J.insts[ii].type) THEN e_shr_cl(RAX) ELSE e_sar_cl(RAX))
         \o st_val(ii, RAX)

em_icmp(ii) ==
  Args2(ii) \o e_cmp_rr(RAX, RCX) \o e_setcc(pred_cc[J.insts[ii].subop], RAX)
  \o e_movzx8(RAX, RAX) \o st_val(ii, RAX)

em_float(ii) ==
  CASE Op(ii) = "FADD" -> FArgs2(ii) \o e_addsd(XMM0, XMM1) \o st_fval(ii, XMM0)
    [] Op(ii) = "FSUB" -> FArgs2(ii) \o e_subsd(XMM0, XMM1) \o st_fval(ii, XMM0)
    [] Op(ii) = "FMUL" -> FArgs2(ii) \o e_mulsd(XMM0, XMM1) \o st_fval(ii, XMM0)
    [] Op(ii) = "FDIV" -> FArgs2(ii) \o e_divsd(XMM0, XMM1) \o st_fval(ii, XMM0)
    [] Op(ii) = "FNEG" -> e_xorpd(XMM1, XMM1) \o ld_fval(XMM0, Ops(ii)[1])
                          \o e_subsd(XMM1, XMM0) \o st_fval(ii, XMM1)

em_fcmp(ii) ==
  FArgs2(ii) \o e_ucomisd(XMM0, XMM1) \o e_setcc(fpred_cc[J.insts[ii].subop], RAX)
  \o e_movzx8(RAX, RAX) \o st_val(ii, RAX)

\* An ALLOCA is addressed as its slot, anything else as a pointer in RAX.
em_load(ii) ==
  LET addr == Ops(ii)[1] IN
  CASE IsAlloca(addr) /\ is_flt(J.insts[ii].type) ->
         e_fld_stk(XMM0, slotof(addr[2])) \o st_fval(ii, XMM0)
    [] IsAlloca(addr) /\ ~ is_flt(J.insts[ii].type) ->
         e_ld_stk(RAX, slotof(addr[2])) \o st_val(ii, RAX)
    [] OTHER -> ld_val(RAX, addr) \o Op64(<<139>>, 0, RAX, RAX) \o st_val(ii, RAX)

em_store(ii) ==
  LET val == Ops(ii)[1]
      addr == Ops(ii)[2]
  IN CASE IsAlloca(addr) /\ is_flt(J.insts[addr[2]].type) ->
            ld_fval(XMM0, val) \o e_fst_stk(XMM0, slotof(addr[2]))
       [] IsAlloca(addr) /\ ~ is_flt(J.insts[addr[2]].type) ->
            ld_val(RAX, val) \o e_st_stk(RAX, slotof(addr[2]))
       [] OTHER -> ld_val(RCX, addr) \o ld_val(RAX, val) \o Op64(<<137>>, 0, RAX, RCX)

\* An index moves by rows from the lower bound, a member by fields.
tbl_lo(type) == IF type \in DOMAIN J.types THEN J.types[type].lo ELSE 0
em_gep(ii) ==
  LET base == Ops(ii)[1]
      type == J.insts[ii].type
      lo == tbl_lo(type)
      index == ld_val(RCX, Ops(ii)[2])
               \o (IF lo # 0 THEN e_mov_ri32(RDX, lo) \o e_sub_rr(RCX, RDX) ELSE <<>>)
               \o e_mov_ri32(RDX, Row(type)) \o e_imul_rr(RCX, RDX) \o e_add_rr(RAX, RCX)
      foff == 8 * J.insts[ii].subop
      member == IF foff # 0 THEN e_mov_ri32(RCX, foff) \o e_add_rr(RAX, RCX) ELSE <<>>
  IN (IF IsAlloca(base) THEN e_lea_stk(RAX, slotof(base[2])) ELSE ld_val(RAX, base))
     \o (IF J.insts[ii].n_ops >= 2 THEN index ELSE member) \o st_val(ii, RAX)

---------------------------------------------------------------------------
(* Branches: a fix entry for every displacement to a block.                *)

\* (Mutant: the place is the end of the instruction.)
RelEnd(bytes, kind, to) ==
  [b |-> bytes, refs |-> <<[off |-> Len(bytes), kind |-> kind, to |-> to]>>]
Rel(bytes, kind, to) ==
  [b |-> bytes, refs |-> <<[off |-> Len(bytes) - 4, kind |-> kind, to |-> to]>>]
Jump(bi, to) == Cat(<<Plain(phi_cpy(bi, to)), Rel(e_jmp32, "blk", to)>>)
em_br(ii, bi) == Jump(bi, Ops(ii)[1])

\* The copies for a target with PHIs go before the jump to it, so the test
\* branches to a target without any, or over those of the true one.
em_br_cond(ii, bi) ==
  LET tb == Ops(ii)[2]
      fb == Ops(ii)[3]
      onTrue == Jump(bi, tb)
      test == Plain(ld_val(RAX, Ops(ii)[1]) \o e_test_rr(RAX, RAX))
      skip == Plain(SubSeq(e_jcc32(CC_E), 1, 2) \o LE(Len(onTrue.b), 4))
  IN CASE ~ has_phi(tb) -> Cat(<<test, Rel(e_jcc32(CC_NE), "blk", tb), Jump(bi, fb)>>)
       [] has_phi(tb) /\ ~ has_phi(fb) -> Cat(<<test, Rel(e_jcc32(CC_E), "blk", fb), onTrue>>)
       [] OTHER -> Cat(<<test, skip, onTrue, Jump(bi, fb)>>)

em_ret(ii) ==
  (CASE J.insts[ii].n_ops = 0 -> <<>>
     [] J.insts[ii].n_ops > 0 /\ is_flt(J.insts[ii].type) -> ld_fval(XMM0, Ops(ii)[1])
     [] OTHER -> ld_val(RAX, Ops(ii)[1]))
  \o em_epil

---------------------------------------------------------------------------
(* Calls: four arguments in registers, 32 bytes of shadow space.           *)

argregs == <<RCX, RDX, R8, R9>>
\* Callee and arguments: inline, or in the extra pool.
CallOps(ii) ==
  IF J.insts[ii].n_ops = 255 THEN SubSeq(J.extra, Ops(ii)[1], Ops(ii)[1] + Ops(ii)[2] - 1)
  ELSE Ops(ii)
NArgs(ii) == Min({4, Len(CallOps(ii)) - 1})

em_call(ii) ==
  Cat(<<Plain(sv_call \o FlattenSeq([a \in 1 .. NArgs(ii) |-> ld_val(argregs[a], CallOps(ii)[a + 1])])
              \o e_sub_rsp(32)),
        Rel(e_call32, "fn", CallOps(ii)[1][2]),
        Plain(e_add_rsp(32) \o rs_call \o st_val(ii, RAX))>>)

\* Float arguments go to XMM0 to XMM3 by position.
IsFltArg(op) == IF IsC(op) THEN J.consts[op[2]].kind = "FLT" ELSE is_flt(J.insts[op[2]].type)
em_xcall(ii) ==
  LET arg(a) == IF IsFltArg(Ops(ii)[a + 1]) THEN ld_fval(a - 1, Ops(ii)[a + 1])
                ELSE ld_val(argregs[a], Ops(ii)[a + 1])
  IN Cat(<<Plain(sv_call \o FlattenSeq([a \in 1 .. NArgs(ii) |-> arg(a)]) \o e_sub_rsp(32)),
           Rel(e_call32, "xfn", Lo32(Const(Ops(ii)[1]))),
           Plain(e_add_rsp(32) \o rs_call
                 \o (IF is_flt(J.insts[ii].type) THEN st_fval(ii, XMM0) ELSE st_val(ii, RAX)))>>)

em_conv(ii) ==
  CASE Op(ii) = "SITOFP" -> ld_val(RAX, Ops(ii)[1]) \o e_cvtsi2sd(XMM0, RAX) \o st_fval(ii, XMM0)
    [] Op(ii) = "FPTOSI" -> ld_fval(XMM0, Ops(ii)[1]) \o e_cvttsd2si(RAX, XMM0) \o st_val(ii, RAX)
    [] Op(ii) \in {"SEXT", "ZEXT", "TRUNC"} -> ld_val(RAX, Ops(ii)[1]) \o st_val(ii, RAX)
    [] Op(ii) \in {"FPEXT", "FPTRUNC"} -> ld_fval(XMM0, Ops(ii)[1]) \o st_fval(ii, XMM0)

em_inst(ii, bi) ==
  LET op == Op(ii) IN
  CASE op \in {"ADD", "SUB", "MUL", "DIV", "MOD", "NEG"} -> Plain(em_arith(ii))
    [] op \in {"AND", "OR", "XOR", "NOT", "SHL", "SHR"} -> Plain(em_bits(ii))
    [] op = "ICMP" -> Plain(em_icmp(ii))
    [] op \in {"FADD", "FSUB", "FMUL", "FDIV", "FNEG"} -> Plain(em_float(ii))
    [] op = "FCMP" -> Plain(em_fcmp(ii))
    [] op = "LOAD" -> Plain(em_load(ii))
    [] op = "STORE" -> Plain(em_store(ii))
    [] op = "GEP" -> Plain(em_gep(ii))
    [] op = "BR" -> em_br(ii, bi)
    [] op = "BR_COND" -> em_br_cond(ii, bi)
    [] op = "RET" -> Plain(em_ret(ii))
    [] op = "CALL" -> em_call(ii)
    [] op = "XCALL" -> em_xcall(ii)
    [] op \in {"SITOFP", "FPTOSI", "SEXT", "ZEXT", "TRUNC", "FPEXT", "FPTRUNC"} -> Plain(em_conv(ii))
    [] OTHER -> Plain(<<>>)

---------------------------------------------------------------------------
(* Functions.                                                              *)

\* Slots of all values and the float scratch slot, rounded up; eight more
\* bytes when the pushes before RBP are odd.
FrameSize(n_slots, n_cs) == RoundUp16(8 * n_slots) + (IF n_cs % 2 = 1 THEN 8 ELSE 0)

\* Slots, then ra, the registers x86_ra finds and their masks.
em_frame(ra) ==
  /\ at[1] = "frame" /\ at[2] <= Len(J.funcs)
  /\ LET n_slots == NSlots(at[2]) + 1 IN
       /\ rmap' = ra.rmap /\ csave' = ra.csave /\ csrm' = ra.csrm
       /\ frame' = [slots |-> Slots(at[2]), scratch |-> -8 * n_slots,
                    frmsz |-> FrameSize(n_slots, Cardinality(ra.csave \cap 2 .. 8))]
  /\ at' = <<"func", at[2]>>
  /\ UNCHANGED <<J, code, refs, blk_off, fn_off>>

\* Pushes, prologue, the parameters in registers to their slots, the blocks.
Entry(fi) ==
  LET params == Params(fi) IN
  FlattenSeq([k \in 1 .. Len(Saved) |-> e_push(CS_GPRS[Saved[k]])])
  \o em_prol(frame.frmsz)
  \o FlattenSeq([k \in 1 .. Min({4, Len(params)}) |-> e_st_stk(argregs[k], slotof(params[k]))])
em_block(bi) == Cat([k \in 1 .. J.blks[bi].n_inst |-> em_inst(InstsOf(bi)[k], bi)])

em_func ==
  /\ at[1] = "func"
  /\ \E w \in {WithBlocks(Plain(Entry(at[2])), at[2], em_block)} : Append1(at[2], w)
  /\ at' = IF at[2] = Len(J.funcs) THEN <<"fixups", 0>> ELSE <<"frame", at[2] + 1>>
  /\ UNCHANGED <<J, rmap, csave, csrm, frame>>

\* Branches and calls are relative to the end of their displacement.
\* (Mutant: relative to its beginning.)
Displacement0(r) == LE(Goal(r) - r.off, 4)
Displacement(r) == LE(Goal(r) - (r.off + 4), 4)
fixups ==
  /\ at[1] = "fixups"
  /\ code' = FoldLeft(LAMBDA c, r : Patched(c, r.off, Displacement(r)), code, Resolved)
  /\ at' = <<"done", 0>>
  /\ UNCHANGED <<J, refs, blk_off, fn_off, rmap, csave, csrm, frame>>

x86_emit(maps) == (\E ra \in maps : em_frame(ra)) \/ em_func \/ fixups
=============================================================================
