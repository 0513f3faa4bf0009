------------------------------ MODULE X86Code ------------------------------
(***************************************************************************)
(* The instruction encoders of src/x86/x86_emit.c: each returns the bytes  *)
(* it appends to the code.  A relative branch is emitted with a zero       *)
(* displacement, the last four of its bytes, which a fixup fills in later. *)
(***************************************************************************)
EXTENDS Bytes

RAX == 0
RCX == 1
RDX == 2
RBX == 3
RSP == 4
RBP == 5
RSI == 6
RDI == 7
R8 == 8
R9 == 9
R10 == 10
R11 == 11
R12 == 12
R13 == 13
R14 == 14
R15 == 15
XMM0 == 0
XMM1 == 1
CC_B == 2
CC_AE == 3
CC_E == 4
CC_NE == 5
CC_BE == 6
CC_A == 7
CC_L == 12
CC_GE == 13
CC_LE == 14
CC_G == 15

High(r) == IF r >= 8 THEN 1 ELSE 0

---------------------------------------------------------------------------
(* REX and ModRM.                                                          *)

e_rex_w(r, b) == <<72 + 4 * High(r) + High(b)>>
\* The prefix of the float instructions, there only for registers above 7.
RexIfHigh(d, s) == IF d >= 8 \/ s >= 8 THEN <<64 + 4 * High(d) + High(s)>> ELSE <<>>
e_modrm(mod, reg, rm) == <<64 * mod + 8 * (reg % 8) + (rm % 8)>>

\* One 64-bit instruction on a register r and a register or memory b.
Op64(opcode, mod, r, b) == e_rex_w(r, b) \o opcode \o e_modrm(mod, r, b)

---------------------------------------------------------------------------
(* Stack slots: [RBP + off].                                               *)

e_ld_stk(reg, off)  == Op64(<<139>>, 2, reg, RBP) \o LE(off, 4)
e_st_stk(reg, off)  == Op64(<<137>>, 2, reg, RBP) \o LE(off, 4)
e_lea_stk(reg, off) == Op64(<<141>>, 2, reg, RBP) \o LE(off, 4)
FloatStk(opcode, xmm, off) ==
  <<242>> \o (IF xmm >= 8 THEN <<68>> ELSE <<>>) \o <<15, opcode>> \o e_modrm(2, xmm, RBP) \o LE(off, 4)
e_fld_stk(xmm, off) == FloatStk(16, xmm, off)
e_fst_stk(xmm, off) == FloatStk(17, xmm, off)

---------------------------------------------------------------------------
(* General registers.                                                      *)

e_add_rr(d, s)  == Op64(<<1>>, 3, s, d)
e_sub_rr(d, s)  == Op64(<<41>>, 3, s, d)
e_imul_rr(d, s) == Op64(<<15, 175>>, 3, d, s)
e_and_rr(d, s)  == Op64(<<33>>, 3, s, d)
e_or_rr(d, s)   == Op64(<<9>>, 3, s, d)
e_xor_rr(d, s)  == Op64(<<49>>, 3, s, d)
e_cmp_rr(d, s)  == Op64(<<57>>, 3, s, d)
e_test_rr(r, s) == Op64(<<133>>, 3, s, r)

\* The instructions whose reg field extends the opcode.
Unary(opcode, ext, r) == e_rex_w(0, r) \o <<opcode>> \o e_modrm(3, ext, r)
e_not_r(r)  == Unary(247, 2, r)
e_neg_r(r)  == Unary(247, 3, r)
e_idiv_r(r) == Unary(247, 7, r)
e_shl_cl(r) == Unary(211, 4, r)
e_shr_cl(r) == Unary(211, 5, r)
e_sar_cl(r) == Unary(211, 7, r)
e_cqo == <<72, 153>>

\* A move of a register to itself is elided.
e_mov_rr(d, s) == IF d = s THEN <<>> ELSE Op64(<<139>>, 3, d, s)
e_setcc(cc, r) == <<64 + High(r), 15, 144 + cc>> \o e_modrm(3, 0, r)
e_movzx8(d, s) == Op64(<<15, 182>>, 3, d, s)

e_mov_ri(r, imm) == e_rex_w(0, r) \o <<184 + (r % 8)>> \o imm
e_mov_ri32(r, imm) == e_rex_w(0, r) \o <<199>> \o e_modrm(3, 0, r) \o LE(imm, 4)

---------------------------------------------------------------------------
(* Control flow and the stack.                                             *)

Rel32 == <<0, 0, 0, 0>>
e_jmp32 == <<233>> \o Rel32
e_jcc32(cc) == <<15, 128 + cc>> \o Rel32
e_call32 == <<232>> \o Rel32
e_ret == <<195>>
e_push(r) == (IF r >= 8 THEN <<65>> ELSE <<>>) \o <<80 + (r % 8)>>
e_pop(r)  == (IF r >= 8 THEN <<65>> ELSE <<>>) \o <<88 + (r % 8)>>
e_sub_rsp(v) == e_rex_w(0, RSP) \o <<129>> \o e_modrm(3, 5, RSP) \o LE(v, 4)
e_add_rsp(v) == e_rex_w(0, RSP) \o <<129>> \o e_modrm(3, 0, RSP) \o LE(v, 4)
e_mov_bp_sp == Op64(<<139>>, 3, RBP, RSP)
e_mov_sp_bp == Op64(<<139>>, 3, RSP, RBP)

---------------------------------------------------------------------------
(* Float registers.                                                        *)

Sse(prefix, opcode, d, s) == <<prefix>> \o RexIfHigh(d, s) \o <<15, opcode>> \o e_modrm(3, d, s)
e_sse_rr(opcode, d, s) == Sse(242, opcode, d, s)
e_msd_rr(d, s) == IF d = s THEN <<>> ELSE Sse(242, 16, d, s)
e_addsd(d, s) == e_sse_rr(88, d, s)
e_subsd(d, s) == e_sse_rr(92, d, s)
e_mulsd(d, s) == e_sse_rr(89, d, s)
e_divsd(d, s) == e_sse_rr(94, d, s)
e_ucomisd(d, s) == Sse(102, 46, d, s)
e_xorpd(d, s) == Sse(102, 87, d, s)
e_cvtsi2sd(xmm, gpr)  == <<242>> \o Op64(<<15, 42>>, 3, xmm, gpr)
e_cvttsd2si(gpr, xmm) == <<242>> \o Op64(<<15, 44>>, 3, gpr, xmm)
=============================================================================
