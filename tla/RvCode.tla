------------------------------ MODULE RvCode ------------------------------
(***************************************************************************)
(* The instruction encoders of src/rv/rv_emit.c.  Every format fills the   *)
(* fields op, rd, f3, rs1, rs2 and f7 of one 32-bit word, an immediate     *)
(* taking the places of those it does not use.                             *)
(***************************************************************************)
EXTENDS Bytes

ZERO == 0
RA == 1
SP == 2
T0 == 5
T1 == 6
T2 == 7
S0 == 8
S1 == 9
A0 == 10
T3 == 28
T4 == 29
T5 == 30
T6 == 31
FT0 == 0
FT1 == 1
FA0 == 10

---------------------------------------------------------------------------
(* Formats.                                                                *)

mk_R(op, rd, f3, rs1, rs2, f7) ==
  <<op + 128 * (rd % 2),
    (rd \div 2) + 16 * f3 + 128 * (rs1 % 2),
    (rs1 \div 2) + 16 * (rs2 % 16),
    (rs2 \div 16) + 2 * f7>>
mk_I(op, rd, f3, rs1, imm) == mk_R(op, rd, f3, rs1, imm % 32, (imm \div 32) % 128)
mk_S(op, f3, rs1, rs2, imm) == mk_R(op, imm % 32, f3, rs1, rs2, (imm \div 32) % 128)
\* imm[11] goes where imm[0] would be, imm[12] where the sign is.
mk_B(op, f3, rs1, rs2, imm) ==
  mk_R(op, ((imm \div 2048) % 2) + 2 * ((imm \div 2) % 16), f3, rs1, rs2,
       ((imm \div 32) % 64) + 64 * ((imm \div 4096) % 2))
mk_U(op, rd, imm20) ==
  mk_R(op, rd, imm20 % 8, (imm20 \div 8) % 32, (imm20 \div 256) % 32, (imm20 \div 8192) % 128)
\* imm[19:12], imm[11], imm[10:1], imm[20], from the low end.
mk_J(op, rd, imm) ==
  mk_U(op, rd, ((imm \div 4096) % 256) + 256 * ((imm \div 2048) % 2)
               + 512 * ((imm \div 2) % 1024) + 524288 * ((imm \div 1048576) % 2))

---------------------------------------------------------------------------
(* Instructions.                                                           *)

e_add(rd, rs1, rs2)  == mk_R(51, rd, 0, rs1, rs2, 0)
e_sub(rd, rs1, rs2)  == mk_R(51, rd, 0, rs1, rs2, 32)
e_mul(rd, rs1, rs2)  == mk_R(51, rd, 0, rs1, rs2, 1)
e_div(rd, rs1, rs2)  == mk_R(51, rd, 4, rs1, rs2, 1)
e_rem(rd, rs1, rs2)  == mk_R(51, rd, 6, rs1, rs2, 1)
e_and(rd, rs1, rs2)  == mk_R(51, rd, 7, rs1, rs2, 0)
e_or(rd, rs1, rs2)   == mk_R(51, rd, 6, rs1, rs2, 0)
e_xor(rd, rs1, rs2)  == mk_R(51, rd, 4, rs1, rs2, 0)
e_sll(rd, rs1, rs2)  == mk_R(51, rd, 1, rs1, rs2, 0)
e_sra(rd, rs1, rs2)  == mk_R(51, rd, 5, rs1, rs2, 32)
e_srl(rd, rs1, rs2)  == mk_R(51, rd, 5, rs1, rs2, 0)
e_slt(rd, rs1, rs2)  == mk_R(51, rd, 2, rs1, rs2, 0)
e_sltu(rd, rs1, rs2) == mk_R(51, rd, 3, rs1, rs2, 0)
e_addi(rd, rs1, imm)  == mk_I(19, rd, 0, rs1, imm)
e_xori(rd, rs1, imm)  == mk_I(19, rd, 4, rs1, imm)
e_sltiu(rd, rs1, imm) == mk_I(19, rd, 3, rs1, imm)
e_slli(rd, rs1, sh) == mk_I(19, rd, 1, rs1, sh % 64)
e_srli(rd, rs1, sh) == mk_I(19, rd, 5, rs1, sh % 64)
e_ld(rd, rs1, off)  == mk_I(3, rd, 3, rs1, off)
e_sd(rs1, rs2, off) == mk_S(35, 3, rs1, rs2, off)
e_lui(rd, imm20)   == mk_U(55, rd, imm20)
e_auipc(rd, imm20) == mk_U(23, rd, imm20)
e_jal(rd, imm) == mk_J(111, rd, imm)
e_jalr(rd, rs1, imm) == mk_I(103, rd, 0, rs1, imm)
e_beq(rs1, rs2, off) == mk_B(99, 0, rs1, rs2, off)
e_bne(rs1, rs2, off) == mk_B(99, 1, rs1, rs2, off)
\* A move of a register to itself is elided.
e_mv(rd, rs) == IF rd # rs THEN e_addi(rd, rs, 0) ELSE <<>>

e_fld(fd, rs1, off)  == mk_I(7, fd, 3, rs1, off)
e_fsd(rs1, fs2, off) == mk_S(39, 3, rs1, fs2, off)
e_faddd(fd, fs1, fs2) == mk_R(83, fd, 0, fs1, fs2, 1)
e_fsubd(fd, fs1, fs2) == mk_R(83, fd, 0, fs1, fs2, 5)
e_fmuld(fd, fs1, fs2) == mk_R(83, fd, 0, fs1, fs2, 9)
e_fdivd(fd, fs1, fs2) == mk_R(83, fd, 0, fs1, fs2, 13)
e_fnegd(fd, fs) == mk_R(83, fd, 1, fs, fs, 17)
e_feqd(rd, fs1, fs2) == mk_R(83, rd, 2, fs1, fs2, 81)
e_fltd(rd, fs1, fs2) == mk_R(83, rd, 1, fs1, fs2, 81)
e_fled(rd, fs1, fs2) == mk_R(83, rd, 0, fs1, fs2, 81)
e_cvtdl(fd, rs1) == mk_R(83, fd, 0, rs1, 2, 105)
e_cvtld(rd, fs1) == mk_R(83, rd, 1, fs1, 2, 97)
e_fmvd(fd, fs) == IF fd # fs THEN mk_R(83, fd, 0, fs, fs, 17) ELSE <<>>
e_fmvdx(fd, rs1) == mk_R(83, fd, 0, rs1, 0, 121)

---------------------------------------------------------------------------
(* Constants: by ADDI, by LUI and ADDI, or in two halves through T2.       *)

\* The twenty high bits of n, one more when the twelve low ones, which ADDI
\* adds as a signed number, are negative.
\* (Mutant: no compensation.)
HighPartNot(n) == n \div 4096
HighPart(n) == (n \div 4096) + ((n \div 2048) % 2)
LowPart(rd, n) == IF n % 4096 # 0 THEN e_addi(rd, rd, n) ELSE <<>>
UpperLower(rd, n) ==
  IF HighPart(n) = 0 THEN e_addi(rd, ZERO, n) ELSE e_lui(rd, HighPart(n)) \o LowPart(rd, n)

e_li64(rd, v) ==
  LET lo32 == Lo32(v)
      hi32 == Hi32(v)
      lower == UpperLower(T2, lo32) \o e_slli(T2, T2, 32) \o e_srli(T2, T2, 32) \o e_add(rd, rd, T2)
  IN CASE Fits32(v) /\ lo32 >= -2048 /\ lo32 < 2048 -> e_addi(rd, ZERO, lo32)
       [] Fits32(v) /\ ~ (lo32 >= -2048 /\ lo32 < 2048) ->
            e_lui(rd, HighPart(lo32)) \o LowPart(rd, lo32)
       [] OTHER -> UpperLower(rd, hi32) \o e_slli(rd, rd, 32)
                   \o (IF lo32 # 0 THEN lower ELSE <<>>)
=============================================================================
