------------------------------- MODULE Emit -------------------------------
(***************************************************************************)
(* What the two code generators have in common: the JIR module they read,  *)
(* the code they append to, the places in it still to be patched, and the  *)
(* stack frame and registers of the function at work.                      *)
(*                                                                         *)
(* Operands are <<"v", ii>>, the value of instruction ii, or <<"c", ci>>,  *)
(* constant ci.  Instructions, blocks, functions and constants count from  *)
(* 1; offsets into the code count from 0.                                  *)
(***************************************************************************)
EXTENDS Bytes, FiniteSets, FiniteSetsExt

VARIABLES
  J,        \* the module: insts, blks, funcs, consts, extra, types
  code,     \* the bytes so far
  refs,     \* fix, cfx and xfx: places to patch, [off, kind, to]
  blk_off,  \* offset of each block emitted
  fn_off,   \* offset of each function emitted
  rmap,     \* the register of each value of this function, or -1
  csave,    \* callee-saved registers in use, as a set of bits
  csrm,     \* caller-saved registers in use, as a set of bits
  frame,    \* [slots, scratch, frmsz] of this function
  at        \* <<next step, function>>

emitVars == <<code, refs, blk_off, fn_off, rmap, csave, csrm, frame, at>>

NoReg == -1

---------------------------------------------------------------------------
(* The module.                                                             *)

BlocksOf(fi) ==
  [k \in 1 .. J.funcs[fi].n_blks |-> J.funcs[fi].first_blk + k - 1]
InstsOf(bi) == [k \in 1 .. J.blks[bi].n_inst |-> J.blks[bi].first + k - 1]
CodeOf(fi) == FlattenSeq([k \in 1 .. J.funcs[fi].n_blks |-> InstsOf(BlocksOf(fi)[k])])
Op(ii) == J.insts[ii].op
Ops(ii) == J.insts[ii].ops
LastOf(bi) == J.blks[bi].first + J.blks[bi].n_inst - 1

IsC(op) == op[1] = "c"
Const(op) == J.consts[op[2]].iv
Kind(type) == IF type \in DOMAIN J.types THEN J.types[type].kind ELSE "NONE"
IsAlloca(op) == ~ IsC(op) /\ Op(op[2]) = "ALLOCA"

\* Table geometry: eight bytes a field, no packing.
Row(type) == IF type \in DOMAIN J.types THEN 8 * (IF J.types[type].n_extra < 1 THEN 1
                                                  ELSE J.types[type].n_extra) ELSE 8
Cnt(type) == LET n == J.types[type].hi - J.types[type].lo + 1 IN IF n < 1 THEN 1 ELSE n

\* Every instruction with a result has a slot, a table as many as it fills.
HasVal(ii) == Op(ii) \notin {"STORE", "BR", "BR_COND", "RET", "NOP"}
Words(ii) ==
  CASE ~ HasVal(ii) -> 0
    [] Op(ii) = "ALLOCA" /\ Kind(J.insts[ii].type) = "TABLE" ->
         (Row(J.insts[ii].type) * Cnt(J.insts[ii].type)) \div 8
    [] OTHER -> 1
NSlots(fi) == FoldLeft(LAMBDA n, ii : n + Words(ii), 0, CodeOf(fi))
Slots(fi) ==
  FoldLeft(LAMBDA s, ii : [n |-> s.n + Words(ii), of |-> s.of @@ (ii :> -8 * (s.n + Words(ii)))],
           [n |-> 0, of |-> <<>>], CodeOf(fi)).of
RoundUp16(n) == ((n + 15) \div 16) * 16

\* The parameters: the first n_params ALLOCAs of the entry block.
Params(fi) ==
  LET allocas == SelectSeq(InstsOf(J.funcs[fi].first_blk), LAMBDA ii : Op(ii) = "ALLOCA")
  IN SubSeq(allocas, 1, Min({J.funcs[fi].n_params, Len(allocas)}))

\* Whether a block begins with PHIs, and its PHIs.
HasPhi(bi) == J.blks[bi].n_inst # 0 /\ Op(J.blks[bi].first) = "PHI"
Phis(bi) ==
  LET insts == InstsOf(bi)
      stop == SelectInSeq(insts, LAMBDA ii : Op(ii) # "PHI")
  IN IF stop = 0 THEN insts ELSE SubSeq(insts, 1, stop - 1)

\* The branches into each block of a function, at most max of them, in block
\* order.
Targets(bi) ==
  IF J.blks[bi].n_inst = 0 THEN <<>>
  ELSE CASE Op(LastOf(bi)) = "BR" -> <<Ops(LastOf(bi))[1]>>
         [] Op(LastOf(bi)) = "BR_COND" -> <<Ops(LastOf(bi))[2], Ops(LastOf(bi))[3]>>
         [] OTHER -> <<>>
Preds(fi, to, max) ==
  LET edges == FlattenSeq([k \in 1 .. J.funcs[fi].n_blks |->
                 LET b == BlocksOf(fi)[k] IN
                 [t \in 1 .. Len(SelectSeq(Targets(b), LAMBDA x : x = to)) |-> b]])
  IN SubSeq(edges, 1, Min({max, Len(edges)}))

---------------------------------------------------------------------------
(* Code under construction: bytes, with the places in them to patch.       *)

Plain(bytes) == [b |-> bytes, refs |-> <<>>]
Cat(parts) ==
  FoldLeft(LAMBDA s, p :
             [b |-> s.b \o p.b,
              refs |-> s.refs \o [k \in 1 .. Len(p.refs) |->
                                   [p.refs[k] EXCEPT !.off = @ + Len(s.b)]]],
           Plain(<<>>), parts)

\* The code of every block of a function, after its prologue.
WithBlocks(start, fi, Block(_)) ==
  FoldLeft(LAMBDA s, bi : [out |-> Cat(<<s.out, Block(bi)>>),
                           off |-> s.off @@ (bi :> Len(code) + Len(s.out.b))],
           [out |-> start, off |-> <<>>], BlocksOf(fi))

\* Appends the code of function fi.
Append1(fi, w) ==
  /\ code' = code \o w.out.b
  /\ refs' = refs \o [k \in 1 .. Len(w.out.refs) |->
                        [w.out.refs[k] EXCEPT !.off = @ + Len(code)]]
  /\ blk_off' = w.off @@ blk_off
  /\ fn_off' = Append(fn_off, Len(code))

\* The offset a place refers to.
Goal(r) == IF r.kind = "blk" THEN blk_off[r.to] ELSE fn_off[r.to]
Resolved == SelectSeq(refs, LAMBDA r :
              \/ r.kind = "blk" /\ r.to \in DOMAIN blk_off
              \/ r.kind = "fn" /\ r.to \in DOMAIN fn_off)
\* The code with the bytes from off on replaced.
Patched(c, off, bytes) ==
  [k \in 1 .. Len(c) |-> IF k - off \in 1 .. Len(bytes) THEN bytes[k - off] ELSE c[k]]

EmitInit ==
  /\ code = <<>> /\ refs = <<>> /\ blk_off = <<>> /\ fn_off = <<>>
  /\ rmap = <<>> /\ csave = {} /\ csrm = {}
  /\ frame = [slots |-> <<>>, scratch |-> 0, frmsz |-> 0]
  /\ at = <<"frame", 1>>
=============================================================================
