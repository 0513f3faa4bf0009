------------------------------ MODULE JirRun ------------------------------
(***************************************************************************)
(* What a JIR module means, as the opcodes of src/ir/jir.h say: the        *)
(* procedure at the head of the module runs instruction by instruction, on *)
(* values that no register or stack slot holds.  A cell of memory is a     *)
(* field of an entry of an ALLOCA of one activation.                       *)
(***************************************************************************)
EXTENDS Emit, Values

VARIABLES
  jr,    \* the activation at work, those waiting for it, the memory
  taken  \* how a test of a value that is not a number comes out

Cell(depth, ii, entry, field) == <<"cell", depth, ii, entry, field>>
Depth == Len(jr.stack)

\* An activation of fi: the arguments are in the cells of its parameters.
Enter(fi, args, depth, mem) ==
  LET params == Params(fi)
      args0 == [k \in 1 .. Min({Len(params), Len(args)}) |-> args[k]]
  IN FoldLeft(LAMBDA s, k : (Cell(depth, params[k], 0, 0) :> args0[k]) @@ s, mem,
              [k \in 1 .. Len(args0) |-> k])
Inputs == [k \in 1 .. 8 |-> <<"in", k>>]
JirStart ==
  [fi |-> 1, bi |-> J.funcs[1].first_blk, ii |-> J.blks[J.funcs[1].first_blk].first,
   env |-> <<>>, mem |-> Enter(1, Inputs, 0, <<>>), stack |-> <<>>,
   st |-> "run", result |-> Junk]

Val(op) == IF IsC(op) THEN Word(Const(op)) ELSE jr.env[op[2]]
Define(v) == jr' = [jr EXCEPT !.env = (jr.ii :> v) @@ @, !.ii = @ + 1]

\* To block t: its PHIs take their operands all at once.
GoTo(t) ==
  LET from == SelectInSeq(Preds(jr.fi, t, 16), LAMBDA b : b = jr.bi)
      phis == Phis(t)
      new == IF HasPhi(t) THEN [ii \in {phis[k] : k \in 1 .. Len(phis)} |-> Val(Ops(ii)[from])]
             ELSE <<>>
  IN jr' = [jr EXCEPT !.bi = t, !.ii = J.blks[t].first + (IF HasPhi(t) THEN Len(phis) ELSE 0),
                      !.env = new @@ @]

CallOps(ii) ==
  IF J.insts[ii].n_ops = 255 THEN SubSeq(J.extra, Ops(ii)[1], Ops(ii)[1] + Ops(ii)[2] - 1)
  ELSE Ops(ii)
CallArgs(ii) == [a \in 1 .. Len(CallOps(ii)) - 1 |-> Val(CallOps(ii)[a + 1])]

Pure(ii) ==
  LET o == Ops(ii)
      I == J.insts[ii]
  IN CASE I.op \in {"ADD", "SUB", "MUL", "DIV", "MOD", "AND", "OR", "XOR", "SHL",
                    "FADD", "FSUB", "FMUL", "FDIV"} -> Alu(I.op, Val(o[1]), Val(o[2]))
       [] I.op = "SHR" ->
            Alu(IF Kind(I.type) \in {"UNSIGN", "BIT"} THEN "SHR" ELSE "SAR", Val(o[1]), Val(o[2]))
       [] I.op = "NEG" -> Sub(Zero, Val(o[1]))
       [] I.op = "NOT" -> Alu("XOR", Val(o[1]), Num(-1))
       [] I.op \in {"FNEG", "SITOFP", "FPTOSI"} -> <<I.op, Val(o[1])>>
       [] I.op \in {"SEXT", "ZEXT", "TRUNC", "FPEXT", "FPTRUNC"} -> Val(o[1])
       [] I.op = "ICMP" -> Compare(I.subop, Val(o[1]), Val(o[2]))
       [] I.op = "FCMP" -> FCompare(I.subop, Val(o[1]), Val(o[2]))
       [] I.op = "ALLOCA" -> Cell(Depth, ii, 0, 0)
       [] I.op = "LOAD" -> IF Val(o[1]) \in DOMAIN jr.mem THEN jr.mem[Val(o[1])] ELSE Junk
       [] I.op = "GEP" /\ I.n_ops >= 2 -> [Val(o[1]) EXCEPT ![4] = Lo32(Val(o[2])[2])]
       [] I.op = "GEP" /\ I.n_ops < 2 -> [Val(o[1]) EXCEPT ![5] = I.subop]
       [] I.op = "XCALL" -> Result(Lo32(Const(o[1])), CallArgs(ii))

\* One instruction.
JirStep ==
  /\ jr.st = "run"
  /\ LET I == J.insts[jr.ii] IN
     CASE I.op = "NOP" -> jr' = [jr EXCEPT !.ii = @ + 1]
       [] I.op = "STORE" ->
            jr' = [jr EXCEPT !.mem = (Val(I.ops[2]) :> Val(I.ops[1])) @@ @, !.ii = @ + 1]
       [] I.op = "BR" -> GoTo(I.ops[1])
       [] I.op = "BR_COND" ->
            GoTo(IF (IF IsNum(Val(I.ops[1])) THEN Val(I.ops[1]) # Zero ELSE taken)
                   THEN I.ops[2] ELSE I.ops[3])
       [] I.op = "CALL" ->
            LET fi == CallOps(jr.ii)[1][2]
                first == J.funcs[fi].first_blk
            IN jr' = [jr EXCEPT !.fi = fi, !.bi = first, !.ii = J.blks[first].first,
                                !.mem = Enter(fi, CallArgs(jr.ii), Depth + 1, @),
                                !.stack = Append(@, jr)]
       [] I.op = "RET" /\ jr.stack # <<>> ->
            LET back == Last(jr.stack)
                v == IF I.n_ops > 0 THEN Val(I.ops[1]) ELSE Junk
            IN jr' = [back EXCEPT !.env = (back.ii :> v) @@ @, !.ii = @ + 1, !.mem = jr.mem]
       [] I.op = "RET" /\ jr.stack = <<>> ->
            jr' = [jr EXCEPT !.st = "returned",
                             !.result = IF I.n_ops > 0 THEN Val(I.ops[1]) ELSE Junk]
       [] OTHER -> Define(Pure(jr.ii))
=============================================================================
