----------------------------- MODULE MCCodeRun -----------------------------
(* Small JIR modules of the shapes jir_lower and jir_m2r make: every        *)
(* opcode, the constants at the limits of the encodings, the four ways a    *)
(* conditional branch meets PHIs, tables, and calls.                        *)
EXTENDS CodeRun

V(k) == <<"v", k>>
C(k) == <<"c", k>>

INT == 1
FLT == 2
UNS == 3
TAB == 4
BIG == 5
Type(kind, n, lo, hi) == [kind |-> kind, n_extra |-> n, lo |-> lo, hi |-> hi]
Types == <<Type("SIGNED", 0, 0, 0), Type("FLOAT", 0, 0, 0), Type("UNSIGN", 0, 0, 0),
           Type("TABLE", 2, 0, 1), Type("TABLE", 1, 1, 236)>>

\* 1 .. 7 fit an instruction of one of the machines and not the other, or
\* just do not; 8 .. 12 are wider than 32 bits; then small numbers.
ConstWords ==
  <<W64(2047), W64(2048), W64(-2048), W64(-2049), W64(4096), W64(2147481599),
    W64(-2147483647 - 1),
    <<0, 0, 0, 128, 0, 0, 0, 0>>, <<255, 255, 255, 255, 0, 0, 0, 0>>,
    <<255, 255, 255, 127, 255, 255, 255, 255>>, <<240, 222, 188, 154, 120, 86, 52, 18>>,
    <<0, 8, 0, 0, 255, 7, 0, 128>>,
    W64(0), W64(1), W64(2), W64(3), W64(236)>>
CZero == C(13)
COne == C(14)
CTwo == C(15)
CThree == C(16)
CLast == C(17)
CFlt == C(18)
Consts == [k \in 1 .. 17 |-> [kind |-> "INT", iv |-> ConstWords[k]]]
          \o <<[kind |-> "FLT", iv |-> <<0, 0, 0, 0, 0, 0, 248, 63>>]>>

I(op, type, ops) == [op |-> op, type |-> type, subop |-> 0, n_ops |-> Len(ops), ops |-> ops]
Sub2(op, subop, type, ops) == [I(op, type, ops) EXCEPT !.subop = subop]
Alloca(type) == I("ALLOCA", type, <<>>)
Load(type, k) == I("LOAD", type, <<V(k)>>)
Ret(type, k) == I("RET", type, <<V(k)>>)

\* A function is [n_params, ret, body], its body a sequence of blocks.
Fn(n_params, ret, body) == [n_params |-> n_params, ret |-> ret, body |-> body]
Before(seq, k) == FoldLeft(LAMBDA n, s : n + Len(s), 0, SubSeq(seq, 1, k - 1))
ModuleX(fns, extra) ==
  LET bodies == FlattenSeq([k \in 1 .. Len(fns) |-> fns[k].body]) IN
  [insts |-> FlattenSeq(bodies),
   blks |-> [b \in 1 .. Len(bodies) |-> [first |-> 1 + Before(bodies, b), n_inst |-> Len(bodies[b])]],
   funcs |-> [k \in 1 .. Len(fns) |->
                [first_blk |-> 1 + Before([j \in 1 .. Len(fns) |-> fns[j].body], k),
                 n_blks |-> Len(fns[k].body), n_params |-> fns[k].n_params,
                 ret_type |-> fns[k].ret]],
   consts |-> Consts, extra |-> extra, types |-> Types,
   xfuncs |-> <<[args |-> <<"INT", "FLOAT", "INT">>, ret |-> "FLOAT"],
                [args |-> <<"INT">>, ret |-> "INT"]>>]
Module(fns) == ModuleX(fns, <<>>)
Straight(n_params, ret, insts) == Module(<<Fn(n_params, ret, <<insts>>)>>)

\* Two parameters, one operation, and an operand used after it.
Binary(op, type) ==
  Straight(2, INT,
    <<Alloca(INT), Alloca(INT), Load(INT, 1), Load(INT, 2),
      I(op, type, <<V(3), V(4)>>), I("SUB", INT, <<V(4), V(5)>>), Ret(INT, 6)>>)
Icmp(pred) ==
  Straight(2, INT,
    <<Alloca(INT), Alloca(INT), Load(INT, 1), Load(INT, 2),
      Sub2("ICMP", pred, INT, <<V(3), V(4)>>), Ret(INT, 5)>>)
Unary ==
  Straight(1, INT,
    <<Alloca(INT), Load(INT, 1), I("NEG", INT, <<V(2)>>), I("NOT", INT, <<V(3)>>),
      I("SEXT", INT, <<V(4)>>), I("XOR", INT, <<V(5), V(2)>>), Ret(INT, 6)>>)
Float(op) ==
  Straight(1, FLT,
    <<Alloca(INT), Alloca(FLT), Load(INT, 1), I("SITOFP", FLT, <<V(3)>>),
      I("STORE", 0, <<V(4), V(2)>>), I(op, FLT, <<V(4), CFlt>>), Load(FLT, 2),
      I("FSUB", FLT, <<V(6), V(7)>>), Ret(FLT, 8)>>)
FloatUnary ==
  Straight(1, INT,
    <<Alloca(INT), Load(INT, 1), I("SITOFP", FLT, <<V(2)>>), I("FNEG", FLT, <<V(3)>>),
      I("FPEXT", FLT, <<V(4)>>), I("FADD", FLT, <<V(5), V(3)>>), I("FPTOSI", INT, <<V(6)>>),
      I("NOP", 0, <<>>), Ret(INT, 7)>>)
Fcmp(pred) ==
  Straight(1, INT,
    <<Alloca(INT), Load(INT, 1), I("SITOFP", FLT, <<V(2)>>),
      Sub2("FCMP", pred, INT, <<V(3), CFlt>>), I("ADD", INT, <<V(4), V(2)>>), Ret(INT, 5)>>)
Constant(k) ==
  Straight(1, INT,
    <<Alloca(INT), Load(INT, 1), I("ADD", INT, <<V(2), C(k)>>), I("XOR", INT, <<V(3), V(2)>>),
      Ret(INT, 4)>>)

\* Both entries of a table between two scalars, and a field of the first.
Table ==
  Straight(1, INT,
    <<Alloca(INT), Alloca(TAB), Alloca(INT), Load(INT, 1), I("STORE", 0, <<V(4), V(3)>>),
      I("GEP", TAB, <<V(2), CZero>>), Sub2("GEP", 1, INT, <<V(6)>>), I("STORE", 0, <<V(4), V(7)>>),
      I("GEP", TAB, <<V(2), COne>>), I("STORE", 0, <<COne, V(9)>>),
      Load(INT, 7), Load(INT, 3), I("ADD", INT, <<V(11), V(12)>>), Ret(INT, 13)>>)
\* The largest frame an ADDI spans: its first and last entry.
Big ==
  Straight(1, INT,
    <<Alloca(INT), Alloca(BIG), Load(INT, 1), I("GEP", BIG, <<V(2), COne>>),
      I("STORE", 0, <<V(3), V(4)>>), I("GEP", BIG, <<V(2), CLast>>), I("STORE", 0, <<COne, V(6)>>),
      Load(INT, 4), Load(INT, 1), I("SUB", INT, <<V(8), V(9)>>), Ret(INT, 10)>>)

\* Branches to blocks with and without PHIs.
BrCond(k, t, f) == I("BR_COND", 0, <<V(k), t, f>>)
Test(t, f) == <<Alloca(INT), Alloca(INT), Load(INT, 1), Load(INT, 2), BrCond(3, t, f)>>
Diamond ==
  Module(<<Fn(2, INT,
    <<Test(2, 3),
      <<I("ADD", INT, <<V(3), COne>>), I("BR", 0, <<4>>)>>,
      <<I("SUB", INT, <<V(4), COne>>), I("BR", 0, <<4>>)>>,
      <<I("PHI", INT, <<V(6), V(8)>>), I("PHI", INT, <<V(4), CThree>>),
        I("SUB", INT, <<V(10), V(11)>>), Ret(INT, 12)>>>>)>>)
Triangle(onTrue) ==
  Module(<<Fn(2, INT,
    <<IF onTrue THEN Test(3, 2) ELSE Test(2, 3),
      <<I("ADD", INT, <<V(3), COne>>), I("BR", 0, <<3>>)>>,
      <<I("PHI", INT, <<V(4), V(6)>>), I("SUB", INT, <<V(8), V(3)>>), Ret(INT, 9)>>>>)>>)
\* Both targets have PHIs: a loop that counts to two, or is passed by.
Loop ==
  Module(<<Fn(2, INT,
    <<Test(2, 3),
      <<I("PHI", INT, <<CZero, V(8)>>), I("PHI", INT, <<V(3), V(9)>>),
        I("ADD", INT, <<V(6), COne>>), I("SUB", INT, <<V(7), V(4)>>),
        Sub2("ICMP", "LT", INT, <<V(8), CTwo>>), BrCond(10, 2, 3)>>,
      <<I("PHI", INT, <<V(4), V(9)>>), Ret(INT, 12)>>>>)>>)

\* Calls inside the module, inline and through the extra pool, and outside.
Call ==
  Module(<<Fn(1, INT, <<<<Alloca(INT), Load(INT, 1), I("CALL", INT, <<C(2), V(2), CTwo>>),
                          I("SUB", INT, <<V(3), V(2)>>), Ret(INT, 4)>>>>),
           Fn(2, INT, <<<<Alloca(INT), Alloca(INT), Load(INT, 6), Load(INT, 7),
                          I("SUB", INT, <<V(8), V(9)>>), Ret(INT, 10)>>>>)>>)
CallMany ==
  ModuleX(<<Fn(1, INT, <<<<Alloca(INT), Load(INT, 1),
                           [I("CALL", INT, <<2, 5>>) EXCEPT !.n_ops = 255],
                           I("SUB", INT, <<V(3), V(2)>>), Ret(INT, 4)>>>>),
            Fn(4, 0, <<<<Alloca(INT), Alloca(INT), Alloca(INT), Alloca(INT),
                         Load(INT, 7), Load(INT, 9), I("SUB", INT, <<V(10), V(11)>>),
                         Ret(INT, 12)>>>>)>>,
          <<CZero, C(2), COne, V(2), CTwo, CThree>>)
CallOut ==
  Straight(1, INT,
    <<Alloca(INT), Load(INT, 1), I("SITOFP", FLT, <<V(2)>>),
      I("XCALL", FLT, <<COne, V(2), CFlt, CThree>>), I("FADD", FLT, <<V(4), V(3)>>),
      I("FPTOSI", INT, <<V(5)>>), I("XCALL", INT, <<CTwo, V(6)>>),
      I("XOR", INT, <<V(7), V(2)>>), Ret(INT, 8)>>)

Preds6 == <<"EQ", "NE", "LT", "LE", "GT", "GE">>
BinOps == <<"ADD", "SUB", "MUL", "DIV", "MOD", "AND", "OR", "XOR", "SHL", "SHR">>
FltOps == <<"FADD", "FSUB", "FMUL", "FDIV">>
MCPrograms ==
  [k \in 1 .. 10 |-> Binary(BinOps[k], INT)] \o <<Binary("SHR", UNS)>>
  \o [k \in 1 .. 6 |-> Icmp(Preds6[k])] \o <<Unary, FloatUnary>>
  \o [k \in 1 .. 4 |-> Float(FltOps[k])] \o [k \in 1 .. 6 |-> Fcmp(Preds6[k])]
  \o [k \in 1 .. 12 |-> Constant(k)]
  \o <<Table, Big>>
  \o <<Diamond, Triangle(TRUE), Triangle(FALSE), Loop>>
  \o <<Call, CallMany, CallOut>>
=============================================================================
