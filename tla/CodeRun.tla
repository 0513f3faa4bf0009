------------------------------ MODULE CodeRun ------------------------------
(***************************************************************************)
(* A JIR module, the machine code one of the back ends emits for it, and   *)
(* that code, byte for byte, on the machine: first the module runs, then   *)
(* x86_emit or rv_emit translates it, then the processor executes what     *)
(* they left in X->code or R->code.                                        *)
(***************************************************************************)
EXTENDS JirRun

CONSTANTS
  Programs,  \* the JIR modules compiled, a sequence
  BackEnds,  \* the back ends: "x86" and "rv"
  XGprs, XXmms, RGprs, RFprs,  \* registers handed out, of those in the pools
  MaxRegs    \* how many values of a function are in registers

VARIABLES
  target,  \* the back end at work
  mach     \* the processor, [st |-> "off"] before the code is complete

vars == <<J, emitVars, jr, taken, target, mach>>

---------------------------------------------------------------------------
(* What the register allocators return: values in distinct registers of    *)
(* their class, with the bits of the registers in the two masks.  (Two     *)
(* values that are never live together may share one: LinearScan is about  *)
(* that.)  Bound: the later value has the higher register.                 *)

XPool == <<10, 11, 3, 6, 7, 12, 13, 14, 15>>
RvPool == <<7, 28, 29, 30, 31, 5, 6, 9, 18, 19, 20, 21, 22, 23, 24, 25, 26, 27>>
RvFPool == <<2, 3, 4, 5, 6, 7, 28, 29, 30, 31, 8, 9, 18, 19, 20, 21, 22, 23, 24, 25, 26, 27>>
IndexIn(pool, r) == SelectInSeq(pool, LAMBDA x : x = r) - 1

\* The values of a function that have a live interval, and their class.
ValuesOf(fi) == {ii \in Range(CodeOf(fi)) : HasVal(ii) /\ J.insts[ii].op # "ALLOCA"}
IsFloat(ii) == Kind(J.insts[ii].type) = "FLOAT"
Assignments(fi, gprs, fprs) ==
  UNION {{f \in [s -> gprs \cup fprs] :
            /\ \A ii \in s : f[ii] \in (IF IsFloat(ii) THEN fprs ELSE gprs)
            /\ \A a, b \in s : a < b /\ IsFloat(a) = IsFloat(b) => f[a] < f[b]}
         : s \in {t \in SUBSET ValuesOf(fi) : Cardinality(t) <= MaxRegs}}
Masks(fi, f, bit(_, _), saved(_, _)) ==
  LET regs == {<<f[ii], IsFloat(ii)>> : ii \in DOMAIN f} IN
  [rmap |-> f @@ [ii \in Range(CodeOf(fi)) |-> NoReg],
   csave |-> {bit(r[1], r[2]) : r \in {x \in regs : saved(x[1], x[2])}} \cap 0 .. 15,
   csrm |-> {bit(r[1], r[2]) : r \in {x \in regs : ~ saved(x[1], x[2])}} \cap 0 .. 15]

Calls(fi) == \E ii \in Range(CodeOf(fi)) : Op(ii) \in {"CALL", "XCALL"}
\* The emitters do not save float registers over a call.
NoFloatOverCall(fi, f) == Calls(fi) => \A ii \in DOMAIN f : ~ IsFloat(ii)

XBit(r, flt) == IF flt THEN 9 + r - 2 ELSE IndexIn(XPool, r)
XSaved(r, flt) == IF flt THEN r \in {6, 7} ELSE r \in {3, 6, 7} \cup 12 .. 15
XMaps(fi) ==
  {Masks(fi, f, XBit, XSaved)
     : f \in {g \in Assignments(fi, XGprs, XXmms) : NoFloatOverCall(fi, g)}}

\* rv_emit saves other temporaries than those in use, and takes T2 for wide
\* constants and table indices.
UsesT2(fi) ==
  \E ii \in Range(CodeOf(fi)) :
    \/ Op(ii) = "GEP" /\ J.insts[ii].n_ops >= 2
    \/ Op(ii) \notin {"CALL", "BR", "BR_COND"}
       /\ \E k \in DOMAIN Ops(ii) : IsC(Ops(ii)[k]) /\ ~ Fits32(Const(Ops(ii)[k]))
RvSafe(fi, f) ==
  /\ NoFloatOverCall(fi, f)
  /\ Calls(fi) => \A ii \in DOMAIN f : f[ii] \notin {5, 6, 7} \cup 28 .. 31
  /\ UsesT2(fi) => \A ii \in DOMAIN f : ~ IsFloat(ii) => f[ii] # 7
RvBit(r, flt) == IndexIn(IF flt THEN RvFPool ELSE RvPool, r)
RvSaved(r, flt) == IF flt THEN r \in {8, 9} \cup 18 .. 27 ELSE r = 9 \/ r \in 18 .. 27
RvMaps(fi) ==
  {Masks(fi, f, RvBit, RvSaved)
     : f \in {g \in Assignments(fi, RGprs, RFprs) : RvSafe(fi, g)}}

X == INSTANCE X86Emit
R == INSTANCE RvEmit
XM == INSTANCE X86Machine
RM == INSTANCE RvMachine

---------------------------------------------------------------------------
(* The whole run.                                                          *)

Off == [st |-> "off"]
Init ==
  /\ \E k \in DOMAIN Programs : J = Programs[k]
  /\ target \in BackEnds
  /\ taken \in (IF \E ii \in DOMAIN J.insts : Op(ii) = "BR_COND" THEN BOOLEAN ELSE {TRUE})
  /\ jr = JirStart
  /\ EmitInit
  /\ mach = Off

Interpret == JirStep /\ UNCHANGED <<J, emitVars, taken, target, mach>>
Maps == IF at[1] # "frame" THEN {} ELSE IF target = "x86" THEN XMaps(at[2]) ELSE RvMaps(at[2])
Emit ==
  /\ jr.st = "returned"
  /\ IF target = "x86" THEN X!x86_emit(Maps) ELSE R!rv_emit(Maps)
  /\ UNCHANGED <<jr, taken, target, mach>>

\* The processor starts with the arguments where the convention has them.
Boot ==
  /\ at[1] = "done" /\ mach = Off
  /\ mach' = IF target = "x86" THEN XM!X86Start(fn_off[1], Inputs) ELSE RM!RvStart(fn_off[1], Inputs)
  /\ UNCHANGED <<J, emitVars, jr, taken, target>>

\* The function outside the module called by the code at an offset, or 0.
Outside(off) ==
  LET r == SelectInSeq(refs, LAMBDA x : x.kind = "xfn" /\ x.off = off)
  IN IF r = 0 THEN 0 ELSE refs[r].to
Sig(xfn) == J.xfuncs[xfn]
Execute ==
  /\ mach.st = "run"
  /\ IF target = "x86"
       THEN \E d \in {XM!X86Decode(code, mach.pc)} : mach' = XM!X86Step(mach, d, taken, Outside, Sig)
       ELSE \E d \in {RM!RvDecode(code, mach.pc)} : mach' = RM!RvStep(mach, d, taken, Outside, Sig)
  /\ UNCHANGED <<J, emitVars, jr, taken, target>>

Next == Interpret \/ Emit \/ Boot \/ Execute
\* Weak fairness of Boot and Execute, which are enabled exactly while the
\* processor has something to do and alone change its state.
Busy == at[1] = "done" /\ mach.st \in {"off", "run"}
Fairness == []<>(~ Busy) \/ []<><<TRUE>>_mach
Spec == Init /\ [][Next]_vars /\ Fairness

---------------------------------------------------------------------------
(* Properties.                                                             *)

Returned == mach.st = "returned"
IsFloatRet == Kind(J.funcs[1].ret_type) = "FLOAT"
ResultReg ==
  IF target = "x86" THEN (IF IsFloatRet THEN mach.fpr[0] ELSE mach.gpr[0])
  ELSE (IF IsFloatRet THEN mach.fpr[10] ELSE mach.gpr[10])

\* The code is bytes, and the places still to be patched are the empty
\* displacements in it.
TypeOK ==
  /\ at[1] \in {"frame", "func", "fixups", "done"}
  /\ \A k \in 1 .. Len(code) : code[k] \in Byte
  /\ \A r \in Range(refs) : r.kind \in {"blk", "fn", "xfn"} /\ r.off + 4 <= Len(code)
  /\ target = "x86" /\ at[1] # "done" =>
       \A r \in Range(refs) : SubSeq(code, r.off + 1, r.off + 4) = LE(0, 4)
  /\ mach.st \in {"off", "run", "returned", "stuck"}

\* The value in the result register when the code returns is the one the JIR
\* module computes, whatever registers its values were given: no scratch
\* register, slot, saved register or branch gets in the way of another.
CodeRight == Returned => ResultReg = jr.result

\* The processor never meets bytes that are not an instruction of the
\* emitters, jumps out of the code, divides without sign extension, or writes
\* outside the stack.
InCode == mach.st # "stuck"

\* The registers a caller counts on, and the stack pointer, are back when the
\* code returns.
Kept == IF target = "x86" THEN {3, 5, 6, 7} \cup 12 .. 15 ELSE {3, 4, 8, 9} \cup 18 .. 27
CalleeSaved ==
  Returned =>
    /\ \A r \in Kept : mach.gpr[r] = <<"init", r>>
    /\ IF target = "x86" THEN mach.gpr[4] = Stk(8) ELSE mach.gpr[2] = Stk(0)

\* The stack is aligned to sixteen bytes at every call, as both conventions
\* ask, however many registers were pushed before.
CallAligned == mach.st # "off" => mach.aligned

\* Complete code that is called returns: no branch displacement or PHI copy
\* turns a loop of the module that ends into one that does not.
Finishes == at[1] = "done" ~> Returned
=============================================================================
