----------------------------- MODULE Lowering -----------------------------
(***************************************************************************)
(* low_func and low_stmt of src/ir/jir_lower.c: the control flow of one    *)
(* procedure turned into basic blocks.  The source program is not given    *)
(* beforehand: each step picks the next statement, so the behaviours of    *)
(* this module lower every procedure within the bounds of Profiles.  A     *)
(* frame of stack is a call of low_stmt that waits for its body.           *)
(***************************************************************************)
EXTENDS Integers, Sequences, SequencesExt, FiniteSets

CONSTANTS
  NVars,    \* the scalar locals, numbered in the order of their allocas
  Preset,   \* the locals whose ITEM has an initial value
  Labels,   \* names a GOTO may mention
  Profiles, \* bounds: the statement kinds, locals, copies and size of the
            \* procedures
  MaxLoop   \* JIR_MAX_LOOP

ASSUME LoweringAssumption ==
  /\ NVars \in Nat
  /\ Preset \subseteq 1 .. NVars
  /\ Profiles \subseteq [kinds : SUBSET STRING, vars : SUBSET (1 .. NVars), stmts : Nat,
                        copies : SUBSET ((1 .. NVars) \X (1 .. NVars))]
  /\ MaxLoop \in Nat

VARIABLES
  M,       \* the module: insts and blks of jir_mod_t, both counted from 1
  cur_blk, \* the block emit appends to
  lp_exit, \* exit blocks of the loops around the statement, innermost last
  lbl,     \* map_lbl: the block of each label, 0 before it is mentioned
  stack,   \* the calls of low_stmt in progress
  left,    \* the kinds, locals, copies and number of the statements to come
  lowered  \* low_func has returned

lowVars == <<M, cur_blk, lp_exit, lbl, stack, left, lowered>>

---------------------------------------------------------------------------
(* Instructions.  An operand is an instruction index, or a constant, which *)
(* is negative (JIR_CONST_BIT).                                            *)

IsConst(v) == v < 0
MkConst(k) == 0 - k
Cond == MkConst(1)  \* conditions are opaque: either branch may be taken

Inst(o, xs) == [op |-> o, ops |-> xs]
Store(v, addr) == Inst("store", <<v, addr>>)
Load(addr) == Inst("load", <<addr>>)
Br(b) == Inst("br", <<b>>)
BrCond(t, f) == Inst("br_cond", <<Cond, t, f>>)
Terminators == {"br", "br_cond", "ret"}

\* emit of several instructions and of one, new_blk (k times), set_blk and
\* blk_term, on a module m.
EmitAll(m, b, code) ==
  [insts |-> m.insts \o code, blks |-> [m.blks EXCEPT ![b].n_inst = @ + Len(code)]]
Emit(m, b, I) == EmitAll(m, b, <<I>>)
EmptyBlk(m) == [first |-> Len(m.insts) + 1, n_inst |-> 0]
NewBlks(m, k) ==
  [insts |-> m.insts, blks |-> m.blks \o [j \in 1 .. k |-> EmptyBlk(m)]]
SetBlk(m, b) ==
  [insts |-> m.insts, blks |-> [m.blks EXCEPT ![b].first = Len(m.insts) + 1]]
LastOf(m, b) == m.insts[m.blks[b].first + m.blks[b].n_inst - 1]
BlkTerm(m, b) == m.blks[b].n_inst > 0 /\ LastOf(m, b).op \in Terminators

\* (Mutant: the block is left open.)
CloseNot(m, b, to) == m

\* The branch that ends block b unless a statement already ended it.
Close(m, b, to) == IF BlkTerm(m, b) THEN m ELSE Emit(m, b, Br(to))

---------------------------------------------------------------------------
\* low_decl: the ITEM of local v is an alloca and, when it has an initial
\* value, behind it the store of it.
Loc(v) == v + Cardinality({w \in Preset : w < v})
low_decl(k) ==
  IF \E v \in 1 .. NVars : Loc(v) = k THEN Inst("alloca", <<>>)
  ELSE LET v == CHOOSE w \in Preset : Loc(w) = k - 1 IN Store(MkConst(v + 1), k - 1)
Decls == [k \in 1 .. NVars + Cardinality(Preset) |-> low_decl(k)]

LowInit ==
  /\ M = [insts |-> Decls, blks |-> <<[first |-> 1, n_inst |-> Len(Decls)]>>]
  /\ cur_blk = 1
  /\ lp_exit = <<>>
  /\ lbl = [l \in Labels |-> 0]
  /\ stack = <<>>
  /\ left \in Profiles
  /\ lowered = FALSE

\* A statement of kind k is next in the list being lowered.  Between two
\* branches of a CASE only another branch can come.  The last statement the
\* bound allows is a RETURN, so that the procedure shows a value.
Statement(k) ==
  /\ ~ lowered
  /\ k \in left.kinds
  /\ left.stmts > IF k = "return" THEN 0 ELSE 1
  /\ stack # <<>> => Last(stack).kind # "case"
  /\ left' = [left EXCEPT !.stmts = @ - 1]
  /\ UNCHANGED lowered

Fresh == Len(M.blks) + 1
NewConst == MkConst(Len(M.insts) + 10)
Enter(b) == cur_blk' = b

Straight(m) == M' = m /\ UNCHANGED <<cur_blk, lp_exit, lbl, stack>>

Assign(v) ==
  /\ Statement("assign")
  /\ Straight(Emit(M, cur_blk, Store(NewConst, Loc(v))))

Copy(v, w) ==
  /\ Statement("copy")
  /\ Straight(Emit(Emit(M, cur_blk, Load(Loc(w))), cur_blk,
                   Store(Len(M.insts) + 1, Loc(v))))

Return(v) ==
  /\ Statement("return")
  /\ Straight(Emit(Emit(M, cur_blk, Load(Loc(v))), cur_blk,
                   Inst("ret", <<Len(M.insts) + 1>>)))

Exit ==
  /\ Statement("exit")
  /\ Straight(IF lp_exit = <<>> THEN M ELSE Emit(M, cur_blk, Br(Last(lp_exit))))

\* if.then, if.else and if.end are Fresh and the two blocks behind it.
If(hasElse) ==
  /\ Statement("if")
  /\ LET merg == Fresh + 2
         els == IF hasElse THEN Fresh + 1 ELSE merg
     IN /\ M' = SetBlk(Emit(NewBlks(M, 3), cur_blk, BrCond(Fresh, els)), Fresh)
        /\ stack' = Append(stack, [kind |-> "then", els |-> els, end |-> merg])
  /\ Enter(Fresh)
  /\ UNCHANGED <<lp_exit, lbl>>

\* lp_exit only takes MaxLoop entries; deeper loops are not recorded.
EnterLoop(x) ==
  lp_exit' = IF Len(lp_exit) < MaxLoop THEN Append(lp_exit, x) ELSE lp_exit
\* (Mutant: the loop stays on the stack.)
LeaveLoopNot == lp_exit' = lp_exit
LeaveLoop ==
  lp_exit' = IF lp_exit # <<>> THEN Front(lp_exit) ELSE lp_exit

\* wh.hdr, wh.body, wh.exit.
While ==
  /\ Statement("while")
  /\ LET hdr == Fresh
         m == SetBlk(Close(NewBlks(M, 3), cur_blk, hdr), hdr)
     IN /\ M' = SetBlk(Emit(m, hdr, BrCond(hdr + 1, hdr + 2)), hdr + 1)
        /\ stack' = Append(stack, [kind |-> "while", next |-> hdr, end |-> hdr + 2])
        /\ EnterLoop(hdr + 2)
        /\ Enter(hdr + 1)
  /\ UNCHANGED lbl

\* for.hdr, for.body, for.step, for.exit, after the store of the start value.
For(v) ==
  /\ Statement("for")
  /\ LET hdr == Fresh
         m0 == Emit(M, cur_blk, Store(NewConst, Loc(v)))
         m == SetBlk(Close(NewBlks(m0, 4), cur_blk, hdr), hdr)
     IN /\ M' = SetBlk(Emit(m, hdr, BrCond(hdr + 1, hdr + 3)), hdr + 1)
        /\ stack' = Append(stack, [kind |-> "for", next |-> hdr, end |-> hdr + 3,
                                   var |-> v])
        /\ EnterLoop(hdr + 3)
        /\ Enter(hdr + 1)
  /\ UNCHANGED lbl

\* case.end exists before the branches; each branch adds case.br, case.nxt
\* and compares its value with the selector.
Branch(m, end, frames) ==
  LET body == Len(m.blks) + 1 IN
    /\ M' = SetBlk(Emit(NewBlks(m, 2), cur_blk, BrCond(body, body + 1)), body)
    /\ stack' = Append(frames, [kind |-> "branch", next |-> body + 1, end |-> end])
    /\ Enter(body)
    /\ UNCHANGED <<lp_exit, lbl>>

Case ==
  /\ Statement("case")
  /\ Branch(NewBlks(M, 1), Fresh, stack)

---------------------------------------------------------------------------
(* The part of low_stmt that follows the body of a statement.              *)

Resume(k) ==
  /\ ~ lowered
  /\ stack # <<>>
  /\ Last(stack).kind = k
  /\ UNCHANGED <<lowered, lbl>>
Top == Last(stack)
Leave(b) == stack' = Front(stack) /\ Enter(b) /\ UNCHANGED left

ThenDone ==
  /\ Resume("then")
  /\ M' = SetBlk(Close(M, cur_blk, Top.end), Top.els)
  /\ IF Top.els = Top.end
       THEN Leave(Top.end)
       ELSE /\ stack' = Append(Front(stack), [kind |-> "else", end |-> Top.end])
            /\ Enter(Top.els)
            /\ UNCHANGED left
  /\ UNCHANGED lp_exit

ElseDone ==
  /\ Resume("else")
  /\ M' = SetBlk(Close(M, cur_blk, Top.end), Top.end)
  /\ Leave(Top.end)
  /\ UNCHANGED lp_exit

WhileDone ==
  /\ Resume("while")
  /\ M' = SetBlk(Close(M, cur_blk, Top.next), Top.end)
  /\ LeaveLoop
  /\ Leave(Top.end)

\* for.step adds the step to the loop variable and goes back to for.hdr.
ForDone ==
  /\ Resume("for")
  /\ LET step == Top.end - 1
         m == SetBlk(Close(M, cur_blk, step), step)
         n == Len(m.insts)
         code == <<Load(Loc(Top.var)), Inst("add", <<n + 1, Cond>>),
                   Store(n + 2, Loc(Top.var)), Br(Top.next)>>
     IN M' = SetBlk(EmitAll(m, step, code), Top.end)
  /\ LeaveLoop
  /\ Leave(Top.end)

BranchDone ==
  /\ Resume("branch")
  /\ M' = SetBlk(Close(M, cur_blk, Top.end), Top.next)
  /\ stack' = Append(Front(stack), [kind |-> "case", end |-> Top.end])
  /\ Enter(Top.next)
  /\ UNCHANGED <<lp_exit, left>>

NextBranch ==
  /\ Resume("case")
  /\ left.stmts > 1
  /\ Branch(M, Top.end, Front(stack))
  /\ left' = [left EXCEPT !.stmts = @ - 1]

\* DEFAULT is lowered inline in the last case.nxt.
Default ==
  /\ Resume("case")
  /\ stack' = Append(Front(stack), [kind |-> "default", end |-> Top.end])
  /\ UNCHANGED <<M, cur_blk, lp_exit, left>>

CaseDone ==
  /\ Resume("case") \/ Resume("default")
  /\ M' = SetBlk(Close(M, cur_blk, Top.end), Top.end)
  /\ Leave(Top.end)
  /\ UNCHANGED lp_exit

---------------------------------------------------------------------------
(* GOTO and labels.                                                        *)

\* map_lbl: the block of a label, made at its first mention.
Target(l) == IF lbl[l] = 0 THEN Fresh ELSE lbl[l]
\* (Mutant: the label gets no block.)
MappedNot(l) == M
Mapped(l) == IF lbl[l] = 0 THEN NewBlks(M, 1) ELSE M
Placed(l) == lbl[l] # 0 /\ (lbl[l] = cur_blk \/ M.blks[lbl[l]].n_inst > 0)

Goto(l) ==
  /\ Statement("goto")
  /\ M' = Emit(Mapped(l), cur_blk, Br(Target(l)))
  /\ lbl' = [lbl EXCEPT ![l] = Target(l)]
  /\ UNCHANGED <<cur_blk, lp_exit, stack>>

\* A source program places a label once.
Label(l) ==
  /\ Statement("label")
  /\ ~ Placed(l)
  /\ M' = SetBlk(Close(Mapped(l), cur_blk, Target(l)), Target(l))
  /\ lbl' = [lbl EXCEPT ![l] = Target(l)]
  /\ Enter(Target(l))
  /\ UNCHANGED <<lp_exit, stack>>

\* The end of low_func.  Sema has refused a GOTO to a label never placed.
Finish ==
  /\ ~ lowered
  /\ stack = <<>>
  /\ left.stmts = 0
  /\ \A l \in Labels : lbl[l] # 0 => Placed(l)
  /\ M' = IF BlkTerm(M, cur_blk) THEN M ELSE Emit(M, cur_blk, Inst("ret", <<>>))
  /\ lowered' = TRUE
  /\ UNCHANGED <<cur_blk, lp_exit, lbl, stack, left>>

low_func ==
  \/ \E v \in left.vars : Assign(v) \/ Return(v) \/ For(v)
  \/ \E c \in left.copies : Copy(c[1], c[2])
  \/ \E e \in BOOLEAN : If(e)
  \/ While \/ Case \/ Exit
  \/ \E l \in Labels : Goto(l) \/ Label(l)
  \/ ThenDone \/ ElseDone \/ WhileDone \/ ForDone
  \/ BranchDone \/ NextBranch \/ Default \/ CaseDone
  \/ Finish
=============================================================================
