# A TLA+ verification project for Skyhawk

Skyhawk is a JOVIAL J73 compiler in C: a lexer, a parser, semantic analysis, a
flat-array SSA IR, register allocation by linear scan and two back ends. It is a
sequential program. What is hard about it is not concurrency but long chains of
passes over shared flat arrays, each relying on what the one before left there:
indices that must still name the same thing, lists that must agree with each
other, fixed-size tables that degrade without an error. The TLA+ modules here
model those passes from the source, TLC checks them on all small inputs, and
TLAPS proves what can be proved for every input.

## The system

| Component | State | Operations | Talks to | What makes it correct |
|---|---|---|---|---|
| `fe/lexer.c` | token array | one scan | parser | - |
| `fe/parser.c` | node pool, error list | recursive descent, recovery to `;` | sema, lowering | every node's children well-formed |
| `fe/sema.c` | symbol, type, STATUS, TABLE and label tables | two passes over the tree | lowering, COMPOOL, layout | names resolve in scope, labels defined |
| `fe/layout.c` | cursor (byte, bit) | `lay_tabl` per TABLE | lowering (GEP), COMPOOL writer | fields do not overlap and fit the entry |
| `cpl/*.c` | the same tables as sema, a file | `cpl_write`, `cpl_read` | sema | an import means what was exported |
| `ir/jir_lower.c` | `insts`, `blks`, `lp_exit`, `lbl`, `loc` | `low_stmt` per statement, `low_func` | mem2reg | every block closed once, jumps to the right block |
| `ir/jir_mem2reg.c` | `g_pred`, `g_rpo`, `g_idom`, `g_dfbuf`, `g_phi`, rename stacks | eight passes | allocators, emitters | the procedure still computes the same |
| `x86/x86_ra.c`, `rv/rv_ra.c` | `g_iv`, `g_act`, free stacks, masks | `cmp_iv`, `srt_iv`, `ra_scan` | emitters (`rmap`, masks) | no register shared by live values; masks complete |
| `x86/x86_emit.c`, `rv/rv_emit.c` | `code`, `slots`, `blk_off`, `fn_off`, fixup tables, `rmap` and masks | one case per opcode, prologue, call saves, PHI copies, fixups | object writers | the bytes compute what the IR says; callers' registers survive |
| `x86/x86_coff.c`, `rv/rv_elf.c` | byte buffer | one write | linker | - |
| `rt/skrt.c` | 16 file handles | open, close, read, write | the compiled program | a handle names one open file |
| `main.c` | - | the stages in order, stop at the first failure | all | - |

Behaviours that are hard to test, with their lines, are the `hazards` of
`PROJECT.json`. There are no threads, messages, crashes or timeouts in this
code; the hazards are stale indices, order of processing, limits of tables,
files cut short and long legal sequences.

## Modules

    RegAlloc            what any register allocator here promises
       ^ refined by
    LinearScan          srt_iv, exp_old, act_ins, spl_at, ra_scan (both back ends)
       ^ extended by    LinearScanProofs, MCLinearScan, MCLinearScanRV

    Lowering            low_func / low_stmt: statements to basic blocks
       ^ extended by
    Mem2Reg             jir_m2r: mk_cfg, fnd_prm, mk_rpo, cmp_dom, cmp_df, ins_phi, ren_var, rewrite
       ^ extended by
    SsaRun              both versions of the procedure executed side by side, with phi_cpy
       ^ extended by    LoweringProofs, MCSsaRun
    Mem2RegProofs       proofs about mk_cfg, mk_rpo, cmp_dom and cmp_df, on top of LoweringProofs
    RenameProofs        proofs about ins_phi, ren_var and rewrite, on top of Mem2RegProofs
    PromotionProofs     proofs that both versions return the same, on top of RenameProofs
    RegRun              SsaRun and LinearScan composed: cmp_iv, the scan, the procedure in registers
       ^ extended by    MCRegRun

    Bytes               64-bit words and immediates as bytes
    Emit                what both emitters share: slots, predecessors, the code buffer, fixups
       ^ extended by    X86Code, X86Emit and RvCode, RvEmit: the encoders and em_inst of each back end
    Values, JirRun      symbolic values; the meaning of the JIR
    X86Machine, RvMachine   the processors: instructions decoded from bytes and executed
       ^ composed by
    CodeRun             a JIR module run, compiled and run again
       ^ extended by    MCCodeRun

    Sema                the tables of sema.c and the declaration pass
       ^ extended by
    Compool             cpl_write and cpl_read
       ^ extended by
    Build               COMPOOL units and a program, one after the other (main.c)
       ^ extended by    BuildProofs, BuildPromise
    BuildPromise        what tables and files mean, and that Build implements Units
       ^ extended by    MCBuild
    Units               what importing promises; refined by Build

    Layout              lay_tabl: the place of every field of a TABLE
       ^ extended by    LayoutProofs, MCLayout

    ProofBasics         sequences, induction and recursive functions for the proofs

### RegAlloc and LinearScan

`LinearScan` starts from the interval table that `cmp_iv` leaves in `g_iv`
(`iv`, with the `reg` field apart in `reg`) and takes one action per iteration of
a loop of the code: `srt_iv` inserts one entry, `StartScan` is the head of
`ra_scan`, `exp_old` expires one active interval, `TakeFree` and `spl_at` are the
two arms of the loop, `Finish` ends it. `act` is `g_act`, `free` the two stacks
`g_gfr` and `g_xfr`, `csave` and `csrm` the masks as sets of bits, cut at
`MaskWidth` as the conversion to `uint16_t` cuts them. `act_ins` keeps its guard
(`ActMax`) and `exp_old` its (the stack is full). The two back ends differ only
in constants: `Pool`, `CalleeSaved`, `BitBase`, `ActMax`.

`RegAlloc` is the promise without the heuristics: intervals are placed one at a
time, no register is shared by two overlapping intervals of a class, a placed
interval may lose its register only to the newcomer, and placing goes on until
all have a home. `LinearScan` implements it (`KeepsPromise`), with `rmap` as the
home, and with its fairness: weak fairness of `Next` is all the code's
sequential loop needs, since nothing else runs.

### Lowering, Mem2Reg, SsaRun

`Lowering` does not read a program: each step chooses the next statement, so its
behaviours lower *every* procedure within a profile (the kinds of statements,
the locals and the number of statements). `M` is the `jir_mod_t` (`insts`,
`blks`), `stack` holds the calls of `low_stmt` that wait for their body, and each
`...Done` action is what the code does after the body. Block numbers, the order
in which blocks are made, `set_blk` resetting `first`, and the `blk_term` guard
on every closing branch are those of the code, because mem2reg's results depend
on them.

`Mem2Reg` is one action per pass on the blocks just lowered. Arrays are kept as
arrays where the layout matters: the frontier buffer with its offsets and
counts, PHI operand slots, predecessors in edge order, instruction indices
after `rewrite`. Numbering starts from 1 instead of 0. The loops of `mk_cfg`,
`mk_rpo` and `cmp_dom` are recursive functions over the number of the iteration
(`Keep`, `Iterate`, `NewIdom`, `Sweep`), because `SelectSeq` and folds give the
provers nothing to expand.

`SsaRun` then runs the procedure as it was and as it is, both taking the same
branches (conditions are opaque: each may go either way). PHI copies are those
of `phi_cpy`: one after another, on the edge. Values are tokens: each assignment
stores its own constant. Each instruction's value sits in a place (`loc`), here
a place of its own.

### RegRun

`RegRun` carries the promoted procedure through the allocator and runs it again.
`cmp_iv` is one action: program points in block order (`cmp_pp`), an interval
per value, extended at each use (`Used`), at the end of the predecessor for PHI
operands (`PhiOperand`) and, on x86 only, to the end of the procedure for values
carried by a PHI around a loop (`PhiOperand`, `PhiResult`). `target` is the back
end; `Allocate` takes the steps of `LinearScan`, instantiated as `RA` on the same
variables; `Emitted` gives each value its register or its slot as `ld_val` and
`st_val` do and starts the run, which is that of `SsaRun` with values that now
share places. Liveness by definition (`LiveOut`, `LivePoints`) is stated beside
it: a value is live from its definition to each read on every path, and to the
end of a predecessor when a PHI takes it from there.

### Emit, X86Emit, RvEmit and CodeRun

`CodeRun` compiles a small JIR module to bytes and runs the bytes. `JirRun`
first runs the module itself, one instruction per step, as `jir.h` names them.
Then `X86Emit` or `RvEmit` takes the steps of `x86_emit` or `rv_emit`: for each
function `em_frame` (slots, frame size, predecessors, and the allocator's
answer), `em_func` (prologue, parameters, one `em_block` per block, each
instruction by `em_inst`), and at the end `fixups`. `em_arith` .. `em_conv` are
the cases of the switch in `em_inst`; `ld_val`, `st_val`, `phi_cpy`, `sv_call`
and the others keep their names. `X86Code` and `RvCode` are the encoders, byte
for byte; their operators have the names of the C functions and answer the bytes
appended. `refs` holds the three fixup tables of the code in one, with what kind
of target each entry has.

`X86Machine` and `RvMachine` are not the code's: they decode the bytes at `pc`
by the manuals and execute them, for the instructions the emitters use. Anything
else stops the processor (`stuck`). Registers hold symbolic values (`Values`):
numbers as eight bytes, addresses in the stack, and terms such as
`<<"SUB", a, b>>` over the inputs, built by the JIR and by the machine in the
same way, so that a result is right for all inputs at once. A test of a value
that is no number is answered by `taken`, the same for both runs. What a
register holds after a call outside is `Junk` unless the convention keeps it.
`Fairness` is weak fairness of `Boot` and `Execute`: the processor goes on while
it has an instruction to execute, as nothing else runs.

The allocator's answer is not computed here but chosen: any set of at most
`MaxRegs` values, in distinct registers of their class from those given, with
the masks `rv_ra` and `x86_ra` would return. `LinearScan` says which answers
come; this module says that the emitters are right for them all.

### Sema, Compool, Build and Units

`Sema` keeps of `sema_ctx_t` the tables that COMPOOLs are about: interned types,
STATUS and TABLE definitions, symbols and scopes, each with its `SM_MAX_*` limit
and what the code does when it is reached. A table is a sequence, an index is an
index. `col_item` .. `col_decl` are the declaration pass over the nodes in the
order in which `col_decl` visits them: the recursion through a BLOCK is a node that
opens its scope (`push_scp`), the declarations inside, and one that closes it
(`pop_scp`), so that a BLOCK nested deeper than `SM_MAX_SCOPES` opens no scope and
its end closes that of another, as in the code. A type is so many POINTERs to a
base (`res_base`). `Compool` writes the tables to a file and reads one:
`cpl_read_step` reads a STATUS definition, a TABLE, a type, which it interns with
its indices renamed, or a symbol, checks for the end of the file where the code
does, and leaves in the tables what it has read when it fails. `Build` is the
driver: each unit starts with empty tables, imports files of earlier units in
some order, collects its declarations one per step, and is written or, as the
last, compiled; an error (an unknown name, a full table of definitions, an OVERLAY
wider than the field before it, a constant that is none) stops the build. `Open` chooses how much of the file is
there: `cpl_write` looks at no result of `fwrite`. `Nodes` is what the parser hands
over, the units `Sources` and the orders of imports are constants.

`Units` is the abstract specification: a unit is a map from names to meanings,
without tables, indices or files. Importing takes the exporter's meanings,
later imports before earlier ones; declaring binds a name; publishing hands on
what is exportable. `Build` implements it (`KeepsPromise` in `BuildPromise`):
`Denote` follows the indices from a name to its meaning, and every step of the
reader that has not finished an import is a stutter. Two things the code loses are part of the
promise as it stands: how fields are placed (`Flat`: OVERLAY, POS and WORDSIZE
do not come through a file), and, once a table is full, any meaning may be lost
but never replaced by another (`LossOf`). A declaration that BLOCK or PROC scopes
hide again binds nothing.

### Layout

`Layout` lays out one field per action, as one iteration of the loop of
`lay_tabl` does: `Overlay`, `Pos`, `Wide` (a word or more) and `Small` are its
four ways through the body, `Finish` computes `total_bytes`. The place of the
next field is `cur_byte`, the first byte of the current word, with `cur_bit` in
the word. Which field comes next is free, so the behaviours are all tables; an
overlay is laid out only if it passes the width check of `sema.c`, which counts
characters where `fld_bits` counts bits. A field's `by` says which way it was
placed; the code does not keep it, the properties need it.

## Runs

| Run | Expect | Question and bounds |
|---|---|---|
| `alloc_small` | pass | Every table of 0..3 intervals in 3 program points with both classes, and of 4 intervals in 4 points of one class; pools of two and one registers. Four intervals over two registers reach expiry, theft and spill of the newcomer, in each order; `ActMax` = 3 is the size of both pools, as 16 >= 15 is for x86. |
| `alloc_rv_masks` | violation | The RISC-V pools, 17 general intervals live together. |
| `m2r_promotion` | pass | All procedures of three statements of all ten kinds over a parameter and a preset local, and of four statements of five selections of kinds. Also five statements of WHILE, GOTO, a label and RETURN, the fewest that make a loop with two entries whose second sweep changes the dominator tree; these only up to `cmp_dom` (`UpToDominators`), which is the pass they are for. All limits of the code have their real values (64 loops, 8 predecessors, 8 children, 4 operand slots). |
| `m2r_frontiers` | violation | A loop of five statements left by EXIT. |
| `m2r_in_place` | violation | Three nested WHILE loops around one assignment: a PHI for each loop, and only the alloca and the store go. |
| `m2r_copies` | violation | A loop that copies one local to another. |
| `reg_run` | pass | Procedures over two parameters (which stay in memory) and two locals: three statements of eight kinds, four of assignments, copies and loops; both back ends' `cmp_iv`; a pool of one caller-saved and one callee-saved register, so that three live values already force a theft or a spill. |
| `reg_live` | violation | A value loaded before a loop and read in it, x86. |
| `layout` | pass | Tables of up to four fields of five types (1, 11, 16 and 32 bits, 3 characters) in words of 16 and of 12 bits, so that fields fill a word, straddle one, span several and end inside one; POS at 0 and 13, before and behind the cursor. |
| `layout_overlay` | violation | Three characters laid over a 16-bit field. |
| `code_run` | pass | Fifty JIR modules: each binary and unary operation, comparison and conversion of integers and floats; twelve constants at the limits of 12, 20 and 32 bits and beyond; a TABLE between scalars, with index and member; the largest frame an ADDI spans; the four ways a conditional branch meets PHIs, one of them a loop; calls with inline operands, through the extra pool, and outside with float arguments. Both back ends; every choice of up to two values in registers out of four and two (x86: one with a REX bit and one without, caller- and callee-saved) or two and two (RISC-V). Two registers are enough for one to be the other's operand, result or scratch. |
| `compool` | pass | Two COMPOOLs of four and three sources and a program of two, whose names shadow each other and whose BLOCKs leave definitions without a name; imports in both orders and through one another; ample tables, and each table in turn so small that it fills up during an import or a declaration; every file cut at every word. |

Deadlock is not checked: the allocator, the executed procedures, the layout and
the build end.

What `alloc_small` shows: no two overlapping intervals share a register
(`NoClash`), with the invariant that explains why (`ScanInv`); no register is
ever lost from the pool during the scan (`NoRegisterLost`); the masks handed to
the emitters cover every register used (`MasksComplete`); a spill happens only
when more intervals are live than the class has registers
(`SpillsUnderPressureOnly`) and takes the one that ends last (`SpillsFurthest`);
and the scan implements `RegAlloc`, which places every interval (`KeepsPromise`).

What `m2r_promotion` shows: `low_stmt` closes every reachable block exactly once
and EXIT goes to the loop it is written in (`BlocksClosed`, `ExitsInnermost`);
the dominator tree is the one of the definition (`DomRight`); the frontier pass
breaks down only for a join with an unreachable predecessor
(`CrashesOnlyOnDeadPred`); every operand names a definition that dominates its
use (`SsaForm`); and promotion preserves what the procedure returns on every
path (`PromotionSound`) under four conditions that the code does not ensure.
Three of them fail within the bounds of the runs; the third of the list needs a
CASE of five branches:

- `JumpsEndBlocks`: no statement follows EXIT, GOTO or RETURN in its block. The
  statement is lowered into the terminated block and `mk_cfg`, which looks at
  the last instruction only, loses the jump's edge.
- `FrontiersRead`: the frontiers read back are the frontiers (see
  `m2r_frontiers`).
- `SlotsSuffice`: at most four predecessors at a block with a PHI.
- `CopyOrderFree`: no PHI reads a PHI of its block copied before it (see
  `m2r_copies`).

`m2r_promotion` also shows that `cmp_dom` stops with a tree that another sweep
leaves as it is (`Settled`), also where a GOTO enters a loop beside its header.
That is the condition of `DomRightAlways` below. How many sweeps a graph needs
depends on how deep such loops nest in one another, so no bound like 64 holds for
every procedure; the two of the run leave a wide margin.

What `reg_run` shows: an interval falls short of its value's life only where
the value is needed again after a jump backwards (`ShortOnlyBackwards`), so that
straight-line code, branches and merges get true live intervals; and where every
interval covers its value's life and promotion is sound, the procedure run in
registers and slots returns what it returned in memory (`CompiledRight`). This
puts the promise of `LinearScan` (`NoClash`) to use: expiry, theft, spill and the
copies of PHIs together never destroy a value. On RISC-V it takes one condition
more, `PlacesApart`: `rv_ra.c` does not keep a header's PHI alive through the
loop, its register may go to a value of the body, and the copies at the end of
the body then overwrite an operand before it is copied. On x86 the intervals
exclude this, and the run shows it.

What `layout` shows: fields neither overlap (`NoOverlap`) nor reach out of the
entry (`InEntry`) as long as no POS goes back behind a field already placed,
although after POS the two halves of the cursor no longer describe one place;
wide fields are on word boundaries and the entry is a number of words
(`WordAligned`) in tables without POS whose wide fields fill whole words. Both
conditions are needed: three characters leave `cur_byte` inside a word, and what
follows is aligned to a byte only, whatever layout.c:6 says.

What `code_run` shows: for every module and every choice of registers the bytes
return what the JIR returns (`CodeRight`), so that no scratch register, slot,
spill around a call, branch or copy gets in the way of another value; the
processor only meets whole instructions of the emitters and writes nothing but
the stack (`InCode`); the caller's registers and stack pointer are back at the
end (`CalleeSaved`), the stack is aligned at every call (`CallAligned`) and the
code returns (`Finishes`). The answers of the allocators for which `rv_emit` is
known to go wrong are left out, in `RvSafe` and `NoFloatOverCall`, because
`sv_call` there saves other registers than those in use (rv_emit.c:565), because
T2 is scratch (rv_emit.c:357) and allocatable, and because no emitter saves float
registers over calls.

What `compool` shows: importing means what was exported (`KeepsPromise`), over
two generations of files, whatever indices the tables of the importer give; no
cut file passes as whole, but for one that ends in a TABLE without fields and one
whose STATUS values or fields are skipped because the importer's STATUS or TABLE
definitions are full (`CutNoticed`); and V(name) gets one definition from `sema.c` and
`jir_lower.c`, which look it up apart, and the ordinal its type gives it, unless
two types number the value differently (`StatusLiterals`): then the first
import decides.

A violation run states what a comment in the code says and TLC finds the code
doing otherwise; `findings` in `PROJECT.json` quotes the comments. The six
disagreements: masks of 16 bits for pools of 18 and 22 registers; frontier
entries that are never "repacked"; a rewritten procedure that outgrows its
place; PHI copies that are not parallel; intervals that end inside a loop in
which the value is read again; an overlay wider than what it covers.

## Proofs

`LinearScanProofs` proves for the specification `LinearScan!Spec`, for every
value of the constants that satisfies `PoolAssumption`, `SaveAssumption`,
`ActAssumption` and `TablesAssumption` (registers of a pool are distinct; every
table has one entry per instruction and no interval ends before it starts):

- `TypeCorrect`: `Spec => []TypeOK`;
- `ScanInvariant`: `Spec => []ScanInv`;
- `NoTwoInOneRegister`: `Spec => []NoClash`.

`NoClash` is not inductive: when an interval takes a register from a stack,
nothing in `NoClash` says that its earlier holders are gone. `ScanInv` adds what
the code relies on without saying it. The table is sorted by start (`Ordered`),
and only scanned intervals hold registers (`ScannedOnly`). Active entries hold
registers and occur once (`ActiveHold`); a register is on its stack at most once
and not while an active interval has it (`FreeOnce`). Whoever holds a register
that is on a stack ended before the interval being scanned starts (`FreeIsPast`)
and whoever else held an active interval's register ended before that interval
started (`ActiveIsLatest`); so a register popped or stolen has no holder that
overlaps the newcomer. The proof has one lemma per action (`SortStep`,
`StartStep`, `ExpireStep`, `TakeFreeStep`, `SpillStep`, `FinishStep`); the two
ways of getting a register share `NewcomerKeepsInv`. The lemmas before them say
what `RemoveAt`, `InsertAt`, `Front` and `Reverse` return, since the active list
and the stacks are sequences.

Nothing is assumed about `ActMax`: an entry that `act_ins` drops loses its
register for good, which wastes it but never shares it.

The second half of `LinearScanProofs` is what the scan does with its registers
when the tables are large enough. `MasksWide` says that `csav_bit` stays within the masks,
`ActLongEnough` that `g_act` has an entry for every register of the two pools.
The back end for x86 satisfies both (15 registers, masks of 16 bits, 16 entries),
the one for RISC-V neither (40 registers, numbers up to 21, 32 entries).

- `EveryRegisterNamed`: under `MasksWide`, `Spec => []MasksComplete`;
- `NoRegisterWasted`: under `ActLongEnough`, `Spec => []NoRegisterLost`;
- `SpillsNeedPressure`: under `ActLongEnough`, `Spec => SpillsUnderPressureOnly`;
- `FurthestGoes`: under `ActLongEnough`, `Spec => SpillsFurthest`.

The argument for the last three is counting. Active intervals hold different
registers (`ActiveDiffer`), so they are no more than the registers, and fewer
while a register is free (`ActiveCount`): `act_ins` always has room. A stack
holds different registers and not the one that comes back (`StackCount`): the
guard of `exp_old` never fails. When `spl_at` finds the stack empty every register
of the class belongs to an active interval, and the newcomer is one more
(`Pressure`). That the victim ends last among all live holders needs one more
invariant, `LiveIsActive`: every live interval with a register is in the list.
`VictimExists` finds the victim, as the entry with the fewest better ones.

`ImplementsRegAlloc`: the initial states and every
step of `LinearScan` map to those of `RegAlloc`, the sort, the start, `exp_old` and
the end to stutters, `TakeFree` to `Settle`, `spl_at` to `Settle` or `Evict`. It rests
on `ScanInv` in the state after the step, where `NoClash` gives the
`ConflictFree` of the abstract step, and assumes nothing about `ActMax`.

`LayoutProofs` proves for `Layout!Spec`, for every word size, set of types and
positions and number of fields (`LayoutAssumption`): `TypeCorrect`
(`[]TypeOK`), `FieldsApart` (`[]NoOverlap`) and `FieldsInEntry` (`[]InEntry`).
`NoOverlap` says nothing of the cursor; the invariant `LayInv` adds that no
field reaches behind it (`BehindCursor`). `PlaceKeepsInv` is the one argument: a
new field that does not start before the cursor, unless POS put it there, and
that ends at or before the new cursor keeps the invariant. Each step lemma shows
that its action places a field so; the lemmas before them are the arithmetic of
bytes and words. `ItemsOnWords` (`[]WordAligned`) has an invariant of its own,
`OnWords`: in such a table the cursor's byte is on a word, because every step adds
multiples of the word's bytes to it (`SumOfMultiples`).

`LoweringProofs` proves for `SsaRun!Spec`, for every profile, every number of
locals and every length and nesting of the procedure:

- `BlocksClosedAlways`: `Spec => []BlocksClosed`;
- `ExitsInnermostAlways`: `Spec /\ []NestingFits => ExitsInnermost`.

`BlocksClosed` speaks of the finished procedure; while it is lowered most blocks
are open. The invariant `LowInv` says who will close them: besides the current
block and the closed ones, every block a branch leads to is owed, and still
empty, either by exactly one frame of `low_stmt` (`OwedOf(stack)`) or by a label
not yet placed (`Named(lbl)`); `Good` adds that the current block is the last in
`insts`, so that appending to it disturbs no other. The lemmas `EmitGood`,
`NewGood`, `SetGood` and `CloseGood` say this of `emit`, `new_blk`, `set_blk` and the
closing branch once, and each statement and each way of resuming one has a lemma
that puts them together (`IfKeeps`, `WhileDoneKeeps`, ...). At the end
`FinishCloses` closes the last block and what is left over, and `ReachClosed`
carries this along every path. `LoopInv` says that `lp_exit` lists the exits of
the loops among the frames, in their order. `NestingFits` (loops nested no deeper
than `JIR_MAX_LOOP`) is needed: the 65th loop is not pushed but popped all the
same, so an EXIT behind it leaves the wrong loop. No run comes near that limit.

`Mem2RegProofs` proves for `SsaRun!Spec`, for every procedure again:

- `DomRightAlways`: `Spec => [](PredsFit /\ Settled => DomRight)`;
- `NoDominatorLost`: under `PredsFit` alone, `cmp_dom` gives every reachable block
  a place behind the block above it, and each strict dominator of a block
  dominates the block above it;
- `CrashesOnlyOnDeadPredAlways`: `Spec => [](PredsFit => CrashesOnlyOnDeadPred)`.

`PredsFit` says that no block has more incoming edges than `M2R_MAXP`: `mk_cfg`
drops the others, and a tree without them is wrong. `Settled` is the property
that `m2r_promotion` checks.

`PassInv` records what each pass has left: the lists of `mk_cfg`, `RpoOf`, `IdomOf`;
the procedure itself is closed (`Final`, from `LoweringProofs`), so its branches
lead to blocks (`FinalGraph`). The rest is about these values. `ReachedWithin` shows
that the iteration which defines reachability gives the least set closed under
branches, as many iterations as there are blocks being enough. `RpoRight` says of
`mk_rpo` what the sweeps need and no more: the order lists each reachable block
once, and behind one of its predecessors. The order is not a reverse postorder,
since blocks are marked when pushed (a block can come before the one it is
reached from), so textbook arguments about the algorithm do not apply. Its
invariant `RpoInv` puts the work list and the order in one line (`Line`) in which
each block follows a predecessor. `Tree` is the invariant of the sweeps: numbers fall on
the way up, and every strict dominator of a block dominates the block above it.
`ClimbKeeps` and `IntersectRight` show that the two fingers meet at a block that
keeps the common dominators and lies above both, `NewIdomRight` and `ImproveKeeps`
that a step keeps the tree and places one block more, `SweepRight` that the first
sweep places them all. A sweep that changes nothing changes nothing in any of its
steps (`SweepFixed`); then the block above `b` lies above every path into `b`, so the
blocks not below it are closed under branches that avoid it, and `b` is not among
them (`FixedRight`): it dominates `b`. For `cmp_df`, `RunnersReach` and `RunnersDead`
follow a runner from a reachable and from an unreachable predecessor.

`RenameProofs` carries this through the other passes, for every procedure:

- `SsaFormAlways`: `Spec /\ [](stage = "rewrite" => LimitsKept) => []SsaForm`;
- `TypeOKAlways`: `Spec => []TypeOK`, without any condition.

`LimitsKept` names what `jir_m2r` may run into: more incoming edges than
`M2R_MAXP`, more children in the tree than `bld_dch` keeps, instruction numbers
that reach `FAKE_BASE`, a chain of replaced loads longer than `remap` follows, and
sweeps that did not settle. Each would make the statement false. It is a
condition on the procedure, met by every procedure of `m2r_promotion` (also by
those with several PHIs and replaced loads), not on what the passes do with it.

`RenInv` is the invariant: what `ins_phi` leaves (`Typed`, `Unfilled`: one operand per
recorded predecessor, all empty), and what `ren_var` leaves (`Supply`): replacements
of loads are values defined above the load (`ReplRight`), a dead instruction that
had a value has a replacement (`DeadRight`), and a PHI operand is filled for each
reachable predecessor, with a value available at its end (`Filled`, `Handed`).
`RenameRight` proves this of the walk: `WalkInv` says that the frames on the work
list hold each block at most once (`Visited`), and that the stacks hold what is
available in the block that comes next, now or after the frames above have put
older stacks back (`Restored`); a block at most is entered once because the tree
has one parent per block, so 2n steps are enough (`WalkDone`). `PlacesFacts` says
where `rewrite` puts an instruction or a PHI, each in one place and in the order of
its block (`PlacesInOrder`), `RemapFacts` that `remap` follows a chain of replaced
loads to a value above (`ChainFacts`), `SuccsKept` and `ReachKept` that neither
branches nor dominance change. `SsaAfter` puts them together.

`PromotionProofs` proves what promotion is for, again for every procedure:

- `PromotionSoundAlways`: `Spec /\ [](stage = "rewrite" => LimitsKept) => []PromotionSound`;
- `PromInvAlways`: `Spec => []PromInv`, the invariant this rests on.

`SsaForm` says that an operand names *a* value defined above its use;
`PromotionSound` needs it to be *the* value the variable has there. The table `G`
says which that is: `G[b][i][v]` is the instruction, PHI or constant that holds
variable `v` behind the first `i` instructions of block `b`. `Trail` says that the
passes agree with one such table (`TrailAt`): a block starts with its own PHIs and,
for the other variables, with what its immediate dominator leaves, and a store
changes the entry of its variable (`Carried`, `Inflow`); each replaced load has its
entry where it stood (`GotOf`); each PHI operand is the entry at the end of its
predecessor or empty (`SentBy`); and exactly the promoted loads and stores die
(`DiedOf`, `OnlyDead`). `PromInv` carries this through the passes, starting with what
`LoweringProofs` and `RenameProofs` show at their ends about the passes before: what
the lowering leaves (`EntryInv`: the allocas open block 1, every load and store names
one of them, and no branch leads back to block 1): `fnd_prm` promotes locals
(`PvarRight`), `ins_phi` puts a PHI wherever the recorded frontiers of the stores and
of other PHIs say (`PhisSpread`), and the stacks of `ren_var`'s walk of the dominator
tree are the entries of `G`. Where no PHI was put into a block, the entry is the same
at the end of every predecessor as at the end of the immediate dominator: this is
where `FrontiersRead` and the placement of PHIs enter.

Then the two programs are run side by side. `Tracked` says that the memory cell of
a promoted variable agrees with the value that its entry of `G` has in the other
program, `Resident` that the cells of the others are equal, `Computed` that the
results of instructions agree; to agree means that the old program's value is
undefined or the same. `ExecAlike` shows it for one instruction (in particular for
one that `rewrite` drops), `BlockAlike` for a block (whose instructions the two
programs have at different places), `CopiesAtOnce` that `phi_cpy` leaves in each PHI
what its operand was at the end of the predecessor where `CopyOrderFree` and
`SlotsSuffice` hold, and `FlowAlike` that an edge preserves it. `Twins(G)` is the set
of the states so related; `RewriteMirrors` says that when `rewrite` is done there is
such a set (`Mirrors`: it has the start, is closed under running a block, and its
states return the same). From then on `SoundInv` only needs that the pair of
programs is in that set. A procedure in which nothing is promoted is compared with
itself (`BlockAlongside`): its values may differ only where nothing computed in the
same block reads them.

For `TypeOKAlways` no limit matters: lists cut short still list blocks
(`PredsTyped`), the tree of unsettled sweeps still leads from blocks to blocks
(`IdomTyped`, whose invariant `Rooted` says that a block's parent has a place in the
tree), `NewTargets` says that `rewrite` keeps the targets of branches even where a
number is taken for that of a PHI, and `RunTargets` that a block that runs leads to
blocks.

`BuildProofs` proves for `Build!Spec`, from `BuildAssumption` alone (units are
sequences of nodes, a unit imports units before it, tables have some room):

- `TablesKeepLimits`: `Spec => []TypeOK`;
- `CutsAreNoticed`: `Spec => []CutNoticed`;
- `LiteralsHaveOneDefinition`: `Spec => []StatusLiterals`.

The invariant `BuildInv` has a part for each of the three. `Good(S)` is about the
tables: within limits, no type twice (`TypesApart`: `jt_intern` looks first), an
inner type before the one that refers to it (`InnerFirst`), symbols of types that
exist, marks of scopes in order. `StatusInv(S)` is what V(name) relies on: unless a
table is full, every STATUS definition has a type that refers to it and every
STATUS type a definition. It breaks in the middle of an import, where definitions
are there before their types, so the reader has an invariant too, `ReadInv`:
where in the file it is (`Placed`: `p` is where the records before end, for the
loop it is in), that `p` stays in the file even where full tables make it skip
(`InFile`), what it has stored so far (`Stored`), that the types read so far are
renamed one to one (`Remapped`, `Faithful`: two types of the file differ, so their
images differ, which needs `InnerFirst` to know the inner ones are renamed
already), and that the definitions of the file are those its types will refer to
(`Linked`). `GoodFile` says of every file what `cpl_write` took from good tables
(`WrittenFile`), so that the argument goes round for files of files. Each
`col_...` and each loop of `cpl_read` has its lemma; that only a complete file gets
to `SK_OK` (`ReadToEnd`) is then arithmetic over `Placed`.

The recursive functions of `Build` (ends of records, the string table, the types
of fields) are reasoned about without the library's induction theorems, whose
operator parameters no backend can instantiate: `ProofBasics!Induction` proves
induction for a *set* of numbers, which a property of an index always is, and
`RecursionExists` and, for a function whose values stay in sets that depend on the
index, `StepsExist` prove that a function defined by recursion over `0 .. n` has the
values its equation says; `StepsStay` is induction along such a function, and
`FlatRange` says what a flattened sequence contains.

Only model-checked: the progress part of the refinement of `RegAlloc` and the end
of the emitted code (`Finishes`; liveness is out of the prover's reach); the refinement of `Units` by
`Build` (`KeepsPromise`: `Denote`, `Flat` and `Below` are RECURSIVE operators, since
types and meanings are nested); that the sweeps settle (`Settled`), which is no
invariant of all procedures; what `RegRun` shows about the result of the program in
registers (`CompiledRight`) and about intervals (`ShortOnlyBackwards`); and
`CodeRun`, whose steps decode bytes.

## What is abstracted and what is not modelled

- Lowering: expressions are reduced to what promotion sees (loads, stores, an
  addition in FOR); conditions are opaque; TABLE elements, calls, WRITE, READ,
  ABORT, STOP and RETURN without a value do not occur; labels are placed once,
  as semantic analysis demands; DEFAULT comes last in its CASE; a CASE branch
  has one value. The pools (`JIR_MAX_INST`, `JIR_MAX_BLKS`, ...) are not full.
- Mem2Reg: one procedure; the numbering of PHIs by fake ids is direct, without
  `g_fmap`; `M2R_MAXPHI`, `M2R_STKSZ`, `M2R_DFMAX` and the 4096 steps of a
  runner are not reached by procedures of this size. A table access at block
  4294967295 is the stage `crashed`.
- SsaRun: an uninitialised local may hold anything, so a result that depends on
  one is not compared.
- LinearScan: what `cmp_iv` computes is an arbitrary table; `RegRun` has the
  tables that procedures lead to.
- RegRun: values are general registers only; calls, their overflow operands and
  the registers saved around them do not occur; `RA_MAX_IV` is not reached. The
  predecessor lists that `x86_ra` and `xp_cfg` build again are those of `mk_cfg`.
- Layout: STATUS and pointer fields are bit fields of 8, 16 or 32 bits, except
  that sema's overlay check sees their type width; positions beyond 31 bits
  (`end_bit` is an `int`) do not occur; an index that is no TABLE is refused.
- CodeRun: at most four (x86) or eight (RISC-V) arguments in registers; at most
  four PHI operands; float arguments and results only of external calls, floats
  not loaded or stored through pointers (the code sends them through general
  registers); float zeros and NaNs are not told apart from other floats; no
  string constants; RISC-V constants from 0x7FFFF800 to 0x7FFFFFFF, frames beyond
  2032 bytes and branches beyond 4 KiB, for all of which the code emits something
  else than it means; XMM6 and XMM7, S10 and S11 and the FS registers, which the
  prologues do not save; registers T0 and T1 as homes of values. The code buffer
  (`X86_CODE_MAX`) and the fixup tables are not full.
- Sema, Compool, Build: widths, scales and flags are one value per type or
  symbol; strings take one word; the limits within one definition (values of a
  STATUS type, fields, parameters) are not reached; a constant expression is a
  literal or the name of a constant, without arithmetic on names; the second pass
  of `sema_run`, FORMAT and labels do not occur; the layout that `cpl_write` stores
  and `cpl_read` skips is left out; what the buffer holds behind a short file is
  0. A wrong magic number or version is a failing import, as a file without a
  header is.
- `fe/lexer.c` and `fe/parser.c` turn text into one tree without other state, and
  `x86_coff.c` and `rv_elf.c` finished tables into a file: data transformations that
  the tests reach with examples, with next to no control to model. The rest of
  `sema.c` is rules for the types of expressions. `rt/skrt.c` is linked into the
  compiled program and no part of the compiler.

## Known defects met on the way

Besides the six findings, which runs show, the models exclude by a named
condition, or leave out, what the code gets wrong: statements behind a jump
(`JumpsEndBlocks`), five or more predecessors of a PHI (`SlotsSuffice`), the PHI
copies of RISC-V loops (`PlacesApart`), temporaries over calls and T2 on RISC-V
(`RvSafe`), float registers over calls (`NoFloatOverCall`), float values through
pointers (x86_emit.c:961, rv_emit.c:887), RISC-V constants next to 2^31
(rv_emit.c:323) and frames that are clamped (rv_emit.c:1291), operands of calls
in `extra[]` in the allocators and mem2reg (x86_ra.c:161, jir_mem2reg.c:777), and
TABLEs that lose OVERLAY, POS and WORDSIZE in a COMPOOL file (cpl_read.c:175) where
cpl.h:4 promises that two readers "agree on every byte offset". A symbol hidden
in the exporter by a PROC of the same name resurfaces in the importer, since a
PROC is not exported.

## Left to do

1. `Lowering` with small pools and loop limits, and CASE branches with several
   values.
2. The second pass of `sema.c`: labels and calls.
