---------------------------- MODULE LinearScan ----------------------------
(***************************************************************************)
(* The linear-scan register allocator of src/x86/x86_ra.c and              *)
(* src/rv/rv_ra.c: from the table of live intervals that cmp_iv leaves in  *)
(* g_iv to the register (or stack slot) of every interval.  The two back   *)
(* ends run the same code over different pools; the constants below hold   *)
(* everything in which they differ.                                        *)
(***************************************************************************)
EXTENDS Integers, Sequences, SequencesExt

CONSTANTS
  Pool,        \* Pool[c]: the allocatable registers of class c, in pool order
  CalleeSaved, \* CalleeSaved[c]: the registers is_csav answers 1 for
  BitBase,     \* BitBase[c]: bit that csav_bit gives to Pool[c][1]
  MaskWidth,   \* bits of g_csave and g_csrm (uint16_t)
  ActMax,      \* size of g_act, and the guard of act_ins
  Tables       \* the interval tables cmp_iv may hand over

Class == {"gpr", "flt"}
NoReg == -1

Interval == [iidx : Nat, start : Nat, end : Nat, cls : Class]

\* What cmp_iv guarantees: one entry per instruction, numbered from program
\* point 1, never ending before it starts.
IsTable(t) ==
  /\ t \in Seq(Interval)
  /\ \A k \in DOMAIN t : 1 <= t[k].start /\ t[k].start <= t[k].end
  /\ \A j, k \in DOMAIN t : t[j].iidx = t[k].iidx => j = k

ASSUME PoolAssumption ==
  /\ Pool \in [Class -> Seq(Nat)]
  /\ \A c \in Class : \A j, k \in DOMAIN Pool[c] : Pool[c][j] = Pool[c][k] => j = k
ASSUME SaveAssumption ==
  /\ CalleeSaved \in [Class -> SUBSET Nat]
  /\ BitBase \in [Class -> Nat]
  /\ MaskWidth \in Nat
ASSUME ActAssumption == ActMax \in Nat
ASSUME TablesAssumption == \A t \in Tables : IsTable(t)

VARIABLES
  pc,    \* the stage of x86_ra: "sort", "scan", "done"
  iv,    \* g_iv without its reg field
  reg,   \* g_iv[k].reg
  i,     \* loop index of srt_iv, then of ra_scan, counted from 1
  act,   \* g_act: indices of the active intervals
  free,  \* g_gfr and g_xfr: the stacks of free registers, top last
  csave, \* g_csave: the set of its bits
  csrm   \* g_csrm: the set of its bits

vars == <<pc, iv, reg, i, act, free, csave, csrm>>

\* The statics hold whatever the previous function left; empty at first.
Init ==
  /\ pc = "sort"
  /\ iv \in Tables
  /\ reg = [k \in DOMAIN iv |-> NoReg]
  /\ i = 2
  /\ act = <<>>
  /\ free = [c \in Class |-> <<>>]
  /\ csave = {}
  /\ csrm = {}

---------------------------------------------------------------------------
(* One iteration of srt_iv, an insertion sort by ascending start: entry i  *)
(* moves down past the entries that start later, and past no other.        *)

srt_iv ==
  /\ pc = "sort"
  /\ i \in DOMAIN iv
  /\ \E q \in 0 .. (i - 1) :
       /\ q > 0 => iv[q].start <= iv[i].start
       /\ \A j \in (q + 1) .. (i - 1) : iv[j].start > iv[i].start
       /\ iv' = [k \in DOMAIN iv |->
                   IF k <= q \/ k > i THEN iv[k]
                   ELSE IF k = q + 1 THEN iv[i] ELSE iv[k - 1]]
  /\ i' = i + 1
  /\ UNCHANGED <<pc, reg, act, free, csave, csrm>>

\* ra_scan starts with every register of the pool on its stack, pushed in
\* reverse so that the first register of the pool pops first.
StartScan ==
  /\ pc = "sort"
  /\ i \notin DOMAIN iv
  /\ pc' = "scan"
  /\ i' = 1
  /\ free' = [c \in Class |-> Reverse(Pool[c])]
  /\ act' = <<>>
  /\ csave' = {}
  /\ csrm' = {}
  /\ UNCHANGED <<iv, reg>>

---------------------------------------------------------------------------
(* One iteration of ra_scan for interval i: exp_old drops the expired      *)
(* intervals one at a time, then the interval takes a register, steals     *)
(* one or is spilled.                                                      *)

Scanning == pc = "scan" /\ i \in DOMAIN iv
\* (Mutants of the definition that follows: off by one either way.)
ExpiredEarly(k) == iv[act[k]].end <= iv[i].start
ExpiredLate(k) == iv[act[k]].end + 1 < iv[i].start
Expired(k) == iv[act[k]].end < iv[i].start

\* (Mutants: the wrong stack; the guard one too small.)
ReleaseToGpr(k) == [free EXCEPT !["gpr"] = Append(@, reg[act[k]])]
ReleaseLess(k) ==
  LET c == iv[act[k]].cls IN
    IF Len(free[c]) + 1 < Len(Pool[c])
      THEN [free EXCEPT ![c] = Append(@, reg[act[k]])]
      ELSE free

\* The register of an expired interval goes back on its stack, unless the
\* stack is full.
Release(k) ==
  LET c == iv[act[k]].cls IN
    IF Len(free[c]) < Len(Pool[c])
      THEN [free EXCEPT ![c] = Append(@, reg[act[k]])]
      ELSE free

exp_old ==
  /\ Scanning
  /\ \E k \in DOMAIN act :
       /\ Expired(k)
       /\ \A j \in 1 .. (k - 1) : ~ Expired(j)
       /\ free' = Release(k)
       /\ act' = RemoveAt(act, k)
  /\ UNCHANGED <<pc, iv, reg, i, csave, csrm>>

\* Interval x goes behind the last entry of a that does not outlive it, and
\* is dropped when the list is full.
act_ins(a, x) ==
  IF Len(a) >= ActMax
    THEN act' = a
    ELSE \E p \in 1 .. (Len(a) + 1) :
           /\ p > 1 => iv[a[p - 1]].end <= iv[x].end
           /\ \A j \in p .. Len(a) : iv[a[j]].end > iv[x].end
           /\ act' = InsertAt(a, p, x)

\* csav_bit shifted into a uint16_t: a bit beyond the mask is lost.
csav_bit(r, c) ==
  BitBase[c] + (CHOOSE k \in DOMAIN Pool[c] : Pool[c][k] = r) - 1
MaskOf(r, c) == {csav_bit(r, c)} \cap 0 .. (MaskWidth - 1)

\* (Mutant: only callee-saved registers are recorded.)
RecordSaved(r, c) ==
  /\ csave' = IF r \in CalleeSaved[c] THEN csave \cup MaskOf(r, c) ELSE csave
  /\ csrm' = csrm

Record(r, c) ==
  IF r \in CalleeSaved[c]
    THEN csave' = csave \cup MaskOf(r, c) /\ csrm' = csrm
    ELSE csrm' = csrm \cup MaskOf(r, c) /\ csave' = csave

AllLive == Scanning /\ \A k \in DOMAIN act : ~ Expired(k)
cls_i == iv[i].cls

TakeFree ==
  /\ AllLive
  /\ free[cls_i] # <<>>
  /\ reg' = [reg EXCEPT ![i] = Last(free[cls_i])]
  /\ free' = [free EXCEPT ![cls_i] = Front(@)]
  /\ act_ins(act, i)
  /\ Record(Last(free[cls_i]), cls_i)
  /\ i' = i + 1
  /\ UNCHANGED <<pc, iv>>

\* spl_at looks for the first active interval of the class with the
\* furthest end.
SameClass(k) == iv[act[k]].cls = cls_i
\* (Mutant: the nearest end instead.)
VictimNearest(k) ==
  /\ SameClass(k)
  /\ \A j \in DOMAIN act : SameClass(j) => iv[act[k]].end <= iv[act[j]].end
Victim(k) ==
  /\ SameClass(k)
  /\ \A j \in DOMAIN act : SameClass(j) =>
       /\ iv[act[j]].end <= iv[act[k]].end
       /\ j < k => iv[act[j]].end < iv[act[k]].end

\* (Mutant: the victim keeps its register.)
StealShares(k) ==
  /\ Victim(k)
  /\ iv[act[k]].end > iv[i].end
  /\ reg' = [reg EXCEPT ![i] = reg[act[k]]]
  /\ act_ins(RemoveAt(act, k), i)
  /\ Record(reg[act[k]], cls_i)

StealFrom(k) ==
  /\ Victim(k)
  /\ iv[act[k]].end > iv[i].end
  /\ reg' = [reg EXCEPT ![i] = reg[act[k]], ![act[k]] = NoReg]
  /\ act_ins(RemoveAt(act, k), i)
  /\ Record(reg[act[k]], cls_i)

SpillCurrent ==
  /\ \A k \in DOMAIN act : Victim(k) => iv[act[k]].end <= iv[i].end
  /\ UNCHANGED <<reg, act, csave, csrm>>

spl_at ==
  /\ AllLive
  /\ free[cls_i] = <<>>
  /\ SpillCurrent \/ \E k \in DOMAIN act : StealFrom(k)
  /\ i' = i + 1
  /\ UNCHANGED <<pc, iv, free>>

Finish ==
  /\ pc = "scan"
  /\ i \notin DOMAIN iv
  /\ pc' = "done"
  /\ UNCHANGED <<iv, reg, i, act, free, csave, csrm>>

Next == srt_iv \/ StartScan \/ exp_old \/ TakeFree \/ spl_at \/ Finish

Spec == Init /\ [][Next]_vars
\* The allocator is one sequential function: it is never preempted for good.
FairSpec == Spec /\ WF_vars(Next)

---------------------------------------------------------------------------
(* Properties.                                                             *)

Held(k) == reg[k] # NoReg
Disjoint(j, k) == iv[j].end < iv[k].start \/ iv[k].end < iv[j].start

\* Every variable of the allocator stays in its range: registers come from
\* the pool of their class and active entries are indices of the table.
TypeOK ==
  /\ pc \in {"sort", "scan", "done"}
  /\ IsTable(iv)
  /\ i \in Nat \ {0}
  /\ reg \in [DOMAIN iv -> Nat \cup {NoReg}]
  /\ \A k \in DOMAIN iv : Held(k) => reg[k] \in Range(Pool[iv[k].cls])
  /\ act \in Seq(DOMAIN iv)
  /\ free \in [Class -> Seq(Nat)]
  /\ \A c \in Class : Range(free[c]) \subseteq Range(Pool[c])
  /\ csave \subseteq 0 .. (MaskWidth - 1)
  /\ csrm \subseteq 0 .. (MaskWidth - 1)

\* Two intervals that share a program point never hold the same register:
\* what makes the emitted code of st_val and ld_val preserve values.
NoClash ==
  \A j, k \in DOMAIN iv :
    /\ j # k
    /\ iv[j].cls = iv[k].cls
    /\ Held(j)
    /\ reg[j] = reg[k]
    => Disjoint(j, k)

\* Why a register taken from a stack, or from an active interval, has no
\* other user left: NoClash with the parts that make it inductive.  The table
\* is sorted as far as srt_iv got; only scanned intervals hold registers.
Ordered ==
  \A j, k \in DOMAIN iv :
    j < k /\ (pc = "sort" => k < i) => iv[j].start <= iv[k].start
ScannedOnly == \A k \in DOMAIN iv : Held(k) => pc # "sort" /\ k < i

\* Active entries are scanned intervals that hold a register, once each.
ActiveHold ==
  /\ \A k \in DOMAIN act : Held(act[k])
  /\ \A j, k \in DOMAIN act : act[j] = act[k] => j = k

\* A register is on its stack once, and not while an active interval has it.
FreeOnce ==
  \A c \in Class :
    /\ \A j, k \in DOMAIN free[c] : free[c][j] = free[c][k] => j = k
    /\ \A k \in DOMAIN act :
         iv[act[k]].cls = c => reg[act[k]] \notin Range(free[c])

\* Who holds a free register ended before the interval being scanned; who
\* held the register of an active interval ended before that one started.
FreeIsPast ==
  \A k \in DOMAIN iv :
    Held(k) /\ i \in DOMAIN iv /\ reg[k] \in Range(free[iv[k].cls])
    => iv[k].end < iv[i].start
ActiveIsLatest ==
  \A k \in DOMAIN act : \A j \in DOMAIN iv :
    /\ j # act[k]
    /\ iv[j].cls = iv[act[k]].cls
    /\ reg[j] = reg[act[k]]
    => iv[j].end < iv[act[k]].start

ScanInv ==
  /\ NoClash
  /\ Ordered
  /\ ScannedOnly
  /\ ActiveHold
  /\ FreeOnce
  /\ FreeIsPast
  /\ ActiveIsLatest

\* During the scan a register of the pool is on its free stack or belongs
\* to an active interval: exp_old gives every register back, and the guards
\* of exp_old and act_ins never drop one.
NoRegisterLost ==
  pc = "scan" =>
    \A c \in Class : \A r \in Range(Pool[c]) :
      \/ r \in Range(free[c])
      \/ \E k \in DOMAIN act : iv[act[k]].cls = c /\ reg[act[k]] = r

\* Interval x is spilled by this step of the scan.
Spills(x) ==
  /\ pc = "scan"
  /\ reg'[x] = NoReg
  /\ Held(x) \/ (x = i /\ i' = i + 1)

\* "spill at interval with furthest end": the interval spl_at sends to the
\* stack ends no earlier than any interval that is live at this point and
\* keeps a register of the class.
SpillsFurthest ==
  [][\A x \in DOMAIN iv : Spills(x) =>
       \A k \in 1 .. i :
         /\ iv[k].cls = iv[x].cls
         /\ iv[k].end >= iv[i].start
         /\ reg'[k] # NoReg
         => iv[k].end <= iv[x].end]_vars

\* An interval is spilled only where more intervals of its class are live
\* than the class has registers: no register stays idle while values go to
\* the stack.
SpillsUnderPressureOnly ==
  [][\A x \in DOMAIN iv : Spills(x) =>
       Cardinality({k \in 1 .. i : /\ iv[k].cls = iv[x].cls
                                   /\ iv[k].end >= iv[i].start})
         > Len(Pool[iv[x].cls])]_vars

\* The masks the prologue and the call sequence save registers by name every
\* allocated register, callee-saved ones in g_csave and the others in g_csrm.
MasksComplete ==
  \A k \in DOMAIN iv : Held(k) =>
    LET c == iv[k].cls IN
      csav_bit(reg[k], c) \in IF reg[k] \in CalleeSaved[c] THEN csave ELSE csrm

---------------------------------------------------------------------------
(* What x86_ra and rv_ra copy into rmap, and the promise they keep.        *)

Entries == {iv[k] : k \in DOMAIN iv}
IndexOf(id) == CHOOSE k \in DOMAIN iv : iv[k].iidx = id
rmap == [id \in {e.iidx : e \in Entries} |-> reg[IndexOf(id)]]
Unplaced ==
  CASE pc = "sort" -> {e.iidx : e \in Entries}
    [] OTHER -> {iv[k].iidx : k \in {j \in DOMAIN iv : j >= i}}

Promise == INSTANCE RegAlloc
             WITH Class <- Class, NoReg <- NoReg,
                  Regs <- [c \in Class |-> Range(Pool[c])],
                  ivs <- Entries, home <- rmap, todo <- Unplaced

\* The scan implements the abstract allocator, progress included.
KeepsPromise == Promise!Spec
=============================================================================
