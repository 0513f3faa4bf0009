----------------------------- MODULE RegAlloc -----------------------------
(***************************************************************************)
(* What a register allocator of this compiler promises, whatever its       *)
(* heuristics: intervals find a home one at a time, a home is never shared *)
(* by two overlapping intervals of a class, an interval may lose its       *)
(* register only to the newcomer, and one sent to the stack stays there.   *)
(***************************************************************************)
EXTENDS Integers

CONSTANTS
  Class,  \* register classes
  Regs,   \* Regs[c]: the allocatable registers of class c
  NoReg   \* the home of a spilled interval: its stack slot

VARIABLES
  ivs,  \* the intervals, a set of [iidx, start, end, cls]
  home, \* home[id]: register of the interval whose iidx is id, or NoReg
  todo  \* the iidx of the intervals not placed yet

vars == <<ivs, home, todo>>

Ids(s) == {a.iidx : a \in s}
Overlap(a, b) == a.start <= b.end /\ b.start <= a.end

\* No two intervals that are live together have the same register.
ConflictFree(s, h) ==
  \A a, b \in s :
    /\ a # b
    /\ a.cls = b.cls
    /\ h[a.iidx] = h[b.iidx]
    /\ h[a.iidx] # NoReg
    => ~ Overlap(a, b)

Init ==
  /\ \A a \in ivs : a.start <= a.end /\ a.cls \in Class
  /\ \A a, b \in ivs : a.iidx = b.iidx => a = b
  /\ home = [id \in Ids(ivs) |-> NoReg]
  /\ todo = Ids(ivs)

Place(a) ==
  /\ a.iidx \in todo
  /\ todo' = todo \ {a.iidx}
  /\ ConflictFree(ivs, home')
  /\ UNCHANGED ivs

\* The interval gets a register, or its stack slot.
Settle(a) ==
  \E r \in Regs[a.cls] \cup {NoReg} :
    /\ home' = [home EXCEPT ![a.iidx] = r]
    /\ Place(a)

\* The interval takes the register of an interval placed before it.
Evict(a, b) ==
  /\ b.cls = a.cls
  /\ b.iidx \notin todo
  /\ home[b.iidx] # NoReg
  /\ home' = [home EXCEPT ![a.iidx] = home[b.iidx], ![b.iidx] = NoReg]
  /\ Place(a)

Next ==
  \/ \E a \in ivs : Settle(a)
  \/ \E a, b \in ivs : Evict(a, b)

\* Placement goes on until every interval has a home.
Spec == Init /\ [][Next]_vars /\ WF_vars(Next)
=============================================================================
