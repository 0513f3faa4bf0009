--------------------------- MODULE MCLinearScan ---------------------------
(* Every table of a few intervals over a few program points, over pools of *)
(* two general registers and one float register.                           *)
EXTENDS LinearScan

MCPool == [c \in Class |-> IF c = "gpr" THEN <<10, 3>> ELSE <<2>>]
MCCalleeSaved == [c \in Class |-> IF c = "gpr" THEN {3} ELSE {}]
MCBitBase == [c \in Class |-> IF c = "gpr" THEN 0 ELSE 2]

TablesOf(sizes, points, classes) ==
  LET Shapes == {s \in [start : points, end : points, cls : classes] :
                   s.start <= s.end}
  IN UNION {{[k \in 1 .. n |-> [iidx |-> k, start |-> s[k].start,
                                end |-> s[k].end, cls |-> s[k].cls]]
             : s \in [1 .. n -> Shapes]} : n \in sizes}

\* Both classes up to three intervals, then one class and one more interval
\* than twice the registers need for an expiry, a theft and a spill.
MCTables == TablesOf(0 .. 3, 1 .. 3, Class) \cup TablesOf({4}, 1 .. 4, {"gpr"})
=============================================================================
