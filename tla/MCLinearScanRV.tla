-------------------------- MODULE MCLinearScanRV ---------------------------
(* The pools, masks and active list of rv_ra.c, over tables     *)
(* of overlapping intervals, the general ones first.                       *)
EXTENDS LinearScan

CONSTANTS Gprs, Flts  \* numbers of general and float intervals

\* T2, T3 .. T6, T0, T1, S1, S2 .. S11 and FT2 .. FT11, FS0 .. FS11.
RVPool == [c \in Class |->
  IF c = "gpr" THEN <<7, 28, 29, 30, 31, 5, 6, 9, 18, 19, 20, 21, 22, 23, 24, 25, 26, 27>>
  ELSE <<2, 3, 4, 5, 6, 7, 28, 29, 30, 31, 8, 9, 18, 19, 20, 21, 22, 23, 24, 25, 26, 27>>]
RVCalleeSaved == [c \in Class |-> IF c = "gpr" THEN {9} \cup 18 .. 27
                                  ELSE {8, 9} \cup 18 .. 27]
RVBitBase == [c \in Class |-> 0]

\* The intervals start one after the other and are all live at the end; the
\* last ones for which there is still a register outlive the others.
MCTables ==
  {[p \in 1 .. (k + m) |->
      [iidx |-> p, start |-> p, cls |-> IF p <= k THEN "gpr" ELSE "flt",
       end |-> IF p \in 33 .. 40 THEN 50 ELSE 45]]
   : k \in Gprs, m \in Flts}
=============================================================================
