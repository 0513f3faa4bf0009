----------------------------- MODULE MCRegRun -----------------------------
(* Procedures that keep loaded values in registers across branches and      *)
(* loops, over pools of two registers.                                      *)
EXTENDS RegRun

Of(kinds, locals, n) ==
  [kinds |-> kinds, vars |-> locals, stmts |-> n,
   copies |-> {c \in locals \X locals : c[1] # c[2]}]
\* A loop that copies both parameters.
TwoCopies ==
  [Of({"copy", "while", "return"}, {3, 4}, 4) EXCEPT !.copies = {<<3, 1>>, <<4, 2>>}]
MCProfiles ==
  {Of({"assign", "copy", "if", "while", "for", "case", "exit", "return"}, {2, 3}, 3),
   Of({"copy", "while", "return"}, {2, 3}, 4),
   Of({"assign", "copy", "while", "return"}, {2, 3, 4}, 4),
   TwoCopies}

LoopProfiles == {Of({"copy", "while", "return"}, {2, 3, 4}, 4)}

MCPool == [gpr |-> <<10, 3>>, flt |-> <<>>]
MCCalleeSaved == [gpr |-> {3}, flt |-> {}]
MCBitBase == [gpr |-> 0, flt |-> 0]
=============================================================================
