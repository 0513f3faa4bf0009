----------------------------- MODULE MCSsaRun -----------------------------
(* Procedures of a parameter and two locals: every mix of three statements,  *)
(* and of four where the kinds and locals are fewer; of five for cmp_dom.    *)
EXTENDS SsaRun

Of(kinds, locals, n) ==
  [kinds |-> kinds, vars |-> locals, stmts |-> n,
   copies |-> {c \in locals \X locals : c[1] # c[2]}]
AllKinds == {"assign", "copy", "if", "while", "for", "case", "exit", "return",
             "goto", "label"}
\* A GOTO from before a loop to a label in it: the loop has two entries, and the
\* block of the label is not placed right by the first sweep.
EntryKinds == {"while", "goto", "label", "return"}
MCProfiles ==
  {Of(AllKinds, {1, 2}, 3),
   Of({"assign", "if", "while", "exit", "return"}, {2}, 4),
   Of({"assign", "copy", "while", "return"}, {2, 3}, 4),
   Of({"assign", "case", "return", "if"}, {2}, 4),
   Of({"assign", "if", "goto", "label", "return"}, {2}, 4),
   Of({"assign", "for", "return", "if"}, {2}, 4),
   Of(EntryKinds, {2}, 5)}

\* One loop left from within: the frontier of its body is its header and its exit.
LoopProfiles == {Of({"assign", "if", "while", "exit", "return"}, {2}, 5)}
\* Loops inside one another around a single assignment to a local.
NestProfiles == {Of({"assign", "while", "return"}, {1, 2}, 5)}
\* A loop that copies one local to the other.
CopyProfiles == {Of({"assign", "copy", "while", "return"}, {2, 3}, 4)}
\* What jir_m2r does with the dominators is for the other procedures.
UpToDominators == left.kinds = EntryKinds => stage # "df"
=============================================================================
