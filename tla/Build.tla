-------------------------------- MODULE Build --------------------------------
(***************************************************************************)
(* A build: COMPOOL units compiled to .cpl files one after the other and   *)
(* then a program, each by the stages of src/main.c up to the end of the   *)
(* declaration pass: sema_init, cpl_read of every --cpl file, sema_run,    *)
(* cpl_write.  Every import may find its file cut short: cpl_write does    *)
(* not look at what fwrite answers, and the file may be damaged later.     *)
(***************************************************************************)
EXTENDS Compool

CONSTANTS
  Sources, \* for every unit the declarations it may consist of
  Orders,  \* for every unit the sequences of earlier units it may import
  Limits   \* the sizes of the tables

\* What the parser hands over.
PlainTypes == {"s", "u", "f", "b", "c", "h", "a", "void"}
Specs ==
  [bt : PlainTypes, width : Nat, ptrs : Nat]
    \cup [bt : {"status"}, vals : Seq(STRING), ptrs : Nat]
    \cup [bt : {"ref", "like"}, name : STRING, ptrs : Nat]
Fields == [name : STRING, spec : Specs, by : {"plain", "overlay", "pos"}]
Consts == [op : {"lit"}, val : Int] \cup [op : {"name"}, name : STRING]
Nodes ==
  [k : {"item", "type"}, name : STRING, spec : Specs]
    \cup [k : {"const"}, name : STRING, spec : Specs, val : Consts]
    \cup [k : {"define"}, name : STRING, val : Consts]
    \cup [k : {"proc"}, name : STRING, spec : Specs, params : Nat]
    \cup [k : {"table"}, name : STRING, lo : Consts, hi : Consts, wordsz : Nat,
          flds : Seq(Fields)]
    \cup [k : {"compool"}, name : STRING]
    \cup [k : {"block", "end"}]

ASSUME BuildAssumption ==
  /\ Sources \in Seq(SUBSET Seq(Nodes)) /\ Sources # <<>>
  /\ DOMAIN Orders = DOMAIN Sources
  /\ \A u \in DOMAIN Orders : Orders[u] \subseteq Seq(1 .. u - 1)
  /\ Limits \subseteq [{"types", "syms", "scopes", "stdef", "tbldef", "strs"} -> Nat \ {0}]

Program == Len(Sources)

VARIABLES
  lim,   \* SM_MAX_* and CPL_MAXSTR, the same for every unit
  S,     \* the tables of the unit being compiled
  files, \* the .cpl files of the units before it
  at,    \* where the driver is
  imps,  \* --cpl arguments not yet read
  src,   \* declarations not yet collected
  r      \* the state of cpl_read

vars == <<lim, S, files, at, imps, src, r>>

NoReader == [at |-> "none"]
Init ==
  /\ lim \in Limits
  /\ S = sema_init(lim)
  /\ files = <<>>
  /\ at = "idle"
  /\ imps = <<>> /\ src = <<>>
  /\ r = NoReader

unit == Len(files) + 1

Start ==
  /\ at = "idle"
  /\ S' = sema_init(lim)
  /\ src' \in Sources[unit]
  /\ imps' \in Orders[unit]
  /\ at' = "import"
  /\ UNCHANGED <<lim, files, r>>

\* A failing import ends the compilation, and the build.
AfterRead(rd) ==
  /\ S' = rd.s
  /\ r' = rd.r
  /\ at' = CASE rd.r.at = "SK_ERR_IO" -> "stopped"
             [] rd.r.at = "SK_OK" -> "import"
             [] OTHER -> "read"
  /\ imps' = IF rd.r.at = "SK_OK" THEN Tail(imps) ELSE imps
  /\ UNCHANGED <<lim, files, src>>

Open ==
  /\ at = "import" /\ imps # <<>>
  /\ LET file == files[Head(imps)] IN
       \E size \in 0 .. FileWords(file) : AfterRead(ReadHeader(S, file, size))
ReadOn ==
  /\ at = "read"
  /\ AfterRead(cpl_read_step(S, r))

Collect ==
  /\ at = "import" /\ imps = <<>> /\ src # <<>>
  /\ S' = col_decl(S, Head(src))
  /\ src' = Tail(src)
  /\ UNCHANGED <<lim, files, at, imps, r>>

Declared == at = "import" /\ imps = <<>> /\ src = <<>>
GiveUp ==
  /\ Declared /\ S.errs
  /\ at' = "stopped"
  /\ UNCHANGED <<lim, S, files, imps, src, r>>
Write ==
  /\ Declared /\ ~ S.errs /\ unit < Program
  /\ files' = Append(files, cpl_write(S))
  /\ at' = "idle"
  /\ r' = NoReader
  /\ UNCHANGED <<lim, S, imps, src>>
Compile ==
  /\ Declared /\ ~ S.errs /\ unit = Program
  /\ at' = "compiled"
  /\ UNCHANGED <<lim, S, files, imps, src, r>>

Next == Start \/ Open \/ ReadOn \/ Collect \/ GiveUp \/ Write \/ Compile
Spec == Init /\ [][Next]_vars

---------------------------------------------------------------------------
(* Properties.                                                             *)

Full ==
  \/ Len(S.types) + 1 >= lim.types
  \/ Len(S.syms) >= lim.syms
  \/ Len(S.stdef) >= lim.stdef
  \/ Len(S.tbldef) >= lim.tbldef
  \/ \E u \in DOMAIN files : Len(files[u].strs) >= lim.strs

\* Tables keep their limits, what a step of the reader leaves behind and what
\* it goes on with included.
TypeOK ==
  /\ Len(S.types) < lim.types /\ Len(S.syms) <= lim.syms
  /\ Len(S.stdef) <= lim.stdef /\ Len(S.tbldef) <= lim.tbldef
  /\ Len(S.scp) <= lim.scopes /\ \A i \in DOMAIN S.scp : S.scp[i] <= Len(S.syms)
  /\ S.lim = lim
  /\ at \in {"idle", "import", "read", "compiled", "stopped"}
  /\ at = "read" =>
       /\ r.at \in {"stdef", "tbldef", "types", "syms"} /\ r.p <= FileWords(r.file)
       /\ S.scp = <<>>
  /\ \A u \in DOMAIN files : Len(files[u].strs) <= lim.strs

\* A file cut short is never imported as if it were whole; the one that may be
\* ends in a TABLE without fields and has no symbols (the reader asks for 12
\* bytes of the 16 it takes there), or in values and fields that are skipped.
EndsInTable(f) == f.syms = <<>> /\ f.tbldef # <<>> /\ Last(f.tbldef).flds = <<>>
CutNoticed ==
  r.at = "SK_OK" /\ r.size < FileWords(r.file) => 
    EndsInTable(r.file) \/ Len(S.stdef) >= lim.stdef \/ Len(S.tbldef) >= lim.tbldef

\* V(name) is looked up by value, for its type by sema and for its ordinal by
\* the lowering, among all definitions, those of imports first.  The two answer
\* the same definition; and the ordinal is that of every type with the value
\* that a name denotes, if all definitions number it alike.
NumberedAlike(v) ==
  \A a, b \in DOMAIN S.stdef : \A i \in DOMAIN S.stdef[a], j \in DOMAIN S.stdef[b] :
    S.stdef[a][i] = v /\ S.stdef[b][j] = v => i = j
StatusLiterals ==
  at = "compiled" /\ ~ Full =>
    \A k \in DOMAIN S.syms :
      LET t == S.syms[k].type IN
        IsKind(S, t, "status") =>
          LET def == S.types[t].extra + 1 IN
            /\ def \in DOMAIN S.stdef
            /\ \A i \in DOMAIN S.stdef[def] :
                 LET v == S.stdef[def][i]
                     found == S.types[StatusType(S, v)]
                 IN /\ found.kind = "status" /\ S.stdef[found.extra + 1][StatusOrd(S, v)] = v
                    /\ NumberedAlike(v) => StatusOrd(S, v) = i
=============================================================================
