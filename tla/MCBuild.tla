------------------------------- MODULE MCBuild -------------------------------
(* Two COMPOOLs and a program.  The second COMPOOL and the program import   *)
(* what is there before them in any order; names are reused, so that        *)
(* imports shadow each other and own declarations shadow imports; some      *)
(* definitions no symbol refers to shift the indices of the others.         *)
EXTENDS BuildPromise

Signed(w) == [bt |-> "s", width |-> w, ptrs |-> 0]
MCStatus(vals) == [bt |-> "status", vals |-> vals, ptrs |-> 0]
Ref(n) == [bt |-> "ref", name |-> n, ptrs |-> 0]
Like(n) == [bt |-> "like", name |-> n, ptrs |-> 0]
Ptr(of) == [of EXCEPT !.ptrs = @ + 1]

Item(n, spec) == [k |-> "item", name |-> n, spec |-> spec]
Lit(v) == [op |-> "lit", val |-> v]
Named(n) == [op |-> "name", name |-> n]
Const(n, v) == [k |-> "const", name |-> n, spec |-> Signed(32), val |-> v]
Define(n, v) == [k |-> "define", name |-> n, val |-> v]
Type(n, spec) == [k |-> "type", name |-> n, spec |-> spec]
Proc(n, params) == [k |-> "proc", name |-> n, params |-> params, spec |-> Signed(32)]
Fld(n, spec, by) == [name |-> n, spec |-> spec, by |-> by]
TableTo(hi, n, flds) ==
  [k |-> "table", name |-> n, lo |-> Lit(0), hi |-> hi, wordsz |-> 32, flds |-> flds]
Table(n, flds) == TableTo(Lit(3), n, flds)
Block(ds) == <<[k |-> "block"]>> \o ds \o <<[k |-> "end"]>>
Inner(n, ds) == <<[k |-> "compool", name |-> n]>> \o ds

First == {
  <<Type("T", MCStatus(<<"red", "green">>)), Item("X", Ptr(Ref("T")))>>,
  Block(<<Type("T", MCStatus(<<"off">>)), Table("W", <<>>)>>) \o
    <<Table("W", <<Fld("a", Signed(16), "plain"),
                   Fld("b", MCStatus(<<"red", "green">>), "overlay")>>)>>,
  <<Table("W", <<Fld("a", Signed(8), "plain"), Fld("b", Signed(16), "overlay")>>)>>,
  Block(<<Table("W", <<>>)>>),
  <<Const("X", Lit(7)), Proc("P", 1)>>}
Second == {
  <<Type("C", MCStatus(<<"green", "red">>)), Item("X", Ref("C"))>>,
  Block(<<Item("X", Signed(8))>> \o Block(<<Type("C", MCStatus(<<"blue">>))>>)) \o
    <<Table("T", <<Fld("a", Ptr(Ptr(Ref("W"))), "plain"),
                   Fld("c", MCStatus(<<"on", "off">>), "pos")>>)>>,
  <<Item("Y", Like("X")), Proc("X", 1), Define("T", Lit(2))>>,
  <<Define("T", Named("X")), Const("X", Lit(5)), TableTo(Named("X"), "C", <<>>)>>}
Last3 == {
  <<Item("Z", Ref("T")), Type("T", MCStatus(<<"blue", "green">>))>>,
  Inner("C", <<Type("X", Ptr(Ref("X"))), Item("W", Signed(16))>>)}

MCSources == <<First, Second, Last3>>
MCOrders == <<{<<>>}, {<<>>, <<1>>}, {<<2>>, <<2, 1>>}>>

Ample == [types |-> 40, syms |-> 20, scopes |-> 3, stdef |-> 10, tbldef |-> 10, strs |-> 30]
MCLimits == {Ample,
  [Ample EXCEPT !.types = 6], [Ample EXCEPT !.syms = 3],
  [Ample EXCEPT !.stdef = 2], [Ample EXCEPT !.tbldef = 2], [Ample EXCEPT !.strs = 2]}
=============================================================================
