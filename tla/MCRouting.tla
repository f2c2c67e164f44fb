----------------------------- MODULE MCRouting -----------------------------
(* Model values and bounds for the run of Routing. *)
EXTENDS Routing

L(b) == Local(b, <<>>)

Key(pre, any, d) == [t |-> [pre |-> pre, any |-> any], d |-> d]

(* b, b+t, %, b% and b+t% in d1, % in d2 *)
MCAliasKeys == {Key(L("b"), FALSE, "d1"), Key(Local("b", <<"t">>), FALSE, "d1"),
                Key(None, TRUE, "d1"), Key(L("b"), TRUE, "d1"),
                Key(Local("b", <<"t">>), TRUE, "d1"), Key(None, TRUE, "d2")}
MCMailboxes == {Addr(L("a"), "d1"), Addr(L("a"), "d2")}
MCOutside == Addr(L("x"), "elsewhere")
MCRealName == [n \in {"alt"} |-> "d1"]
MCDestinations == {{}, {Addr(L("a"), "d1")}, {MCOutside}}
MCWildcards == {}
=============================================================================
