------------------------------ MODULE MCProxy ------------------------------
(***************************************************************************)
(* container c { leaf d { default v1; } leaf x; }                          *)
(* list l { key k; leaf e { default v1; } }   with the item i              *)
(***************************************************************************)
EXTENDS ConfigProxy, MCTree

CONSTANTS v1, v2

MCRoot == "root"
MCKids == [root |-> <<"c", "l">>, c |-> <<"d", "x">>, d |-> <<>>, x |-> <<>>,
           l |-> <<"i">>, i |-> <<"e">>, e |-> <<>>]
MCPos == DOMAIN MCKids
MCParent == ParentOf(MCKids, MCRoot)
MCBelow == BelowOf(MCKids, MCRoot)
MCKind == [p \in MCPos |-> CASE p \in {"root", "c"} -> "container"
                             [] p = "l" -> "list"
                             [] p = "i" -> "item"
                             [] OTHER -> "leaf"]
MCCase == [p \in MCPos |-> NoCase]
MCChoiceOf == <<>>
MCDefault == [p \in MCPos |-> IF p \in {"d", "e"} THEN v1 ELSE Absent]
MCWhen == [p \in MCPos |-> NoWhen]

Of(present, v) ==
  [p \in MCPos |-> IF p # MCRoot /\ p \notin present THEN Absent
                   ELSE IF MCKind[p] = "leaf" THEN v ELSE Obj]
MCSources == {Of({"c", "x", "l"}, v2), Of({"c", "d", "l", "i"}, v2)}
MCTargets == {Of({}, v2), Of({"c", "d", "l"}, v2)}

Req(kind, base, defaults) ==
  [kind |-> kind, base |-> base, dir |-> "from", defaults |-> defaults]
MCRequests ==
  {Req("upsert", "root", FALSE), Req("update", "root", FALSE),
   Req("upsert", "c", TRUE), Req("insert", "l", FALSE),
   Req("delete", "c", FALSE), Req("delete", "i", FALSE)}
=============================================================================
