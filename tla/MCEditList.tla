----------------------------- MODULE MCEditList -----------------------------
(***************************************************************************)
(* list l { key k; leaf x { default v1; } container y; }                   *)
(* with two keys: the items i1 (x1, y1) and i2 (x2, y2).                   *)
(***************************************************************************)
EXTENDS EditInvariant, MCTree

CONSTANTS v1, v2

MCRoot == "root"
MCKids == [root |-> <<"l">>, l |-> <<"i1", "i2">>,
           i1 |-> <<"x1", "y1">>, i2 |-> <<"x2", "y2">>,
           x1 |-> <<>>, y1 |-> <<>>, x2 |-> <<>>, y2 |-> <<>>]
MCPos == DOMAIN MCKids
MCParent == ParentOf(MCKids, MCRoot)
MCBelow == BelowOf(MCKids, MCRoot)
MCKind == [p \in MCPos |-> CASE p \in {"root", "y1", "y2"} -> "container"
                             [] p = "l" -> "list"
                             [] p \in {"i1", "i2"} -> "item"
                             [] OTHER -> "leaf"]
MCCase == [p \in MCPos |-> NoCase]
MCChoiceOf == <<>>
MCDefault == [p \in MCPos |-> IF p \in {"x1", "x2"} THEN v1 ELSE Absent]
MCWhen == [p \in MCPos |-> NoWhen]

TreeOf(present) ==
  [p \in MCPos |-> IF p \notin present \cup {MCRoot} THEN Absent
                   ELSE IF MCKind[p] = "leaf" THEN v2 ELSE Obj]
MCSources ==
  {TreeOf({"l"}), TreeOf({"l", "i1", "x1"}), TreeOf({"l", "i1", "y1", "i2"}),
   TreeOf({"l", "i2", "x2", "y2"})}
MCTargets == {TreeOf({}), TreeOf({"l", "i1", "x1"}), TreeOf({"l", "i1", "i2", "y2"})}

Req(kind, base, dir, defaults) ==
  [kind |-> kind, base |-> base, dir |-> dir, defaults |-> defaults]
MCRequests ==
  {Req(k, "root", "from", FALSE) : k \in Strategy} \cup
  {Req("upsert", "l", "from", TRUE), Req("insert", "l", "into", FALSE),
   Req("update", "i1", "from", FALSE), Req("delete", "i1", "from", FALSE)}
=============================================================================
