----------------------------- MODULE MCEditWhen -----------------------------
(***************************************************************************)
(* container y { when "z=v2"; leaf z; leaf q; }                            *)
(* leaf g { when "w=v2"; }                                                 *)
(* leaf w;                                                                 *)
(***************************************************************************)
EXTENDS EditInvariant, MCTree

CONSTANTS v1, v2

MCRoot == "root"
MCKids == [root |-> <<"y", "g", "w">>, y |-> <<"z", "q">>,
           z |-> <<>>, q |-> <<>>, g |-> <<>>, w |-> <<>>]
MCPos == DOMAIN MCKids
MCParent == ParentOf(MCKids, MCRoot)
MCBelow == BelowOf(MCKids, MCRoot)
MCKind == [p \in MCPos |-> IF p \in {"root", "y"} THEN "container" ELSE "leaf"]
MCCase == [p \in MCPos |-> NoCase]
MCChoiceOf == <<>>
MCDefault == [p \in MCPos |-> Absent]
MCWhen == [p \in MCPos |-> CASE p = "y" -> [leaf |-> "z", val |-> v2]
                             [] p = "g" -> [leaf |-> "w", val |-> v2]
                             [] OTHER -> NoWhen]

Nothing == [p \in MCPos |-> IF p = MCRoot THEN Obj ELSE Absent]
MCSources ==
  {[Nothing EXCEPT !["y"] = Obj, !["z"] = v, !["q"] = v2] : v \in {v1, v2}} \cup
  {[Nothing EXCEPT !["g"] = v1, !["w"] = v] : v \in {v1, v2}} \cup
  {[Nothing EXCEPT !["y"] = Obj, !["q"] = v1, !["g"] = v2, !["w"] = v2]}
MCTargets ==
  {Nothing} \cup
  {[Nothing EXCEPT !["y"] = Obj, !["z"] = v, !["q"] = v1, !["w"] = w] :
     v, w \in {v1, v2}}

Req(kind, base, dir, defaults) ==
  [kind |-> kind, base |-> base, dir |-> dir, defaults |-> defaults]
MCRequests ==
  {Req(k, "root", "into", FALSE) : k \in Strategy} \cup
  {Req(k, "root", "from", FALSE) : k \in Strategy} \cup
  {Req("upsert", "y", "from", FALSE), Req("delete", "y", "from", FALSE)}
=============================================================================
