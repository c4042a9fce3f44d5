---------------------------- MODULE MCEditChoice ----------------------------
(***************************************************************************)
(* container c {                                                           *)
(*   leaf d { default v1; }                                                *)
(*   choice ch { case A { leaf a; container ac { leaf ax; } }              *)
(*               case B { leaf b; } } }                                    *)
(***************************************************************************)
EXTENDS EditInvariant, MCTree

CONSTANTS v1, v2

MCRoot == "root"
MCKids == [root |-> <<"c">>, c |-> <<"d", "a", "ac", "b">>, d |-> <<>>,
           a |-> <<>>, ac |-> <<"ax">>, ax |-> <<>>, b |-> <<>>]
MCPos == DOMAIN MCKids
MCParent == ParentOf(MCKids, MCRoot)
MCBelow == BelowOf(MCKids, MCRoot)
MCKind == [p \in MCPos |-> IF p \in {"root", "c", "ac"} THEN "container" ELSE "leaf"]
MCCase == [p \in MCPos |-> CASE p \in {"a", "ac"} -> "A" [] p = "b" -> "B"
                             [] OTHER -> NoCase]
MCChoiceOf == [A |-> "ch", B |-> "ch"]
MCDefault == [p \in MCPos |-> IF p = "d" THEN v1 ELSE Absent]
MCWhen == [p \in MCPos |-> NoWhen]

\* The tree that holds v2 in the leaves of present, and an empty object in the
\* rest of it.
TreeOf(present) ==
  [p \in MCPos |-> IF p \notin present \cup {MCRoot} THEN Absent
                   ELSE IF MCKind[p] = "leaf" THEN v2 ELSE Obj]
MCSources ==
  {TreeOf({"c", "a"}), TreeOf({"c", "ac", "ax"}), TreeOf({"c", "b"}),
   TreeOf({"c", "d", "ac", "b"})}
MCTargets ==
  {TreeOf({}), TreeOf({"c", "a", "ac", "ax"}), TreeOf({"c", "d", "b"})}

Req(kind, base, dir, defaults) ==
  [kind |-> kind, base |-> base, dir |-> dir, defaults |-> defaults]
MCRequests ==
  {Req(k, "root", "from", FALSE) : k \in Strategy} \cup
  {Req("upsert", "root", "from", TRUE), Req("upsert", "c", "into", FALSE),
   Req("delete", "c", "from", FALSE), Req("delete", "ac", "from", FALSE)}
=============================================================================
