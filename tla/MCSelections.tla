---------------------------- MODULE MCSelections ----------------------------
(***************************************************************************)
(* leaf g { default v1; }                                                  *)
(* container a { leaf a { default v1; } leaf s { config false; }           *)
(*               container d { leaf e; } }                                 *)
(* container b { container w { when "z=v1"; leaf z { default v1; } leaf q; }*)
(*               leaf u { when "t=v2"; } leaf t { config false; } }        *)
(* list l { key k; leaf k; container n { config false; leaf y; } }         *)
(* choice ch { leaf h1; leaf h2; }                                         *)
(* with three items in l. The name of a position is its definition's; the  *)
(* leaf a of the container a is at the position aa.  One of the sources    *)
(* has data in both cases of ch, as a Go struct can.                       *)
(***************************************************************************)
EXTENDS Selections

CONSTANTS v1, v2

MCRoot == "root"
MCKids ==
  [root |-> <<"g", "a", "b", "l", "h1", "h2">>, g |-> <<>>,
   a |-> <<"aa", "s", "d">>, aa |-> <<>>, s |-> <<>>, d |-> <<"e">>, e |-> <<>>,
   b |-> <<"w", "u", "t">>, w |-> <<"z", "q">>, z |-> <<>>, q |-> <<>>,
   u |-> <<>>, t |-> <<>>,
   l |-> <<"i1", "i2", "i3">>, i1 |-> <<"k1", "n1">>, i2 |-> <<"k2">>, i3 |-> <<"k3">>,
   k1 |-> <<>>, k2 |-> <<>>, k3 |-> <<>>, n1 |-> <<"y1">>, y1 |-> <<>>,
   h1 |-> <<>>, h2 |-> <<>>]
MCPos == DOMAIN MCKids
MCParent ==
  [root |-> "root", g |-> "root", a |-> "root", aa |-> "a", s |-> "a", d |-> "a", e |-> "d",
   b |-> "root", w |-> "b", z |-> "w", q |-> "w", u |-> "b", t |-> "b",
   l |-> "root", i1 |-> "l", i2 |-> "l", i3 |-> "l", k1 |-> "i1", n1 |-> "i1", y1 |-> "n1",
   k2 |-> "i2", k3 |-> "i3", h1 |-> "root", h2 |-> "root"]
UnderInner ==
  [root |-> MCPos, a |-> {"a", "aa", "s", "d", "e"}, d |-> {"d", "e"},
   b |-> {"b", "w", "z", "q", "u", "t"}, w |-> {"w", "z", "q"},
   l |-> {"l", "i1", "k1", "n1", "y1", "i2", "k2", "i3", "k3"},
   i1 |-> {"i1", "k1", "n1", "y1"}, n1 |-> {"n1", "y1"}, i2 |-> {"i2", "k2"},
   i3 |-> {"i3", "k3"}]
MCBelow == [p \in MCPos |-> IF p \in DOMAIN UnderInner THEN UnderInner[p] ELSE {p}]
MCKind == [p \in MCPos |-> CASE p \in {"root", "a", "d", "b", "w", "n1"} -> "container"
                             [] p = "l" -> "list"
                             [] p \in {"i1", "i2", "i3"} -> "item"
                             [] OTHER -> "leaf"]
MCIdent == [p \in MCPos |-> CASE p = "aa" -> "a"
                              [] p \in {"i1", "i2", "i3"} -> "l"
                              [] p \in {"k1", "k2", "k3"} -> "k"
                              [] p = "n1" -> "n"
                              [] p = "y1" -> "y"
                              [] OTHER -> p]
MCName == {MCIdent[p] : p \in MCPos}
MCConfig == MCPos \ {"s", "t", "n1", "y1"}
MCCase == [p \in MCPos |-> CASE p = "h1" -> "H1" [] p = "h2" -> "H2" [] OTHER -> NoCase]
MCChoiceOf == [H1 |-> "ch", H2 |-> "ch"]
MCDefault == [p \in MCPos |-> IF p \in {"g", "aa", "z"} THEN v1 ELSE Absent]
MCWhen == [p \in MCPos |-> CASE p = "w" -> [leaf |-> "z", val |-> v1]
                             [] p = "u" -> [leaf |-> "t", val |-> v2]
                             [] OTHER -> NoWhen]

Holding(leaves, inner) ==
  [p \in MCPos |-> IF p \in inner \cup {"root"} THEN Obj
                   ELSE IF p \in DOMAIN leaves THEN leaves[p] ELSE Absent]
MCSources ==
  {Holding([g |-> v1, aa |-> v2, s |-> v1, e |-> v1, q |-> v2, u |-> v1, t |-> v2,
            k1 |-> v1, k2 |-> v1, k3 |-> v2, y1 |-> v2, h2 |-> v1],
           {"a", "d", "b", "w", "l", "i1", "n1", "i2", "i3"}),
   Holding([s |-> v2, z |-> v2, u |-> v1, t |-> v1, k2 |-> v1, h1 |-> v2, h2 |-> v1],
           {"a", "b", "w", "l", "i2"})}

Within(selector, start, end) ==
  "fc.range" :> [selector |-> selector, start |-> start, end |-> end]
One(name) == <<<<name>>>>

MCQueries ==
  {NoQuery, [depth |-> 1], [fields |-> One("a"), depth |-> Bad],
   [fields |-> <<<<"l", "k">>, <<"a">>>>],
   "fc.xfields" :> One("a"), [content |-> "config"],
   Within(<<>>, 1, -1) @@ [content |-> "nonconfig", depth |-> 2],
   "with-defaults" :> "trim", Within(One("l"), 1, 2),
   Within(<<>>, 2, 1) @@ [fields |-> One("k")],
   "fc.max-node-count" :> 0, [content |-> Bad]}
=============================================================================
