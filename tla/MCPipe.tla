------------------------------- MODULE MCPipe -------------------------------
(***************************************************************************)
(* leaf c;                                                                 *)
(* container a { container b { leaf x; } }                                 *)
(* list p { key k; leaf k; container q { leaf s; } }                       *)
(* which is the module of pipe_test.go without the list in p; and another  *)
(* module with that list,                                                  *)
(*   list p { key k; leaf k; list r { leaf z; } }                          *)
(***************************************************************************)
EXTENDS Pipe

CONSTANTS v1, v2

MCKids == [m |-> <<"c", "a", "p">>, c |-> <<>>, a |-> <<"b">>, b |-> <<"x">>,
           x |-> <<>>, p |-> <<"k", "q">>, k |-> <<>>, q |-> <<"s">>, s |-> <<>>]
MCDef == DOMAIN MCKids
MCKind == [d \in MCDef |-> IF d \in {"m", "a", "b", "q"} THEN "container"
                           ELSE IF d = "p" THEN "list" ELSE "leaf"]

Leaf(d, v) == [tok |-> "leaf", def |-> d, val |-> v, kids |-> <<>>]
In(d, kids) == [tok |-> "select", def |-> d, val |-> None, kids |-> kids]
Item(d, kids) == [tok |-> "item", def |-> d, val |-> None, kids |-> kids]

MCContents ==
  { head \o body \o tail :
      head \in {<<>>, <<Leaf("c", v1)>>},
      body \in {<<>>, <<In("a", <<>>)>>, <<In("a", <<In("b", <<Leaf("x", v1)>>)>>)>>},
      tail \in {<<>>, <<In("p", <<>>)>>}
        \cup {<<In("p", <<Item("p", <<Leaf("k", v1)>> \o q), Item("p", <<Leaf("k", v2)>>)>>)>> :
                q \in {<<>>, <<In("q", <<Leaf("s", v1)>>)>>}} }

\* The nodes of contents and those below them.
RECURSIVE NodesOf(_)
NodesOf(nodes) == UNION {{nodes[n]} \cup NodesOf(nodes[n].kids) : n \in DOMAIN nodes}
MCNode == UNION {NodesOf(nodes) : nodes \in MCContents}

NestedKids == [m |-> <<"p">>, p |-> <<"k", "r">>, k |-> <<>>, r |-> <<"z">>, z |-> <<>>]
NestedDef == DOMAIN NestedKids
NestedKind == [d \in NestedDef |-> IF d = "m" THEN "container"
                                   ELSE IF d \in {"p", "r"} THEN "list" ELSE "leaf"]
NestedContents ==
  {<<In("p", <<Item("p", <<Leaf("k", v1), In("r", <<Item("r", <<Leaf("z", v1)>>)>>)>>),
               Item("p", <<Leaf("k", v2)>>)>>)>>}
NestedNode == UNION {NodesOf(nodes) : nodes \in NestedContents}

ASSUME MCPlain == Kids = MCKids => NamedOnce /\ FlatLists /\ EndsInList
=============================================================================
