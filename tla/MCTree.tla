------------------------------- MODULE MCTree -------------------------------
(***************************************************************************)
(* Builds the tree constants of DataTree from the children of each         *)
(* position.                                                               *)
(***************************************************************************)
EXTENDS Naturals, Sequences

LOCAL INSTANCE SequencesExt

ParentOf(kids, root) ==
  [p \in DOMAIN kids |->
     IF p = root THEN root ELSE CHOOSE q \in DOMAIN kids : p \in ToSet(kids[q])]

BelowOf(kids, root) ==
  LET parent == ParentOf(kids, root)
      above[p \in DOMAIN kids] == IF p = root THEN {p} ELSE {p} \cup above[parent[p]]
  IN  [p \in DOMAIN kids |-> {q \in DOMAIN kids : p \in above[q]}]
=============================================================================
