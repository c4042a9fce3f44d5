------------------------------ MODULE DataTree ------------------------------
(***************************************************************************)
(* A data node together with the part of the YANG schema that drives it.   *)
(*                                                                         *)
(* A position stands for one place of the instance data tree: a container, *)
(* a list, an item of a list (its key is part of its identity) or a leaf.  *)
(* A data node is a total function from positions to what they hold, and   *)
(* the operators below are what node.Node's callbacks (Child, Next, Field, *)
(* Choose) do to it, as nodeutil.ReflectChild over a Go map implements     *)
(* them and nodeutil.ReadJSON reads them.                                  *)
(***************************************************************************)
EXTENDS Naturals, Sequences

CONSTANTS
  Pos,       \* every position of the instance data
  Root,      \* the position of the module itself
  Parent,    \* Parent[p] is the position p sits in; the root is its own parent
  Below,     \* Below[p] is p and every position under it
  Kind,      \* "container", "list", "item" or "leaf"
  Kids,      \* the positions directly under p, in the order of the schema
  Case,      \* the case of a choice p is defined in, or NoCase
  ChoiceOf,  \* the choice each case belongs to
  Default,   \* the default of a leaf, or Absent
  When,      \* the "when" of p: [leaf, val], met while leaf reads as val; or NoWhen
  Val,       \* the values of leaves
  Obj,       \* what a present container, list or item holds
  Absent, NoCase, NoWhen

Cases  == DOMAIN ChoiceOf
Leaves == {p \in Pos : Kind[p] = "leaf"}
Inner  == Pos \ Leaves

ASSUME TokensAssumption ==
  /\ Absent \notin Val \cup {Obj}
  /\ Obj \notin Val
  /\ NoCase \notin Cases

ASSUME PosAssumption ==
  /\ Root \in Pos
  /\ Kind \in [Pos -> {"container", "list", "item", "leaf"}]
  /\ Kind[Root] = "container"

\* Positions form a tree: Below is a partial order that Parent generates, in
\* which what is above a position is linearly ordered.
ASSUME TreeAssumption ==
  /\ Parent \in [Pos -> Inner]
  /\ Below \in [Pos -> SUBSET Pos]
  /\ Parent[Root] = Root
  /\ Below[Root] = Pos
  /\ \A p \in Pos \ {Root} : Parent[p] # p
  /\ \A p \in Pos : p \in Below[p]
  /\ \A p \in Leaves : Below[p] = {p}
  /\ \A p, q \in Pos : q \in Below[p] /\ p \in Below[q] => p = q
  /\ \A p, q, r \in Pos : r \in Below[q] /\ q \in Below[p] => r \in Below[p]
  /\ \A p, q, r \in Pos :
       r \in Below[p] /\ r \in Below[q] => (p \in Below[q] \/ q \in Below[p])
  /\ \A p \in Pos, q \in Pos \ {Root} :
       q \in Below[p] <=> (q = p \/ Parent[q] \in Below[p])

ASSUME KidsAssumption ==
  /\ Kids \in [Pos -> Seq(Pos \ {Root})]
  /\ \A p \in Pos : \A n \in DOMAIN Kids[p] : Parent[Kids[p][n]] = p
  /\ \A p \in Pos \ {Root} : \E n \in DOMAIN Kids[Parent[p]] : Kids[Parent[p]][n] = p
  /\ \A p \in Pos : \A m, n \in DOMAIN Kids[p] : Kids[p][m] = Kids[p][n] => m = n
  /\ \A p \in Pos : \A q \in Below[p] \ {p} : \E n \in DOMAIN Kids[p] : q \in Below[Kids[p][n]]
  /\ \A p \in Pos \ {Root} : Kind[p] = "item" <=> Kind[Parent[p]] = "list"

\* A list's entries are in no case of their own, and a "when" sits on a
\* container or a leaf and reads a leaf that has none.
ASSUME SchemaAssumption ==
  /\ Case \in [Pos -> Cases \cup {NoCase}]
  /\ \A p \in Pos : Kind[p] = "item" \/ p = Root => Case[p] = NoCase
  /\ Default \in [Pos -> Val \cup {Absent}]
  /\ \A p \in Inner : Default[p] = Absent
  /\ DOMAIN When = Pos
  /\ \A p \in Pos : When[p] # NoWhen =>
       /\ p # Root
       /\ Kind[p] \in {"container", "leaf"}
       /\ When[p] \in [leaf : Leaves, val : Val]
       /\ When[When[p].leaf] = NoWhen

-----------------------------------------------------------------------------
(***************************************************************************)
(* Data nodes.                                                             *)
(***************************************************************************)
Tree == [Pos -> Val \cup {Obj, Absent}]

WellTyped(t) ==
  /\ t \in Tree
  /\ \A p \in Leaves : t[p] # Obj
  /\ \A p \in Inner : t[p] \in {Obj, Absent}

\* Nothing is present under a position that is not.
Rooted(t) ==
  /\ t[Root] = Obj
  /\ \A p \in Pos : \A q \in Below[p] : t[q] # Absent => t[p] # Absent

\* What Node.Choose may answer: Choice.Cases() is a Go map, of which any case
\* that has data may come first. Without any it answers nil.
Choosable(t, p, ch) ==
  {c \in Cases : /\ ChoiceOf[c] = ch
                 /\ \E k \in Pos \ {Root} : Parent[k] = p /\ Case[k] = c /\ t[k] # Absent}

\* containerMetaList visits k only when k is in no choice or in a chosen case.
Selected(t, k) ==
  Case[k] # NoCase => Case[k] \in Choosable(t, Parent[k], ChoiceOf[Case[k]])

\* At most one case of every choice holds data.
OneCase(t) ==
  \A p, q \in Pos \ {Root} :
    ( /\ Parent[p] = Parent[q]
      /\ Case[p] # NoCase /\ Case[q] # NoCase
      /\ ChoiceOf[Case[p]] = ChoiceOf[Case[q]]
      /\ t[p] # Absent /\ t[q] # Absent ) => Case[p] = Case[q]

\* The data nodes a walk over t may see: containerMetaList asks Choose once for
\* each choice of each container it comes to, so of cases that both have data it
\* sees one.
Views(t) ==
  LET held   == {k \in Pos \ {Root} : Case[k] # NoCase /\ t[k] # Absent}
      At(k)  == <<Parent[k], ChoiceOf[Case[k]]>>
      places == {At(k) : k \in held}
      View(answer) ==
        [p \in Pos |-> IF \E k \in held : p \in Below[k] /\ Case[k] # answer[At(k)]
                       THEN Absent ELSE t[p]]
  IN  {View(answer) : answer \in {f \in [places -> Cases] :
         \A place \in places : f[place] \in Choosable(t, place[1], place[2])}}

\* Node.Child or Node.Next with New: a fresh, empty object replaces whatever
\* the position held.
Create(t, p) ==
  [q \in Pos |-> IF q = p THEN Obj ELSE IF q \in Below[p] THEN Absent ELSE t[q]]

\* Node.Child or Node.Next with Delete, and Node.Field with Clear.
Erase(t, p) == [q \in Pos |-> IF q \in Below[p] THEN Absent ELSE t[q]]

\* Node.Field with Write.
Write(t, p, v) == [t EXCEPT ![p] = v]

\* Selection.GetValue, which falls back on the default.
Reading(t, l) ==
  IF t[Parent[l]] = Absent THEN Absent
  ELSE IF t[l] # Absent THEN t[l] ELSE Default[l]

\* CheckWhen.check
WhenMet(t, p) ==
  IF When[p] = NoWhen THEN TRUE ELSE Reading(t, When[p].leaf) = When[p].val
=============================================================================
