-------------------------------- MODULE Merge --------------------------------
(***************************************************************************)
(* What an edit call makes of the data it is given and the data it finds,  *)
(* position by position: the result of node/edit.go's walk stated without  *)
(* the walk.  Schemas with a "when" are left out.                          *)
(***************************************************************************)
EXTENDS DataTree

CONSTANTS
  Requests,  \* the calls made: [kind, base, dir, defaults]
  Sources,   \* the data nodes they copy from
  Targets    \* the data nodes they start on

Strategy == {"insert", "upsert", "update"}

\* InsertFrom, UpsertFrom, UpdateFrom and Delete edit the selection itself
\* (dir "from"), InsertInto, UpsertInto and UpdateInto the node they are given
\* (dir "into"); the ...SetDefaults variants set "defaults".
Request ==
  [kind : Strategy \cup {"delete"}, base : Inner, dir : {"from", "into"},
   defaults : BOOLEAN]

ASSUME RequestAssumption ==
  /\ Requests \subseteq Request
  /\ Requests # {} /\ Sources # {}
  /\ \A r \in Requests :
       /\ r.kind = "delete" => r.base # Root /\ r.dir = "from" /\ ~r.defaults
       /\ r.defaults => r.kind = "upsert"
  /\ \A t \in Sources \cup Targets : WellTyped(t) /\ Rooted(t)

\* The leaf a "when" reads is in no case, so it is in every view of its data.
ASSUME WhenAssumption ==
  \A p \in Pos : When[p] # NoWhen =>
    \A a \in Pos : When[p].leaf \in Below[a] => Case[a] = NoCase

\* What an edit may see of the data it copies from. The source does not change
\* meanwhile and is asked once about each choice, so its answers can be drawn
\* when the edit is called.
Seen == UNION {Views(src) : src \in Sources}

-----------------------------------------------------------------------------
\* The positions an edit at r.base may copy to p through, p's own included.
Through(r, p) == {a \in Below[r.base] \ {r.base} : p \in Below[a]}

\* Items are edited with upsert whatever the call was.
StrategyAt(r, p) ==
  IF \E a \in Through(r, p) : Kind[a] = "item" THEN "upsert" ELSE r.kind

\* The source holds p, and every choice on the way to it selects that way.
Reached(r, src, p) ==
  /\ p \in Below[r.base]
  /\ \A a \in Through(r, p) : src[a] # Absent /\ Selected(src, a)

\* Defaults fill in the leaves of what the edit creates, or of everything it
\* reaches when asked to.
Fills(r, t, q) ==
  r.defaults \/ (StrategyAt(r, q) # "update" /\ q # r.base /\ t[q] = Absent)

\* What the edit puts at p, or Absent when it puts nothing there.
Given(r, src, t, p) ==
  IF p \notin Below[r.base] \ {r.base} \/ ~Reached(r, src, Parent[p])
     \/ ~Selected(src, p) THEN Absent
  ELSE IF src[p] = Absent /\ Fills(r, t, Parent[p]) THEN Default[p]
  ELSE src[p]

\* Some position of the case a is in has to give way: given holds something
\* for another case of the same choice.
Displaced(r, given, a) ==
  /\ StrategyAt(r, Parent[a]) = "upsert"
  /\ Case[a] # NoCase
  /\ \E n \in DOMAIN Kids[Parent[a]] :
       LET k == Kids[Parent[a]][n]
       IN  /\ given[k] # Absent
           /\ Case[k] \notin {NoCase, Case[a]}
           /\ ChoiceOf[Case[k]] = ChoiceOf[Case[a]]

Merge(r, src, t) ==
  LET given == [p \in Pos |-> Given(r, src, t, p)]
      gone  == {a \in Below[r.base] \ {r.base} : Displaced(r, given, a)}
  IN  IF r.kind = "delete" THEN Erase(t, r.base)
      ELSE [p \in Pos |-> IF given[p] # Absent THEN given[p]
                          ELSE IF Through(r, p) \cap gone # {} THEN Absent
                          ELSE t[p]]

\* Insert refuses a container or an item that is there, update one that is not.
Refused(r, src, t) ==
  \E p \in (Below[r.base] \ {r.base}) \cap Inner :
    /\ Given(r, src, t, p) # Absent
    /\ \/ StrategyAt(r, Parent[p]) = "insert" /\ t[p] # Absent
       \/ StrategyAt(r, Parent[p]) = "update" /\ t[p] = Absent

Between(r, src, t, u) ==
  /\ Rooted(u)
  /\ LET m == Merge(r, src, t) IN \A p \in Pos : u[p] = t[p] \/ u[p] = m[p]
=============================================================================
