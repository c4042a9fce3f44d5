----------------------------- MODULE Constraints -----------------------------
(***************************************************************************)
(* node/constraints.go and the constraints that URL parameters make of a   *)
(* selection: what each of them answers when a walk or a read comes to a   *)
(* position, and in which order they are asked.                            *)
(*                                                                         *)
(* An answer is "more" (go on), "stop" (pass over it without an error),    *)
(* "fail" (an error) or "panic".                                           *)
(***************************************************************************)
EXTENDS DataTree, SequencesExt

CONSTANTS
  Name,   \* the names of definitions, and others a parameter may give
  Ident,  \* the name of the definition of each position
  Config, \* the positions whose definitions are configuration
  Bad     \* a parameter that cannot be parsed

\* Every position is at some depth.
ASSUME IdentAssumption ==
  /\ Ident \in [Pos -> Name]
  /\ Config \subseteq Pos
  /\ \A p \in Pos : IsFiniteSet({a \in Pos : p \in Below[a]})

\* A parameter's name is the name of its constraint.
Parameters == {"depth", "fields", "fc.xfields", "fc.range", "fc.max-node-count",
               "content", "with-defaults"}

\* A selector is its slices, none of which is empty.
Selectors == Seq(Seq(Name) \ {<<>>})

\* What a parameter can be set to.
IsSetting(id, v) ==
  /\ id \in {"depth", "fc.max-node-count"} => v \in Int
  /\ id \in {"fields", "fc.xfields"} => v \in Selectors
  /\ id = "fc.range" => v \in [selector : Selectors, start : Nat, end : Nat \cup {-1}]
  /\ id = "content" => v \in {"all", "config", "nonconfig"}
  /\ id = "with-defaults" => v \in {"trim", "report-all"}

\* The members of S by their places.
Sorted(S, place) ==
  [n \in 1..Cardinality(S) |->
     CHOOSE x \in S : Cardinality({y \in S : place[y] < place[x]}) = n - 1]

-----------------------------------------------------------------------------
(***************************************************************************)
(* Paths.                                                                  *)
(***************************************************************************)
Ancestry(p) == {a \in Pos \ {Root} : p \in Below[a]}
Level == [p \in Pos |-> Cardinality(Ancestry(p))]

\* The definitions on the way from the root: an item has the path of its list,
\* with a key.
PathOf ==
  [p \in Pos |->
     LET way == Sorted({a \in Ancestry(p) : Kind[a] # "item"}, Level)
     IN  [n \in DOMAIN way |-> Ident[way[n]]]]

\* What the path of p has after that of base.
Under(base, p) == SubSeq(PathOf[p], Len(PathOf[base]) + 1, Len(PathOf[p]))

\* Variant: a path as long as the slice counts as too short.
SliceMatchesShorter(slice, rest) ==
  IF Len(rest) <= Len(slice) THEN "panic" ELSE IF IsPrefix(slice, rest) THEN "yes" ELSE "no"

\* A path shorter than the slice is walked up beyond its root.
SliceMatches(slice, rest) ==
  IF Len(rest) < Len(slice) THEN "panic" ELSE IF IsPrefix(slice, rest) THEN "yes" ELSE "no"

\* The slices of a selector are tried in turn.
PathMatches(selector, rest) ==
  LET decided == {n \in DOMAIN selector : SliceMatches(selector[n], rest) # "no"}
  IN  IF selector = <<>> THEN "yes"
      ELSE IF decided = {} THEN "no"
      ELSE SliceMatches(selector[Min(decided)], rest)

-----------------------------------------------------------------------------
(***************************************************************************)
(* The constraints of a selection: entries by name, and the order in which *)
(* they are asked.                                                         *)
(***************************************************************************)
\* Those of equal priority and weight, and their turns: any.
Tied == {"depth", "fields", "fc.xfields"}
Turns == {turn \in [Tied -> 0..2] : \A a, b \in Tied : turn[a] = turn[b] => a = b}

\* The priority of each constraint, and within it the weight.
Rank(turn) ==
  [id \in Parameters \cup {"~when"} |->
     CASE id = "~when" -> 100
       [] id \in Tied -> 50010 + turn[id]
       [] id = "fc.range" -> 50020
       [] id = "fc.max-node-count" -> 60010
       [] id = "content" -> 70010
       [] id = "with-defaults" -> 70050]

\* sort.Sort of what the map yields.
Compiled(ids) == {Sorted(ids, Rank(turn)) : turn \in Turns}

Constraint(entries) == {[entries |-> entries, order |-> o] : o \in Compiled(DOMAIN entries)}

BaseConstraints == CHOOSE c \in Constraint([i \in {"~when"} |-> TRUE]) : TRUE

\* The parameters whose errors buildConstraints reports; an integer that
\* cannot be parsed is as good as none.
Rejected(query) ==
  \E id \in DOMAIN query : id \in {"fc.range", "content", "with-defaults"} /\ query[id] = Bad

Understood(query) == [id \in {i \in DOMAIN query : query[i] # Bad} |-> query[id]]

\* What the first says, and otherwise the second.
Unless(said, other) ==
  [id \in DOMAIN said \cup DOMAIN other |-> IF id \in DOMAIN said THEN said[id] ELSE other[id]]

SetAnew == [id \in {"depth", "fc.max-node-count"} |-> IF id = "depth" THEN 64 ELSE 10000]

\* Variant: the entries of the parent are not taken over.
BuildConstraintsAfresh(parent, query) ==
  Constraint(Unless(Understood(query), Unless(SetAnew, BaseConstraints.entries)))

\* The parent's entries, with those the query names replaced; the depth and the
\* node count always are.
BuildConstraints(parent, query) ==
  Constraint(Unless(Understood(query), Unless(SetAnew, parent.entries)))

\* The answer of the first one that does not say "more".
Verdict(order, answers) ==
  LET against == {n \in DOMAIN order : answers[order[n]] # "more"}
  IN  IF against = {} THEN "more" ELSE answers[order[Min(against)]]

-----------------------------------------------------------------------------
(***************************************************************************)
(* What each constraint answers.                                           *)
(***************************************************************************)
Proceed(yes) == IF yes THEN "more" ELSE "stop"

FieldsMatcher(selector, reverse, rest) ==
  LET match == PathMatches(selector, rest)
  IN  IF match = "panic" THEN "panic" ELSE Proceed((match = "yes") # reverse)

\* MaxNode counts on a copy of itself.
MaxNode(max) == IF 1 > max THEN "fail" ELSE "more"

\* CheckContainerPreConstraints for the container or list k of the selection at.
CheckContainer(c, base, at, k) ==
  LET e    == c.entries
      rest == Under(base, k)
  IN  Verdict(c.order, [id \in DOMAIN e |->
        CASE id = "depth" -> Proceed(Len(PathOf[at]) - Len(PathOf[base]) < e[id])
          [] id = "fields" -> FieldsMatcher(e[id], FALSE, rest)
          [] id = "fc.xfields" -> FieldsMatcher(e[id], TRUE, rest)
          [] id = "fc.max-node-count" -> MaxNode(e[id])
          [] id = "content" -> Proceed(e[id] = "config" => k \in Config)
          [] OTHER -> "more"])

\* CheckFieldPreConstraints for the leaf l, with what its "when" says.
CheckField(c, rest, l, when) ==
  LET e == c.entries
  IN  Verdict(c.order, [id \in DOMAIN e |->
        CASE id = "~when" -> when
          [] id = "fields" -> FieldsMatcher(e[id], FALSE, rest)
          [] id = "fc.xfields" -> FieldsMatcher(e[id], TRUE, rest)
          [] id = "content" ->
               Proceed(e[id] = "all" \/ (l \in Config) = (e[id] = "config"))
          [] OTHER -> "more"])

\* CheckFieldPostConstraints for a value v of l.
Trim(c, l, v) ==
  IF "with-defaults" \in DOMAIN c.entries /\ c.entries["with-defaults"] = "trim" /\ v = Default[l]
  THEN Absent ELSE v

\* CheckWhen reads the leaf with GetValue, which asks the constraints again, of
\* a request without a path and a base.
CheckWhen(c, t, p) ==
  LET l    == When[p].leaf
      read == CheckField(c, <<>>, l, "more")
  IN  IF When[p] = NoWhen THEN "more"
      ELSE IF read = "panic" THEN "panic"
      ELSE Proceed(read = "more" /\ Trim(c, l, Reading(t, l)) = When[p].val)

HasRange(c) == "fc.range" \in DOMAIN c.entries

InRange(c, base, list) ==
  IF HasRange(c) THEN PathMatches(c.entries["fc.range"].selector, Under(base, list)) ELSE "no"

\* The row of a list that is asked for when the walk has come to row: a range
\* sets the first one.
RowAsked(c, base, list, first, row) ==
  IF first /\ InRange(c, base, list) = "yes" THEN c.entries["fc.range"].start ELSE row

\* Variant: the end is one of the rows.
CheckListPast(c, base, list, first, row) ==
  LET match == InRange(c, base, list)
  IN  IF match = "panic" THEN "panic"
      ELSE Proceed(first \/ match = "no" \/ row <= c.entries["fc.range"].end
                     \/ c.entries["fc.range"].end = -1)

\* CheckListPreConstraints: the end is not looked at for the first row.
CheckList(c, base, list, first, row) ==
  LET match == InRange(c, base, list)
  IN  IF match = "panic" THEN "panic"
      ELSE Proceed(first \/ match = "no" \/ row < c.entries["fc.range"].end
                     \/ c.entries["fc.range"].end = -1)
=============================================================================
