---------------------------- MODULE MergeProofs ----------------------------
(***************************************************************************)
(* What the merge of an edit is, for every schema, request, source and     *)
(* store: a data node again, and one that holds what it was given.         *)
(***************************************************************************)
EXTENDS Merge, TLAPS

-----------------------------------------------------------------------------
(***************************************************************************)
(* Places.                                                                 *)
(***************************************************************************)

\* Only the root, containers, lists and items have something below them.
LEMMA AboveIsInner ==
  ASSUME NEW a \in Pos, NEW p \in Below[a], p # a
  PROVE  a \in Inner
  BY TreeAssumption DEF Inner

LEMMA ParentBelow ==
  ASSUME NEW b \in Pos, NEW p \in Below[b] \ {b}
  PROVE  /\ p \in Pos \ {Root} /\ Parent[p] \in Below[b] /\ Parent[p] \in Inner
         /\ Parent[p] # p /\ p \in Below[Parent[p]] /\ Below[b] \subseteq Pos
<1>1. p \in Pos /\ Below[b] \subseteq Pos
  BY TreeAssumption
<1>2. p # Root
  BY <1>1, TreeAssumption, PosAssumption
<1>3. QED
  BY <1>1, <1>2, TreeAssumption DEF Inner

\* Nothing an edit copies through lies outside what it edits, the base included.
LEMMA ThroughFacts ==
  ASSUME NEW r, r.base \in Inner, NEW p \in Pos
  PROVE  /\ Through(r, p) \subseteq Below[r.base] \ {r.base}
         /\ Through(r, p) \subseteq Pos
         /\ p \in Below[r.base] \ {r.base} => p \in Through(r, p)
         /\ p \notin Below[r.base] \ {r.base} => Through(r, p) = {}
         /\ \A a \in Through(r, p) : p \in Below[a] /\ Through(r, a) \subseteq Through(r, p)
<1>1. r.base \in Pos /\ Below[r.base] \subseteq Pos
  BY TreeAssumption DEF Inner
<1>2. Through(r, p) \subseteq Below[r.base] \ {r.base} /\ Through(r, p) \subseteq Pos
  BY <1>1 DEF Through
<1>3. p \in Below[r.base] \ {r.base} => p \in Through(r, p)
  BY TreeAssumption DEF Through
<1>4. ASSUME NEW a \in Through(r, p)
      PROVE  /\ p \in Below[a] /\ p \in Below[r.base] \ {r.base}
             /\ Through(r, a) \subseteq Through(r, p)
  <2>1. a \in Below[r.base] /\ a # r.base /\ p \in Below[a] /\ a \in Pos
    BY <1>1, <1>4 DEF Through
  <2>2. p \in Below[r.base]
    BY <2>1, <1>1, TreeAssumption
  <2>3. p # r.base
    BY <2>1, <1>1, TreeAssumption
  <2>4. \A c \in Pos : a \in Below[c] => p \in Below[c]
    BY <2>1, TreeAssumption
  <2>5. QED
    BY <2>1, <2>2, <2>3, <2>4, <1>1 DEF Through
<1>5. QED
  BY <1>2, <1>3, <1>4

\* What an edit copies through to a position and to its parent.
LEMMA ThroughParent ==
  ASSUME NEW r, r.base \in Inner, NEW p \in Below[r.base] \ {r.base}
  PROVE  /\ p \in Pos \ {Root} /\ Parent[p] \in Below[r.base]
         /\ Through(r, Parent[p]) = Through(r, p) \ {p}
         /\ \A a \in Through(r, Parent[p]) : a \in Inner
<1>1. r.base \in Pos /\ Below[r.base] \subseteq Pos
  BY TreeAssumption DEF Inner
<1>2. /\ p \in Pos \ {Root} /\ Parent[p] \in Below[r.base] /\ Parent[p] \in Pos
      /\ Parent[p] # p /\ p \in Below[Parent[p]] /\ Parent[p] \in Inner
  BY <1>1, ParentBelow DEF Inner
<1>3. \A a \in Pos : p \in Below[a] <=> (p = a \/ Parent[p] \in Below[a])
  BY <1>2, TreeAssumption
<1>4. Parent[p] \notin Below[p]
  BY <1>2, TreeAssumption
<1>5. Through(r, Parent[p]) = Through(r, p) \ {p}
  BY <1>1, <1>3, <1>4 DEF Through
<1>6. \A a \in Through(r, Parent[p]) : a \in Inner
  <2>1. \A a \in Through(r, Parent[p]) : a \in Pos /\ Parent[p] \in Below[a]
    BY <1>1 DEF Through
  <2>2. QED
    BY <2>1, <1>2, AboveIsInner
<1>7. QED
  BY <1>2, <1>5, <1>6

\* What is above the base is not copied through.
LEMMA AboveBase ==
  ASSUME NEW r, r.base \in Inner, NEW p \in Below[r.base] \ {r.base}
  PROVE  r.base \notin Below[p]
  BY TreeAssumption DEF Inner

-----------------------------------------------------------------------------
(***************************************************************************)
(* What an edit gives.                                                     *)
(***************************************************************************)
Data == Val \cup {Obj, Absent}

\* A value of the kind of the place it is for.
Fit(p, v) == v \in Data /\ (p \in Leaves => v # Obj) /\ (p \in Inner => v \in {Obj, Absent})

LEMMA FitTree ==
  ASSUME NEW t
  PROVE  WellTyped(t) <=> t \in Tree /\ \A p \in Pos : Fit(p, t[p])
  BY DEF WellTyped, Tree, Fit, Data, Leaves, Inner

LEMMA GivenFits ==
  ASSUME NEW r, NEW src, NEW t, NEW p \in Pos, WellTyped(src)
  PROVE  Fit(p, Given(r, src, t, p))
<1>1. Fit(p, src[p])
  BY FitTree
<1>2. Fit(p, Default[p]) /\ Fit(p, Absent)
  BY SchemaAssumption, TokensAssumption DEF Fit, Data, Inner
<1>3. QED
  BY <1>1, <1>2 DEF Given

\* What has something below it is given as the source holds it: only leaves have
\* defaults.
LEMMA GivenInner ==
  ASSUME NEW r, NEW src, NEW t, NEW p \in Inner
  PROVE  /\ Given(r, src, t, p) # Absent => Given(r, src, t, p) = src[p] /\ src[p] # Absent
         /\ src[p] = Absent => Given(r, src, t, p) = Absent
  BY SchemaAssumption DEF Given, Inner

\* What an edit reaches it gives: all it copied through to get there.
LEMMA ReachedGiven ==
  ASSUME NEW r, r.base \in Inner, NEW src, NEW t, NEW p \in Pos, Reached(r, src, p),
         NEW a \in Through(r, p)
  PROVE  /\ Reached(r, src, a) /\ Reached(r, src, Parent[a])
         /\ Given(r, src, t, a) = src[a] /\ src[a] # Absent
<1>1. p \in Below[r.base] /\ \A c \in Through(r, p) : src[c] # Absent /\ Selected(src, c)
  BY DEF Reached
<1>2. a \in Below[r.base] \ {r.base} /\ Through(r, a) \subseteq Through(r, p) /\ a \in Pos
  BY ThroughFacts
<1>3. Parent[a] \in Below[r.base] /\ Through(r, Parent[a]) \subseteq Through(r, a)
  BY <1>2, ThroughParent
<1>4. Reached(r, src, a) /\ Reached(r, src, Parent[a])
  BY <1>1, <1>2, <1>3 DEF Reached
<1>5. src[a] # Absent /\ Selected(src, a)
  BY <1>1
<1>6. QED
  BY <1>2, <1>4, <1>5 DEF Given

\* Nothing is given under what is not given.
LEMMA GivenAbove ==
  ASSUME NEW r, r.base \in Inner, NEW src, NEW t, NEW p \in Pos,
         Given(r, src, t, p) # Absent
  PROVE  /\ p \in Below[r.base] \ {r.base}
         /\ Reached(r, src, Parent[p]) /\ Selected(src, p)
         /\ \A a \in Through(r, p) : Given(r, src, t, a) # Absent
<1>1. p \in Below[r.base] \ {r.base} /\ Reached(r, src, Parent[p]) /\ Selected(src, p)
  BY DEF Given
<1>2. Through(r, Parent[p]) = Through(r, p) \ {p} /\ Parent[p] \in Pos
  BY <1>1, ThroughParent, TreeAssumption DEF Inner
<1>3. \A a \in Through(r, Parent[p]) : Given(r, src, t, a) # Absent
  BY <1>1, <1>2, ReachedGiven
<1>4. QED
  BY <1>1, <1>2, <1>3

-----------------------------------------------------------------------------
(***************************************************************************)
(* What an edit sees of its source.                                        *)
(***************************************************************************)

\* What a walk may see of a data node is a data node with one case of every choice.
LEMMA ViewFacts ==
  ASSUME NEW t, WellTyped(t), Rooted(t), NEW v \in Views(t)
  PROVE  WellTyped(v) /\ Rooted(v) /\ OneCase(v)
<1> DEFINE held == {k \in Pos \ {Root} : Case[k] # NoCase /\ t[k] # Absent}
           At(k) == <<Parent[k], ChoiceOf[Case[k]]>>
           Hidden(f, p) == \E k \in held : p \in Below[k] /\ Case[k] # f[At(k)]
           places == {At(k) : k \in held}
           View(f) == [p \in Pos |-> IF Hidden(f, p) THEN Absent ELSE t[p]]
           Answers == {f \in [places -> Cases] :
                         \A place \in places : f[place] \in Choosable(t, place[1], place[2])}
<1>0. Views(t) = {View(f) : f \in Answers}
  BY Zenon DEF Views
<1>1. PICK f : v = [p \in Pos |-> IF Hidden(f, p) THEN Absent ELSE t[p]]
  <2> HIDE DEF Answers, held
  <2>1. PICK f \in Answers : v = View(f)
    BY <1>0
  <2>2. QED
    BY <2>1
<1>2. \A p \in Pos : v[p] = IF Hidden(f, p) THEN Absent ELSE t[p]
  BY <1>1
<1>3. \A k \in Pos \ {Root} : Case[k] # NoCase /\ v[k] # Absent => Case[k] = f[At(k)]
  <2>1. SUFFICES ASSUME NEW k \in Pos \ {Root}, Case[k] # NoCase, v[k] # Absent,
                        Case[k] # f[At(k)]
                 PROVE  FALSE
    OBVIOUS
  <2>2. k \in held /\ k \in Below[k]
    BY <2>1, <1>2, TreeAssumption
  <2>3. Hidden(f, k)
    BY <2>1, <2>2
  <2>4. QED
    BY <2>1, <2>3, <1>2
<1>4. ~Hidden(f, Root)
  BY TreeAssumption, PosAssumption
<1>5. \A p \in Pos : \A q \in Below[p] : q \in Pos /\ (Hidden(f, p) => Hidden(f, q))
  BY TreeAssumption
<1> HIDE DEF Hidden
<1>6. WellTyped(v)
  <2>1. \A p \in Pos : Fit(p, t[p]) /\ Fit(p, Absent)
    BY FitTree, TokensAssumption DEF Fit, Data
  <2>2. \A p \in Pos : Fit(p, v[p])
    BY <2>1, <1>2
  <2>3. v \in Tree
    BY <1>1, <2>2 DEF Tree, Fit, Data
  <2>4. QED
    BY <2>2, <2>3, FitTree
<1>7. Rooted(v)
  BY <1>2, <1>4, <1>5, PosAssumption DEF Rooted
<1>8. OneCase(v)
  BY <1>3 DEF OneCase
<1>9. QED
  BY <1>6, <1>7, <1>8

LEMMA SeenFacts ==
  ASSUME NEW src \in Seen
  PROVE  WellTyped(src) /\ Rooted(src) /\ OneCase(src)
BY ViewFacts, RequestAssumption DEF Seen

\* Of two cases of one choice only one is selected.
LEMMA OneSelected ==
  ASSUME NEW t, OneCase(t), NEW p \in Pos \ {Root}, NEW q \in Pos \ {Root},
         Parent[p] = Parent[q], Case[p] # NoCase, Case[q] # NoCase,
         ChoiceOf[Case[p]] = ChoiceOf[Case[q]], Selected(t, p), Selected(t, q)
  PROVE  Case[p] = Case[q]
<1>1. PICK k \in Pos \ {Root} : Parent[k] = Parent[p] /\ Case[k] = Case[p] /\ t[k] # Absent
  BY DEF Selected, Choosable
<1>2. PICK l \in Pos \ {Root} : Parent[l] = Parent[q] /\ Case[l] = Case[q] /\ t[l] # Absent
  BY DEF Selected, Choosable
<1>3. QED
  BY <1>1, <1>2 DEF OneCase

-----------------------------------------------------------------------------
(***************************************************************************)
(* The merge.                                                              *)
(***************************************************************************)

\* What has to give way to what is given.
GivesWay(r, src, t) ==
  {a \in Below[r.base] \ {r.base} : Displaced(r, [q \in Pos |-> Given(r, src, t, q)], a)}

\* What the merge puts at a position, unless the request is a deletion.
LEMMA MergeAt ==
  ASSUME NEW r, r.kind # "delete", NEW src, NEW t
  PROVE  Merge(r, src, t) =
           [p \in Pos |-> IF Given(r, src, t, p) # Absent THEN Given(r, src, t, p)
                          ELSE IF Through(r, p) \cap GivesWay(r, src, t) # {} THEN Absent
                          ELSE t[p]]
<1> DEFINE given == [q \in Pos |-> Given(r, src, t, q)]
           gone == {a \in Below[r.base] \ {r.base} : Displaced(r, given, a)}
<1>1. Merge(r, src, t) =
        [q \in Pos |-> IF given[q] # Absent THEN given[q]
                       ELSE IF Through(r, q) \cap gone # {} THEN Absent ELSE t[q]]
  BY DEF Merge
<1>2. \A q \in Pos : given[q] = Given(r, src, t, q)
  OBVIOUS
<1>3. gone = GivesWay(r, src, t)
  BY DEF GivesWay
<1> HIDE DEF given, gone
<1>4. QED
  BY <1>1, <1>2, <1>3

\* A merge is a data node of the schema.
LEMMA MergeTyped ==
  ASSUME NEW r, r.kind # "delete", NEW src, NEW t, WellTyped(src), WellTyped(t)
  PROVE  WellTyped(Merge(r, src, t))
<1> DEFINE m == Merge(r, src, t)
<1>1. m = [p \in Pos |-> IF Given(r, src, t, p) # Absent THEN Given(r, src, t, p)
                         ELSE IF Through(r, p) \cap GivesWay(r, src, t) # {} THEN Absent
                         ELSE t[p]]
  BY MergeAt
<1>2. \A p \in Pos : Fit(p, Given(r, src, t, p))
  BY GivenFits
<1>3. \A p \in Pos : Fit(p, t[p])
  BY FitTree
<1>4. \A p \in Pos : Fit(p, Absent)
  BY TokensAssumption DEF Fit, Data
<1> HIDE DEF m
<1>5. \A p \in Pos : Fit(p, m[p])
  BY <1>1, <1>2, <1>3, <1>4
<1>6. m = [p \in Pos |-> m[p]]
  BY <1>1
<1>7. m \in Tree
  BY <1>5, <1>6 DEF Tree, Fit, Data
<1>8. QED
  BY <1>5, <1>7, FitTree DEF m

\* It hangs together: what is not taken from the store stands on what is given.
LEMMA MergeRooted ==
  ASSUME NEW r, r.base \in Inner, r.kind # "delete", NEW src, NEW t,
         Rooted(t), t[r.base] # Absent
  PROVE  Rooted(Merge(r, src, t))
<1> DEFINE given == [q \in Pos |-> Given(r, src, t, q)]
           gone == GivesWay(r, src, t)
           m == Merge(r, src, t)
<1>1. \A p \in Pos : m[p] = IF given[p] # Absent THEN given[p]
                            ELSE IF Through(r, p) \cap gone # {} THEN Absent ELSE t[p]
  BY MergeAt
<1>2. r.base \in Pos /\ Below[r.base] \subseteq Pos /\ Root \in Pos
  BY TreeAssumption, PosAssumption DEF Inner
<1>3. \A p \in Pos : given[p] # Absent =>
         p \in Below[r.base] \ {r.base} /\ \A a \in Through(r, p) : given[a] # Absent
  BY GivenAbove, ThroughFacts
<1> HIDE DEF given, gone, m
<1>4. ASSUME NEW p \in Pos, NEW q \in Below[p], m[q] # Absent
      PROVE  m[p] # Absent
  <2>1. q \in Pos
    BY TreeAssumption
  <2>2. CASE p \in Below[r.base] \ {r.base}
    <3>1. p \in Through(r, q) /\ Through(r, p) \subseteq Through(r, q)
      <4>1. p \in Through(r, q)
        BY <2>2 DEF Through
      <4>2. QED
        BY <4>1, <2>1, ThroughFacts
    <3>2. CASE given[q] # Absent
      BY <3>1, <3>2, <2>1, <1>1, <1>3
    <3>3. CASE given[q] = Absent
      <4>1. Through(r, q) \cap gone = {} /\ t[q] # Absent
        BY <3>3, <2>1, <1>1, <1>4
      <4>2. t[p] # Absent
        BY <4>1 DEF Rooted
      <4>3. QED
        BY <4>1, <4>2, <3>1, <1>1
    <3>4. QED
      BY <3>2, <3>3
  <2>3. CASE p \notin Below[r.base] \ {r.base}
    <3>1. m[p] = t[p]
      <4>1. given[p] = Absent /\ Through(r, p) = {}
        BY <2>3, <1>3, ThroughFacts
      <4>2. QED
        BY <4>1, <1>1
    <3>2. CASE t[q] # Absent
      BY <3>1, <3>2 DEF Rooted
    <3>3. CASE t[q] = Absent
      <4>1. q \in Below[r.base] \ {r.base}
        BY <3>3, <2>1, <1>1, <1>3, <1>4
      <4>2. r.base \in Below[p]
        <5>1. p \in Below[r.base] \/ r.base \in Below[p]
          BY <4>1, <1>2, <2>1, TreeAssumption
        <5>2. QED
          BY <5>1, <2>3, TreeAssumption
      <4>3. t[p] # Absent
        BY <4>2 DEF Rooted
      <4>4. QED
        BY <3>1, <4>3
    <3>4. QED
      BY <3>2, <3>3
  <2>4. QED
    BY <2>2, <2>3
<1>5. m[Root] = Obj
  <2>1. Root \notin Below[r.base] \ {r.base}
    BY <1>2, TreeAssumption
  <2>2. given[Root] = Absent /\ Through(r, Root) = {}
    BY <2>1, <1>2, <1>3, ThroughFacts
  <2>3. QED
    BY <2>2, <1>1, <1>2 DEF Rooted
<1>6. QED
  BY <1>4, <1>5 DEF Rooted, m

\* A deletion takes a position away with all that is under it.
LEMMA EraseStore ==
  ASSUME NEW b \in Pos \ {Root}, NEW t, WellTyped(t), Rooted(t)
  PROVE  WellTyped(Erase(t, b)) /\ Rooted(Erase(t, b))
<1> DEFINE e == Erase(t, b)
<1>1. \A p \in Pos : e[p] = IF p \in Below[b] THEN Absent ELSE t[p]
  BY DEF Erase
<1>2. e \in Tree /\ \A p \in Pos : Fit(p, e[p])
  <2>1. \A p \in Pos : Fit(p, t[p]) /\ Fit(p, Absent)
    <3>1. \A p \in Pos : Fit(p, t[p])
      BY FitTree
    <3>2. \A p \in Pos : Fit(p, Absent)
      BY TokensAssumption DEF Fit, Data
    <3>3. QED
      BY <3>1, <3>2
  <2>2. \A p \in Pos : Fit(p, e[p])
    BY <2>1, <1>1
  <2>3. e \in Tree
    BY <2>2 DEF Erase, Tree, Fit, Data
  <2>4. QED
    BY <2>2, <2>3
<1>3. Root \notin Below[b] /\ Root \in Pos
  BY TreeAssumption, PosAssumption
<1>4. \A p \in Pos : \A q \in Below[p] : q \in Pos /\ (p \in Below[b] => q \in Below[b])
  BY TreeAssumption
<1> HIDE DEF e
<1>5. Rooted(e)
  BY <1>1, <1>3, <1>4 DEF Rooted
<1>6. QED
  BY <1>2, <1>5, FitTree DEF e
=============================================================================
