-------------------------- MODULE SelectionsProofs --------------------------
(***************************************************************************)
(* Proofs about module Selections, for every schema, data, parameters and  *)
(* sequence of calls.                                                      *)
(***************************************************************************)
EXTENDS Selections, SequenceTheorems, FiniteSetTheorems, TLAPS

-----------------------------------------------------------------------------
(***************************************************************************)
(* Numbers, sequences and sorting.                                         *)
(***************************************************************************)

\* A set of naturals that is not empty has a least element.
LEMMA LeastOf ==
  ASSUME NEW T, T \subseteq Nat, T # {}
  PROVE  \E n \in T : \A m \in T : n <= m
<1>1. \E n \in T : \A m \in T : ~(<<m, n>> \in OpToRel(<, Nat))
  BY NatLessThanWellFounded, WFMin
<1>2. \A m, n \in T : ~(<<m, n>> \in OpToRel(<, Nat)) => n <= m
  BY DEF OpToRel
<1>3. QED
  BY <1>1, <1>2

\* How many members of S have a place before that of x.
Turn(S, place, x) == Cardinality({y \in S : place[y] < place[x]})

LEMMA TurnFacts ==
  ASSUME NEW S, IsFiniteSet(S), NEW place, \A x \in S : place[x] \in Int
  PROVE  /\ \A x \in S : Turn(S, place, x) \in Nat /\ Turn(S, place, x) < Cardinality(S)
         /\ \A x, y \in S : place[x] < place[y] => Turn(S, place, x) < Turn(S, place, y)
         /\ \A x, y \in S : place[x] = place[y] => Turn(S, place, x) = Turn(S, place, y)
<1> DEFINE Before(x) == {y \in S : place[y] < place[x]}
<1>1. \A x \in S : IsFiniteSet(Before(x)) /\ Cardinality(Before(x)) \in Nat
                     /\ Cardinality(Before(x)) <= Cardinality(S)
                     /\ (Cardinality(Before(x)) = Cardinality(S) => S = Before(x))
  BY FS_Subset, FS_CardinalityType
<1>2. \A x \in S : x \notin Before(x)
  OBVIOUS
<1>3. Cardinality(S) \in Nat
  BY FS_CardinalityType
<1>4. ASSUME NEW x \in S
      PROVE  Cardinality(Before(x)) < Cardinality(S)
  <2>1. S # Before(x)
    BY <1>2
  <2> HIDE DEF Before
  <2>2. QED
    BY <2>1, <1>1, <1>3
<1>5. ASSUME NEW x \in S, NEW y \in S, place[x] < place[y]
      PROVE  Cardinality(Before(x)) < Cardinality(Before(y))
  <2>1. Before(x) \subseteq Before(y) /\ x \in Before(y) /\ x \notin Before(x)
    BY <1>5
  <2> HIDE DEF Before
  <2>2. /\ Cardinality(Before(x)) <= Cardinality(Before(y))
        /\ Cardinality(Before(y)) = Cardinality(Before(x)) => Before(y) = Before(x)
    BY <2>1, <1>1, FS_Subset
  <2>3. QED
    BY <2>1, <2>2, <1>1
<1>6. \A x, y \in S : place[x] = place[y] => Before(x) = Before(y)
  OBVIOUS
<1>7. QED
  BY <1>1, <1>4, <1>5, <1>6 DEF Turn

\* What is sorted is all of S, each at its turn.
LEMMA SortedFacts ==
  ASSUME NEW S, IsFiniteSet(S), NEW place, \A x \in S : place[x] \in Int,
         \A x, y \in S : place[x] = place[y] => x = y
  PROVE  /\ Sorted(S, place) \in Seq(S)
         /\ Len(Sorted(S, place)) = Cardinality(S)
         /\ ToSet(Sorted(S, place)) = S
         /\ \A n \in DOMAIN Sorted(S, place) : Turn(S, place, Sorted(S, place)[n]) = n - 1
         /\ \A x \in S : /\ Turn(S, place, x) + 1 \in DOMAIN Sorted(S, place)
                         /\ Sorted(S, place)[Turn(S, place, x) + 1] = x
<1> DEFINE size == Cardinality(S)
           turn == [x \in S |-> Turn(S, place, x) + 1]
<1>1. size \in Nat
  BY FS_CardinalityType
<1>2. turn \in Injection(S, 1..size)
  <2>1. turn \in [S -> 1..size]
    BY <1>1, TurnFacts
  <2>2. \A x, y \in S : turn[x] = turn[y] => x = y
    BY TurnFacts
  <2>3. QED
    BY <2>1, <2>2 DEF Injection, IsInjective
<1>3. turn \in Surjection(S, 1..size)
  <2>1. IsFiniteSet(1..size) /\ Cardinality(1..size) = size
    BY <1>1, FS_Interval
  <2>2. QED
    BY <2>1, <1>2, FS_Injection
<1>4. \A n \in 1..size : \E x \in S : turn[x] = n
  BY <1>3 DEF Surjection
<1>5. \A n \in 1..size : \E x \in S : Turn(S, place, x) = n - 1
  <2> TAKE n \in 1..size
  <2>1. PICK x \in S : turn[x] = n
    BY <1>4
  <2>2. QED
    BY <2>1, <1>1, TurnFacts
<1>6. Sorted(S, place) = [n \in 1..size |-> CHOOSE x \in S : Turn(S, place, x) = n - 1]
  BY DEF Sorted, Turn
<1>7. \A n \in 1..size : Sorted(S, place)[n] \in S /\ Turn(S, place, Sorted(S, place)[n]) = n - 1
  BY <1>5, <1>6
<1>8. Sorted(S, place) \in Seq(S) /\ Len(Sorted(S, place)) = size /\ DOMAIN Sorted(S, place) = 1..size
  BY <1>1, <1>6, <1>7
<1>9. ASSUME NEW x \in S
      PROVE  /\ Turn(S, place, x) + 1 \in 1..size
             /\ Sorted(S, place)[Turn(S, place, x) + 1] = x
  <2>1. Turn(S, place, x) + 1 \in 1..size
    BY <1>1, TurnFacts
  <2>2. /\ Sorted(S, place)[Turn(S, place, x) + 1] \in S
        /\ Turn(S, place, Sorted(S, place)[Turn(S, place, x) + 1]) = Turn(S, place, x)
    BY <2>1, <1>7, <1>1, TurnFacts
  <2>3. \A y \in S : Turn(S, place, y) = Turn(S, place, x) => y = x
    BY TurnFacts
  <2>4. QED
    BY <2>1, <2>2, <2>3
<1>10. ToSet(Sorted(S, place)) = S
  BY <1>7, <1>8, <1>9 DEF ToSet
<1>11. QED
  BY <1>7, <1>8, <1>9, <1>10

LEMMA EndOfSeq ==
  ASSUME NEW S, NEW s \in Seq(S), NEW m \in Nat, m <= Len(s)
  PROVE  /\ SubSeq(s, m + 1, Len(s)) \in Seq(S)
         /\ Len(SubSeq(s, m + 1, Len(s))) = Len(s) - m
<1>1. Len(s) \in Nat /\ \A i \in (m + 1)..Len(s) : s[i] \in S
  OBVIOUS
<1>2. QED
  BY <1>1, SubSeqProperties

\* A sequence is one of what is in it.
LEMMA SeqOfItself ==
  ASSUME NEW S, NEW s \in Seq(S)
  PROVE  /\ s \in Seq(ToSet(s)) /\ ToSet(s) \subseteq S
         /\ Len(s) \in Nat /\ DOMAIN s = 1..Len(s)
         /\ \A n \in 1..Len(s) : s[n] \in S
  BY DEF ToSet

LEMMA Joined ==
  ASSUME NEW S, NEW s \in Seq(S), NEW t \in Seq(S)
  PROVE  /\ s \o t \in Seq(S)
         /\ Len(s \o t) = Len(s) + Len(t)
         /\ \A n \in 1..Len(s) : (s \o t)[n] = s[n]
         /\ \A n \in 1..Len(t) : (s \o t)[Len(s) + n] = t[n]
<1>1. Len(s) \in Nat /\ Len(t) \in Nat
  OBVIOUS
<1>2. /\ s \o t \in Seq(S) /\ Len(s \o t) = Len(s) + Len(t)
      /\ \A i \in 1..Len(s) + Len(t) : (s \o t)[i] = IF i <= Len(s) THEN s[i] ELSE t[i - Len(s)]
  BY ConcatProperties
<1>3. ASSUME NEW n \in 1..Len(t)
      PROVE  (s \o t)[Len(s) + n] = t[n]
  <2>1. /\ Len(s) + n \in 1..Len(s) + Len(t) /\ ~(Len(s) + n <= Len(s))
        /\ (Len(s) + n) - Len(s) = n
    BY <1>1
  <2>2. QED
    BY <2>1, <1>2
<1>4. QED
  BY <1>1, <1>2, <1>3

-----------------------------------------------------------------------------
(***************************************************************************)
(* Positions and their paths.                                              *)
(***************************************************************************)

\* Only containers, lists and items have something below them.
LEMMA BelowFacts ==
  ASSUME NEW b \in Pos, NEW p \in Below[b], p # b
  PROVE  /\ b \in Inner /\ p \in Pos /\ p # Root
         /\ Parent[p] \in Below[b] /\ Parent[p] \in Inner /\ Parent[p] \in Pos
         /\ p \in Below[Parent[p]] /\ Parent[p] # p /\ b \notin Below[p]
<1>1. p \in Pos /\ b \in Inner
  BY TreeAssumption DEF Inner
<1>2. p # Root
  BY <1>1, TreeAssumption, PosAssumption
<1>3. QED
  BY <1>1, <1>2, TreeAssumption DEF Inner

LEMMA KidFacts ==
  ASSUME NEW k \in Pos \ {Root}
  PROVE  /\ Parent[k] \in Inner /\ Parent[k] \in Pos /\ k \in Below[Parent[k]]
         /\ Parent[k] # k /\ Parent[k] \notin Below[k]
         /\ \A b \in Pos : k \in Below[b] <=> (b = k \/ Parent[k] \in Below[b])
         /\ \A b \in Pos : Parent[k] \in Below[b] => b # k
  BY TreeAssumption DEF Inner

\* What is further down is at a higher level.
LEMMA LevelRises ==
  ASSUME NEW p \in Pos, NEW q \in Below[p]
  PROVE  /\ Level[p] \in Nat /\ Level[q] \in Nat
         /\ q # p => Level[p] < Level[q]
<1>1. q \in Pos
  BY TreeAssumption
<1>2. \A r \in Pos : IsFiniteSet(Ancestry(r)) /\ Level[r] = Cardinality(Ancestry(r)) /\ Level[r] \in Nat
  <2> TAKE r \in Pos
  <2>1. IsFiniteSet({a \in Pos : r \in Below[a]})
    BY IdentAssumption
  <2>2. Ancestry(r) \subseteq {a \in Pos : r \in Below[a]}
    BY DEF Ancestry
  <2>3. IsFiniteSet(Ancestry(r))
    BY <2>1, <2>2, FS_Subset
  <2>4. QED
    BY <2>3, FS_CardinalityType DEF Level
<1>3. Ancestry(p) \subseteq Ancestry(q)
  BY <1>1, TreeAssumption DEF Ancestry
<1>4. ASSUME q # p
      PROVE  q \in Ancestry(q) /\ q \notin Ancestry(p)
  BY <1>1, <1>4, BelowFacts, TreeAssumption DEF Ancestry
<1>5. /\ Cardinality(Ancestry(p)) <= Cardinality(Ancestry(q))
      /\ Cardinality(Ancestry(q)) = Cardinality(Ancestry(p)) => Ancestry(q) = Ancestry(p)
  BY <1>1, <1>2, <1>3, FS_Subset
<1>6. QED
  BY <1>1, <1>2, <1>4, <1>5

\* What is above one position is told apart by its level.
LEMMA LevelInjective ==
  ASSUME NEW p \in Pos, NEW S, S \subseteq {a \in Pos : p \in Below[a]}
  PROVE  /\ IsFiniteSet(S)
         /\ \A x \in S : Level[x] \in Int
         /\ \A x, y \in S : Level[x] = Level[y] => x = y
         /\ \A x, y \in S : Level[x] < Level[y] => y \in Below[x]
<1>1. IsFiniteSet(S)
  BY IdentAssumption, FS_Subset
<1>2. \A x \in S : x \in Pos /\ p \in Below[x] /\ x \in Below[x] /\ Level[x] \in Nat
  BY LevelRises, TreeAssumption
<1>3. \A x, y \in S : y \in Below[x] \/ x \in Below[y]
  BY <1>2, TreeAssumption
<1>4. \A x, y \in S : /\ y \in Below[x] /\ y # x => Level[x] < Level[y]
                      /\ x \in Below[y] /\ y # x => Level[y] < Level[x]
  BY <1>2, LevelRises
<1>5. QED
  BY <1>1, <1>2, <1>3, <1>4

\* The definitions a path is made of.
Segments(p) == {a \in Ancestry(p) : Kind[a] # "item"}

LEMMA PathLength ==
  ASSUME NEW p \in Pos
  PROVE  /\ IsFiniteSet(Segments(p))
         /\ PathOf[p] \in Seq(Name)
         /\ Len(PathOf[p]) = Cardinality(Segments(p)) /\ Len(PathOf[p]) \in Nat
<1> DEFINE way == Sorted(Segments(p), Level)
<1>1. Segments(p) \subseteq {a \in Pos : p \in Below[a]} /\ Segments(p) \subseteq Pos
  BY DEF Segments, Ancestry
<1>2. /\ IsFiniteSet(Segments(p))
      /\ \A x \in Segments(p) : Level[x] \in Int
      /\ \A x, y \in Segments(p) : Level[x] = Level[y] => x = y
  BY <1>1, LevelInjective
<1>3. way \in Seq(Segments(p)) /\ Len(way) = Cardinality(Segments(p))
  BY <1>2, SortedFacts
<1>4. PathOf[p] = [n \in DOMAIN way |-> Ident[way[n]]]
  BY DEF PathOf, Segments
<1> HIDE DEF way
<1>5. Len(way) \in Nat /\ DOMAIN way = 1..Len(way) /\ \A n \in 1..Len(way) : way[n] \in Pos
  BY <1>1, <1>3
<1>6. \A n \in 1..Len(way) : Ident[way[n]] \in Name
  BY <1>5, IdentAssumption
<1>7. PathOf[p] \in Seq(Name) /\ Len(PathOf[p]) = Len(way)
  BY <1>4, <1>5, <1>6
<1>8. QED
  BY <1>2, <1>3, <1>5, <1>7

\* The path of what is further down is longer, but for items.
LEMMA PathsGrow ==
  ASSUME NEW p \in Pos, NEW q \in Below[p]
  PROVE  /\ Len(PathOf[p]) <= Len(PathOf[q])
         /\ q # p /\ Kind[q] # "item" => Len(PathOf[p]) < Len(PathOf[q])
<1>1. q \in Pos
  BY TreeAssumption
<1>2. Segments(p) \subseteq Segments(q)
  BY <1>1, TreeAssumption DEF Ancestry, Segments
<1>3. ASSUME q # p, Kind[q] # "item"
      PROVE  q \in Segments(q) /\ q \notin Segments(p)
  BY <1>1, <1>3, BelowFacts, TreeAssumption DEF Ancestry, Segments
<1>4. IsFiniteSet(Segments(p)) /\ IsFiniteSet(Segments(q))
  BY <1>1, PathLength
<1>5. /\ Cardinality(Segments(p)) <= Cardinality(Segments(q))
      /\ Cardinality(Segments(q)) = Cardinality(Segments(p)) => Segments(q) = Segments(p)
  BY <1>2, <1>4, FS_Subset
<1>6. /\ Len(PathOf[p]) = Cardinality(Segments(p)) /\ Len(PathOf[p]) \in Nat
      /\ Len(PathOf[q]) = Cardinality(Segments(q)) /\ Len(PathOf[q]) \in Nat
  BY <1>1, PathLength
<1>7. QED
  BY <1>3, <1>5, <1>6

LEMMA PathOfKid ==
  ASSUME NEW k \in Pos \ {Root}, Kind[k] # "item"
  PROVE  Len(PathOf[k]) = Len(PathOf[Parent[k]]) + 1
<1>1. Parent[k] \in Pos /\ k \in Pos
  BY KidFacts
<1>2. Segments(k) = Segments(Parent[k]) \cup {k} /\ k \notin Segments(Parent[k])
  BY KidFacts, TreeAssumption DEF Segments, Ancestry
<1>3. IsFiniteSet(Segments(Parent[k]))
  BY <1>1, PathLength
<1>4. Cardinality(Segments(k)) = Cardinality(Segments(Parent[k])) + 1
  BY <1>2, <1>3, FS_AddElement
<1>5. QED
  BY <1>1, <1>4, PathLength

LEMMA UnderFacts ==
  ASSUME NEW b \in Pos, NEW p \in Below[b]
  PROVE  /\ Under(b, p) \in Seq(Name)
         /\ Len(Under(b, p)) = Len(PathOf[p]) - Len(PathOf[b])
         /\ Len(Under(b, p)) \in Nat
         /\ p # b /\ Kind[p] # "item" => Len(Under(b, p)) > 0
<1>1. p \in Pos
  BY TreeAssumption
<1>2. /\ PathOf[p] \in Seq(Name) /\ Len(PathOf[p]) \in Nat
      /\ Len(PathOf[b]) \in Nat /\ Len(PathOf[b]) <= Len(PathOf[p])
      /\ p # b /\ Kind[p] # "item" => Len(PathOf[b]) < Len(PathOf[p])
  BY <1>1, PathLength, PathsGrow
<1>3. /\ Under(b, p) \in Seq(Name)
      /\ Len(Under(b, p)) = Len(PathOf[p]) - Len(PathOf[b])
  <2> HIDE DEF PathOf
  <2>1. /\ SubSeq(PathOf[p], Len(PathOf[b]) + 1, Len(PathOf[p])) \in Seq(Name)
        /\ Len(SubSeq(PathOf[p], Len(PathOf[b]) + 1, Len(PathOf[p])))
             = Len(PathOf[p]) - Len(PathOf[b])
    BY <1>2, EndOfSeq
  <2>2. QED
    BY <2>1 DEF Under
<1>4. Len(Under(b, p)) \in Nat
  BY <1>2, <1>3
<1>5. ASSUME p # b, Kind[p] # "item"
      PROVE  Len(Under(b, p)) > 0
  <2>1. Len(PathOf[b]) < Len(PathOf[p])
    BY <1>2, <1>5
  <2>2. \A m, n \in Nat : m < n => n - m > 0
    OBVIOUS
  <2>3. Len(PathOf[p]) - Len(PathOf[b]) > 0
    BY <2>1, <2>2, <1>2
  <2>4. QED
    BY <2>3, <1>3
<1>6. QED
  BY <1>3, <1>4, <1>5

-----------------------------------------------------------------------------
(***************************************************************************)
(* Constraints.                                                            *)
(***************************************************************************)
Ids == Parameters \cup {"~when"}

\* The entries of a selection's constraints.
Settings(entries) ==
  /\ "~when" \in DOMAIN entries
  /\ DOMAIN entries \subseteq Ids
  /\ \A id \in DOMAIN entries : IsSetting(id, entries[id])

\* Constraints that are compiled: each entry is asked.
Sound(c) ==
  /\ Settings(c.entries)
  /\ c.order \in Seq(DOMAIN c.entries)
  /\ ToSet(c.order) = DOMAIN c.entries

LEMMA IdsAreFinite ==
  ASSUME NEW ids \in SUBSET Ids
  PROVE  IsFiniteSet(ids)
<1> DEFINE A == {"depth"}
           B == A \cup {"fields"}
           C == B \cup {"fc.xfields"}
           D == C \cup {"fc.range"}
           E == D \cup {"fc.max-node-count"}
           F == E \cup {"content"}
           G == F \cup {"with-defaults"}
           H == G \cup {"~when"}
<1>2. IsFiniteSet(A)
  BY FS_Singleton
<1>3. IsFiniteSet(H)
  <2> HIDE DEF A
  <2>1. IsFiniteSet(B)
    BY <1>2, FS_AddElement
  <2> HIDE DEF B
  <2>2. IsFiniteSet(C)
    BY <2>1, FS_AddElement
  <2> HIDE DEF C
  <2>3. IsFiniteSet(D)
    BY <2>2, FS_AddElement
  <2> HIDE DEF D
  <2>4. IsFiniteSet(E)
    BY <2>3, FS_AddElement
  <2> HIDE DEF E
  <2>5. IsFiniteSet(F)
    BY <2>4, FS_AddElement
  <2> HIDE DEF F
  <2>6. IsFiniteSet(G)
    BY <2>5, FS_AddElement
  <2> HIDE DEF G
  <2>7. QED
    BY <2>6, FS_AddElement
<1>4. ids \subseteq H
  BY DEF Ids, Parameters
<1>5. QED
  BY <1>3, <1>4, FS_Subset

\* However equal ones turn out, every constraint is asked, in some order.
LEMMA CompiledFacts ==
  ASSUME NEW ids \in SUBSET Ids
  PROVE  /\ Compiled(ids) # {}
         /\ \A o \in Compiled(ids) : o \in Seq(ids) /\ ToSet(o) = ids
<1>1. Turns # {}
  <2>1. [id \in Tied |-> IF id = "depth" THEN 0 ELSE IF id = "fields" THEN 1 ELSE 2] \in Turns
    BY DEF Turns, Tied
  <2>2. QED
    BY <2>1
<1>2. ASSUME NEW turn \in Turns
      PROVE  Sorted(ids, Rank(turn)) \in Seq(ids) /\ ToSet(Sorted(ids, Rank(turn))) = ids
  <2>1. /\ turn["depth"] \in 0..2 /\ turn["fields"] \in 0..2 /\ turn["fc.xfields"] \in 0..2
        /\ turn["depth"] # turn["fields"] /\ turn["depth"] # turn["fc.xfields"]
        /\ turn["fields"] # turn["fc.xfields"]
    BY <1>2 DEF Turns, Tied
  <2>2. /\ Rank(turn)["~when"] = 100
        /\ Rank(turn)["depth"] = 50010 + turn["depth"]
        /\ Rank(turn)["fields"] = 50010 + turn["fields"]
        /\ Rank(turn)["fc.xfields"] = 50010 + turn["fc.xfields"]
        /\ Rank(turn)["fc.range"] = 50020
        /\ Rank(turn)["fc.max-node-count"] = 60010
        /\ Rank(turn)["content"] = 70010
        /\ Rank(turn)["with-defaults"] = 70050
    BY DEF Rank, Tied, Parameters
  <2> DEFINE rank == Rank(turn)
  <2> HIDE DEF rank
  <2>3. \A x \in Ids : rank[x] \in Int
    BY <2>1, <2>2 DEF Ids, Parameters, rank
  <2>4. \A x, y \in Ids : rank[x] = rank[y] => x = y
    BY <2>1, <2>2 DEF Ids, Parameters, rank
  <2>5. IsFiniteSet(ids)
    BY IdsAreFinite
  <2>6. Sorted(ids, rank) \in Seq(ids) /\ ToSet(Sorted(ids, rank)) = ids
    BY <2>3, <2>4, <2>5, SortedFacts
  <2>7. QED
    BY <2>6 DEF rank
<1>3. QED
  BY <1>1, <1>2 DEF Compiled

LEMMA ConstraintFacts ==
  ASSUME NEW entries, Settings(entries)
  PROVE  /\ Constraint(entries) # {}
         /\ \A c \in Constraint(entries) : c.entries = entries /\ Sound(c)
<1>1. DOMAIN entries \in SUBSET Ids
  BY DEF Settings
<1>2. Constraint(entries) = {[entries |-> entries, order |-> o] : o \in Compiled(DOMAIN entries)}
  BY DEF Constraint
<1>3. ASSUME NEW o \in Compiled(DOMAIN entries), NEW c, c = [entries |-> entries, order |-> o]
      PROVE  c.entries = entries /\ Sound(c)
  <2>1. o \in Seq(DOMAIN entries) /\ ToSet(o) = DOMAIN entries
    BY <1>1, CompiledFacts
  <2>2. c.entries = entries /\ c.order = o
    BY <1>3
  <2>3. QED
    BY <2>1, <2>2 DEF Sound
<1>4. Compiled(DOMAIN entries) # {}
  BY <1>1, CompiledFacts
<1>5. QED
  BY <1>2, <1>3, <1>4

LEMMA BaseFacts ==
  Sound(BaseConstraints) /\ DOMAIN BaseConstraints.entries = {"~when"}
<1> DEFINE e == [i \in {"~when"} |-> TRUE]
<1>1. Settings(e)
  BY DEF Settings, Ids, IsSetting
<1>2. DOMAIN e = {"~when"}
  OBVIOUS
<1> HIDE DEF e
<1>3. BaseConstraints \in Constraint(e)
  BY <1>1, ConstraintFacts DEF BaseConstraints, e
<1>4. QED
  BY <1>1, <1>2, <1>3, ConstraintFacts

\* What the query says is in the new constraints, and the rest of the old ones.
LEMMA BuildFacts ==
  ASSUME NEW parent, Sound(parent), NEW q \in Queries \ {NoQuery},
         NEW c \in BuildConstraints(parent, q)
  PROVE  /\ Sound(c)
         /\ \A id \in Parameters \ {"depth", "fc.max-node-count"} :
              LET says == id \in DOMAIN q /\ q[id] # Bad
              IN  /\ id \in DOMAIN c.entries <=> says \/ id \in DOMAIN parent.entries
                  /\ says => c.entries[id] = q[id]
                  /\ ~says /\ id \in DOMAIN c.entries => c.entries[id] = parent.entries[id]
<1> DEFINE said  == {i \in DOMAIN q : q[i] # Bad}
           given == Unless(SetAnew, parent.entries)
           e     == Unless(Understood(q), given)
<1>1. DOMAIN Understood(q) = said /\ \A id \in said : Understood(q)[id] = q[id]
  BY DEF Understood
<1>2. /\ DOMAIN given = {"depth", "fc.max-node-count"} \cup DOMAIN parent.entries
      /\ given["depth"] = 64 /\ given["fc.max-node-count"] = 10000
      /\ \A id \in DOMAIN given \ {"depth", "fc.max-node-count"} :
           given[id] = parent.entries[id]
  BY DEF Unless, SetAnew
<1>3. /\ DOMAIN e = said \cup DOMAIN given
      /\ \A id \in DOMAIN e : e[id] = IF id \in said THEN q[id] ELSE given[id]
  <2> HIDE DEF given
  <2>1. QED
    BY <1>1 DEF Unless
<1>4. BuildConstraints(parent, q) = Constraint(e)
  BY DEF BuildConstraints
<1> HIDE DEF given, e
<1>5. Settings(parent.entries)
  BY DEF Sound
<1>6. DOMAIN q \subseteq Parameters /\ \A id \in said : IsSetting(id, q[id])
  BY QueriesAssumption
<1>7. Settings(e)
  <2>1. "~when" \in DOMAIN e /\ DOMAIN e \subseteq Ids
    BY <1>2, <1>3, <1>5, <1>6 DEF Settings, Ids, Parameters
  <2>2. IsSetting("depth", 64) /\ IsSetting("fc.max-node-count", 10000)
    BY DEF IsSetting
  <2>3. \A id \in DOMAIN given : IsSetting(id, given[id])
    BY <1>2, <1>5, <2>2 DEF Settings
  <2>4. \A id \in DOMAIN e : IsSetting(id, e[id])
    BY <1>3, <1>6, <2>3
  <2>5. QED
    BY <2>1, <2>4 DEF Settings
<1>8. Sound(c) /\ c.entries = e
  BY <1>4, <1>7, ConstraintFacts, SMTT(60)
<1>9. QED
  BY <1>2, <1>3, <1>8

-----------------------------------------------------------------------------
(***************************************************************************)
(* What constraints answer.                                                *)
(***************************************************************************)
Verdicts == {"more", "stop", "fail", "panic"}

\* The verdict is to go on when all say so, and otherwise what one of them says.
LEMMA VerdictFacts ==
  ASSUME NEW c, Sound(c), NEW answers
  PROVE  /\ Verdict(c.order, answers) = "more" =>
              \A id \in DOMAIN c.entries : answers[id] = "more"
         /\ Verdict(c.order, answers) # "more" =>
              \E id \in DOMAIN c.entries :
                answers[id] = Verdict(c.order, answers)
<1> DEFINE order == c.order
           against == {n \in DOMAIN order : answers[order[n]] # "more"}
<1>1. /\ order \in Seq(DOMAIN c.entries) /\ DOMAIN order = 1..Len(order) /\ Len(order) \in Nat
      /\ ToSet(order) = DOMAIN c.entries
  BY DEF Sound
<1>2. Verdict(order, answers) = IF against = {} THEN "more" ELSE answers[order[Min(against)]]
  BY DEF Verdict
<1>3. ASSUME against = {}
      PROVE  \A id \in DOMAIN c.entries : answers[id] = "more"
  BY <1>1, <1>3 DEF ToSet
<1>4. ASSUME against # {}
      PROVE  Min(against) \in against
  <2>1. against \subseteq Nat
    BY <1>1
  <2> HIDE DEF against
  <2>2. \E n \in against : \A m \in against : n <= m
    BY <2>1, <1>4, LeastOf
  <2>3. QED
    BY <2>2 DEF Min
<1>5. ASSUME against # {}
      PROVE  /\ Verdict(order, answers) # "more"
             /\ \E id \in DOMAIN c.entries : answers[id] = Verdict(order, answers)
  <2>1. \A n \in against : n \in DOMAIN order /\ answers[order[n]] # "more"
    OBVIOUS
  <2> HIDE DEF against
  <2>2. Min(against) \in DOMAIN order /\ answers[order[Min(against)]] # "more"
    BY <2>1, <1>4, <1>5
  <2>3. order[Min(against)] \in DOMAIN c.entries
    BY <2>2, <1>1
  <2>4. QED
    BY <2>2, <2>3, <1>2, <1>5
<1>6. QED
  BY <1>2, <1>3, <1>5

\* A selector matches what one of its slices is a prefix of; it is safe to ask
\* as long as no slice is longer than the path.
LEMMA MatchFacts ==
  ASSUME NEW selector \in Selectors, NEW rest \in Seq(Name)
  PROVE  /\ PathMatches(selector, rest) \in {"yes", "no", "panic"}
         /\ PathMatches(selector, rest) = "yes" =>
              selector = <<>> \/ \E n \in DOMAIN selector : IsPrefix(selector[n], rest)
         /\ PathMatches(selector, rest) = "no" =>
              /\ selector # <<>>
              /\ \A n \in DOMAIN selector :
                   ~IsPrefix(selector[n], rest) /\ ~(Len(rest) < Len(selector[n]))
         /\ PathMatches(selector, rest) = "panic" =>
              selector # <<>> /\ \E n \in DOMAIN selector : Len(rest) < Len(selector[n])
<1> DEFINE decided == {n \in DOMAIN selector : SliceMatches(selector[n], rest) # "no"}
<1>1. DOMAIN selector \subseteq Nat
  BY DEF Selectors
<1>2. /\ Len(rest) \in Nat
      /\ \A n \in DOMAIN selector :
           selector[n] \in Seq(Name) /\ selector[n] # <<>> /\ Len(selector[n]) \in Nat
  <2>1. \A n \in DOMAIN selector : selector[n] \in Seq(Name) \ {<<>>}
    BY DEF Selectors
  <2>2. QED
    BY <2>1
<1>3. PathMatches(selector, rest) =
        IF selector = <<>> THEN "yes"
        ELSE IF decided = {} THEN "no"
        ELSE SliceMatches(selector[Min(decided)], rest)
  BY DEF PathMatches
<1>4. \A n \in DOMAIN selector :
        /\ SliceMatches(selector[n], rest) \in {"yes", "no", "panic"}
        /\ SliceMatches(selector[n], rest) = "yes" => IsPrefix(selector[n], rest)
        /\ SliceMatches(selector[n], rest) = "no" =>
             ~IsPrefix(selector[n], rest) /\ ~(Len(rest) < Len(selector[n]))
        /\ SliceMatches(selector[n], rest) = "panic" => Len(rest) < Len(selector[n])
  BY DEF SliceMatches
<1>5. ASSUME decided # {}
      PROVE  Min(decided) \in decided
  <2>1. decided \subseteq Nat
    BY <1>1
  <2> HIDE DEF decided
  <2>2. \E n \in decided : \A m \in decided : n <= m
    BY <2>1, <1>5, LeastOf
  <2>3. QED
    BY <2>2 DEF Min
<1>6. CASE selector = <<>>
  BY <1>3, <1>6
<1>7. CASE selector # <<>> /\ decided = {}
  BY <1>3, <1>4, <1>7
<1>8. CASE selector # <<>> /\ decided # {}
  <2>1. /\ Min(decided) \in DOMAIN selector
        /\ SliceMatches(selector[Min(decided)], rest) # "no"
    BY <1>5, <1>8
  <2>2. PathMatches(selector, rest) = SliceMatches(selector[Min(decided)], rest)
    BY <1>3, <1>8
  <2> HIDE DEF decided
  <2>3. QED
    BY <2>1, <2>2, <1>4, <1>8
<1>9. QED
  BY <1>6, <1>7, <1>8

\* A selector names a path that it matches.
Matched(selector, rest) ==
  selector = <<>> \/ \E n \in DOMAIN selector : IsPrefix(selector[n], rest)

\* A path too short for one of the slices.
Short(selector, rest) ==
  selector # <<>> /\ \E n \in DOMAIN selector : Len(rest) < Len(selector[n])

LEMMA MatcherFacts ==
  ASSUME NEW selector \in Selectors, NEW rest \in Seq(Name), NEW reverse \in BOOLEAN
  PROVE  LET answer == FieldsMatcher(selector, reverse, rest)
         IN  /\ answer \in {"more", "stop", "panic"}
             /\ answer = "more" => (Matched(selector, rest) <=> ~reverse)
             /\ answer = "stop" => (Matched(selector, rest) <=> reverse)
             /\ answer = "stop" /\ ~reverse => ~Short(selector, rest)
             /\ answer = "panic" => Short(selector, rest)
<1> DEFINE match == PathMatches(selector, rest)
<1>1. /\ match \in {"yes", "no", "panic"}
      /\ match = "yes" => Matched(selector, rest)
      /\ match = "no" => ~Matched(selector, rest) /\ ~Short(selector, rest)
      /\ match = "panic" => Short(selector, rest)
  BY MatchFacts DEF Matched, Short
<1>2. FieldsMatcher(selector, reverse, rest) =
        IF match = "panic" THEN "panic"
        ELSE IF (match = "yes") # reverse THEN "more" ELSE "stop"
  BY DEF FieldsMatcher, Proceed
<1> HIDE DEF match
<1>3. CASE match = "panic"
  BY <1>1, <1>2, <1>3
<1>4. CASE match = "yes"
  BY <1>1, <1>2, <1>4
<1>5. CASE match = "no"
  BY <1>1, <1>2, <1>5
<1>6. QED
  BY <1>1, <1>3, <1>4, <1>5

-----------------------------------------------------------------------------
\* What the parameters make of a field, but for its "when": they let it through,
\* or one of them holds it back.
Lets(c, rest, l) ==
  /\ "fields" \in DOMAIN c.entries => Matched(c.entries["fields"], rest)
  /\ "fc.xfields" \in DOMAIN c.entries => ~Matched(c.entries["fc.xfields"], rest)
  /\ "content" \in DOMAIN c.entries /\ c.entries["content"] # "all" =>
       ((l \in Config) <=> c.entries["content"] = "config")

Holds(c, rest, l) ==
  \/ /\ "fields" \in DOMAIN c.entries
     /\ ~Matched(c.entries["fields"], rest) /\ ~Short(c.entries["fields"], rest)
  \/ "fc.xfields" \in DOMAIN c.entries /\ Matched(c.entries["fc.xfields"], rest)
  \/ /\ "content" \in DOMAIN c.entries /\ c.entries["content"] # "all"
     /\ ~((l \in Config) <=> c.entries["content"] = "config")

Unsafe(c, rest) ==
  \E id \in {"fields", "fc.xfields"} :
    id \in DOMAIN c.entries /\ Short(c.entries[id], rest)

LEMMA FieldFacts ==
  ASSUME NEW c, Sound(c), NEW rest \in Seq(Name), NEW l, NEW when \in Verdicts
  PROVE  LET v == CheckField(c, rest, l, when)
         IN  /\ v \in Verdicts
             /\ v = "more" => when = "more" /\ Lets(c, rest, l)
             /\ v = "stop" => when = "stop" \/ Holds(c, rest, l)
             /\ v = "fail" => when = "fail"
             /\ v = "panic" => when = "panic" \/ Unsafe(c, rest)
<1> DEFINE e == c.entries
           answers == [id \in DOMAIN e |->
             CASE id = "~when" -> when
               [] id = "fields" -> FieldsMatcher(e[id], FALSE, rest)
               [] id = "fc.xfields" -> FieldsMatcher(e[id], TRUE, rest)
               [] id = "content" ->
                    Proceed(e[id] = "all" \/ (l \in Config) = (e[id] = "config"))
               [] OTHER -> "more"]
           v == CheckField(c, rest, l, when)
<1>1. v = Verdict(c.order, answers)
  BY DEF CheckField
<1>2. /\ "~when" \in DOMAIN e
      /\ \A id \in DOMAIN e : id \in Ids /\ IsSetting(id, e[id])
  BY DEF Sound, Settings
<1>3. /\ "fields" \in DOMAIN e => e["fields"] \in Selectors
      /\ "fc.xfields" \in DOMAIN e => e["fc.xfields"] \in Selectors
      /\ "content" \in DOMAIN e => e["content"] \in {"all", "config", "nonconfig"}
  BY <1>2 DEF IsSetting
<1>4. answers["~when"] = when
  BY <1>2
<1>5. ASSUME "fields" \in DOMAIN e
      PROVE  /\ answers["fields"] \in {"more", "stop", "panic"}
             /\ answers["fields"] = "more" => Matched(e["fields"], rest)
             /\ answers["fields"] = "stop" =>
                  ~Matched(e["fields"], rest) /\ ~Short(e["fields"], rest)
             /\ answers["fields"] = "panic" => Unsafe(c, rest)
  <2>1. answers["fields"] = FieldsMatcher(e["fields"], FALSE, rest)
    BY <1>5
  <2>2. FALSE \in BOOLEAN
    OBVIOUS
  <2>3. QED
    BY <2>1, <2>2, <1>3, <1>5, MatcherFacts DEF Unsafe
<1>6. ASSUME "fc.xfields" \in DOMAIN e
      PROVE  /\ answers["fc.xfields"] \in {"more", "stop", "panic"}
             /\ answers["fc.xfields"] = "more" => ~Matched(e["fc.xfields"], rest)
             /\ answers["fc.xfields"] = "stop" => Matched(e["fc.xfields"], rest)
             /\ answers["fc.xfields"] = "panic" => Unsafe(c, rest)
  <2>1. answers["fc.xfields"] = FieldsMatcher(e["fc.xfields"], TRUE, rest)
    BY <1>6
  <2>2. TRUE \in BOOLEAN
    OBVIOUS
  <2>3. QED
    BY <2>1, <2>2, <1>3, <1>6, MatcherFacts DEF Unsafe
<1>7. ASSUME "content" \in DOMAIN e
      PROVE  /\ answers["content"] \in {"more", "stop"}
             /\ answers["content"] = "more" =>
                  (e["content"] # "all" => ((l \in Config) <=> e["content"] = "config"))
             /\ answers["content"] = "stop" =>
                  e["content"] # "all" /\ ~((l \in Config) <=> e["content"] = "config")
  <2>1. answers["content"] =
          Proceed(e["content"] = "all" \/ (l \in Config) = (e["content"] = "config"))
    BY <1>7
  <2>2. QED
    BY <2>1 DEF Proceed
<1>8. \A id \in DOMAIN e : id \notin {"~when", "fields", "fc.xfields", "content"} =>
        answers[id] = "more"
  OBVIOUS
<1> HIDE DEF answers, v
<1>9. CASE v = "more"
  <2>1. \A id \in DOMAIN e : answers[id] = "more"
    BY <1>1, <1>9, VerdictFacts
  <2>2. when = "more" /\ Lets(c, rest, l)
    BY <2>1, <1>2, <1>4, <1>5, <1>6, <1>7 DEF Lets
  <2>3. QED
    BY <2>2, <1>9 DEF v, Verdicts
<1>10. CASE v # "more"
  <2>1. PICK id \in DOMAIN e : answers[id] = v
    BY <1>1, <1>10, VerdictFacts
  <2>2. id \in {"~when", "fields", "fc.xfields", "content"}
    BY <2>1, <1>8, <1>10
  <2>3. /\ v \in Verdicts
        /\ v = "stop" => when = "stop" \/ Holds(c, rest, l)
        /\ v = "fail" => when = "fail"
        /\ v = "panic" => when = "panic" \/ Unsafe(c, rest)
    <3>1. CASE id = "~when"
      BY <2>1, <3>1, <1>4 DEF Verdicts
    <3>2. CASE id = "fields"
      BY <2>1, <3>2, <1>5 DEF Verdicts, Holds
    <3>3. CASE id = "fc.xfields"
      BY <2>1, <3>3, <1>6 DEF Verdicts, Holds
    <3>4. CASE id = "content"
      BY <2>1, <3>4, <1>7 DEF Verdicts, Holds
    <3>5. QED
      BY <2>2, <3>1, <3>2, <3>3, <3>4
  <2>4. QED
    BY <2>3, <1>10 DEF v
<1>11. QED
  BY <1>9, <1>10 DEF v

\* The same for a container or a list, whose depth counts and which may hold
\* what is no configuration.
LetsIn(c, b, at, k) ==
  /\ "depth" \in DOMAIN c.entries => Len(PathOf[at]) - Len(PathOf[b]) < c.entries["depth"]
  /\ "fields" \in DOMAIN c.entries => Matched(c.entries["fields"], Under(b, k))
  /\ "fc.xfields" \in DOMAIN c.entries => ~Matched(c.entries["fc.xfields"], Under(b, k))
  /\ "content" \in DOMAIN c.entries /\ c.entries["content"] = "config" => k \in Config

LEMMA ContainerFacts ==
  ASSUME NEW c, Sound(c), NEW b \in Pos, NEW at, NEW k \in Below[b]
  PROVE  LET v == CheckContainer(c, b, at, k)
         IN  /\ v \in Verdicts
             /\ v = "more" => LetsIn(c, b, at, k)
             /\ v = "stop" => ~LetsIn(c, b, at, k)
             /\ v = "panic" => Unsafe(c, Under(b, k))
<1> DEFINE e == c.entries
           rest == Under(b, k)
           answers == [id \in DOMAIN e |->
             CASE id = "depth" -> Proceed(Len(PathOf[at]) - Len(PathOf[b]) < e[id])
               [] id = "fields" -> FieldsMatcher(e[id], FALSE, rest)
               [] id = "fc.xfields" -> FieldsMatcher(e[id], TRUE, rest)
               [] id = "fc.max-node-count" -> MaxNode(e[id])
               [] id = "content" -> Proceed(e[id] = "config" => k \in Config)
               [] OTHER -> "more"]
           v == CheckContainer(c, b, at, k)
<1>1. v = Verdict(c.order, answers)
  BY DEF CheckContainer
<1>2. /\ \A id \in DOMAIN e : id \in Ids /\ IsSetting(id, e[id])
      /\ rest \in Seq(Name)
  BY UnderFacts DEF Sound, Settings
<1>3. /\ "fields" \in DOMAIN e => e["fields"] \in Selectors
      /\ "fc.xfields" \in DOMAIN e => e["fc.xfields"] \in Selectors
  BY <1>2 DEF IsSetting
<1>4. ASSUME "depth" \in DOMAIN e
      PROVE  /\ answers["depth"] \in {"more", "stop"}
             /\ answers["depth"] = "more" <=> Len(PathOf[at]) - Len(PathOf[b]) < e["depth"]
  <2>1. answers["depth"] = Proceed(Len(PathOf[at]) - Len(PathOf[b]) < e["depth"])
    BY <1>4
  <2> HIDE DEF answers
  <2>2. QED
    BY <2>1, Zenon DEF Proceed
<1>5. ASSUME "fields" \in DOMAIN e
      PROVE  /\ answers["fields"] \in {"more", "stop", "panic"}
             /\ answers["fields"] = "more" => Matched(e["fields"], rest)
             /\ answers["fields"] = "stop" => ~Matched(e["fields"], rest)
             /\ answers["fields"] = "panic" => Unsafe(c, rest)
  <2>1. answers["fields"] = FieldsMatcher(e["fields"], FALSE, rest)
    BY <1>5
  <2>2. FALSE \in BOOLEAN
    OBVIOUS
  <2> HIDE DEF rest
  <2>3. QED
    BY <2>1, <2>2, <1>2, <1>3, <1>5, MatcherFacts DEF Unsafe
<1>6. ASSUME "fc.xfields" \in DOMAIN e
      PROVE  /\ answers["fc.xfields"] \in {"more", "stop", "panic"}
             /\ answers["fc.xfields"] = "more" => ~Matched(e["fc.xfields"], rest)
             /\ answers["fc.xfields"] = "stop" => Matched(e["fc.xfields"], rest)
             /\ answers["fc.xfields"] = "panic" => Unsafe(c, rest)
  <2>1. answers["fc.xfields"] = FieldsMatcher(e["fc.xfields"], TRUE, rest)
    BY <1>6
  <2>2. TRUE \in BOOLEAN
    OBVIOUS
  <2> HIDE DEF rest
  <2>3. QED
    BY <2>1, <2>2, <1>2, <1>3, <1>6, MatcherFacts DEF Unsafe
<1>7. ASSUME "content" \in DOMAIN e
      PROVE  /\ answers["content"] \in {"more", "stop"}
             /\ answers["content"] = "more" <=> (e["content"] = "config" => k \in Config)
  <2>1. answers["content"] = Proceed(e["content"] = "config" => k \in Config)
    BY <1>7
  <2>2. QED
    BY <2>1 DEF Proceed
<1>8. "fc.max-node-count" \in DOMAIN e => answers["fc.max-node-count"] \in {"more", "fail"}
  BY DEF MaxNode
<1>9. \A id \in DOMAIN e :
        id \notin {"depth", "fields", "fc.xfields", "fc.max-node-count", "content"} =>
          answers[id] = "more"
  OBVIOUS
<1> HIDE DEF answers, v, rest
<1>10. CASE v = "more"
  <2>1. \A id \in DOMAIN e : answers[id] = "more"
    BY <1>1, <1>10, VerdictFacts
  <2>2. LetsIn(c, b, at, k)
    BY <2>1, <1>4, <1>5, <1>6, <1>7 DEF LetsIn, rest
  <2>3. QED
    BY <2>2, <1>10 DEF v, Verdicts
<1>11. CASE v # "more"
  <2>1. PICK id \in DOMAIN e : answers[id] = v
    BY <1>1, <1>11, VerdictFacts
  <2>2. id \in {"depth", "fields", "fc.xfields", "fc.max-node-count", "content"}
    BY <2>1, <1>9, <1>11
  <2>3. /\ v \in Verdicts
        /\ v = "stop" => ~LetsIn(c, b, at, k)
        /\ v = "panic" => Unsafe(c, rest)
    <3>1. CASE id = "depth"
      BY <2>1, <3>1, <1>4, <1>11 DEF Verdicts, LetsIn
    <3>2. CASE id = "fields"
      BY <2>1, <3>2, <1>5 DEF Verdicts, LetsIn, rest
    <3>3. CASE id = "fc.xfields"
      BY <2>1, <3>3, <1>6 DEF Verdicts, LetsIn, rest
    <3>4. CASE id = "content"
      BY <2>1, <3>4, <1>7, <1>11 DEF Verdicts, LetsIn
    <3>5. CASE id = "fc.max-node-count"
      BY <2>1, <3>5, <1>8 DEF Verdicts
    <3>6. QED
      BY <2>2, <3>1, <3>2, <3>3, <3>4, <3>5
  <2>4. QED
    BY <2>3, <1>11 DEF v, rest
<1>12. QED
  BY <1>10, <1>11 DEF v

-----------------------------------------------------------------------------
\* What the parameters leave to be seen of a "when": it is met, and they do not
\* hide the leaf it reads.
SeenBy(c, t, p) ==
  When[p] # NoWhen =>
    /\ WhenMet(t, p)
    /\ "content" \in DOMAIN c.entries /\ c.entries["content"] # "all" =>
         (When[p].leaf \in Config) = (c.entries["content"] = "config")
    /\ "with-defaults" \in DOMAIN c.entries /\ c.entries["with-defaults"] = "trim" =>
         When[p].val # Default[When[p].leaf]

\* Nothing but an empty selector matches the empty path, and any other is too long.
LEMMA EmptyPath ==
  ASSUME NEW selector \in Selectors
  PROVE  /\ Matched(selector, <<>>) <=> selector = <<>>
         /\ Short(selector, <<>>) <=> selector # <<>>
<1>1. DOMAIN selector = 1..Len(selector) /\ Len(selector) \in Nat
  BY DEF Selectors
<1>2. \A n \in DOMAIN selector : selector[n] \in Seq(Name) \ {<<>>}
  BY DEF Selectors
<1>3. \A n \in DOMAIN selector : Len(selector[n]) \in Nat \ {0}
  BY <1>2, EmptySeq
<1>4. Len(<<>>) = 0
  OBVIOUS
<1>5. \A n \in DOMAIN selector : ~IsPrefix(selector[n], <<>>)
  BY <1>3, <1>4 DEF IsPrefix
<1>6. ASSUME selector # <<>>
      PROVE  1 \in DOMAIN selector
  <2>1. selector \in Seq(Seq(Name) \ {<<>>})
    BY DEF Selectors
  <2>2. Len(selector) \in Nat \ {0}
    BY <2>1, <1>6, EmptySeq
  <2>3. QED
    BY <2>2, <1>1
<1>7. QED
  BY <1>3, <1>4, <1>5, <1>6 DEF Matched, Short

LEMMA WhenFacts ==
  ASSUME NEW c, Sound(c), NEW t, NEW p \in Pos
  PROVE  LET v == CheckWhen(c, t, p)
         IN  /\ v \in {"more", "stop", "panic"}
             /\ v = "more" => SeenBy(c, t, p)
             /\ v = "stop" =>
                  \/ ~SeenBy(c, t, p)
                  \/ "fc.xfields" \in DOMAIN c.entries /\ c.entries["fc.xfields"] = <<>>
             /\ v = "panic" =>
                  /\ When[p] # NoWhen
                  /\ \E id \in {"fields", "fc.xfields"} :
                       id \in DOMAIN c.entries /\ c.entries[id] # <<>>
<1>1. CASE When[p] = NoWhen
  BY <1>1 DEF CheckWhen, SeenBy
<1>2. CASE When[p] # NoWhen
  <2> DEFINE l    == When[p].leaf
             read == CheckField(c, <<>>, l, "more")
             met  == Trim(c, l, Reading(t, l)) = When[p].val
             hide == "with-defaults" \in DOMAIN c.entries /\ c.entries["with-defaults"] = "trim"
  <2>1. CheckWhen(c, t, p) =
          IF read = "panic" THEN "panic" ELSE IF read = "more" /\ met THEN "more" ELSE "stop"
    BY <1>2 DEF CheckWhen, Proceed
  <2>2. <<>> \in Seq(Name) /\ "more" \in Verdicts
    BY EmptySeq DEF Verdicts
  <2>3. /\ read \in Verdicts
        /\ read = "more" => Lets(c, <<>>, l)
        /\ read = "stop" => Holds(c, <<>>, l)
        /\ read = "fail" => FALSE
        /\ read = "panic" => Unsafe(c, <<>>)
    <3>1. "more" # "stop" /\ "more" # "fail" /\ "more" # "panic"
      OBVIOUS
    <3>2. QED
      BY <2>2, <3>1, FieldFacts
  <2>4. \A id \in {"fields", "fc.xfields"} \cap DOMAIN c.entries : c.entries[id] \in Selectors
    BY DEF Sound, Settings, IsSetting
  <2>5. l \in Leaves /\ When[p].val \in Val /\ When[p].val # Absent
    BY <1>2, SchemaAssumption, TokensAssumption
  <2>6. Trim(c, l, Reading(t, l)) =
          IF hide /\ Reading(t, l) = Default[l] THEN Absent ELSE Reading(t, l)
    BY DEF Trim
  <2>7. WhenMet(t, p) <=> Reading(t, l) = When[p].val
    BY <1>2 DEF WhenMet
  <2>8. met <=> WhenMet(t, p) /\ (hide => When[p].val # Default[l])
    <3> HIDE DEF l, hide
    <3>1. met <=> Trim(c, l, Reading(t, l)) = When[p].val
      OBVIOUS
    <3> HIDE DEF met
    <3>2. QED
      BY <3>1, <2>5, <2>6, <2>7
  <2> HIDE DEF read, met
  <2>9. ASSUME CheckWhen(c, t, p) = "more"
        PROVE  SeenBy(c, t, p)
    <3>1. read = "more" /\ met
      BY <2>1, <2>9
    <3>2. Lets(c, <<>>, l)
      BY <3>1, <2>3
    <3>3. QED
      BY <3>1, <3>2, <2>8 DEF SeenBy, Lets
  <2>10. ASSUME CheckWhen(c, t, p) = "stop", SeenBy(c, t, p)
         PROVE  "fc.xfields" \in DOMAIN c.entries /\ c.entries["fc.xfields"] = <<>>
    <3>1. met
      BY <2>8, <2>10, <1>2 DEF SeenBy
    <3>2. read = "stop"
      BY <2>1, <2>3, <2>10, <3>1 DEF Verdicts
    <3>3. Holds(c, <<>>, l)
      BY <3>2, <2>3
    <3>4. ~(/\ "content" \in DOMAIN c.entries /\ c.entries["content"] # "all"
            /\ ~((l \in Config) <=> c.entries["content"] = "config"))
      BY <2>10, <1>2 DEF SeenBy
    <3>5. ~(/\ "fields" \in DOMAIN c.entries
            /\ ~Matched(c.entries["fields"], <<>>) /\ ~Short(c.entries["fields"], <<>>))
      BY <2>4, EmptyPath
    <3>6. "fc.xfields" \in DOMAIN c.entries /\ Matched(c.entries["fc.xfields"], <<>>)
      BY <3>3, <3>4, <3>5 DEF Holds
    <3>7. QED
      BY <3>6, <2>4, EmptyPath
  <2>11. ASSUME CheckWhen(c, t, p) = "panic"
         PROVE  \E id \in {"fields", "fc.xfields"} :
                  id \in DOMAIN c.entries /\ c.entries[id] # <<>>
    <3>1. Unsafe(c, <<>>)
      BY <2>1, <2>3, <2>11
    <3>2. QED
      BY <3>1, <2>4, EmptyPath DEF Unsafe
  <2>12. QED
    BY <2>1, <2>9, <2>10, <2>11, <1>2
<1>3. QED
  BY <1>1, <1>2

-----------------------------------------------------------------------------
(***************************************************************************)
(* The inductive invariant.                                                *)
(***************************************************************************)

\* What AddedToExisting says of one selection.
Tells(link) ==
  LET asked == link.asked
      now   == link.with.entries
      Said(id) == {n \in DOMAIN asked : id \in DOMAIN asked[n] /\ asked[n][id] # Bad}
  IN  \A id \in Parameters \ {"depth", "fc.max-node-count"} :
        /\ id \in DOMAIN now <=> Said(id) # {}
        /\ \A n \in Said(id) :
             (\A m \in Said(id) : m <= n) => now[id] = asked[n][id]

\* A selection is on something that is there, with constraints that tell what
\* was asked for.
LinkInv(link) ==
  /\ link.pos \in Inner
  /\ data[link.pos] = Obj
  /\ Sound(link.with)
  /\ link.asked \in Seq(Queries \ {NoQuery})
  /\ Tells(link)

ChainInv ==
  /\ chain \in Seq(ToSet(chain))
  /\ chain # <<>>
  /\ \A n \in DOMAIN chain :
       /\ LinkInv(chain[n])
       /\ n > 1 => chain[n].pos \in Below[chain[n - 1].pos]

Frames == [pos : Inner, new : BOOLEAN, first : BOOLEAN, i : Nat]

\* What a read that succeeds gives.
Wanted(p) ==
  IF \A a \in Above(p) : Asked(a) THEN Trim(here.with, p, Whole(p)) ELSE Absent

Done(k) == \A p \in Below[k] : out[p] = Wanted(p)
Untouched(k) == \A p \in Below[k] : out[p] = Absent

\* A walk has come through all that is above q.
Passed(q) == \A a \in Above(q) : Asked(a) /\ Selected(view, a) /\ WhenMet(data, a)

\* When k has its turn: an item among the rows that are there, and another
\* among all definitions.
There(list) == {k \in ToSet(Kids[list]) : data[k] # Absent}
TurnOf(k) ==
  IF Kind[k] = "item" THEN Turn(There(Parent[k]), Place, k) ELSE Place[k] - 1

\* What had its turn is done, or is where the walk goes on; what has not is
\* untouched.
KidsInv(l) ==
  LET f == stack[l]
  IN  \A k \in Pos \ {Root} :
        Parent[k] = f.pos =>
          IF l < level /\ k = stack[l + 1].pos THEN TurnOf(k) = f.i - 1
          ELSE IF TurnOf(k) < f.i THEN Done(k) ELSE Untouched(k)

\* A list whose rows are in the range goes on behind the first of them.
RowsInv(f) ==
  /\ f.first => f.i = 0
  /\ ~f.first /\ InRange(here.with, base, f.pos) = "yes" =>
       f.i > here.with.entries["fc.range"].start

FrameInv(l) ==
  LET f == stack[l]
  IN  /\ IF l = 1 THEN f.pos = base /\ ~f.new
         ELSE f.pos # Root /\ Parent[f.pos] = stack[l - 1].pos /\ f.new
      /\ f.pos \in Below[base]
      /\ \A m \in 1..l : f.pos \in Below[stack[m].pos]
      /\ data[f.pos] = Obj /\ out[f.pos] = Obj
      /\ Passed(f.pos)
      /\ IF Kind[f.pos] = "list" THEN RowsInv(f) ELSE f.i <= Len(Kids[f.pos])
      /\ KidsInv(l)

WalkInv ==
  /\ status = "reading" <=> stack # <<>>
  /\ stack \in Seq(Frames)
  /\ \A l \in DOMAIN stack : FrameInv(l)

Results == {"idle", "nothing", "refused", "reading", "ok", "failed", "panic"}

TypeInv ==
  /\ data \in Sources /\ view \in Views(data)
  /\ status \in Results
  /\ fills \in BOOLEAN
  /\ WellTyped(out)

SelInv ==
  /\ TypeInv /\ ChainInv /\ WalkInv
  /\ PartOfWhole /\ AsAsked /\ PlainSelectorsAreSafe

-----------------------------------------------------------------------------
(***************************************************************************)
(* What is wanted.                                                         *)
(***************************************************************************)
LEMMA DataFacts ==
  ASSUME TypeInv
  PROVE  /\ WellTyped(data) /\ Rooted(data)
         /\ \A p \in Inner : data[p] # Absent => data[p] = Obj
         /\ \A p \in Pos, q \in Pos : q \in Below[p] /\ data[q] # Absent => data[p] # Absent
         /\ Obj # Absent
<1>1. WellTyped(data) /\ Rooted(data)
  BY SourcesAssumption DEF TypeInv
<1>2. QED
  BY <1>1, TokensAssumption DEF WellTyped, Rooted

LEMMA HereFacts ==
  ASSUME ChainInv
  PROVE  /\ Len(chain) \in Nat \ {0} /\ DOMAIN chain = 1..Len(chain)
         /\ LinkInv(here)
         /\ base \in Inner /\ base \in Pos /\ data[base] = Obj /\ Sound(here.with)
         /\ base = here.pos
<1>1. Len(chain) \in Nat \ {0} /\ DOMAIN chain = 1..Len(chain)
  BY EmptySeq DEF ChainInv
<1>2. Len(chain) \in DOMAIN chain
  BY <1>1
<1>3. LinkInv(here)
  BY <1>2 DEF ChainInv, here
<1>4. base = here.pos
  BY DEF base
<1>5. QED
  BY <1>1, <1>3, <1>4 DEF LinkInv, Inner

LEMMA AboveFacts ==
  ASSUME base \in Pos
  PROVE  /\ Above(base) = {}
         /\ \A p \in Pos : \A a \in Above(p) :
              a \in Pos /\ a \in Below[base] /\ a # base /\ p \in Below[a] /\ a # Root
         /\ \A p \in Below[base] \ {base} :
              /\ p \in Above(p)
              /\ Above(p) = Above(Parent[p]) \cup {p}
              /\ \A q \in Below[p] :
                   p \in Above(q) /\ q \in Pos /\ q \in Below[base] /\ q # base
<1>1. Below[base] \subseteq Pos
  BY TreeAssumption
<1>2. Above(base) = {}
  BY <1>1, TreeAssumption DEF Above
<1>3. \A p \in Pos : \A a \in Above(p) :
        a \in Pos /\ a \in Below[base] /\ a # base /\ p \in Below[a] /\ a # Root
  BY <1>1, BelowFacts DEF Above
<1>4. ASSUME NEW p \in Below[base] \ {base}
      PROVE  /\ p \in Above(p)
             /\ Above(p) = Above(Parent[p]) \cup {p}
             /\ \A q \in Below[p] :
                  p \in Above(q) /\ q \in Pos /\ q \in Below[base] /\ q # base
  <2>1. p \in Pos \ {Root} /\ p \in Below[p]
    BY <1>1, BelowFacts, TreeAssumption
  <2>2. p \in Above(p)
    BY <2>1 DEF Above
  <2>3. \A a \in Pos : p \in Below[a] <=> (a = p \/ Parent[p] \in Below[a])
    BY <2>1, KidFacts
  <2>4. Above(p) = Above(Parent[p]) \cup {p}
    BY <2>1, <2>3, <1>1 DEF Above
  <2>5. ASSUME NEW q \in Below[p]
        PROVE  p \in Above(q) /\ q \in Pos /\ q \in Below[base] /\ q # base
    <3>1. q \in Pos
      BY <2>1, TreeAssumption
    <3>2. q \in Below[base] /\ q # base
      BY <3>1, <2>1, TreeAssumption
    <3>3. p \in Above(q)
      BY DEF Above
    <3>4. QED
      BY <3>1, <3>2, <3>3
  <2>6. QED
    BY <2>2, <2>4, <2>5
<1>5. QED
  BY <1>2, <1>3, <1>4

LEMMA TrimFacts ==
  ASSUME NEW c, NEW l, NEW v
  PROVE  Trim(c, l, v) \in {v, Absent}
  BY DEF Trim

\* What comes to be on a position that a walk passes, and nowhere else.
LEMMA PassedWhole ==
  ASSUME base \in Pos, NEW p \in Below[base] \ {base}, Passed(p), data[Parent[p]] # Absent
  PROVE  Whole(p) = Held(p) /\ Wanted(p) = Trim(here.with, p, Held(p))
<1>1. \A a \in Above(p) : Asked(a) /\ Selected(view, a) /\ WhenMet(data, a)
  BY DEF Passed
<1>2. Whole(p) = Held(p)
  BY <1>1 DEF Whole
<1>3. QED
  BY <1>1, <1>2 DEF Wanted

LEMMA NotWanted ==
  ASSUME base \in Pos, NEW k \in Below[base] \ {base},
         ~Asked(k) \/ ~Selected(view, k) \/ ~WhenMet(data, k)
  PROVE  \A p \in Below[k] : Wanted(p) = Absent
<1> TAKE p \in Below[k]
<1>1. k \in Above(p) /\ p \in Below[base] /\ p # base
  BY AboveFacts
<1>2. CASE ~Asked(k)
  BY <1>1, <1>2 DEF Wanted
<1>3. CASE ~Selected(view, k) \/ ~WhenMet(data, k)
  <2>1. Whole(p) = Absent
    BY <1>1, <1>3 DEF Whole
  <2>2. QED
    BY <2>1, TrimFacts DEF Wanted
<1>4. QED
  BY <1>2, <1>3

\* Nothing comes from under what is not there.
LEMMA NotThere ==
  ASSUME TypeInv, base \in Pos, NEW k \in Below[base] \ {base}, k \in Inner, data[k] = Absent
  PROVE  \A p \in Below[k] : Wanted(p) = Absent
<1> TAKE p \in Below[k]
<1>1. k \in Pos /\ p \in Pos /\ p \in Below[base] /\ p # base
  BY AboveFacts, TreeAssumption
<1>2. Whole(p) = Absent
  <2>1. CASE p = k
    <3>1. Default[k] = Absent
      BY SchemaAssumption
    <3>2. Held(k) = Absent
      BY <3>1 DEF Held
    <3>3. QED
      BY <2>1, <3>2, <1>1 DEF Whole
  <2>2. CASE p # k
    <3>1. Parent[p] \in Below[k] /\ Parent[p] \in Pos
      BY <1>1, <2>2, BelowFacts
    <3>2. data[Parent[p]] = Absent
      BY <3>1, <1>1, DataFacts
    <3>3. QED
      BY <3>2, <1>1 DEF Whole
  <2>3. QED
    BY <2>1, <2>2
<1>3. QED
  BY <1>2, TrimFacts DEF Wanted

\* What is under one kid is not under another.
LEMMA SiblingsDisjoint ==
  ASSUME NEW j \in Pos \ {Root}, NEW k \in Pos \ {Root}, Parent[j] = Parent[k], j # k
  PROVE  \A p \in Below[j] : p \notin Below[k]
<1> SUFFICES ASSUME NEW p \in Below[j], p \in Below[k]
             PROVE  FALSE
  OBVIOUS
<1>1. p \in Pos
  BY TreeAssumption
<1>2. j \in Below[k] \/ k \in Below[j]
  BY <1>1, TreeAssumption
<1>3. CASE j \in Below[k]
  <2>1. Parent[j] \in Below[k]
    BY <1>3, KidFacts
  <2>2. QED
    BY <2>1, KidFacts
<1>4. CASE k \in Below[j]
  <2>1. Parent[k] \in Below[j]
    BY <1>4, KidFacts
  <2>2. QED
    BY <2>1, KidFacts
<1>5. QED
  BY <1>2, <1>3, <1>4

\* The place of a kid.
LEMMA PlaceFacts ==
  /\ \A k \in Pos \ {Root} :
       /\ Place[k] \in DOMAIN Kids[Parent[k]] /\ Place[k] \in Nat \ {0}
       /\ Place[k] <= Len(Kids[Parent[k]])
       /\ Kids[Parent[k]][Place[k]] = k
  /\ \A p \in Pos : \A n \in DOMAIN Kids[p] :
       Kids[p][n] \in Pos \ {Root} /\ Parent[Kids[p][n]] = p /\ Place[Kids[p][n]] = n
  /\ \A j, k \in Pos \ {Root} : Parent[j] = Parent[k] /\ Place[j] = Place[k] => j = k
<1>1. ASSUME NEW p \in Pos
      PROVE  /\ Kids[p] \in Seq(Pos \ {Root}) /\ Len(Kids[p]) \in Nat
             /\ DOMAIN Kids[p] = 1..Len(Kids[p])
             /\ \A n \in 1..Len(Kids[p]) : Kids[p][n] \in Pos \ {Root}
  <2>1. Kids[p] \in Seq(Pos \ {Root})
    BY KidsAssumption
  <2>2. QED
    BY <2>1, SeqOfItself
<1>2. ASSUME NEW k \in Pos \ {Root}
      PROVE  /\ Place[k] \in DOMAIN Kids[Parent[k]]
             /\ Kids[Parent[k]][Place[k]] = k
             /\ \A n \in DOMAIN Kids[Parent[k]] : Kids[Parent[k]][n] = k => Place[k] = n
  <2>1. Place[k] = CHOOSE n \in DOMAIN Kids[Parent[k]] : Kids[Parent[k]][n] = k
    BY DEF Place
  <2>2. \E n \in DOMAIN Kids[Parent[k]] : Kids[Parent[k]][n] = k
    BY KidsAssumption
  <2>3. Place[k] \in DOMAIN Kids[Parent[k]] /\ Kids[Parent[k]][Place[k]] = k
    BY <2>1, <2>2
  <2>4. Parent[k] \in Pos
    BY KidFacts
  <2>5. QED
    BY <2>3, <2>4, KidsAssumption
<1>3. \A k \in Pos \ {Root} : Parent[k] \in Pos
  BY KidFacts
<1>4. ASSUME NEW p \in Pos, NEW n \in DOMAIN Kids[p]
      PROVE  Kids[p][n] \in Pos \ {Root} /\ Parent[Kids[p][n]] = p /\ Place[Kids[p][n]] = n
  <2>1. Kids[p][n] \in Pos \ {Root} /\ Parent[Kids[p][n]] = p
    BY <1>1, KidsAssumption
  <2>2. QED
    BY <2>1, <1>2
<1>5. \A j, k \in Pos \ {Root} : Parent[j] = Parent[k] /\ Place[j] = Place[k] => j = k
  BY <1>2
<1>6. ASSUME NEW k \in Pos \ {Root}
      PROVE  Place[k] \in Nat \ {0} /\ Place[k] <= Len(Kids[Parent[k]])
  <2>1. Parent[k] \in Pos
    BY KidFacts
  <2>2. Len(Kids[Parent[k]]) \in Nat /\ Place[k] \in 1..Len(Kids[Parent[k]])
    BY <2>1, <1>1, <1>2
  <2>3. QED
    BY <2>2
<1>7. QED
  BY <1>2, <1>4, <1>5, <1>6

-----------------------------------------------------------------------------
(***************************************************************************)
(* What a walk is told of the next definition.                             *)
(***************************************************************************)
LEMMA EntryFacts ==
  ASSUME ChainInv
  PROVE  /\ \A id \in {"fields", "fc.xfields"} : With(id) => Param(id) \in Selectors
         /\ With("depth") => Param("depth") \in Int
         /\ With("content") => Param("content") \in {"all", "config", "nonconfig"}
         /\ With("fc.range") =>
              Param("fc.range") \in [selector : Selectors, start : Nat, end : Nat \cup {-1}]
<1>1. Sound(here.with)
  BY HereFacts
<1>2. \A id \in DOMAIN here.with.entries : IsSetting(id, here.with.entries[id])
  BY <1>1 DEF Sound, Settings
<1>3. QED
  BY <1>2 DEF With, Param, IsSetting

LEMMA SeenSame ==
  ASSUME NEW p \in Pos
  PROVE  Seen(p) <=> SeenBy(here.with, data, p)
  BY DEF Seen, SeenBy, With, Param

LEMMA NamesSame ==
  ASSUME NEW selector, NEW p
  PROVE  Names(selector, p) <=> Matched(selector, Under(base, p))
  BY DEF Names, Matched

LEMMA AskedOfLeaf ==
  ASSUME ChainInv, NEW k \in Below[base] \ {base}, k \in Leaves
  PROVE  Asked(k) <=>
           SeenBy(here.with, data, k) /\ Lets(here.with, Under(base, k), k)
<1>1. k \in Pos /\ Kind[k] = "leaf" /\ k \notin Inner
  BY DEF Leaves, Inner
<1>2. Seen(k) <=> SeenBy(here.with, data, k)
  BY <1>1, SeenSame
<1>3. /\ Names(Param("fields"), k) <=> Matched(Param("fields"), Under(base, k))
      /\ Names(Param("fc.xfields"), k) <=> Matched(Param("fc.xfields"), Under(base, k))
  BY NamesSame
<1>4. With("content") => Param("content") \in {"all", "config", "nonconfig"}
  BY EntryFacts
<1>5. Lets(here.with, Under(base, k), k) <=>
        /\ With("fields") => Matched(Param("fields"), Under(base, k))
        /\ With("fc.xfields") => ~Matched(Param("fc.xfields"), Under(base, k))
        /\ With("content") /\ Param("content") # "all" =>
             ((k \in Config) <=> Param("content") = "config")
  BY DEF Lets, With, Param
<1>6. QED
  BY <1>1, <1>2, <1>3, <1>4, <1>5 DEF Asked

LEMMA AskedOfInner ==
  ASSUME ChainInv, NEW k \in Below[base] \ {base}, k \in Inner, Kind[k] # "item"
  PROVE  Asked(k) <=>
           SeenBy(here.with, data, k) /\ LetsIn(here.with, base, Parent[k], k)
<1>1. k \in Pos \ {Root} /\ Parent[k] \in Pos /\ base \in Pos
  BY HereFacts, BelowFacts DEF Inner
<1>2. Seen(k) <=> SeenBy(here.with, data, k)
  BY <1>1, SeenSame
<1>3. /\ Names(Param("fields"), k) <=> Matched(Param("fields"), Under(base, k))
      /\ Names(Param("fc.xfields"), k) <=> Matched(Param("fc.xfields"), Under(base, k))
  BY NamesSame
<1>4. With("depth") => Param("depth") \in Int
  BY EntryFacts
<1>5. With("depth") =>
        (Len(Under(base, k)) <= Param("depth")
           <=> Len(PathOf[Parent[k]]) - Len(PathOf[base]) < Param("depth"))
  <2>1. Len(Under(base, k)) = Len(PathOf[k]) - Len(PathOf[base])
    BY <1>1, UnderFacts
  <2>2. Len(PathOf[k]) = Len(PathOf[Parent[k]]) + 1
    BY <1>1, PathOfKid
  <2>3. Len(PathOf[Parent[k]]) \in Nat /\ Len(PathOf[base]) \in Nat
    BY <1>1, PathLength
  <2> DEFINE a == Len(PathOf[Parent[k]])
             b == Len(PathOf[base])
             u == Len(Under(base, k))
             d == Param("depth")
  <2>4. a \in Nat /\ b \in Nat /\ u = a + 1 - b /\ (With("depth") => d \in Int)
    BY <2>1, <2>2, <2>3, <1>4
  <2> HIDE DEF a, b, u, d
  <2>5. With("depth") => (u <= d <=> a - b < d)
    BY <2>4
  <2>6. QED
    BY <2>5 DEF a, b, u, d
<1>6. LetsIn(here.with, base, Parent[k], k) <=>
        /\ With("depth") => Len(PathOf[Parent[k]]) - Len(PathOf[base]) < Param("depth")
        /\ With("fields") => Matched(Param("fields"), Under(base, k))
        /\ With("fc.xfields") => ~Matched(Param("fc.xfields"), Under(base, k))
        /\ With("content") /\ Param("content") = "config" => k \in Config
  BY DEF LetsIn, With, Param
<1>7. QED
  BY <1>2, <1>3, <1>5, <1>6 DEF Asked

\* What PlainSelectorsAreSafe takes exception to.
RiskyFields ==
  \E id \in {"fields", "fc.xfields"} :
    /\ With(id)
    /\ \/ ~OneName(Param(id))
       \/ Param(id) # <<>> /\ \E p \in Below[base] : When[p] # NoWhen
RiskyRange ==
  /\ With("fc.range")
  /\ \/ ~OneName(Param("fc.range").selector)
     \/ Param("fc.range").selector # <<>> /\ Kind[base] = "list"

\* A selector is too long for a path of one name only when it has several.
LEMMA ShortFacts ==
  ASSUME NEW selector \in Selectors, NEW rest, Short(selector, rest),
         Len(rest) \in Nat, Len(rest) > 0
  PROVE  ~OneName(selector)
<1>1. PICK n \in DOMAIN selector : Len(rest) < Len(selector[n])
  BY DEF Short
<1>2. selector[n] \in Seq(Name) \ {<<>>}
  BY DEF Selectors
<1>3. \A m \in Nat : m > 0 => ~(m < 1)
  OBVIOUS
<1>4. Len(selector[n]) # 1
  BY <1>1, <1>3
<1>5. QED
  BY <1>4 DEF OneName

LEMMA RiskOfPath ==
  ASSUME ChainInv, NEW k \in Below[base] \ {base}, Kind[k] # "item",
         Unsafe(here.with, Under(base, k))
  PROVE  RiskyFields
<1>1. Len(Under(base, k)) \in Nat /\ Len(Under(base, k)) > 0
  BY HereFacts, UnderFacts
<1>2. PICK id \in {"fields", "fc.xfields"} : With(id) /\ Short(Param(id), Under(base, k))
  BY DEF Unsafe, With, Param
<1>3. Param(id) \in Selectors
  BY <1>2, EntryFacts
<1>4. ~OneName(Param(id))
  BY <1>1, <1>2, <1>3, ShortFacts
<1>5. QED
  BY <1>2, <1>4 DEF RiskyFields

LEMMA RiskOfWhen ==
  ASSUME ChainInv, NEW t, NEW p \in Below[base], CheckWhen(here.with, t, p) = "panic"
  PROVE  RiskyFields
<1>1. p \in Pos /\ Sound(here.with)
  BY HereFacts, TreeAssumption
<1>2. /\ When[p] # NoWhen
      /\ \E id \in {"fields", "fc.xfields"} :
           id \in DOMAIN here.with.entries /\ here.with.entries[id] # <<>>
  BY <1>1, WhenFacts
<1>3. QED
  BY <1>2 DEF RiskyFields, With, Param

-----------------------------------------------------------------------------
LEMMA MetFacts ==
  ASSUME NEW c, NEW t, NEW p, SeenBy(c, t, p)
  PROVE  WhenMet(t, p)
  BY DEF SeenBy, WhenMet

\* An empty "fc.xfields" leaves nothing.
LEMMA NothingLeft ==
  ASSUME With("fc.xfields"), Param("fc.xfields") = <<>>, NEW k \in Pos, Kind[k] # "item"
  PROVE  ~Asked(k)
  BY DEF Asked, Names

LEMMA OfferedLeaf ==
  ASSUME ChainInv, NEW k \in Below[base] \ {base}, k \in Leaves
  PROVE  LET v == CheckField(here.with, Under(base, k), k, CheckWhen(here.with, data, k))
         IN  /\ v = "more" => Asked(k) /\ WhenMet(data, k)
             /\ v = "stop" => ~Asked(k) \/ ~WhenMet(data, k)
             /\ v = "panic" => RiskyFields
<1> DEFINE c    == here.with
           rest == Under(base, k)
           when == CheckWhen(c, data, k)
           v    == CheckField(c, rest, k, when)
<1>1. k \in Pos /\ Kind[k] # "item" /\ Sound(c) /\ base \in Pos
  BY HereFacts DEF Leaves
<1>2. rest \in Seq(Name)
  BY <1>1, UnderFacts
<1>3. /\ when \in {"more", "stop", "panic"}
      /\ when = "more" => SeenBy(c, data, k)
      /\ when = "stop" =>
           \/ ~SeenBy(c, data, k)
           \/ "fc.xfields" \in DOMAIN c.entries /\ c.entries["fc.xfields"] = <<>>
      /\ when = "panic" => RiskyFields
  <2> HIDE DEF c
  <2>1. /\ when \in {"more", "stop", "panic"}
        /\ when = "more" => SeenBy(c, data, k)
        /\ when = "stop" =>
             \/ ~SeenBy(c, data, k)
             \/ "fc.xfields" \in DOMAIN c.entries /\ c.entries["fc.xfields"] = <<>>
    BY <1>1, WhenFacts
  <2>2. when = "panic" => RiskyFields
    BY RiskOfWhen DEF c
  <2>3. QED
    BY <2>1, <2>2
<1>4. /\ v = "more" => when = "more" /\ Lets(c, rest, k)
      /\ v = "stop" => when = "stop" \/ Holds(c, rest, k)
      /\ v = "panic" => when = "panic" \/ Unsafe(c, rest)
  <2> HIDE DEF c, rest, when
  <2>1. when \in Verdicts
    BY <1>3 DEF Verdicts
  <2>2. QED
    BY <2>1, <1>1, <1>2, FieldFacts
<1>5. Asked(k) <=> SeenBy(c, data, k) /\ Lets(c, rest, k)
  BY AskedOfLeaf
<1>6. "fc.xfields" \in DOMAIN c.entries /\ c.entries["fc.xfields"] = <<>> => ~Asked(k)
  BY <1>1, NothingLeft DEF With, Param
<1>7. Holds(c, rest, k) => ~Lets(c, rest, k)
  BY DEF Holds, Lets
<1>8. Unsafe(c, rest) => RiskyFields
  BY <1>1, RiskOfPath
<1>9. SeenBy(c, data, k) => WhenMet(data, k)
  BY MetFacts
<1> HIDE DEF c, rest, when, v
<1>10. /\ v = "more" => Asked(k) /\ WhenMet(data, k)
       /\ v = "stop" => ~Asked(k) \/ ~WhenMet(data, k)
       /\ v = "panic" => RiskyFields
  BY <1>3, <1>4, <1>5, <1>6, <1>7, <1>8, <1>9
<1>11. QED
  BY <1>10 DEF c, rest, when, v

LEMMA OfferedInner ==
  ASSUME ChainInv, NEW k \in Below[base] \ {base}, k \in Inner, Kind[k] # "item",
         top.pos = Parent[k]
  PROVE  /\ Select(k) = "more" => Asked(k) /\ WhenMet(data, k) /\ data[k] # Absent
         /\ Select(k) = "stop" => ~Asked(k) \/ ~WhenMet(data, k) \/ data[k] = Absent
         /\ Select(k) = "panic" => RiskyFields
<1> DEFINE c    == here.with
           when == CheckWhen(c, data, k)
           pre  == CheckContainer(c, base, Parent[k], k)
           v    == Select(k)
<1>1. k \in Pos /\ Sound(c) /\ base \in Pos
  BY HereFacts DEF Inner
<1>2. v = IF pre # "more" THEN pre ELSE IF data[k] = Absent THEN "stop" ELSE when
  BY DEF Select, Answer
<1>3. /\ pre = "more" => LetsIn(c, base, Parent[k], k)
      /\ pre = "stop" => ~LetsIn(c, base, Parent[k], k)
      /\ pre = "panic" => Unsafe(c, Under(base, k))
  <2> HIDE DEF c
  <2>1. QED
    BY <1>1, ContainerFacts
<1>4. /\ when \in {"more", "stop", "panic"}
      /\ when = "more" => SeenBy(c, data, k)
      /\ when = "stop" =>
           \/ ~SeenBy(c, data, k)
           \/ "fc.xfields" \in DOMAIN c.entries /\ c.entries["fc.xfields"] = <<>>
  <2> HIDE DEF c
  <2>1. QED
    BY <1>1, WhenFacts
<1>5. when = "panic" => RiskyFields
  BY RiskOfWhen
<1>6. Asked(k) <=> SeenBy(c, data, k) /\ LetsIn(c, base, Parent[k], k)
  BY AskedOfInner
<1>7. "fc.xfields" \in DOMAIN c.entries /\ c.entries["fc.xfields"] = <<>> => ~Asked(k)
  BY <1>1, NothingLeft DEF With, Param
<1>8. Unsafe(c, Under(base, k)) => RiskyFields
  BY <1>1, RiskOfPath
<1>9. SeenBy(c, data, k) => WhenMet(data, k)
  BY MetFacts
<1> HIDE DEF c, when, pre, v
<1>10. /\ v = "more" => Asked(k) /\ WhenMet(data, k) /\ data[k] # Absent
       /\ v = "stop" => ~Asked(k) \/ ~WhenMet(data, k) \/ data[k] = Absent
       /\ v = "panic" => RiskyFields
  BY <1>2, <1>3, <1>4, <1>5, <1>6, <1>7, <1>8, <1>9
<1>11. QED
  BY <1>10 DEF c, when, pre, v

\* What is offered is asked for and comes to the copy; what is not is not wanted,
\* nor is anything under it.
LEMMA OfferedFacts ==
  ASSUME TypeInv, ChainInv, NEW k \in Below[base] \ {base}, Kind[k] # "item",
         top.pos = Parent[k]
  PROVE  /\ Offered(k) = "more" =>
              /\ Asked(k) /\ Selected(view, k) /\ WhenMet(data, k)
              /\ k \in Inner => data[k] = Obj
         /\ Offered(k) = "stop" => \A p \in Below[k] : Wanted(p) = Absent
         /\ Offered(k) = "panic" => RiskyFields
<1>1. k \in Pos /\ base \in Pos
  BY HereFacts, TreeAssumption
<1>2. k \in Leaves \/ k \in Inner
  BY <1>1 DEF Inner
<1>3. CASE ~Selected(view, k)
  <2>1. Offered(k) = "stop"
    BY <1>3 DEF Offered
  <2>2. \A p \in Below[k] : Wanted(p) = Absent
    BY <1>1, <1>3, NotWanted
  <2>3. QED
    BY <2>1, <2>2
<1>4. CASE Selected(view, k) /\ k \in Leaves
  <2>1. Offered(k) = CheckField(here.with, Under(base, k), k, CheckWhen(here.with, data, k))
    BY <1>4 DEF Offered
  <2>2. /\ Offered(k) = "more" => Asked(k) /\ WhenMet(data, k)
        /\ Offered(k) = "stop" => ~Asked(k) \/ ~WhenMet(data, k)
        /\ Offered(k) = "panic" => RiskyFields
    BY <2>1, <1>4, OfferedLeaf
  <2>3. QED
    BY <2>2, <1>1, <1>4, NotWanted DEF Inner
<1>5. CASE Selected(view, k) /\ k \in Inner
  <2>1. Offered(k) = Select(k)
    BY <1>5 DEF Offered, Inner
  <2>2. /\ Offered(k) = "more" => Asked(k) /\ WhenMet(data, k) /\ data[k] # Absent
        /\ Offered(k) = "stop" => ~Asked(k) \/ ~WhenMet(data, k) \/ data[k] = Absent
        /\ Offered(k) = "panic" => RiskyFields
    BY <2>1, <1>5, OfferedInner
  <2>3. data[k] # Absent => data[k] = Obj
    BY <1>5, DataFacts
  <2>4. data[k] = Absent => \A p \in Below[k] : Wanted(p) = Absent
    BY <1>1, <1>5, NotThere
  <2>5. QED
    BY <2>2, <2>3, <2>4, <1>1, <1>5, NotWanted
<1>6. QED
  BY <1>2, <1>3, <1>4, <1>5

-----------------------------------------------------------------------------
(***************************************************************************)
(* Rows of a list.                                                         *)
(***************************************************************************)
LEMMA FiniteSeq ==
  ASSUME NEW S, NEW s \in Seq(S)
  PROVE  IsFiniteSet(ToSet(s))
<1>1. Len(s) \in Nat /\ DOMAIN s = 1..Len(s) /\ s \in [1..Len(s) -> ToSet(s)]
  <2>1. s \in Seq(ToSet(s)) /\ Len(s) \in Nat /\ DOMAIN s = 1..Len(s)
    BY SeqOfItself
  <2>2. QED
    BY <2>1
<1>2. s \in Surjection(1..Len(s), ToSet(s))
  BY <1>1 DEF Surjection, ToSet
<1>3. IsFiniteSet(1..Len(s))
  BY <1>1, FS_Interval
<1>4. QED
  BY <1>2, <1>3, FS_Surjection

LEMMA FrontFacts ==
  ASSUME NEW S, NEW s \in Seq(S), s # <<>>
  PROVE  /\ Front(s) \in Seq(S)
         /\ Len(s) \in Nat \ {0}
         /\ Len(Front(s)) = Len(s) - 1
         /\ DOMAIN Front(s) = 1..(Len(s) - 1)
         /\ \A n \in 1..(Len(s) - 1) : Front(s)[n] = s[n]
<1>1. Len(s) \in Nat \ {0} /\ \A n \in 1..Len(s) : s[n] \in S
  BY EmptySeq
<1>2. \A n \in 1..(Len(s) - 1) : s[n] \in S
  BY <1>1
<1> DEFINE last == Len(s) - 1
<1>3. last \in Nat
  BY <1>1
<1>4. /\ SubSeq(s, 1, last) \in Seq(S)
      /\ Len(SubSeq(s, 1, last)) = last
      /\ \A n \in 1..last : SubSeq(s, 1, last)[n] = s[n]
  <2>1. \A n \in 1..last : s[n] \in S
    BY <1>2
  <2> HIDE DEF last
  <2>2. /\ SubSeq(s, 1, last) \in Seq(S)
        /\ Len(SubSeq(s, 1, last)) = IF 1 <= last THEN last - 1 + 1 ELSE 0
        /\ \A n \in 1..last - 1 + 1 : SubSeq(s, 1, last)[n] = s[1 + n - 1]
    BY <2>1, <1>3, SubSeqProperties
  <2>3. QED
    BY <2>2, <1>3
<1>5. Front(s) = SubSeq(s, 1, last)
  BY DEF Front
<1> HIDE DEF last
<1>6. Front(s) \in Seq(S) /\ Len(Front(s)) = last /\ \A n \in 1..last : Front(s)[n] = s[n]
  BY <1>4, <1>5
<1>7. DOMAIN Front(s) = 1..last
  BY <1>6, <1>3, SeqOfItself
<1>8. QED
  BY <1>1, <1>6, <1>7 DEF last

LEMMA ThereFacts ==
  ASSUME NEW list \in Pos
  PROVE  /\ IsFiniteSet(There(list))
         /\ There(list) = {k \in Pos \ {Root} : Parent[k] = list /\ data[k] # Absent}
         /\ \A k \in Pos \ {Root} : Place[k] \in Int
         /\ \A j, k \in There(list) : Place[j] = Place[k] => j = k
<1>1. Kids[list] \in Seq(Pos \ {Root})
  BY KidsAssumption
<1>2. IsFiniteSet(ToSet(Kids[list]))
  BY <1>1, FiniteSeq
<1>3. IsFiniteSet(There(list))
  <2>1. There(list) \subseteq ToSet(Kids[list])
    BY DEF There
  <2>2. QED
    BY <2>1, <1>2, FS_Subset
<1>4. ToSet(Kids[list]) = {k \in Pos \ {Root} : Parent[k] = list}
  BY PlaceFacts DEF ToSet
<1>5. There(list) = {k \in Pos \ {Root} : Parent[k] = list /\ data[k] # Absent}
  BY <1>4 DEF There
<1>6. QED
  BY <1>3, <1>5, PlaceFacts

LEMMA TurnOfFacts ==
  ASSUME NEW k \in Pos \ {Root}
  PROVE  /\ TurnOf(k) \in Nat
         /\ Kind[k] # "item" => TurnOf(k) = Place[k] - 1
<1>1. CASE Kind[k] # "item"
  BY <1>1, PlaceFacts DEF TurnOf
<1>2. CASE Kind[k] = "item"
  <2>1. Parent[k] \in Pos
    BY KidFacts
  <2>2. IsFiniteSet({y \in There(Parent[k]) : Place[y] < Place[k]})
    BY <2>1, ThereFacts, FS_Subset
  <2>3. QED
    BY <1>2, <2>2, FS_CardinalityType DEF TurnOf, Turn
<1>3. QED
  BY <1>1, <1>2

LEMMA ItemFacts ==
  ASSUME NEW k \in Pos \ {Root}
  PROVE  /\ Kind[k] = "item" <=> Kind[Parent[k]] = "list"
         /\ Kind[k] = "item" =>
              /\ When[k] = NoWhen /\ Case[k] = NoCase /\ k \in Inner
              /\ WhenMet(data, k) /\ Selected(view, k) /\ Seen(k)
<1>1. Kind[k] = "item" <=> Kind[Parent[k]] = "list"
  BY KidsAssumption
<1>2. Kind[k] = "item" => When[k] = NoWhen /\ Case[k] = NoCase
  BY SchemaAssumption
<1>3. Kind[k] = "item" => k \in Inner
  BY DEF Inner, Leaves
<1>4. QED
  BY <1>1, <1>2, <1>3 DEF WhenMet, Selected, Seen

\* Every row that is there has its turn.
LEMMA RowsFacts ==
  ASSUME NEW list \in Pos, Kind[list] = "list"
  PROVE  /\ Len(Rows(list)) \in Nat /\ DOMAIN Rows(list) = 1..Len(Rows(list))
         /\ \A n \in 1..Len(Rows(list)) :
              /\ Rows(list)[n] \in Pos \ {Root} /\ Parent[Rows(list)[n]] = list
              /\ Kind[Rows(list)[n]] = "item" /\ data[Rows(list)[n]] # Absent
         /\ \A n \in 1..Len(Rows(list)), k \in Pos : k = Rows(list)[n] => TurnOf(k) = n - 1
         /\ \A k \in Pos \ {Root} : Parent[k] = list /\ data[k] # Absent =>
              /\ TurnOf(k) + 1 \in 1..Len(Rows(list))
              /\ Rows(list)[TurnOf(k) + 1] = k
<1> DEFINE S == There(list)
<1>1. /\ IsFiniteSet(S)
      /\ \A x \in S : Place[x] \in Int
      /\ \A x, y \in S : Place[x] = Place[y] => x = y
      /\ S = {k \in Pos \ {Root} : Parent[k] = list /\ data[k] # Absent}
  BY ThereFacts
<1>2. Rows(list) = Sorted(S, Place)
  BY DEF Rows, There
<1>3. \A k \in S : Kind[k] = "item" /\ TurnOf(k) = Turn(S, Place, k)
  <2>1. \A k \in S : k \in Pos \ {Root} /\ Parent[k] = list
    BY <1>1
  <2>2. QED
    BY <2>1, ItemFacts DEF TurnOf
<1> HIDE DEF S
<1>4. /\ Sorted(S, Place) \in Seq(S)
      /\ \A n \in DOMAIN Sorted(S, Place) : Turn(S, Place, Sorted(S, Place)[n]) = n - 1
      /\ \A x \in S : /\ Turn(S, Place, x) + 1 \in DOMAIN Sorted(S, Place)
                      /\ Sorted(S, Place)[Turn(S, Place, x) + 1] = x
  <2>1. IsFiniteSet(S)
    BY <1>1
  <2>2. \A x \in S : Place[x] \in Int
    BY <1>1
  <2>3. \A x, y \in S : Place[x] = Place[y] => x = y
    BY <1>1
  <2> DEFINE place == Place
  <2> HIDE DEF place
  <2>4. (\A x \in S : place[x] \in Int) /\ (\A x, y \in S : place[x] = place[y] => x = y)
    BY <2>2, <2>3 DEF place
  <2>5. /\ Sorted(S, place) \in Seq(S)
        /\ \A n \in DOMAIN Sorted(S, place) : Turn(S, place, Sorted(S, place)[n]) = n - 1
        /\ \A x \in S : /\ Turn(S, place, x) + 1 \in DOMAIN Sorted(S, place)
                        /\ Sorted(S, place)[Turn(S, place, x) + 1] = x
    BY <2>1, <2>4, SortedFacts
  <2>6. QED
    BY <2>5 DEF place
<1>5. /\ Len(Rows(list)) \in Nat /\ DOMAIN Rows(list) = 1..Len(Rows(list))
      /\ \A n \in 1..Len(Rows(list)) : Rows(list)[n] \in S
  BY <1>2, <1>4, SeqOfItself
<1>6. \A n \in 1..Len(Rows(list)), k \in Pos : k = Rows(list)[n] => TurnOf(k) = n - 1
  <2> TAKE n \in 1..Len(Rows(list)), k \in Pos
  <2>1. HAVE k = Rows(list)[n]
  <2>2. k \in S /\ Turn(S, Place, k) = n - 1
    BY <2>1, <1>2, <1>4, <1>5
  <2>3. QED
    BY <2>2, <1>3
<1>7. \A k \in S : TurnOf(k) + 1 \in 1..Len(Rows(list)) /\ Rows(list)[TurnOf(k) + 1] = k
  BY <1>2, <1>3, <1>4, <1>5
<1>8. QED
  BY <1>1, <1>3, <1>5, <1>6, <1>7

-----------------------------------------------------------------------------
(***************************************************************************)
(* What a step of a walk leaves as it is.                                  *)
(***************************************************************************)
Unmoved == data' = data /\ view' = view /\ chain' = chain /\ fills' = fills

LEMMA SameHere ==
  ASSUME Unmoved
  PROVE  here' = here /\ base' = base
  BY DEF Unmoved, here, base

LEMMA SameRows ==
  ASSUME Unmoved
  PROVE  /\ \A list : Rows(list)' = Rows(list) /\ There(list)' = There(list)
         /\ \A k : TurnOf(k)' = TurnOf(k)
<1>1. data' = data
  BY DEF Unmoved
<1>2. \A list : Rows(list)' = Rows(list) /\ There(list)' = There(list)
  BY <1>1 DEF Rows, There
<1>3. \A k : TurnOf(k)' = TurnOf(k)
  BY <1>2 DEF TurnOf
<1>4. QED
  BY <1>2, <1>3

LEMMA SameWanted ==
  ASSUME Unmoved
  PROVE  /\ \A p : Above(p)' = Above(p) /\ Whole(p)' = Whole(p) /\ Asked(p)' = Asked(p)
         /\ \A p : Wanted(p)' = Wanted(p)
         /\ \A p : Passed(p)' <=> Passed(p)
         /\ RiskyFields' <=> RiskyFields
         /\ RiskyRange' <=> RiskyRange
<1>1. data' = data /\ view' = view /\ fills' = fills /\ here' = here /\ base' = base
  BY SameHere DEF Unmoved
<1>2. \A p : Above(p)' = Above(p) /\ Held(p)' = Held(p)
  BY <1>1 DEF Above, Held
<1>3. \A p : Whole(p)' = Whole(p)
  BY <1>1, <1>2 DEF Whole
<1>4. /\ \A id : With(id)' = With(id) /\ Param(id)' = Param(id)
      /\ \A s, p : Names(s, p)' = Names(s, p)
  BY <1>1 DEF With, Param, Names
<1>5. \A p : Seen(p)' = Seen(p) /\ Ranged(p)' = Ranged(p)
  BY <1>1, <1>4, SameRows DEF Seen, Ranged
<1>6. \A p : Asked(p)' = Asked(p)
  BY <1>1, <1>4, <1>5 DEF Asked
<1>7. \A p : Wanted(p)' = Wanted(p)
  BY <1>1, <1>2, <1>3, <1>6 DEF Wanted
<1>8. \A p : Passed(p)' <=> Passed(p)
  BY <1>1, <1>2, <1>6 DEF Passed
<1>9. (RiskyFields' <=> RiskyFields) /\ (RiskyRange' <=> RiskyRange)
  BY <1>1, <1>4 DEF RiskyFields, RiskyRange
<1>10. QED
  BY <1>2, <1>3, <1>6, <1>7, <1>8, <1>9

\* A chain that is made of good selections.
LEMMA ChainOf ==
  ASSUME data' = data, chain' # <<>>, chain' \in Seq(ToSet(chain')),
         \A n \in DOMAIN chain' :
           /\ LinkInv(chain'[n])
           /\ n > 1 => chain'[n].pos \in Below[chain'[n - 1].pos]
  PROVE  ChainInv'
<1>1. \A n \in DOMAIN chain' : LinkInv(chain[n])'
  <2> TAKE n \in DOMAIN chain'
  <2>1. LinkInv(chain'[n])
    OBVIOUS
  <2>2. Tells(chain'[n]) => Tells(chain[n])'
    BY DEF Tells
  <2>3. QED
    BY <2>1, <2>2 DEF LinkInv
<1>2. QED
  BY <1>1 DEF ChainInv

LEMMA KeptChain ==
  ASSUME ChainInv, data' = data, chain' = chain
  PROVE  ChainInv'
<1>1. /\ chain' # <<>> /\ chain' \in Seq(ToSet(chain'))
      /\ \A n \in DOMAIN chain' :
           /\ LinkInv(chain'[n])
           /\ n > 1 => chain'[n].pos \in Below[chain'[n - 1].pos]
  BY DEF ChainInv
<1>2. QED
  BY <1>1, ChainOf

LEMMA SameChain ==
  ASSUME Unmoved, ChainInv
  PROVE  ChainInv'
  BY KeptChain DEF Unmoved

-----------------------------------------------------------------------------
(***************************************************************************)
(* Where a walk is.                                                        *)
(***************************************************************************)
LEMMA WalkFacts ==
  ASSUME ChainInv, WalkInv, Walking
  PROVE  /\ level \in Nat \ {0} /\ DOMAIN stack = 1..level /\ level \in DOMAIN stack
         /\ stack \in Seq(Frames) /\ stack # <<>> /\ top \in Frames /\ top = stack[level]
         /\ FrameInv(level)
         /\ level = Len(stack)
<1>1. stack # <<>> /\ stack \in Seq(Frames)
  BY DEF WalkInv, Walking
<1>2. level = Len(stack) /\ top = stack[level]
  BY DEF level, top
<1>3. level \in Nat \ {0} /\ DOMAIN stack = 1..level
  BY <1>1, <1>2, EmptySeq
<1>4. level \in DOMAIN stack
  BY <1>3
<1>5. FrameInv(level)
  BY <1>4 DEF WalkInv
<1>6. top \in Frames
  BY <1>1, <1>2, <1>4
<1>7. QED
  BY <1>1, <1>2, <1>3, <1>4, <1>5, <1>6

LEMMA TopFacts ==
  ASSUME ChainInv, WalkInv, Walking
  PROVE  /\ top.pos \in Inner /\ top.pos \in Pos /\ top.pos \in Below[base]
         /\ top.new \in BOOLEAN /\ top.first \in BOOLEAN /\ top.i \in Nat
         /\ data[top.pos] = Obj /\ out[top.pos] = Obj /\ Passed(top.pos)
         /\ level = 1 => top.pos = base
         /\ top.pos = base <=> ~top.new
         /\ \A m \in 1..level : top.pos \in Below[stack[m].pos]
         /\ Kind[top.pos] = "list" => RowsInv(top)
         /\ Kind[top.pos] # "list" => top.i <= Len(Kids[top.pos])
         /\ \A k \in Pos \ {Root} : Parent[k] = top.pos =>
              IF TurnOf(k) < top.i THEN Done(k) ELSE Untouched(k)
<1>1. /\ level \in Nat \ {0} /\ top \in Frames /\ top = stack[level] /\ FrameInv(level)
      /\ level = Len(stack)
  BY WalkFacts
<1>2. /\ top.pos \in Inner /\ top.new \in BOOLEAN /\ top.first \in BOOLEAN /\ top.i \in Nat
  BY <1>1 DEF Frames
<1>3. top.pos \in Pos
  BY <1>2 DEF Inner
<1>4. ~(level < level)
  BY <1>1
<1>5. /\ IF level = 1 THEN top.pos = base /\ ~top.new
         ELSE top.pos # Root /\ Parent[top.pos] = stack[level - 1].pos /\ top.new
      /\ top.pos \in Below[base]
      /\ \A m \in 1..level : top.pos \in Below[stack[m].pos]
      /\ data[top.pos] = Obj /\ out[top.pos] = Obj
      /\ Passed(top.pos)
      /\ IF Kind[top.pos] = "list" THEN RowsInv(top) ELSE top.i <= Len(Kids[top.pos])
      /\ KidsInv(level)
  BY <1>1 DEF FrameInv
<1>6. \A k \in Pos \ {Root} : Parent[k] = top.pos =>
        IF TurnOf(k) < top.i THEN Done(k) ELSE Untouched(k)
  BY <1>1, <1>4, <1>5 DEF KidsInv
<1>7. ASSUME level # 1
      PROVE  top.pos # base
  <2>1. top.pos \in Pos \ {Root} /\ Parent[top.pos] = stack[level - 1].pos
    BY <1>3, <1>5, <1>7
  <2>2. level - 1 \in 1..Len(stack) /\ level - 1 \in DOMAIN stack
    BY <1>1, <1>7, WalkFacts
  <2>3. stack[level - 1].pos \in Below[base]
    BY <2>2 DEF WalkInv, FrameInv
  <2>4. base \in Pos
    BY HereFacts
  <2>5. QED
    BY <2>1, <2>3, <2>4, KidFacts
<1>8. QED
  BY <1>2, <1>3, <1>5, <1>6, <1>7

\* What comes next under the top of the walk.
LEMMA NextFacts ==
  ASSUME ChainInv, WalkInv, Walking, NEW k \in Pos \ {Root}, Parent[k] = top.pos
  PROVE  /\ k \in Below[base] \ {base} /\ k \in Pos /\ base \in Pos
         /\ Above(k) = Above(top.pos) \cup {k}
         /\ top.pos \notin Below[k] /\ k # top.pos
         /\ data[Parent[k]] # Absent
         /\ Held(k) = IF data[k] = Absent /\ (fills \/ top.new) THEN Default[k] ELSE data[k]
         /\ Asked(k) /\ Selected(view, k) /\ WhenMet(data, k) =>
              /\ Passed(k)
              /\ Whole(k) = Held(k)
              /\ Wanted(k) = ValueOf(k)
<1>1. base \in Pos
  BY HereFacts
<1>2. /\ top.pos \in Below[base] /\ top.pos \in Pos /\ data[top.pos] = Obj /\ Passed(top.pos)
      /\ top.pos = base <=> ~top.new
      /\ top.new \in BOOLEAN
  BY TopFacts
<1>3. k \in Below[base] /\ k # base
  BY <1>1, <1>2, KidFacts
<1>4. Above(k) = Above(top.pos) \cup {k}
  BY <1>1, <1>3, AboveFacts
<1>5. top.pos \notin Below[k] /\ k # top.pos
  BY KidFacts
<1>6. data[Parent[k]] # Absent
  BY <1>2, TokensAssumption
<1>7. Held(k) = IF data[k] = Absent /\ (fills \/ top.new) THEN Default[k] ELSE data[k]
  BY <1>2 DEF Held
<1>8. ASSUME Asked(k), Selected(view, k), WhenMet(data, k)
      PROVE  Passed(k)
  BY <1>2, <1>4, <1>8 DEF Passed
<1>9. ASSUME Passed(k)
      PROVE  Whole(k) = Held(k) /\ Wanted(k) = ValueOf(k)
  <2>1. Whole(k) = Held(k) /\ Wanted(k) = Trim(here.with, k, Held(k))
    BY <1>1, <1>3, <1>6, <1>9, PassedWhole
  <2>2. QED
    BY <2>1, <1>7 DEF ValueOf
<1>10. QED
  BY <1>1, <1>3, <1>4, <1>5, <1>6, <1>7, <1>8, <1>9

\* An inner position that is there is copied as it is.
LEMMA InnerValue ==
  ASSUME TypeInv, NEW k \in Inner, data[k] = Obj
  PROVE  Held(k) = Obj /\ Trim(here.with, k, Obj) = Obj
<1>1. Obj # Absent /\ Default[k] = Absent
  BY DataFacts, SchemaAssumption
<1>2. QED
  BY <1>1 DEF Held, Trim

LEMMA KidAtWalk ==
  ASSUME ChainInv, WalkInv, AtKid
  PROVE  /\ Kid \in Pos \ {Root} /\ Parent[Kid] = top.pos /\ Kind[Kid] # "item"
         /\ TurnOf(Kid) = top.i
         /\ Untouched(Kid)
         /\ \A k \in Pos \ {Root} : Parent[k] = top.pos /\ TurnOf(k) = top.i => k = Kid
         /\ Kind[top.pos] # "list" /\ top.i + 1 <= Len(Kids[top.pos])
<1>1. Walking /\ Kind[top.pos] # "list" /\ top.i < Len(Kids[top.pos])
  BY DEF AtKid, InList
<1>2. top.pos \in Pos /\ top.i \in Nat
  BY <1>1, TopFacts
<1>3. Kids[top.pos] \in Seq(Pos \ {Root})
  BY <1>2, KidsAssumption
<1>4. Len(Kids[top.pos]) \in Nat /\ DOMAIN Kids[top.pos] = 1..Len(Kids[top.pos])
  BY <1>3, SeqOfItself
<1>5. top.i + 1 \in DOMAIN Kids[top.pos]
  BY <1>1, <1>2, <1>4
<1>6. Kid \in Pos \ {Root} /\ Parent[Kid] = top.pos /\ Place[Kid] = top.i + 1
  BY <1>2, <1>5, PlaceFacts DEF Kid
<1>7. \A k \in Pos \ {Root} : Parent[k] = top.pos => Kind[k] # "item"
  BY <1>1, ItemFacts
<1>8. \A k \in Pos \ {Root} : Parent[k] = top.pos => TurnOf(k) = Place[k] - 1 /\ Place[k] \in Nat
  BY <1>7, TurnOfFacts, PlaceFacts
<1>9. TurnOf(Kid) = top.i
  BY <1>2, <1>6, <1>8
<1>10. \A k \in Pos \ {Root} : Parent[k] = top.pos /\ TurnOf(k) = top.i => Place[k] = Place[Kid]
  BY <1>2, <1>6, <1>8
<1>11. \A k \in Pos \ {Root} : Parent[k] = top.pos /\ TurnOf(k) = top.i => k = Kid
  BY <1>6, <1>10, PlaceFacts
<1>12. Untouched(Kid)
  BY <1>1, <1>2, <1>6, <1>9, TopFacts
<1>13. top.i + 1 <= Len(Kids[top.pos])
  <2>1. \A a, b \in Nat : a < b => a + 1 <= b
    OBVIOUS
  <2>2. QED
    BY <2>1, <1>1, <1>2, <1>4
<1>14. QED
  BY <1>1, <1>6, <1>7, <1>9, <1>11, <1>12, <1>13

\* The others have had their turn or have it later.
LEMMA OtherKids ==
  ASSUME ChainInv, WalkInv, AtKid, NEW k \in Pos \ {Root}, Parent[k] = top.pos, k # Kid
  PROVE  IF TurnOf(k) < top.i + 1 THEN Done(k) ELSE Untouched(k)
<1>1. IF TurnOf(k) < top.i THEN Done(k) ELSE Untouched(k)
  BY TopFacts DEF AtKid
<1>2. TurnOf(k) \in Nat /\ top.i \in Nat
  BY TurnOfFacts, TopFacts DEF AtKid
<1>3. TurnOf(k) # top.i
  BY KidAtWalk
<1>4. TurnOf(k) < top.i + 1 <=> TurnOf(k) < top.i
  BY <1>2, <1>3
<1>5. QED
  BY <1>1, <1>4

-----------------------------------------------------------------------------
(***************************************************************************)
(* Which rows a walk comes to.                                             *)
(***************************************************************************)
Span == Param("fc.range")
Matching(list) == InRange(here.with, base, list)

LEMMA RangeFacts ==
  ASSUME ChainInv, NEW list \in Below[base], Kind[list] = "list"
  PROVE  /\ Matching(list) \in {"yes", "no", "panic"}
         /\ Matching(list) = "yes" => With("fc.range") /\ Names(Span.selector, list)
         /\ Matching(list) = "no" => ~(With("fc.range") /\ Names(Span.selector, list))
         /\ Matching(list) = "panic" => RiskyRange
         /\ With("fc.range") => Span.start \in Nat /\ Span.end \in Int
<1>1. base \in Pos /\ list \in Pos
  BY HereFacts, TreeAssumption
<1>2. /\ Under(base, list) \in Seq(Name) /\ Len(Under(base, list)) \in Nat
      /\ list # base => Len(Under(base, list)) > 0
  BY <1>1, UnderFacts
<1>3. Matching(list) =
        IF With("fc.range") THEN PathMatches(Span.selector, Under(base, list)) ELSE "no"
  BY DEF Matching, InRange, HasRange, With, Span, Param
<1>4. CASE ~With("fc.range")
  BY <1>3, <1>4
<1>5. CASE With("fc.range")
  <2>1. Span \in [selector : Selectors, start : Nat, end : Nat \cup {-1}]
    BY <1>5, EntryFacts DEF Span
  <2>2. Span.selector \in Selectors /\ Span.start \in Nat /\ Span.end \in Int
    BY <2>1
  <2> DEFINE match == PathMatches(Span.selector, Under(base, list))
  <2>3. /\ match \in {"yes", "no", "panic"}
        /\ match = "yes" => Matched(Span.selector, Under(base, list))
        /\ match = "no" => ~Matched(Span.selector, Under(base, list))
        /\ match = "panic" => Short(Span.selector, Under(base, list))
    BY <1>2, <2>2, MatchFacts DEF Matched, Short
  <2>4. Names(Span.selector, list) <=> Matched(Span.selector, Under(base, list))
    BY NamesSame
  <2> HIDE DEF match
  <2>5. ASSUME match = "panic"
        PROVE  RiskyRange
    <3>1. Short(Span.selector, Under(base, list))
      BY <2>3, <2>5
    <3>2. list # base => ~OneName(Span.selector)
      BY <3>1, <1>2, <2>2, ShortFacts
    <3>3. Span.selector # <<>>
      BY <3>1 DEF Short
    <3>4. QED
      BY <1>5, <3>2, <3>3 DEF RiskyRange, Span
  <2>6. Matching(list) = match
    BY <1>3, <1>5 DEF match
  <2>7. QED
    BY <1>5, <2>2, <2>3, <2>4, <2>5, <2>6
<1>6. QED
  BY <1>4, <1>5

LEMMA AskedOfItem ==
  ASSUME ChainInv, NEW k \in Pos \ {Root}, Kind[Parent[k]] = "list", data[k] # Absent,
         Parent[k] \in Below[base]
  PROVE  Asked(k) <=>
           (With("fc.range") /\ Names(Span.selector, Parent[k]) =>
              /\ TurnOf(k) >= Span.start
              /\ Span.end = -1 \/ TurnOf(k) < Span.end \/ TurnOf(k) = Span.start)
<1> DEFINE list == Parent[k]
           rows == Rows(list)
           t    == TurnOf(k)
<1>1. Kind[k] = "item" /\ Seen(k) /\ list \in Pos
  BY ItemFacts, KidFacts
<1>2. Asked(k) <=> Ranged(k)
  BY <1>1 DEF Asked
<1>3. t \in Nat
  BY TurnOfFacts
<1>4. /\ Len(rows) \in Nat /\ DOMAIN rows = 1..Len(rows)
      /\ \A n \in 1..Len(rows) : k = rows[n] => t = n - 1
      /\ t + 1 \in 1..Len(rows) /\ rows[t + 1] = k
  BY <1>1, RowsFacts
<1>5. \A n \in DOMAIN rows : rows[n] = k <=> n = t + 1
  BY <1>3, <1>4
<1>6. Ranged(k) <=>
        (With("fc.range") /\ Names(Span.selector, list) =>
           \E n \in DOMAIN rows :
             /\ rows[n] = k
             /\ n - 1 >= Span.start
             /\ Span.end = -1 \/ n - 1 < Span.end \/ n - 1 = Span.start)
  BY DEF Ranged, Span
<1> HIDE DEF rows, t
<1>7. t + 1 - 1 = t /\ t + 1 \in DOMAIN rows
  BY <1>3, <1>4
<1>8. (\E n \in DOMAIN rows :
         /\ rows[n] = k
         /\ n - 1 >= Span.start
         /\ Span.end = -1 \/ n - 1 < Span.end \/ n - 1 = Span.start)
      <=> /\ t >= Span.start
          /\ Span.end = -1 \/ t < Span.end \/ t = Span.start
  <2>1. ASSUME NEW n \in DOMAIN rows, rows[n] = k
        PROVE  n - 1 = t
    BY <2>1, <1>3, <1>5, <1>7 DEF t
  <2>2. QED
    BY <2>1, <1>5, <1>7
<1>9. QED
  BY <1>2, <1>6, <1>8 DEF t

-----------------------------------------------------------------------------
LEMMA ListWalk ==
  ASSUME ChainInv, WalkInv, Walking, InList
  PROVE  /\ top.pos \in Below[base] /\ Kind[top.pos] = "list"
         /\ row \in Nat /\ top.i \in Nat /\ row >= top.i
         /\ Matching(top.pos) = "yes" =>
              /\ row >= Span.start
              /\ top.first => row = Span.start
              /\ ~top.first => row > Span.start
         /\ ~(top.first /\ Matching(top.pos) = "yes") => row = top.i
         /\ ListGoesOn = "panic" => RiskyRange
         /\ ListGoesOn # "fail"
         /\ ListGoesOn = "more" =>
              Matching(top.pos) # "panic"
              /\ (\/ top.first \/ Matching(top.pos) = "no"
                  \/ row < Span.end \/ Span.end = -1)
         /\ ListGoesOn = "stop" =>
              /\ ~top.first /\ Matching(top.pos) = "yes"
              /\ ~(row < Span.end) /\ Span.end # -1
<1>1. /\ Kind[top.pos] = "list" /\ top.pos \in Below[base] /\ RowsInv(top)
      /\ top.i \in Nat /\ top.first \in BOOLEAN
  BY TopFacts DEF InList
<1>2. /\ Matching(top.pos) \in {"yes", "no", "panic"}
      /\ Matching(top.pos) = "yes" => With("fc.range")
      /\ Matching(top.pos) = "panic" => RiskyRange
      /\ With("fc.range") => Span.start \in Nat /\ Span.end \in Int
  BY <1>1, RangeFacts
<1>3. row = IF top.first /\ Matching(top.pos) = "yes" THEN Span.start ELSE top.i
  BY DEF row, RowAsked, Matching, Span, Param
<1>4. /\ top.first => top.i = 0
      /\ ~top.first /\ Matching(top.pos) = "yes" => top.i > Span.start
  BY <1>1 DEF RowsInv, Matching, Span, Param
<1>5. ListGoesOn =
        IF Matching(top.pos) = "panic" THEN "panic"
        ELSE IF \/ top.first \/ Matching(top.pos) = "no"
                \/ top.i < Span.end \/ Span.end = -1
             THEN "more" ELSE "stop"
  BY DEF ListGoesOn, CheckList, Proceed, Matching, Span, Param
<1>6. row \in Nat /\ row >= top.i
  BY <1>1, <1>2, <1>3, <1>4
<1>7. /\ Matching(top.pos) = "yes" =>
           /\ row >= Span.start
           /\ top.first => row = Span.start
           /\ ~top.first => row > Span.start
      /\ ~(top.first /\ Matching(top.pos) = "yes") => row = top.i
  BY <1>1, <1>2, <1>3, <1>4
<1>8. /\ ListGoesOn = "panic" => RiskyRange
      /\ ListGoesOn # "fail"
      /\ ListGoesOn = "more" =>
           Matching(top.pos) # "panic"
           /\ (\/ top.first \/ Matching(top.pos) = "no"
               \/ row < Span.end \/ Span.end = -1)
      /\ ListGoesOn = "stop" =>
           /\ ~top.first /\ Matching(top.pos) = "yes"
           /\ ~(row < Span.end) /\ Span.end # -1
  BY <1>2, <1>3, <1>5
<1>9. QED
  BY <1>1, <1>6, <1>7, <1>8

\* A row that is not there or that the range leaves out is done as it is.
LEMMA LeftOut ==
  ASSUME TypeInv, ChainInv, NEW k \in Pos \ {Root}, k \in Below[base] \ {base}, Untouched(k),
         k \in Inner, ~Asked(k) \/ data[k] = Absent
  PROVE  Done(k)
<1>1. base \in Pos
  BY HereFacts
<1>2. \A p \in Below[k] : Wanted(p) = Absent
  BY <1>1, NotWanted, NotThere
<1>3. QED
  BY <1>2 DEF Untouched, Done

\* Rows that a range passes over are done.
LEMMA RowsPassed ==
  ASSUME TypeInv, ChainInv, WalkInv, Walking, InList,
         NEW k \in Pos \ {Root}, Parent[k] = top.pos, TurnOf(k) < row
  PROVE  Done(k)
<1>1. /\ top.pos \in Below[base] /\ Kind[top.pos] = "list"
      /\ row \in Nat /\ top.i \in Nat /\ row >= top.i
      /\ Matching(top.pos) = "yes" => (top.first => row = Span.start)
      /\ ~(top.first /\ Matching(top.pos) = "yes") => row = top.i
  BY ListWalk
<1>2. TurnOf(k) \in Nat /\ k \in Inner /\ k \in Below[base] \ {base}
  BY <1>1, TurnOfFacts, ItemFacts, NextFacts
<1>3. CASE TurnOf(k) < top.i
  BY <1>3, TopFacts
<1>4. CASE ~(TurnOf(k) < top.i)
  <2>1. Untouched(k)
    BY <1>4, TopFacts
  <2>2. row # top.i
    BY <1>4, <1>1, <1>2
  <2>3. Matching(top.pos) = "yes" /\ row = Span.start
    BY <1>1, <2>2
  <2>4. With("fc.range") /\ Names(Span.selector, top.pos) /\ Span.start \in Nat
    BY <2>3, <1>1, RangeFacts
  <2>5. ~(TurnOf(k) >= Span.start)
    BY <2>3, <2>4, <1>2
  <2>6. data[k] # Absent => ~Asked(k)
    BY <2>4, <2>5, <1>1, AskedOfItem
  <2>7. QED
    BY <2>1, <2>6, <1>2, LeftOut
<1>5. QED
  BY <1>3, <1>4

LEMMA ItemAtWalk ==
  ASSUME TypeInv, ChainInv, WalkInv, Walking, InList, ListGoesOn = "more",
         row < Len(Rows(top.pos)), NEW item, item = Rows(top.pos)[row + 1]
  PROVE  /\ item \in Pos \ {Root} /\ Parent[item] = top.pos /\ item \in Inner
         /\ data[item] = Obj
         /\ TurnOf(item) = row
         /\ Asked(item) /\ Selected(view, item) /\ WhenMet(data, item)
         /\ Untouched(item)
         /\ \A k \in Pos \ {Root} : Parent[k] = top.pos /\ k # item =>
              IF TurnOf(k) < row + 1 THEN Done(k) ELSE Untouched(k)
<1>1. /\ top.pos \in Below[base] /\ Kind[top.pos] = "list" /\ top.pos \in Pos
      /\ row \in Nat /\ top.i \in Nat /\ row >= top.i
  BY ListWalk, TopFacts
<1>2. /\ Matching(top.pos) = "yes" =>
           /\ row >= Span.start
           /\ top.first => row = Span.start
           /\ ~top.first => row > Span.start
      /\ Matching(top.pos) # "panic"
      /\ top.first \/ Matching(top.pos) = "no" \/ row < Span.end \/ Span.end = -1
  BY ListWalk
<1>3. /\ Len(Rows(top.pos)) \in Nat
      /\ \A n \in 1..Len(Rows(top.pos)) :
           /\ Rows(top.pos)[n] \in Pos \ {Root} /\ Parent[Rows(top.pos)[n]] = top.pos
           /\ Kind[Rows(top.pos)[n]] = "item" /\ data[Rows(top.pos)[n]] # Absent
      /\ \A n \in 1..Len(Rows(top.pos)), k \in Pos :
           k = Rows(top.pos)[n] => TurnOf(k) = n - 1
      /\ \A k \in Pos \ {Root} : Parent[k] = top.pos /\ data[k] # Absent =>
           Rows(top.pos)[TurnOf(k) + 1] = k
  BY <1>1, RowsFacts
<1>4. row + 1 \in 1..Len(Rows(top.pos))
  BY <1>1, <1>3
<1>5. /\ item \in Pos \ {Root} /\ Parent[item] = top.pos /\ data[item] # Absent
      /\ Kind[item] = "item" /\ TurnOf(item) = (row + 1) - 1
  <2> DEFINE at == row + 1
  <2>1. at \in 1..Len(Rows(top.pos)) /\ item = Rows(top.pos)[at]
    BY <1>4
  <2> HIDE DEF at
  <2>2. item \in Pos
    BY <2>1, <1>3
  <2>3. \A n \in 1..Len(Rows(top.pos)), k \in Pos : k = Rows(top.pos)[n] => TurnOf(k) = n - 1
    BY <1>1, RowsFacts
  <2>4. TurnOf(item) = at - 1
    BY <2>1, <2>2, <2>3
  <2>5. /\ item \in Pos \ {Root} /\ Parent[item] = top.pos /\ data[item] # Absent
        /\ Kind[item] = "item"
    BY <2>1, <1>3
  <2>6. QED
    BY <2>4, <2>5 DEF at
<1>6. TurnOf(item) = row
  BY <1>1, <1>5
<1>7. /\ item \in Inner /\ Selected(view, item) /\ WhenMet(data, item)
      /\ data[item] = Obj
  BY <1>5, ItemFacts, DataFacts
<1>8. Asked(item)
  <2>1. With("fc.range") /\ Names(Span.selector, top.pos) =>
          Matching(top.pos) = "yes" /\ Span.start \in Nat
    BY <1>1, <1>2, RangeFacts
  <2>2. With("fc.range") /\ Names(Span.selector, top.pos) =>
          /\ row >= Span.start
          /\ Span.end = -1 \/ row < Span.end \/ row = Span.start
    BY <2>1, <1>2
  <2>3. QED
    BY <2>2, <1>1, <1>5, <1>6, AskedOfItem
<1>9. ASSUME NEW k \in Pos \ {Root}, Parent[k] = top.pos, TurnOf(k) >= row
      PROVE  Untouched(k)
  <2>1. TurnOf(k) \in Nat
    BY TurnOfFacts
  <2>2. ~(TurnOf(k) < top.i)
    BY <2>1, <1>1, <1>9
  <2>3. QED
    BY <2>2, <1>9, TopFacts
<1>10. Untouched(item)
  <2>1. TurnOf(item) >= row
    BY <1>1, <1>6
  <2>2. QED
    BY <2>1, <1>5, <1>9
<1>11. ASSUME NEW k \in Pos \ {Root}, Parent[k] = top.pos, k # item
       PROVE  IF TurnOf(k) < row + 1 THEN Done(k) ELSE Untouched(k)
  <2>1. TurnOf(k) \in Nat /\ k \in Inner /\ k \in Below[base] \ {base}
    BY <1>1, <1>11, TurnOfFacts, ItemFacts, NextFacts
  <2>2. CASE TurnOf(k) < row
    <3>1. Done(k)
      BY <2>2, <1>11, RowsPassed
    <3>2. TurnOf(k) < row + 1
      BY <2>1, <2>2, <1>1
    <3>3. QED
      BY <3>1, <3>2
  <2>3. CASE TurnOf(k) = row
    <3>1. data[k] = Absent
      BY <2>3, <1>3, <1>11
    <3>2. Untouched(k)
      BY <2>1, <2>3, <1>9, <1>11
    <3>3. Done(k)
      BY <3>1, <3>2, <2>1, LeftOut
    <3>4. TurnOf(k) < row + 1
      BY <2>1, <2>3, <1>1
    <3>5. QED
      BY <3>3, <3>4
  <2>4. CASE TurnOf(k) > row
    <3>1. Untouched(k)
      BY <2>1, <2>4, <1>1, <1>9, <1>11
    <3>2. ~(TurnOf(k) < row + 1)
      BY <2>1, <2>4, <1>1
    <3>3. QED
      BY <3>1, <3>2
  <2>5. QED
    BY <2>1, <2>2, <2>3, <2>4, <1>1
<1>12. QED
  BY <1>5, <1>6, <1>7, <1>8, <1>10, <1>11

-----------------------------------------------------------------------------
(***************************************************************************)
(* Leaving a position.                                                     *)
(***************************************************************************)
LEMMA LeaveFacts ==
  ASSUME TypeInv, ChainInv, WalkInv, Leave, NEW k \in Pos \ {Root}, Parent[k] = top.pos
  PROVE  Done(k)
<1>1. Walking
  BY DEF Leave
<1>2. TurnOf(k) \in Nat /\ k \in Below[base] \ {base} /\ top.pos \in Pos /\ top.i \in Nat
  BY <1>1, TurnOfFacts, NextFacts, TopFacts
<1>3. CASE ~InList
  <2>1. top.i = Len(Kids[top.pos]) /\ Kind[top.pos] # "list"
    BY <1>3 DEF Leave, InList
  <2>2. TurnOf(k) = Place[k] - 1 /\ Place[k] \in Nat /\ Place[k] <= Len(Kids[top.pos])
    BY <2>1, TurnOfFacts, ItemFacts, PlaceFacts
  <2>3. TurnOf(k) < top.i
    BY <2>1, <2>2, <1>2
  <2>4. QED
    BY <2>3, <1>1, TopFacts
<1>4. CASE InList
  <2>1. /\ top.pos \in Below[base] /\ Kind[top.pos] = "list"
        /\ row \in Nat /\ row >= top.i
        /\ ListGoesOn = "stop" =>
             /\ ~top.first /\ Matching(top.pos) = "yes"
             /\ ~(row < Span.end) /\ Span.end # -1
        /\ Matching(top.pos) = "yes" => (~top.first => row > Span.start)
    BY <1>1, <1>4, ListWalk
  <2>2. CASE TurnOf(k) < row
    BY <2>2, <1>1, <1>4, RowsPassed
  <2>3. CASE ~(TurnOf(k) < row)
    <3>1. ~(TurnOf(k) < top.i)
      BY <2>1, <2>3, <1>2
    <3>2. Untouched(k)
      BY <3>1, <1>1, TopFacts
    <3>3. k \in Inner
      BY <2>1, ItemFacts
    <3>4. ASSUME data[k] # Absent
          PROVE  ~Asked(k)
      <4>1. TurnOf(k) + 1 \in 1..Len(Rows(top.pos)) /\ Len(Rows(top.pos)) \in Nat
        BY <3>4, <2>1, <1>2, RowsFacts
      <4>2. ~(row >= Len(Rows(top.pos)))
        BY <4>1, <2>1, <2>3, <1>2
      <4>3. ListGoesOn = "stop"
        BY <4>2, <1>4 DEF Leave
      <4>4. /\ Matching(top.pos) = "yes" /\ row > Span.start
            /\ ~(row < Span.end) /\ Span.end # -1
        BY <4>3, <2>1
      <4>5. /\ With("fc.range") /\ Names(Span.selector, top.pos)
            /\ Span.start \in Nat /\ Span.end \in Int
        BY <4>4, <2>1, RangeFacts
      <4>6. ~(TurnOf(k) < Span.end) /\ TurnOf(k) # Span.start
        BY <4>4, <4>5, <2>1, <2>3, <1>2
      <4>7. QED
        BY <4>4, <4>5, <4>6, <2>1, <3>4, AskedOfItem
    <3>5. QED
      BY <3>2, <3>3, <3>4, <1>2, LeftOut
  <2>4. QED
    BY <2>2, <2>3
<1>5. QED
  BY <1>3, <1>4

\* What has been left is as it is wanted, and so is all that is under it.
LEMMA LeftFacts ==
  ASSUME TypeInv, ChainInv, WalkInv, Leave
  PROVE  \A p \in Below[top.pos] : p # base => out[p] = Wanted(p)
<1> TAKE p \in Below[top.pos]
<1>1. HAVE p # base
<1>2. /\ Walking
      /\ top.pos \in Inner /\ top.pos \in Pos /\ top.pos \in Below[base]
      /\ data[top.pos] = Obj /\ out[top.pos] = Obj /\ Passed(top.pos)
  BY TopFacts DEF Leave
<1>3. CASE p = top.pos
  <2>1. base \in Pos /\ p \in Below[base] \ {base}
    BY <1>1, <1>2, <1>3, HereFacts
  <2>2. Parent[p] \in Pos /\ p \in Below[Parent[p]]
    BY <2>1, BelowFacts
  <2>3. data[Parent[p]] # Absent
    BY <2>2, <1>2, <1>3, DataFacts
  <2>4. Wanted(p) = Trim(here.with, p, Held(p))
    BY <2>1, <2>3, <1>2, <1>3, PassedWhole
  <2>5. Held(p) = Obj /\ Trim(here.with, p, Obj) = Obj
    BY <1>2, <1>3, InnerValue
  <2>6. QED
    BY <2>4, <2>5, <1>2, <1>3
<1>4. CASE p # top.pos
  <2>1. p \in Below[top.pos] \ {top.pos}
    BY <1>4
  <2>2. PICK n \in DOMAIN Kids[top.pos] : p \in Below[Kids[top.pos][n]]
    BY <2>1, <1>2, KidsAssumption
  <2>3. Kids[top.pos][n] \in Pos \ {Root} /\ Parent[Kids[top.pos][n]] = top.pos
    BY <1>2, PlaceFacts
  <2>4. Done(Kids[top.pos][n])
    BY <2>3, LeaveFacts
  <2>5. QED
    BY <2>2, <2>4 DEF Done
<1>5. QED
  BY <1>3, <1>4

(***************************************************************************)
(* The activations under the top.                                          *)
(***************************************************************************)

\* Nothing is copied but under the top.
Stays == \A p \in Pos : (p \in Below[top.pos] /\ p # top.pos) \/ out'[p] = out[p]

LEMMA LowerFrame ==
  ASSUME ChainInv, WalkInv, Walking, Unmoved, Stays,
         NEW l \in 1..(level - 1),
         Len(stack') \in Nat, l < Len(stack'),
         \A m \in 1..l : stack'[m] = stack[m],
         stack'[l + 1].pos = stack[l + 1].pos
  PROVE  FrameInv(l)'
<1> DEFINE f == stack[l]
           j == stack[l + 1].pos
<1>1. /\ level \in Nat \ {0} /\ DOMAIN stack = 1..level /\ top = stack[level]
  BY WalkFacts
<1>2. l \in Nat /\ l + 1 \in 1..level /\ l \in 1..level /\ l < level /\ l + 1 # 1 /\ l + 1 - 1 = l
      /\ l \in 1..l
  BY <1>1
<1>3. FrameInv(l) /\ FrameInv(l + 1)
  BY <1>1, <1>2 DEF WalkInv
<1>4. /\ IF l = 1 THEN f.pos = base /\ ~f.new
         ELSE f.pos # Root /\ Parent[f.pos] = stack[l - 1].pos /\ f.new
      /\ f.pos \in Below[base]
      /\ \A m \in 1..l : f.pos \in Below[stack[m].pos]
      /\ data[f.pos] = Obj /\ out[f.pos] = Obj
      /\ Passed(f.pos)
      /\ IF Kind[f.pos] = "list" THEN RowsInv(f) ELSE f.i <= Len(Kids[f.pos])
      /\ KidsInv(l)
  BY <1>3 DEF FrameInv
<1>5. stack[l] \in Frames /\ stack[l + 1] \in Frames
  BY <1>1, <1>2 DEF WalkInv
<1>6. f.pos \in Pos /\ j \in Pos
  BY <1>5 DEF Frames, Inner
<1>7. j # Root /\ Parent[j] = f.pos
  BY <1>2, <1>3 DEF FrameInv
<1>8. top.pos \in Pos /\ top.pos \in Below[f.pos] /\ top.pos \in Below[j]
  BY <1>2, TopFacts
<1>9. out'[f.pos] = Obj
  <2>1. f.pos \in Below[top.pos] => f.pos = top.pos
    BY <1>6, <1>8, TreeAssumption
  <2>2. QED
    BY <2>1, <1>4, <1>6 DEF Stays
<1>10. ASSUME NEW k \in Pos \ {Root}, Parent[k] = f.pos, k # j
       PROVE  \A p \in Below[k] : out'[p] = out[p] /\ Wanted(p)' = Wanted(p)
  <2> TAKE p \in Below[k]
  <2>1. p \in Pos
    BY TreeAssumption
  <2>2. p \notin Below[j]
    BY <1>6, <1>7, <1>10, SiblingsDisjoint
  <2>3. p \notin Below[top.pos]
    BY <2>1, <2>2, <1>6, <1>8, TreeAssumption
  <2>4. QED
    BY <2>1, <2>3, SameWanted DEF Stays
<1>11. stack'[l] = stack[l] /\ stack'[l + 1].pos = j /\ l < Len(stack')
  BY <1>2
<1>12. KidsInv(l)'
  <2>1. ASSUME NEW k \in Pos \ {Root}, Parent[k] = f.pos
        PROVE  IF k = j THEN TurnOf(k)' = f.i - 1
               ELSE IF TurnOf(k)' < f.i THEN Done(k)' ELSE Untouched(k)'
    <3>1. TurnOf(k)' = TurnOf(k)
      BY SameRows
    <3>2. CASE k = j
      BY <3>1, <3>2, <2>1, <1>2, <1>4 DEF KidsInv
    <3>3. CASE k # j
      <4>1. IF TurnOf(k) < f.i THEN Done(k) ELSE Untouched(k)
        BY <3>3, <2>1, <1>2, <1>4 DEF KidsInv
      <4>2. (Done(k) => Done(k)') /\ (Untouched(k) => Untouched(k)')
        BY <3>3, <2>1, <1>10 DEF Done, Untouched
      <4>3. QED
        BY <3>1, <3>3, <4>1, <4>2
    <3>4. QED
      BY <3>2, <3>3
  <2> HIDE DEF f, j
  <2>2. stack'[l] = f /\ stack'[l + 1].pos = j /\ l < level'
    BY <1>11 DEF f, level
  <2>3. QED
    BY <2>1, <2>2 DEF KidsInv
<1>13. Passed(f.pos)' /\ base' = base /\ data' = data
  <2>1. \A p : Passed(p)' <=> Passed(p)
    BY SameWanted
  <2> QED
    BY <2>1, <1>4, SameHere DEF Unmoved
<1>14. RowsInv(f) => RowsInv(stack[l])'
  BY <1>11, SameHere DEF RowsInv
<1>15. \A m \in 1..l : stack'[m].pos = stack[m].pos
  OBVIOUS
<1>16. l # 1 => l - 1 \in 1..l
  BY <1>2
<1>17. QED
  BY <1>4, <1>9, <1>11, <1>12, <1>13, <1>14, <1>15, <1>16 DEF FrameInv

-----------------------------------------------------------------------------
(***************************************************************************)
(* The top of the walk, when it has gone on by one.                        *)
(***************************************************************************)
LEMMA GotoStack ==
  ASSUME NEW S, NEW s \in Seq(S), s # <<>>, NEW f \in S,
         NEW t, t = [s EXCEPT ![Len(s)] = f]
  PROVE  /\ t \in Seq(S) /\ t # <<>> /\ Len(t) = Len(s)
         /\ t[Len(s)] = f
         /\ \A l \in 1..(Len(s) - 1) : t[l] = s[l]
  OBVIOUS

LEMMA PushStack ==
  ASSUME NEW S, NEW s \in Seq(S), s # <<>>, NEW f \in S, NEW g \in S,
         NEW t, t = Append([s EXCEPT ![Len(s)] = f], g)
  PROVE  /\ t \in Seq(S) /\ t # <<>> /\ Len(t) = Len(s) + 1
         /\ t[Len(s) + 1] = g /\ t[Len(s)] = f
         /\ \A l \in 1..(Len(s) - 1) : t[l] = s[l]
  OBVIOUS

LEMMA FrameMove ==
  ASSUME NEW f \in Frames, NEW n \in Nat, NEW g, g = [f EXCEPT !.first = FALSE, !.i = n + 1]
  PROVE  g \in Frames /\ g.pos = f.pos /\ g.new = f.new /\ g.first = FALSE /\ g.i = n + 1
<1>1. n + 1 \in Nat
  OBVIOUS
<1>2. QED
  BY <1>1 DEF Frames

LEMMA WentFacts ==
  ASSUME top \in Frames, NEW STATE n, n \in Nat
  PROVE  /\ Went(n) \in Frames
         /\ Went(n).pos = top.pos /\ Went(n).new = top.new
         /\ Went(n).first = FALSE /\ Went(n).i = n + 1
<1>1. Went(n) = [top EXCEPT !.first = FALSE, !.i = n + 1]
  BY DEF Went
<1> HIDE DEF Went
<1>2. QED
  BY <1>1, FrameMove, ZenonT(60)

LEMMA GotoFacts ==
  ASSUME ChainInv, WalkInv, Walking, NEW STATE f, f \in Frames, Goto(f)
  PROVE  /\ stack' \in Seq(Frames) /\ Len(stack') = level /\ stack' # <<>>
         /\ \A m \in 1..(level - 1) : stack'[m] = stack[m]
         /\ stack'[level] = f
<1>1. stack \in Seq(Frames) /\ stack # <<>> /\ level = Len(stack)
  BY WalkFacts
<1>2. stack' = [stack EXCEPT ![Len(stack)] = f]
  BY <1>1 DEF Goto
<1>3. /\ stack' \in Seq(Frames) /\ stack' # <<>> /\ Len(stack') = Len(stack)
      /\ stack'[Len(stack)] = f
      /\ \A l \in 1..(Len(stack) - 1) : stack'[l] = stack[l]
  BY <1>1, <1>2, GotoStack
<1>4. QED
  BY <1>1, <1>3

LEMMA EnterFacts ==
  ASSUME ChainInv, WalkInv, Walking, NEW STATE f, f \in Frames, NEW STATE p, p \in Inner,
         Enter(f, p)
  PROVE  /\ stack' \in Seq(Frames) /\ Len(stack') = level + 1 /\ stack' # <<>>
         /\ \A m \in 1..(level - 1) : stack'[m] = stack[m]
         /\ stack'[level] = f
         /\ stack'[level + 1] = Frame(p, TRUE)
<1>1. stack \in Seq(Frames) /\ stack # <<>> /\ level = Len(stack)
  BY WalkFacts
<1> DEFINE g == Frame(p, TRUE)
<1>2. stack' = Append([stack EXCEPT ![Len(stack)] = f], g)
  BY <1>1 DEF Enter
<1>3. g \in Frames
  BY DEF Frames, Frame
<1> HIDE DEF g
<1>4. /\ stack' \in Seq(Frames) /\ stack' # <<>> /\ Len(stack') = Len(stack) + 1
      /\ stack'[Len(stack) + 1] = g /\ stack'[Len(stack)] = f
      /\ \A l \in 1..(Len(stack) - 1) : stack'[l] = stack[l]
  BY <1>1, <1>2, <1>3, PushStack
<1>5. QED
  BY <1>1, <1>4 DEF g

LEMMA StayFrame ==
  ASSUME ChainInv, WalkInv, Walking, Unmoved, Stays,
         NEW l, l = level, NEW STATE n, n \in Nat,
         Len(stack') \in Nat, l <= Len(stack'),
         \A m \in 1..(level - 1) : stack'[m] = stack[m],
         stack'[level] = Went(n),
         IF Kind[top.pos] = "list" THEN RowsInv(Went(n)) ELSE n + 1 <= Len(Kids[top.pos]),
         \A k \in Pos \ {Root} : Parent[k] = top.pos =>
           IF l < Len(stack') /\ k = stack'[l + 1].pos THEN TurnOf(k) = n
           ELSE IF TurnOf(k) < n + 1 THEN Done(k)' ELSE Untouched(k)'
  PROVE  FrameInv(l)'
<1> DEFINE f == Went(n)
<1>1. /\ level \in Nat \ {0} /\ DOMAIN stack = 1..level /\ top = stack[level] /\ FrameInv(level)
      /\ top \in Frames
  BY WalkFacts
<1>2. /\ IF l = 1 THEN top.pos = base /\ ~top.new
         ELSE top.pos # Root /\ Parent[top.pos] = stack[l - 1].pos /\ top.new
      /\ top.pos \in Below[base]
      /\ \A m \in 1..l : top.pos \in Below[stack[m].pos]
      /\ data[top.pos] = Obj /\ out[top.pos] = Obj
      /\ Passed(top.pos)
  BY <1>1 DEF FrameInv
<1>3. f.pos = top.pos /\ f.new = top.new /\ f.i = n + 1 /\ f.first = FALSE
  BY <1>1, WentFacts
<1>4. stack'[l] = f
  OBVIOUS
<1> HIDE DEF f
<1>5. \A m \in 1..l : stack'[m].pos = stack[m].pos
  BY <1>1, <1>3, <1>4
<1>6. l # 1 => l - 1 \in 1..l
  BY <1>1
<1>7. out'[top.pos] = Obj
  BY <1>2, TopFacts DEF Stays
<1>8. base' = base /\ data' = data
  BY SameHere DEF Unmoved
<1>9. Passed(stack[l].pos)'
  <2>1. \A p : Passed(p)' <=> Passed(p)
    BY SameWanted
  <2>2. \A p : p = top.pos => Passed(p)'
    BY <2>1, <1>2
  <2>3. stack'[l].pos = top.pos
    BY <1>3, <1>4
  <2>4. QED
    BY <2>2, <2>3
<1>10. KidsInv(l)'
  <2>1. \A k : TurnOf(k)' = TurnOf(k)
    BY SameRows
  <2>2. stack'[l].pos = top.pos /\ stack'[l].i = n + 1 /\ n + 1 - 1 = n
    BY <1>3, <1>4
  <2>3. level' = Len(stack')
    BY DEF level
  <2>4. \A k \in Pos \ {Root} : Parent[k] = top.pos =>
           IF l < Len(stack') /\ k = stack'[l + 1].pos THEN TurnOf(k)' = n + 1 - 1
           ELSE IF TurnOf(k)' < n + 1 THEN Done(k)' ELSE Untouched(k)'
    BY <2>1, <2>2
  <2>5. QED
    BY <2>2, <2>3, <2>4 DEF KidsInv
<1>11. IF Kind[top.pos] = "list" THEN RowsInv(stack[l])' ELSE f.i <= Len(Kids[top.pos])
  <2>1. RowsInv(f) => RowsInv(stack[l])'
    BY <1>4, SameHere DEF RowsInv
  <2>2. QED
    BY <2>1, <1>3 DEF f
<1>12. QED
  BY <1>2, <1>3, <1>4, <1>5, <1>6, <1>7, <1>8, <1>9, <1>10, <1>11 DEF FrameInv

-----------------------------------------------------------------------------
LEMMA NewFrame ==
  ASSUME ChainInv, WalkInv, Walking, Unmoved,
         NEW STATE k, k \in Pos \ {Root}, k \in Inner, Parent[k] = top.pos,
         data[k] = Obj, Passed(k), out'[k] = Obj,
         \A p \in Below[k] : p # k => out'[p] = Absent,
         NEW l, l = level + 1, Len(stack') = l,
         \A m \in 1..(level - 1) : stack'[m] = stack[m],
         stack'[level].pos = top.pos,
         stack'[l] = Frame(k, TRUE)
  PROVE  FrameInv(l)'
<1>1. level \in Nat \ {0} /\ l # 1 /\ l - 1 = level
  BY WalkFacts
<1>2. /\ stack'[l].pos = k /\ stack'[l].new = TRUE /\ stack'[l].first = TRUE
      /\ stack'[l].i = 0
  BY DEF Frame
<1>3. k \in Below[base] /\ k \in Pos /\ top.pos \in Pos
  BY NextFacts, TopFacts
<1>4. \A m \in 1..l : k \in Below[stack'[m].pos]
  <2>1. \A m \in 1..level : top.pos \in Below[stack[m].pos] /\ stack[m].pos \in Pos
    <3>1. \A m \in 1..level : stack[m] \in Frames
      BY WalkFacts
    <3>2. QED
      BY <3>1, TopFacts DEF Frames, Inner
  <2>2. \A b \in Pos : top.pos \in Below[b] => k \in Below[b]
    BY KidFacts
  <2>3. ASSUME NEW m \in 1..l
        PROVE  k \in Below[stack'[m].pos]
    <3>1. CASE m = l
      BY <3>1, <1>2, <1>3, TreeAssumption
    <3>2. CASE m = level
      BY <3>2, <1>3, KidFacts
    <3>3. CASE m # l /\ m # level
      <4>1. m \in 1..(level - 1) /\ m \in 1..level
        BY <3>3, <1>1
      <4>2. QED
        BY <4>1, <2>1, <2>2
    <3>4. QED
      BY <3>1, <3>2, <3>3
  <2>4. QED
    BY <2>3
<1>5. base' = base /\ data' = data
  BY SameHere DEF Unmoved
<1>6. Passed(stack[l].pos)'
  <2>1. \A p : Passed(p)' <=> Passed(p)
    BY SameWanted
  <2>2. \A p : p = k => Passed(p)'
    BY <2>1
  <2>3. QED
    BY <2>2, <1>2
<1>7. KidsInv(l)'
  <2>1. ASSUME NEW j \in Pos \ {Root}, Parent[j] = k
        PROVE  ~(TurnOf(j)' < 0) /\ Untouched(j)'
    <3>1. TurnOf(j)' = TurnOf(j) /\ TurnOf(j) \in Nat
      BY SameRows, TurnOfFacts
    <3>2. \A p \in Below[j] : p \in Below[k] /\ p # k
      <4>1. j \in Below[k] /\ k \notin Below[j]
        BY <2>1, KidFacts
      <4>2. QED
        BY <4>1, <1>3, TreeAssumption
    <3>3. QED
      BY <3>1, <3>2 DEF Untouched
  <2>2. level' = l
    BY DEF level
  <2>3. ~(l < level')
    BY <2>2, <1>1
  <2>4. \A j \in Pos \ {Root} : Parent[j] = stack'[l].pos =>
          ~(TurnOf(j)' < stack'[l].i) /\ Untouched(j)'
    BY <2>1, <1>2
  <2>5. QED
    BY <2>3, <2>4 DEF KidsInv
<1>8. IF Kind[k] = "list" THEN RowsInv(stack[l])' ELSE 0 <= Len(Kids[k])
  <2>1. RowsInv(stack[l])'
    BY <1>2 DEF RowsInv
  <2>2. Kids[k] \in Seq(Pos \ {Root})
    BY KidsAssumption
  <2>3. Len(Kids[k]) \in Nat /\ \A n \in Nat : 0 <= n
    BY <2>2, SeqOfItself
  <2>4. 0 <= Len(Kids[k])
    BY <2>3
  <2>5. QED
    BY <2>1, <2>4
<1>9. QED
  BY <1>1, <1>2, <1>3, <1>4, <1>5, <1>6, <1>7, <1>8 DEF FrameInv

(***************************************************************************)
(* Copying one position.                                                   *)
(***************************************************************************)
LEMMA CopyFacts ==
  ASSUME TypeInv, ChainInv, WalkInv, PartOfWhole, Walking, Unmoved,
         NEW STATE k, k \in Pos \ {Root}, Parent[k] = top.pos, Untouched(k),
         NEW STATE v, v = Whole(k) \/ v = Absent,
         k \in Leaves => v \in Val \cup {Absent},
         k \in Inner => v = Obj,
         out' = [out EXCEPT ![k] = v]
  PROVE  /\ Stays
         /\ WellTyped(out')
         /\ PartOfWhole'
         /\ out'[k] = v
         /\ \A p \in Below[k] : p # k => out'[p] = Absent
         /\ \A j \in Pos \ {Root} : Parent[j] = top.pos /\ j # k =>
              (Done(j) => Done(j)') /\ (Untouched(j) => Untouched(j)')
<1>1. WellTyped(out) /\ out \in [Pos -> Val \cup {Obj, Absent}]
  BY DEF TypeInv, WellTyped, Tree
<1>2. out'[k] = v /\ \A p \in Pos : p # k => out'[p] = out[p]
  BY <1>1
<1>3. k \in Below[top.pos] /\ k # top.pos /\ top.pos \in Pos /\ out[top.pos] = Obj
  BY KidFacts, TopFacts
<1>4. Stays
  BY <1>2, <1>3 DEF Stays
<1>5. WellTyped(out')
  <2>1. k \in Leaves \/ k \in Inner
    BY DEF Inner
  <2>2. v \in Val \cup {Obj, Absent}
    BY <2>1
  <2>3. out' \in [Pos -> Val \cup {Obj, Absent}]
    BY <1>1, <2>2
  <2>4. \A p \in Leaves : p \in Pos /\ out'[p] # Obj
    <3>1. k \in Leaves => v # Obj
      BY TokensAssumption
    <3>2. QED
      BY <1>1, <1>2, <3>1 DEF WellTyped, Leaves
  <2>5. \A p \in Inner : p \in Pos /\ out'[p] \in {Obj, Absent}
    BY <1>1, <1>2 DEF WellTyped, Inner
  <2>6. QED
    BY <2>3, <2>4, <2>5 DEF WellTyped, Tree
<1>6. Below[k] \subseteq Pos
  BY TreeAssumption
<1>7. \A p \in Below[k] : p # k => out'[p] = Absent
  BY <1>2, <1>6 DEF Untouched
<1>8. ASSUME NEW j \in Pos \ {Root}, Parent[j] = top.pos, j # k
      PROVE  (Done(j) => Done(j)') /\ (Untouched(j) => Untouched(j)')
  <2>1. \A p \in Below[j] : p \in Pos /\ p # k
    <3>1. k \in Below[k]
      BY TreeAssumption
    <3>2. \A p \in Below[j] : p \notin Below[k]
      BY <1>8, SiblingsDisjoint
    <3>3. QED
      BY <3>1, <3>2, TreeAssumption
  <2>2. \A p \in Below[j] : out'[p] = out[p] /\ Wanted(p)' = Wanted(p)
    BY <2>1, <1>2, SameWanted
  <2>3. QED
    BY <2>2 DEF Done, Untouched
<1>9. PartOfWhole'
  <2>1. \A p : Whole(p)' = Whole(p)
    BY SameWanted
  <2>2. base' = base
    BY SameHere
  <2>3. ASSUME NEW p \in Pos, out'[p] # Absent
        PROVE  out'[p] = Whole(p) /\ (p = base \/ out'[Parent[p]] = Obj)
    <3>1. CASE p = k
      <4>1. v = Whole(k) /\ out'[top.pos] = Obj
        BY <2>3, <3>1, <1>2, <1>3
      <4>2. QED
        BY <3>1, <4>1, <1>2
    <3>2. CASE p # k
      <4>1. out[p] # Absent /\ out[p] = Whole(p) /\ (p = base \/ out[Parent[p]] = Obj)
        BY <2>3, <3>2, <1>2 DEF PartOfWhole
      <4>2. ASSUME p # base, p # Root
            PROVE  Parent[p] # k
        <5>1. Parent[p] = k => p \in Below[k]
          BY <4>2, KidFacts
        <5>2. QED
          BY <5>1, <4>1 DEF Untouched
      <4>3. Parent[p] \in Pos
        BY TreeAssumption DEF Inner
      <4>4. p = Root => Parent[p] # k
        BY TreeAssumption
      <4>5. p # base => out'[Parent[p]] = Obj
        BY <4>1, <4>2, <4>3, <4>4, <1>2
      <4>6. QED
        BY <4>1, <4>5, <3>2, <1>2
    <3>3. QED
      BY <3>1, <3>2
  <2>4. \A p \in Pos : out'[p] # Absent =>
          out'[p] = Whole(p)' /\ (p = base' \/ out'[Parent[p]] = Obj)
    BY <2>1, <2>2, <2>3
  <2>5. QED
    BY <2>4 DEF PartOfWhole
<1>10. QED
  BY <1>2, <1>4, <1>5, <1>7, <1>8, <1>9

-----------------------------------------------------------------------------
(***************************************************************************)
(* The steps of a walk.                                                    *)
(***************************************************************************)
LEMMA AfterGoto ==
  ASSUME ChainInv, WalkInv, Walking, Unmoved, Stays, status' = status,
         NEW STATE n, n \in Nat, Goto(Went(n)),
         IF Kind[top.pos] = "list" THEN RowsInv(Went(n)) ELSE n + 1 <= Len(Kids[top.pos]),
         \A k \in Pos \ {Root} : Parent[k] = top.pos =>
           IF TurnOf(k) < n + 1 THEN Done(k)' ELSE Untouched(k)'
  PROVE  WalkInv'
<1>1. /\ level \in Nat \ {0} /\ top \in Frames /\ level = Len(stack)
      /\ \A l \in 1..level : stack[l] \in Frames
  BY WalkFacts
<1>2. Went(n) \in Frames /\ Went(n).pos = top.pos
  BY <1>1, WentFacts
<1>3. /\ stack' \in Seq(Frames) /\ Len(stack') = level /\ stack' # <<>>
      /\ \A m \in 1..(level - 1) : stack'[m] = stack[m]
      /\ stack'[level] = Went(n)
  BY <1>2, GotoFacts
<1>4. ASSUME NEW l \in 1..level
      PROVE  FrameInv(l)'
  <2>1. CASE l = level
    <3>1. Len(stack') \in Nat /\ l <= Len(stack') /\ ~(l < Len(stack'))
      BY <2>1, <1>1, <1>3
    <3>2. QED
      BY <2>1, <3>1, <1>3, StayFrame
  <2>2. CASE l # level
    <3>1. /\ l \in 1..(level - 1) /\ Len(stack') \in Nat /\ l < Len(stack')
          /\ \A m \in 1..l : stack'[m] = stack[m]
      BY <2>2, <1>1, <1>3
    <3>2. stack'[l + 1].pos = stack[l + 1].pos
      <4>1. CASE l + 1 = level
        BY <4>1, <1>2, <1>3, WalkFacts
      <4>2. CASE l + 1 # level
        BY <4>2, <3>1, <1>1, <1>3
      <4>3. QED
        BY <4>1, <4>2
    <3>3. QED
      BY <3>1, <3>2, LowerFrame
  <2>3. QED
    BY <2>1, <2>2
<1>5. DOMAIN stack' = 1..level
  BY <1>3, SeqOfItself
<1>6. status' = "reading"
  BY DEF Walking
<1>7. QED
  BY <1>3, <1>4, <1>5, <1>6 DEF WalkInv

LEMMA AfterEnter ==
  ASSUME ChainInv, WalkInv, Walking, Unmoved, Stays, status' = status,
         NEW STATE n, n \in Nat,
         NEW STATE k, k \in Pos \ {Root}, k \in Inner, Parent[k] = top.pos,
         Enter(Went(n), k),
         data[k] = Obj, Passed(k), out'[k] = Obj,
         \A p \in Below[k] : p # k => out'[p] = Absent,
         TurnOf(k) = n,
         IF Kind[top.pos] = "list" THEN RowsInv(Went(n)) ELSE n + 1 <= Len(Kids[top.pos]),
         \A j \in Pos \ {Root} : Parent[j] = top.pos /\ j # k =>
           IF TurnOf(j) < n + 1 THEN Done(j)' ELSE Untouched(j)'
  PROVE  WalkInv'
<1>1. /\ level \in Nat \ {0} /\ top \in Frames /\ level = Len(stack)
      /\ \A l \in 1..level : stack[l] \in Frames
  BY WalkFacts
<1>2. Went(n) \in Frames /\ Went(n).pos = top.pos
  BY <1>1, WentFacts
<1>3. /\ stack' \in Seq(Frames) /\ Len(stack') = level + 1 /\ stack' # <<>>
      /\ \A m \in 1..(level - 1) : stack'[m] = stack[m]
      /\ stack'[level] = Went(n)
      /\ stack'[level + 1] = Frame(k, TRUE)
  BY <1>2, EnterFacts
<1>4. ASSUME NEW l \in 1..(level + 1)
      PROVE  FrameInv(l)'
  <2>1. CASE l = level
    <3>1. Len(stack') \in Nat /\ l <= Len(stack') /\ stack'[l + 1].pos = k
      BY <2>1, <1>1, <1>3 DEF Frame
    <3>2. \A j \in Pos \ {Root} : Parent[j] = top.pos =>
            IF l < Len(stack') /\ j = stack'[l + 1].pos THEN TurnOf(j) = n
            ELSE IF TurnOf(j) < n + 1 THEN Done(j)' ELSE Untouched(j)'
      <4>1. l < Len(stack')
        BY <2>1, <1>1, <1>3
      <4>2. \A j \in Pos \ {Root} : j = k => TurnOf(j) = n
        OBVIOUS
      <4>3. QED
        BY <3>1, <4>1, <4>2
    <3>3. QED
      BY <2>1, <3>1, <3>2, <1>3, StayFrame
  <2>2. CASE l = level + 1
    BY <2>2, <1>2, <1>3, NewFrame
  <2>3. CASE l # level /\ l # level + 1
    <3>1. /\ l \in 1..(level - 1) /\ Len(stack') \in Nat /\ l < Len(stack')
          /\ \A m \in 1..l : stack'[m] = stack[m]
      BY <2>3, <1>1, <1>3
    <3>2. stack'[l + 1].pos = stack[l + 1].pos
      <4>1. CASE l + 1 = level
        BY <4>1, <1>2, <1>3, WalkFacts
      <4>2. CASE l + 1 # level
        BY <4>2, <3>1, <1>1, <1>3
      <4>3. QED
        BY <4>1, <4>2
    <3>3. QED
      BY <3>1, <3>2, LowerFrame
  <2>4. QED
    BY <2>1, <2>2, <2>3
<1>5. DOMAIN stack' = 1..(level + 1)
  BY <1>3, SeqOfItself
<1>6. status' = "reading"
  BY DEF Walking
<1>7. QED
  BY <1>3, <1>4, <1>5, <1>6 DEF WalkInv

\* As long as the walk goes on there is nothing to say of its end.
LEMMA StillReading ==
  ASSUME status' = "reading"
  PROVE  AsAsked' /\ PlainSelectorsAreSafe'
  BY DEF AsAsked, PlainSelectorsAreSafe

LEMMA PassOverStep == SelInv /\ PassOver => SelInv'
<1> SUFFICES ASSUME SelInv, PassOver PROVE SelInv'
  OBVIOUS
<1>1. TypeInv /\ ChainInv /\ WalkInv /\ PartOfWhole
  BY DEF SelInv
<1>2. /\ AtKid /\ Walking /\ Offered(Kid) = "stop" /\ Goto(Went(top.i)) /\ Unmoved
      /\ status' = status /\ out' = out
  BY DEF PassOver, AtKid, Unmoved
<1>3. /\ Kid \in Pos \ {Root} /\ Parent[Kid] = top.pos /\ Kind[Kid] # "item"
      /\ TurnOf(Kid) = top.i /\ Untouched(Kid)
      /\ \A k \in Pos \ {Root} : Parent[k] = top.pos /\ TurnOf(k) = top.i => k = Kid
  BY <1>1, <1>2, KidAtWalk
<1>4. Kid \in Below[base] \ {base} /\ top.i \in Nat
  BY <1>1, <1>2, <1>3, NextFacts, TopFacts
<1>5. \A p \in Below[Kid] : Wanted(p) = Absent
  BY <1>1, <1>2, <1>3, <1>4, OfferedFacts
<1>6. Done(Kid)
  BY <1>3, <1>5 DEF Done, Untouched
<1>7. \A k \in Pos : (Done(k) => Done(k)') /\ (Untouched(k) => Untouched(k)')
  BY <1>2, SameWanted DEF Done, Untouched
<1>8. \A k \in Pos \ {Root} : Parent[k] = top.pos =>
        IF TurnOf(k) < top.i + 1 THEN Done(k) ELSE Untouched(k)
  <2>1. TurnOf(Kid) < top.i + 1
    BY <1>3, <1>4
  <2>2. QED
    BY <2>1, <1>1, <1>2, <1>6, OtherKids
<1>9. Kind[top.pos] # "list" /\ top.i + 1 <= Len(Kids[top.pos])
  BY <1>1, <1>2, KidAtWalk
<1>10. Stays
  BY <1>2 DEF Stays
<1>11. WalkInv'
  <2>1. \A k \in Pos \ {Root} : Parent[k] = top.pos =>
          IF TurnOf(k) < top.i + 1 THEN Done(k)' ELSE Untouched(k)'
    BY <1>7, <1>8
  <2>2. QED
    BY <2>1, <1>1, <1>2, <1>4, <1>9, <1>10, AfterGoto
<1>12. TypeInv' /\ PartOfWhole'
  BY <1>1, <1>2, SameWanted, SameHere DEF TypeInv, PartOfWhole, Unmoved
<1>13. ChainInv'
  BY <1>1, <1>2, SameChain
<1>14. AsAsked' /\ PlainSelectorsAreSafe'
  BY <1>2, StillReading DEF Walking
<1>15. QED
  BY <1>11, <1>12, <1>13, <1>14 DEF SelInv

-----------------------------------------------------------------------------
LEMMA CopyLeafStep == SelInv /\ CopyLeaf => SelInv'
<1> SUFFICES ASSUME SelInv, CopyLeaf PROVE SelInv'
  OBVIOUS
<1>1. TypeInv /\ ChainInv /\ WalkInv /\ PartOfWhole
  BY DEF SelInv
<1>2. /\ AtKid /\ Walking /\ Kid \in Leaves /\ Offered(Kid) = "more"
      /\ Goto(Went(top.i)) /\ Unmoved /\ status' = status
      /\ out' = [out EXCEPT ![Kid] = ValueOf(Kid)]
  BY DEF CopyLeaf, AtKid, Unmoved
<1>3. /\ Kid \in Pos \ {Root} /\ Parent[Kid] = top.pos /\ Kind[Kid] # "item"
      /\ TurnOf(Kid) = top.i /\ Untouched(Kid)
      /\ Kind[top.pos] # "list" /\ top.i + 1 <= Len(Kids[top.pos])
  BY <1>1, <1>2, KidAtWalk
<1>4. /\ Kid \in Below[base] \ {base} /\ top.i \in Nat
      /\ Held(Kid) = IF data[Kid] = Absent /\ (fills \/ top.new) THEN Default[Kid] ELSE data[Kid]
  BY <1>1, <1>2, <1>3, NextFacts, TopFacts
<1>5. Asked(Kid) /\ Selected(view, Kid) /\ WhenMet(data, Kid)
  BY <1>1, <1>2, <1>3, <1>4, OfferedFacts
<1>6. Whole(Kid) = Held(Kid) /\ Wanted(Kid) = ValueOf(Kid)
  BY <1>1, <1>2, <1>3, <1>5, NextFacts
<1>7. ValueOf(Kid) = Held(Kid) \/ ValueOf(Kid) = Absent
  BY <1>4, TrimFacts DEF ValueOf
<1>8. Held(Kid) \in Val \cup {Absent}
  <2>1. WellTyped(data)
    BY <1>1, DataFacts
  <2>2. data[Kid] \in Val \cup {Absent}
    BY <2>1, <1>2, <1>3 DEF WellTyped, Tree
  <2>3. Default[Kid] \in Val \cup {Absent}
    BY <1>3, SchemaAssumption
  <2>4. QED
    BY <2>2, <2>3, <1>4
<1>9. Kid \notin Inner /\ ValueOf(Kid) \in Val \cup {Absent}
      /\ (ValueOf(Kid) = Whole(Kid) \/ ValueOf(Kid) = Absent)
  BY <1>2, <1>6, <1>7, <1>8 DEF Inner
<1> DEFINE k == Kid
           v == ValueOf(Kid)
<1> HIDE DEF k, v
<1>10. /\ k \in Pos \ {Root} /\ Parent[k] = top.pos /\ Untouched(k)
       /\ v = Whole(k) \/ v = Absent
       /\ k \in Leaves => v \in Val \cup {Absent}
       /\ k \in Inner => v = Obj
       /\ out' = [out EXCEPT ![k] = v]
  BY <1>2, <1>3, <1>9 DEF k, v
<1>11. /\ Stays /\ WellTyped(out') /\ PartOfWhole'
       /\ out'[k] = v
       /\ \A j \in Pos \ {Root} : Parent[j] = top.pos /\ j # k =>
            (Done(j) => Done(j)') /\ (Untouched(j) => Untouched(j)')
  BY <1>1, <1>2, <1>10, CopyFacts
<1>12. \A j \in Pos : j = Kid => Done(j)'
  <2>1. Below[Kid] = {Kid}
    BY <1>2, TreeAssumption
  <2>2. \A p \in Below[Kid] : out'[p] = Wanted(p)
    BY <2>1, <1>6, <1>11 DEF k, v
  <2>3. \A p : Wanted(p)' = Wanted(p)
    BY <1>2, SameWanted
  <2>4. \A p \in Below[Kid] : out'[p] = Wanted(p)'
    BY <2>2, <2>3
  <2>5. QED
    BY <2>4 DEF Done
<1>13. \A j \in Pos \ {Root} : Parent[j] = top.pos =>
         IF TurnOf(j) < top.i + 1 THEN Done(j)' ELSE Untouched(j)'
  <2> TAKE j \in Pos \ {Root}
  <2>1. HAVE Parent[j] = top.pos
  <2>2. CASE j = Kid
    <3>1. Done(j)' /\ TurnOf(j) = top.i
      BY <2>2, <1>3, <1>12
    <3>2. TurnOf(j) < top.i + 1
      BY <3>1, <1>4
    <3>3. QED
      BY <3>1, <3>2
  <2>3. CASE j # Kid
    <3>1. IF TurnOf(j) < top.i + 1 THEN Done(j) ELSE Untouched(j)
      BY <2>1, <2>3, <1>1, <1>2, OtherKids
    <3>2. (Done(j) => Done(j)') /\ (Untouched(j) => Untouched(j)')
      BY <2>1, <2>3, <1>11 DEF k
    <3>3. QED
      BY <3>1, <3>2
  <2>4. QED
    BY <2>2, <2>3
<1>14. WalkInv'
  BY <1>1, <1>2, <1>3, <1>4, <1>11, <1>13, AfterGoto
<1>15. TypeInv'
  BY <1>1, <1>2, <1>11 DEF TypeInv, Unmoved
<1>16. ChainInv'
  BY <1>1, <1>2, SameChain
<1>17. AsAsked' /\ PlainSelectorsAreSafe'
  BY <1>2, StillReading DEF Walking
<1>18. QED
  BY <1>11, <1>14, <1>15, <1>16, <1>17 DEF SelInv

LEMMA EnterKidStep == SelInv /\ EnterKid => SelInv'
<1> SUFFICES ASSUME SelInv, EnterKid PROVE SelInv'
  OBVIOUS
<1>1. TypeInv /\ ChainInv /\ WalkInv /\ PartOfWhole
  BY DEF SelInv
<1> DEFINE k == Kid
<1>2. /\ AtKid /\ Walking /\ k \in Inner /\ Offered(k) = "more"
      /\ Enter(Went(top.i), k) /\ Unmoved /\ status' = status
      /\ out' = [out EXCEPT ![k] = Obj]
  BY DEF EnterKid, AtKid, Unmoved
<1>3. /\ k \in Pos \ {Root} /\ Parent[k] = top.pos /\ Kind[k] # "item"
      /\ TurnOf(k) = top.i /\ Untouched(k)
      /\ Kind[top.pos] # "list" /\ top.i + 1 <= Len(Kids[top.pos])
  BY <1>1, <1>2, KidAtWalk
<1>4. \A j \in Pos \ {Root} : Parent[j] = top.pos /\ j # k =>
        IF TurnOf(j) < top.i + 1 THEN Done(j) ELSE Untouched(j)
  BY <1>1, <1>2, OtherKids
<1> HIDE DEF k
<1>5. k \in Below[base] \ {base} /\ top.i \in Nat
  BY <1>1, <1>2, <1>3, NextFacts, TopFacts
<1>6. Asked(k) /\ Selected(view, k) /\ WhenMet(data, k) /\ data[k] = Obj
  BY <1>1, <1>2, <1>3, <1>5, OfferedFacts
<1>7. Passed(k) /\ Whole(k) = Held(k)
  BY <1>1, <1>2, <1>3, <1>6, NextFacts
<1>8. Whole(k) = Obj
  BY <1>1, <1>2, <1>6, <1>7, InnerValue
<1>9. k \notin Leaves /\ Obj = Obj
  BY <1>2 DEF Inner
<1>10. /\ Stays /\ WellTyped(out') /\ PartOfWhole'
       /\ out'[k] = Obj
       /\ \A p \in Below[k] : p # k => out'[p] = Absent
       /\ \A j \in Pos \ {Root} : Parent[j] = top.pos /\ j # k =>
            (Done(j) => Done(j)') /\ (Untouched(j) => Untouched(j)')
  BY <1>1, <1>2, <1>3, <1>8, <1>9, CopyFacts
<1>11. WalkInv'
  <2>1. \A j \in Pos \ {Root} : Parent[j] = top.pos /\ j # k =>
          IF TurnOf(j) < top.i + 1 THEN Done(j)' ELSE Untouched(j)'
    BY <1>4, <1>10
  <2>2. QED
    BY <2>1, <1>1, <1>2, <1>3, <1>5, <1>6, <1>7, <1>10, AfterEnter
<1>12. TypeInv'
  BY <1>1, <1>2, <1>10 DEF TypeInv, Unmoved
<1>13. ChainInv'
  BY <1>1, <1>2, SameChain
<1>14. AsAsked' /\ PlainSelectorsAreSafe'
  BY <1>2, StillReading DEF Walking
<1>15. QED
  BY <1>10, <1>11, <1>12, <1>13, <1>14 DEF SelInv

LEMMA EnterItemStep == SelInv /\ EnterItem => SelInv'
<1> SUFFICES ASSUME SelInv, EnterItem PROVE SelInv'
  OBVIOUS
<1>1. TypeInv /\ ChainInv /\ WalkInv /\ PartOfWhole
  BY DEF SelInv
<1> DEFINE k == Rows(top.pos)[row + 1]
<1>2. /\ Walking /\ InList /\ ListGoesOn = "more" /\ row < Len(Rows(top.pos))
      /\ Enter(Went(row), k) /\ Unmoved /\ status' = status
      /\ out' = [out EXCEPT ![k] = Obj]
  BY DEF EnterItem, Unmoved
<1>3. \A item : item = k =>
        /\ item \in Pos \ {Root} /\ Parent[item] = top.pos /\ item \in Inner
        /\ data[item] = Obj
        /\ TurnOf(item) = row
        /\ Asked(item) /\ Selected(view, item) /\ WhenMet(data, item)
        /\ Untouched(item)
        /\ \A j \in Pos \ {Root} : Parent[j] = top.pos /\ j # item =>
             IF TurnOf(j) < row + 1 THEN Done(j) ELSE Untouched(j)
  BY <1>1, <1>2, ItemAtWalk
<1> HIDE DEF k
<1>4. /\ k \in Pos \ {Root} /\ Parent[k] = top.pos /\ k \in Inner
      /\ data[k] = Obj
      /\ TurnOf(k) = row
      /\ Asked(k) /\ Selected(view, k) /\ WhenMet(data, k)
      /\ Untouched(k)
      /\ \A j \in Pos \ {Root} : Parent[j] = top.pos /\ j # k =>
           IF TurnOf(j) < row + 1 THEN Done(j) ELSE Untouched(j)
  BY <1>3
<1>5. row \in Nat /\ Kind[top.pos] = "list" /\ top \in Frames
  BY <1>1, <1>2, ListWalk, WalkFacts
<1>6. RowsInv(Went(row))
  <2>1. Went(row).first = FALSE /\ Went(row).i = row + 1 /\ Went(row).pos = top.pos
    BY <1>5, WentFacts
  <2>2. Matching(top.pos) = "yes" => row >= Span.start /\ Span.start \in Nat
    BY <1>1, <1>2, ListWalk, RangeFacts
  <2>3. Matching(top.pos) = "yes" => row + 1 > Span.start
    BY <2>2, <1>5
  <2>4. QED
    BY <2>1, <2>3 DEF RowsInv, Matching, Span, Param
<1>7. Passed(k) /\ Whole(k) = Held(k)
  BY <1>1, <1>2, <1>4, NextFacts
<1>8. Whole(k) = Obj
  BY <1>1, <1>4, <1>7, InnerValue
<1>9. k \notin Leaves /\ Obj = Obj
  BY <1>4 DEF Inner
<1>10. /\ Stays /\ WellTyped(out') /\ PartOfWhole'
       /\ out'[k] = Obj
       /\ \A p \in Below[k] : p # k => out'[p] = Absent
       /\ \A j \in Pos \ {Root} : Parent[j] = top.pos /\ j # k =>
            (Done(j) => Done(j)') /\ (Untouched(j) => Untouched(j)')
  BY <1>1, <1>2, <1>4, <1>8, <1>9, CopyFacts
<1>11. WalkInv'
  <2>1. \A j \in Pos \ {Root} : Parent[j] = top.pos /\ j # k =>
          IF TurnOf(j) < row + 1 THEN Done(j)' ELSE Untouched(j)'
    BY <1>4, <1>10
  <2>2. QED
    BY <2>1, <1>1, <1>2, <1>4, <1>5, <1>6, <1>7, <1>10, AfterEnter
<1>12. TypeInv'
  BY <1>1, <1>2, <1>10 DEF TypeInv, Unmoved
<1>13. ChainInv'
  BY <1>1, <1>2, SameChain
<1>14. AsAsked' /\ PlainSelectorsAreSafe'
  BY <1>2, StillReading DEF Walking
<1>15. QED
  BY <1>10, <1>11, <1>12, <1>13, <1>14 DEF SelInv

-----------------------------------------------------------------------------
\* A frame that is on top again.
LEMMA UncoveredFrame ==
  ASSUME TypeInv, ChainInv, WalkInv, Leave, Unmoved, out' = out,
         NEW l, l = level - 1, l \in Nat \ {0},
         Len(stack') = l, \A m \in 1..l : stack'[m] = stack[m]
  PROVE  FrameInv(l)'
<1> DEFINE f == stack[l]
<1>1. /\ level \in Nat \ {0} /\ DOMAIN stack = 1..level /\ top = stack[level] /\ Walking
      /\ level # 1 /\ l + 1 = level /\ l \in 1..level /\ l \in 1..l
  BY WalkFacts DEF Leave
<1>2. FrameInv(l) /\ FrameInv(level)
  BY <1>1 DEF WalkInv
<1>3. /\ IF l = 1 THEN f.pos = base /\ ~f.new
         ELSE f.pos # Root /\ Parent[f.pos] = stack[l - 1].pos /\ f.new
      /\ f.pos \in Below[base]
      /\ \A m \in 1..l : f.pos \in Below[stack[m].pos]
      /\ data[f.pos] = Obj /\ out[f.pos] = Obj
      /\ Passed(f.pos)
      /\ IF Kind[f.pos] = "list" THEN RowsInv(f) ELSE f.i <= Len(Kids[f.pos])
      /\ KidsInv(l)
  BY <1>2 DEF FrameInv
<1>4. top.pos # Root /\ Parent[top.pos] = f.pos
  BY <1>1, <1>2 DEF FrameInv
<1>5. /\ top.pos \in Pos \ {Root} /\ top.pos \in Below[base] \ {base} /\ base \in Pos
  BY <1>1, <1>2, <1>4, TopFacts, HereFacts, WalkFacts DEF FrameInv
<1>6. Done(top.pos)
  <2>1. base \notin Below[top.pos]
    BY <1>5, BelowFacts
  <2>2. \A p \in Below[top.pos] : out[p] = Wanted(p)
    BY <2>1, LeftFacts
  <2>3. QED
    BY <2>2 DEF Done
<1>7. f \in Frames
  BY <1>1 DEF WalkInv
<1>8. f.i \in Nat
  BY <1>7 DEF Frames
<1>9. ASSUME NEW k \in Pos \ {Root}, Parent[k] = f.pos
      PROVE  IF TurnOf(k) < f.i THEN Done(k) ELSE Untouched(k)
  <2>1. CASE k = top.pos
    <3>1. l < level /\ k = stack[l + 1].pos
      BY <2>1, <1>1
    <3>2. TurnOf(k) = f.i - 1
      BY <3>1, <1>3, <1>9 DEF KidsInv
    <3>3. TurnOf(k) < f.i
      BY <3>2, <1>8
    <3>4. Done(k)
      <4>1. \A j \in Pos : j = top.pos => Done(j)
        BY <1>6
      <4>2. QED
        BY <2>1, <4>1
    <3>5. QED
      BY <3>3, <3>4
  <2>2. CASE k # top.pos
    BY <2>2, <1>1, <1>3, <1>9 DEF KidsInv
  <2>3. QED
    BY <2>1, <2>2
<1>10. stack'[l] = f
  BY <1>1
<1> HIDE DEF f
<1>11. KidsInv(l)'
  <2>1. level' = l /\ ~(l < l)
    BY <1>1 DEF level
  <2>2. \A k \in Pos : /\ TurnOf(k)' = TurnOf(k)
                       /\ (Done(k) => Done(k)') /\ (Untouched(k) => Untouched(k)')
    BY SameRows, SameWanted DEF Done, Untouched
  <2>3. \A k \in Pos \ {Root} : Parent[k] = f.pos =>
          IF TurnOf(k)' < f.i THEN Done(k)' ELSE Untouched(k)'
    BY <2>2, <1>9
  <2>4. QED
    BY <2>1, <2>3, <1>10 DEF KidsInv
<1>12. base' = base /\ data' = data
  BY SameHere DEF Unmoved
<1>13. Passed(stack[l].pos)'
  <2>1. \A p : Passed(p)' <=> Passed(p)
    BY SameWanted
  <2>2. \A p : p = f.pos => Passed(p)'
    BY <2>1, <1>3
  <2>3. QED
    BY <2>2, <1>10
<1>14. IF Kind[f.pos] = "list" THEN RowsInv(stack[l])' ELSE f.i <= Len(Kids[f.pos])
  <2>1. RowsInv(f) => RowsInv(stack[l])'
    BY <1>10, SameHere DEF RowsInv
  <2>2. QED
    BY <2>1, <1>3
<1>15. l # 1 => l - 1 \in 1..l
  BY <1>1
<1>16. QED
  BY <1>3, <1>10, <1>11, <1>12, <1>13, <1>14, <1>15 DEF FrameInv

LEMMA LeaveStep == SelInv /\ Leave => SelInv'
<1> SUFFICES ASSUME SelInv, Leave PROVE SelInv'
  OBVIOUS
<1>1. TypeInv /\ ChainInv /\ WalkInv /\ PartOfWhole
  BY DEF SelInv
<1>2. /\ Walking /\ stack' = Front(stack) /\ status' = (IF level = 1 THEN "ok" ELSE status)
      /\ Unmoved /\ out' = out
  BY DEF Leave, Unmoved
<1>3. /\ level \in Nat \ {0} /\ stack \in Seq(Frames) /\ stack # <<>> /\ level = Len(stack)
      /\ DOMAIN stack = 1..level
  BY <1>1, <1>2, WalkFacts
<1>4. /\ stack' \in Seq(Frames) /\ Len(stack') = level - 1 /\ DOMAIN stack' = 1..(level - 1)
      /\ \A m \in 1..(level - 1) : stack'[m] = stack[m]
  BY <1>2, <1>3, FrontFacts
<1>5. TypeInv' /\ PartOfWhole'
  <2>1. TypeInv'
    BY <1>1, <1>2 DEF TypeInv, Unmoved, Results
  <2>2. PartOfWhole'
    BY <1>1, <1>2, SameWanted, SameHere DEF PartOfWhole
  <2>3. QED
    BY <2>1, <2>2
<1>6. ChainInv'
  BY <1>1, <1>2, SameChain
<1>7. CASE level = 1
  <2>1. status' = "ok"
    BY <1>2, <1>7
  <2>2. stack' = <<>> /\ DOMAIN stack' = {}
    BY <1>3, <1>4, <1>7, EmptySeq
  <2>3. WalkInv'
    BY <2>1, <2>2, <1>4 DEF WalkInv
  <2>4. top.pos = base
    BY <1>1, <1>2, <1>7, TopFacts
  <2>5. \A p \in Below[base] \ {base} : out[p] = Wanted(p)
    BY <2>4, <1>1, LeftFacts
  <2>6. \A p \in Below[base'] \ {base'} : out'[p] = Wanted(p)'
    <3>1. base' = base /\ \A p : Wanted(p)' = Wanted(p)
      BY <1>2, SameHere, SameWanted
    <3>2. QED
      BY <2>5, <3>1, <1>2
  <2>7. AsAsked'
    BY <2>6 DEF AsAsked, Wanted
  <2>8. PlainSelectorsAreSafe'
    BY <2>1 DEF PlainSelectorsAreSafe
  <2>9. QED
    BY <2>3, <2>7, <2>8, <1>5, <1>6 DEF SelInv
<1>8. CASE level # 1
  <2>1. status' = "reading"
    BY <1>2, <1>8 DEF Walking
  <2>2. level - 1 \in Nat \ {0} /\ stack' # <<>>
    <3>1. level - 1 \in Nat \ {0}
      BY <1>3, <1>8
    <3>2. QED
      BY <3>1, <1>4, EmptySeq
  <2>3. ASSUME NEW l \in 1..(level - 1)
        PROVE  FrameInv(l)'
    <3>1. CASE l = level - 1
      BY <3>1, <2>2, <1>1, <1>2, <1>4, UncoveredFrame
    <3>2. CASE l # level - 1
      <4>1. /\ Len(stack') \in Nat /\ l < Len(stack') /\ l \in 1..(level - 1)
            /\ \A m \in 1..l : stack'[m] = stack[m]
            /\ stack'[l + 1].pos = stack[l + 1].pos
        BY <3>2, <2>2, <1>3, <1>4
      <4>2. Stays
        BY <1>2 DEF Stays
      <4>3. QED
        BY <4>1, <4>2, <1>1, <1>2, LowerFrame
    <3>3. QED
      BY <3>1, <3>2
  <2>4. WalkInv'
    BY <2>1, <2>2, <2>3, <1>4 DEF WalkInv
  <2>5. AsAsked' /\ PlainSelectorsAreSafe'
    BY <2>1, StillReading
  <2>6. QED
    BY <2>4, <2>5, <1>5, <1>6 DEF SelInv
<1>9. QED
  BY <1>7, <1>8

LEMMA BreakStep == SelInv /\ Break => SelInv'
<1> SUFFICES ASSUME SelInv, Break PROVE SelInv'
  OBVIOUS
<1>1. TypeInv /\ ChainInv /\ WalkInv /\ PartOfWhole
  BY DEF SelInv
<1>2. /\ Walking /\ Coming \in {"fail", "panic"}
      /\ status' = (IF Coming = "fail" THEN "failed" ELSE "panic")
      /\ stack' = <<>> /\ Unmoved /\ out' = out
  BY DEF Break, Unmoved
<1>3. TypeInv'
  BY <1>1, <1>2 DEF TypeInv, Unmoved, Results
<1>4. PartOfWhole'
  BY <1>1, <1>2, SameWanted, SameHere DEF PartOfWhole
<1>5. ChainInv'
  BY <1>1, <1>2, SameChain
<1>6. status' # "reading" /\ status' # "ok"
  BY <1>2
<1>7. WalkInv'
  <2>1. stack' \in Seq(Frames) /\ DOMAIN stack' = {}
    BY <1>2, EmptySeq
  <2>2. QED
    BY <2>1, <1>2, <1>6 DEF WalkInv
<1>8. AsAsked'
  BY <1>6 DEF AsAsked
<1>9. ASSUME Coming = "panic"
      PROVE  RiskyFields \/ RiskyRange
  <2>1. CASE InList
    <3>1. ListGoesOn = "panic"
      BY <2>1, <1>9 DEF Coming
    <3>2. QED
      BY <2>1, <3>1, <1>1, <1>2, ListWalk
  <2>2. CASE ~InList
    <3>1. AtKid /\ Offered(Kid) = "panic"
      BY <2>2, <1>9 DEF Coming
    <3>2. Kid \in Pos \ {Root} /\ Parent[Kid] = top.pos /\ Kind[Kid] # "item"
      BY <3>1, <1>1, KidAtWalk
    <3>3. Kid \in Below[base] \ {base}
      BY <3>2, <1>1, <1>2, NextFacts
    <3>4. QED
      BY <3>1, <3>2, <3>3, <1>1, OfferedFacts
  <2>3. QED
    BY <2>1, <2>2
<1>10. PlainSelectorsAreSafe'
  <2>1. status' = "panic" => Coming = "panic"
    BY <1>2
  <2>2. (RiskyFields' <=> RiskyFields) /\ (RiskyRange' <=> RiskyRange)
    BY <1>2, SameWanted
  <2>3. status' = "panic" => RiskyFields' \/ RiskyRange'
    BY <2>1, <2>2, <1>9
  <2>4. QED
    BY <2>3 DEF PlainSelectorsAreSafe, RiskyFields, RiskyRange
<1>11. QED
  BY <1>3, <1>4, <1>5, <1>7, <1>8, <1>10 DEF SelInv

-----------------------------------------------------------------------------
(***************************************************************************)
(* Calls.                                                                  *)
(***************************************************************************)
LEMMA CopiedFacts ==
  ASSUME NEW ps, ps \subseteq Inner
  PROVE  /\ WellTyped(Copied(ps))
         /\ \A p \in Pos : Copied(ps)[p] = IF p \in ps THEN Obj ELSE Absent
<1>1. \A p \in Pos : Copied(ps)[p] = IF p \in ps THEN Obj ELSE Absent
  BY DEF Copied
<1>2. Copied(ps) \in [Pos -> Val \cup {Obj, Absent}]
  BY DEF Copied
<1>3. \A p \in Leaves : p \in Pos /\ Copied(ps)[p] # Obj
  BY <1>1, TokensAssumption DEF Leaves, Inner
<1>4. \A p \in Inner : p \in Pos /\ Copied(ps)[p] \in {Obj, Absent}
  BY <1>1 DEF Inner
<1>5. QED
  BY <1>1, <1>2, <1>3, <1>4 DEF WellTyped, Tree

\* A call that gives another selection forgets what was read.
LEMMA UnreadFacts ==
  ASSUME TypeInv, Unread, data' = data, status' \in Results \ {"reading", "ok"}
  PROVE  TypeInv' /\ WalkInv' /\ PartOfWhole' /\ AsAsked'
<1>1. fills' = FALSE /\ stack' = <<>> /\ out' = Copied({}) /\ view' = view
  BY DEF Unread
<1>2. WellTyped(Copied({})) /\ \A p \in Pos : Copied({})[p] = Absent
  BY CopiedFacts
<1>3. TypeInv'
  <2>1. /\ data' \in Sources /\ status' \in Results /\ fills' \in BOOLEAN
        /\ view' \in Views(data')
    BY <1>1 DEF TypeInv
  <2>2. WellTyped(out')
    BY <1>1, <1>2
  <2>3. QED
    BY <2>1, <2>2 DEF TypeInv
<1>4. WalkInv'
  <2>1. stack' \in Seq(Frames) /\ DOMAIN stack' = {}
    BY <1>1, EmptySeq
  <2>2. QED
    BY <2>1, <1>1 DEF WalkInv
<1>5. PartOfWhole'
  BY <1>1, <1>2 DEF PartOfWhole
<1>6. AsAsked'
  BY DEF AsAsked
<1>7. QED
  BY <1>3, <1>4, <1>5, <1>6

LEMMA InitInv == Init => SelInv
<1> SUFFICES ASSUME Init PROVE SelInv
  OBVIOUS
<1> DEFINE first == Link(Root, BaseConstraints, <<>>)
<1>1. /\ data \in Sources /\ view \in Views(data) /\ chain = <<first>> /\ status = "idle" /\ fills = FALSE
      /\ stack = <<>> /\ out = Copied({})
  BY DEF Init
<1>2. WellTyped(Copied({})) /\ \A p \in Pos : Copied({})[p] = Absent
  BY CopiedFacts
<1>3. TypeInv
  <2>1. WellTyped(out)
    BY <1>1, <1>2
  <2>2. QED
    BY <1>1, <2>1 DEF TypeInv, Results
<1>4. first.pos = Root /\ first.with = BaseConstraints /\ first.asked = <<>>
  BY DEF Link
<1>5. Root \in Inner /\ data[Root] = Obj
  <2>1. Root \in Inner
    BY PosAssumption DEF Inner, Leaves
  <2>2. QED
    BY <2>1, <1>3, DataFacts DEF Rooted
<1>6. LinkInv(first)
  <2>1. <<>> \in Seq(Queries \ {NoQuery}) /\ DOMAIN <<>> = {}
    BY EmptySeq
  <2>2. \A id \in Parameters : id \notin DOMAIN BaseConstraints.entries
    BY BaseFacts DEF Parameters
  <2> HIDE DEF first
  <2>3. Tells(first)
    BY <2>1, <2>2, <1>4 DEF Tells
  <2>4. QED
    BY <2>1, <2>3, <1>4, <1>5, BaseFacts DEF LinkInv
<1> HIDE DEF first
<1>7. ChainInv
  <2>1. chain \in Seq({first}) /\ DOMAIN chain = {1} /\ chain[1] = first /\ chain # <<>>
    BY <1>1
  <2>2. chain \in Seq(ToSet(chain))
    BY <2>1, SeqOfItself
  <2>3. QED
    BY <2>1, <2>2, <1>6 DEF ChainInv
<1>8. WalkInv
  <2>1. stack \in Seq(Frames) /\ DOMAIN stack = {}
    BY <1>1, EmptySeq
  <2>2. QED
    BY <2>1, <1>1 DEF WalkInv
<1>9. PartOfWhole
  BY <1>1, <1>2 DEF PartOfWhole
<1>10. AsAsked /\ PlainSelectorsAreSafe
  BY <1>1 DEF AsAsked, PlainSelectorsAreSafe
<1>11. QED
  BY <1>3, <1>7, <1>8, <1>9, <1>10 DEF SelInv

LEMMA ReadStep ==
  ASSUME SelInv, NEW defaults \in BOOLEAN, Read(defaults)
  PROVE  SelInv'
<1>1. TypeInv /\ ChainInv
  BY DEF SelInv
<1> DEFINE f == Frame(base, FALSE)
<1>2. /\ stack' = <<f>> /\ out' = Copied({base}) /\ fills' = defaults /\ status' = "reading"
      /\ data' = data /\ chain' = chain /\ view' \in Views(data)
  BY DEF Read, base
<1>3. base \in Inner /\ base \in Pos /\ data[base] = Obj
  BY <1>1, HereFacts
<1>4. /\ WellTyped(Copied({base}))
      /\ \A p \in Pos : Copied({base})[p] = IF p = base THEN Obj ELSE Absent
  BY <1>3, CopiedFacts
<1>5. f \in Frames /\ f.pos = base /\ f.new = FALSE /\ f.first = TRUE /\ f.i = 0
  BY <1>3 DEF Frames, Frame
<1> HIDE DEF f
<1>6. stack' \in Seq(Frames) /\ DOMAIN stack' = {1} /\ stack'[1] = f /\ stack' # <<>>
  BY <1>2, <1>5
<1>7. base' = base
  BY <1>2 DEF base, here
<1>8. TypeInv'
  <2>1. WellTyped(out')
    BY <1>2, <1>4
  <2>2. QED
    BY <2>1, <1>1, <1>2 DEF TypeInv, Results
<1>9. ChainInv'
  BY <1>1, <1>2, KeptChain
<1>10. FrameInv(1)'
  <2>1. base \in Below[base]
    BY <1>3, TreeAssumption
  <2>2. Passed(stack[1].pos)'
    <3>1. Above(base) = {}
      BY <1>3, AboveFacts
    <3>2. \A p : p = base => Above(p)' = {}
      BY <3>1, <1>7 DEF Above
    <3>3. \A p : p = base => Passed(p)'
      BY <3>2 DEF Passed
    <3>4. QED
      BY <3>3, <1>5, <1>6
  <2>3. out'[base] = Obj
    BY <1>2, <1>3, <1>4
  <2>4. KidsInv(1)'
    <3>1. ASSUME NEW k \in Pos \ {Root}, Parent[k] = base
          PROVE  ~(TurnOf(k)' < 0) /\ Untouched(k)'
      <4>1. TurnOf(k) \in Nat
        BY TurnOfFacts
      <4>2. TurnOf(k)' = TurnOf(k)
        BY <1>2 DEF TurnOf, There
      <4>3. \A p \in Below[k] : p \in Pos /\ p # base
        BY <3>1, KidFacts, TreeAssumption
      <4>4. QED
        BY <4>1, <4>2, <4>3, <1>2, <1>4 DEF Untouched
    <3>2. level' = 1
      BY <1>2 DEF level
    <3>3. QED
      BY <3>1, <3>2, <1>5, <1>6 DEF KidsInv
  <2>5. RowsInv(stack[1])'
    BY <1>5, <1>6 DEF RowsInv
  <2>6. 0 <= Len(Kids[base])
    <3>1. Kids[base] \in Seq(Pos \ {Root})
      BY <1>3, KidsAssumption
    <3>2. Len(Kids[base]) \in Nat /\ \A n \in Nat : 0 <= n
      BY <3>1, SeqOfItself
    <3>3. QED
      BY <3>2
  <2>7. \A m \in 1..1 : m = 1
    OBVIOUS
  <2>8. QED
    BY <2>1, <2>2, <2>3, <2>4, <2>5, <2>6, <2>7, <1>2, <1>3, <1>5, <1>6, <1>7 DEF FrameInv
<1>11. WalkInv'
  BY <1>2, <1>6, <1>10 DEF WalkInv
<1>12. PartOfWhole'
  <2>1. \A p : p = base => Whole(p)' = Obj
    BY <1>7 DEF Whole
  <2>2. QED
    BY <2>1, <1>2, <1>4, <1>7 DEF PartOfWhole
<1>13. QED
  BY <1>2, <1>8, <1>9, <1>11, <1>12, StillReading DEF SelInv

-----------------------------------------------------------------------------
\* What a call asks for is told by the constraints it makes.
LEMMA GivenFacts ==
  ASSUME NEW link, LinkInv(link), NEW q \in Queries, NEW l \in Given(link, q)
  PROVE  LinkInv(l) /\ l.pos = link.pos
<1>1. CASE q = NoQuery
  BY <1>1 DEF Given
<1>2. CASE q # NoQuery
  <2>1. PICK c \in BuildConstraints(link.with, q) : l = Link(link.pos, c, Append(link.asked, q))
    BY <1>2 DEF Given
  <2>2. l.pos = link.pos /\ l.with = c /\ l.asked = Append(link.asked, q)
    BY <2>1 DEF Link
  <2> DEFINE old == link.asked
             last == Len(old) + 1
             SaidThen(id) == {n \in DOMAIN old : id \in DOMAIN old[n] /\ old[n][id] # Bad}
             SaidNow(id) == {n \in DOMAIN l.asked : id \in DOMAIN l.asked[n] /\ l.asked[n][id] # Bad}
             says(id) == id \in DOMAIN q /\ q[id] # Bad
             Kept(id) == id \in Parameters \ {"depth", "fc.max-node-count"}
  <2>3. old \in Seq(Queries \ {NoQuery}) /\ Sound(link.with) /\ q \in Queries \ {NoQuery}
    BY <1>2 DEF LinkInv
  <2>4. /\ l.asked \in Seq(Queries \ {NoQuery})
        /\ DOMAIN old = 1..Len(old) /\ Len(old) \in Nat
        /\ DOMAIN l.asked = 1..last
        /\ l.asked[last] = q
        /\ \A n \in 1..Len(old) : l.asked[n] = old[n]
    BY <2>2, <2>3
  <2>5. /\ Sound(c)
        /\ \A id : Kept(id) =>
             /\ id \in DOMAIN c.entries <=> says(id) \/ id \in DOMAIN link.with.entries
             /\ says(id) => c.entries[id] = q[id]
             /\ ~says(id) /\ id \in DOMAIN c.entries => c.entries[id] = link.with.entries[id]
    BY <2>3, BuildFacts
  <2>6. \A id : Kept(id) =>
          /\ id \in DOMAIN link.with.entries <=> SaidThen(id) # {}
          /\ \A n \in SaidThen(id) :
               (\A m \in SaidThen(id) : m <= n) => link.with.entries[id] = old[n][id]
    BY DEF LinkInv, Tells
  <2>7. \A id : /\ says(id) => SaidNow(id) = SaidThen(id) \cup {last}
                /\ ~says(id) => SaidNow(id) = SaidThen(id)
                /\ SaidThen(id) \subseteq 1..Len(old)
    BY <2>4
  <2>8. ASSUME NEW id, Kept(id)
        PROVE  /\ id \in DOMAIN c.entries <=> SaidNow(id) # {}
               /\ \A n \in SaidNow(id) :
                    (\A m \in SaidNow(id) : m <= n) => c.entries[id] = l.asked[n][id]
    <3>1. CASE says(id)
      <4>1. last \in SaidNow(id) /\ SaidNow(id) \subseteq 1..last
        BY <3>1, <2>4, <2>7
      <4>2. \A n \in SaidNow(id) : (\A m \in SaidNow(id) : m <= n) => n = last
        BY <4>1, <2>4
      <4> HIDE DEF SaidNow, says
      <4>3. c.entries[id] = l.asked[last][id] /\ id \in DOMAIN c.entries
        BY <3>1, <2>4, <2>5, <2>8
      <4>4. QED
        BY <4>1, <4>2, <4>3
    <3>2. CASE ~says(id)
      <4>1. SaidNow(id) = SaidThen(id) /\ \A n \in SaidThen(id) : l.asked[n] = old[n]
        BY <3>2, <2>4, <2>7
      <4> HIDE DEF SaidNow, SaidThen, says
      <4>2. QED
        BY <3>2, <4>1, <2>5, <2>6, <2>8
    <3>3. QED
      BY <3>1, <3>2
  <2>9. Tells(l)
    BY <2>2, <2>8 DEF Tells
  <2>10. QED
    BY <2>2, <2>4, <2>5, <2>9 DEF LinkInv
<1>3. QED
  BY <1>1, <1>2

-----------------------------------------------------------------------------
\* The way down is one from each position to the next.
LEMMA WayFacts ==
  ASSUME here.pos \in Pos, NEW dest \in Below[here.pos], Kind[dest] # "leaf"
  PROVE  /\ Len(Way(dest)) \in Nat /\ DOMAIN Way(dest) = 1..Len(Way(dest))
         /\ \A n \in DOMAIN Way(dest) :
              /\ Way(dest)[n] \in Below[here.pos] \ {here.pos}
              /\ Way(dest)[n] \in Inner /\ Way(dest)[n] \in Pos
              /\ n > 1 => Way(dest)[n] \in Below[Way(dest)[n - 1]]
<1> DEFINE S == {p \in Below[here.pos] \ {here.pos} : dest \in Below[p]}
           w == Sorted(S, Level)
<1>1. dest \in Pos /\ S \subseteq Pos /\ S \subseteq {a \in Pos : dest \in Below[a]}
  BY TreeAssumption
<1>2. Way(dest) = w
  BY DEF Way
<1>3. ASSUME NEW p \in S
      PROVE  p \in Inner
  <2>1. p \in Pos /\ dest \in Below[p]
    BY <1>1
  <2>2. p \in Leaves => Below[p] = {p} /\ Kind[p] = "leaf"
    BY TreeAssumption DEF Leaves
  <2>3. QED
    BY <2>1, <2>2 DEF Inner
<1>4. \A p \in S : p \in Below[here.pos] \ {here.pos}
  OBVIOUS
<1> HIDE DEF S
<1>5. /\ IsFiniteSet(S) /\ \A x \in S : Level[x] \in Int
      /\ \A x, y \in S : Level[x] = Level[y] => x = y
      /\ \A x, y \in S : Level[x] < Level[y] => y \in Below[x]
  BY <1>1, LevelInjective
<1>6. w \in Seq(S) /\ \A n \in DOMAIN w : Turn(S, Level, w[n]) = n - 1
  BY <1>5, SortedFacts
<1> HIDE DEF w
<1>7. Len(w) \in Nat /\ DOMAIN w = 1..Len(w) /\ \A n \in DOMAIN w : w[n] \in S
  BY <1>6
<1>8. ASSUME NEW n \in DOMAIN w, n > 1
      PROVE  w[n] \in Below[w[n - 1]]
  <2>1. n \in Nat /\ n - 1 \in DOMAIN w /\ w[n] \in S /\ w[n - 1] \in S
    BY <1>7, <1>8
  <2>2. Turn(S, Level, w[n]) = n - 1 /\ Turn(S, Level, w[n - 1]) = n - 1 - 1
    BY <2>1, <1>6
  <2>3. /\ ~(Level[w[n]] < Level[w[n - 1]])
        /\ Level[w[n]] # Level[w[n - 1]]
    <3>1. /\ Level[w[n]] < Level[w[n - 1]] => Turn(S, Level, w[n]) < Turn(S, Level, w[n - 1])
          /\ Level[w[n]] = Level[w[n - 1]] => Turn(S, Level, w[n]) = Turn(S, Level, w[n - 1])
      BY <2>1, <1>5, TurnFacts
    <3>2. ~(n - 1 < n - 1 - 1) /\ n - 1 # n - 1 - 1
      BY <2>1
    <3>3. QED
      BY <3>1, <3>2, <2>2
  <2>4. Level[w[n - 1]] < Level[w[n]]
    BY <2>1, <2>3, <1>5
  <2>5. QED
    BY <2>1, <2>4, <1>5
<1>9. QED
  BY <1>1, <1>2, <1>3, <1>4, <1>7, <1>8

\* A selection in the place of the last one.
LEMMA ReplaceHere ==
  ASSUME ChainInv, data' = data, NEW link, LinkInv(link), link.pos = here.pos,
         chain' = Append(Front(chain), link)
  PROVE  ChainInv' /\ here' = link /\ base' = base
<1> DEFINE L == ToSet(chain) \cup {link}
           last == Len(chain)
<1>1. chain \in Seq(L) /\ chain # <<>> /\ link \in L /\ last \in DOMAIN chain
  <2>1. chain \in Seq(ToSet(chain)) /\ chain # <<>> /\ last \in DOMAIN chain
    BY HereFacts DEF ChainInv
  <2> DEFINE S == ToSet(chain)
  <2> HIDE DEF S
  <2>2. chain \in Seq(S \cup {link})
    BY <2>1 DEF S
  <2>3. QED
    BY <2>1, <2>2 DEF S
<1> HIDE DEF L
<1>2. /\ Front(chain) \in Seq(L) /\ last \in Nat \ {0}
      /\ Len(Front(chain)) = last - 1
      /\ \A n \in 1..(last - 1) : Front(chain)[n] = chain[n]
  BY <1>1, FrontFacts
<1>3. /\ chain' \in Seq(L) /\ DOMAIN chain' = 1..last /\ Len(chain') = last
      /\ chain'[last] = link /\ chain' # <<>>
      /\ \A n \in 1..(last - 1) : chain'[n] = chain[n]
  <2> DEFINE f == Front(chain)
  <2> HIDE DEF f
  <2>1. /\ Append(f, link) \in Seq(L) /\ Len(Append(f, link)) = Len(f) + 1
        /\ Append(f, link)[Len(f) + 1] = link
        /\ \A n \in 1..Len(f) : Append(f, link)[n] = f[n]
    BY <1>1, <1>2 DEF f
  <2>2. Len(f) + 1 = last /\ Len(f) = last - 1
    BY <1>2 DEF f
  <2>3. chain' = Append(f, link)
    BY DEF f
  <2> HIDE DEF last
  <2>4. QED
    BY <2>1, <2>2, <2>3, <1>2, EmptySeq, SeqOfItself DEF f
<1>4. here' = link
  BY <1>3 DEF here
<1>5. here = chain[last] /\ base = here.pos /\ base' = here'.pos
  BY DEF here, base
<1>6. \A n \in DOMAIN chain' : n = last \/ n \in 1..(last - 1)
  BY <1>3, <1>2
<1>7. \A n \in DOMAIN chain' :
        /\ LinkInv(chain'[n])
        /\ n > 1 => chain'[n].pos \in Below[chain'[n - 1].pos]
  <2> TAKE n \in DOMAIN chain'
  <2>1. n \in DOMAIN chain /\ n \in Nat /\ (n > 1 => n - 1 \in 1..(last - 1))
    BY <1>2, <1>3, <1>1, SeqOfItself
  <2>2. LinkInv(chain[n]) /\ (n > 1 => chain[n].pos \in Below[chain[n - 1].pos])
    BY <2>1 DEF ChainInv
  <2>3. chain'[n].pos = chain[n].pos /\ LinkInv(chain'[n])
    BY <2>2, <1>3, <1>5, <1>6
  <2>4. QED
    BY <2>1, <2>2, <2>3, <1>3
<1>8. chain' \in Seq(ToSet(chain'))
  BY <1>3, SeqOfItself
<1>9. ChainInv'
  BY <1>3, <1>7, <1>8, ChainOf
<1>10. QED
  BY <1>4, <1>5, <1>9

-----------------------------------------------------------------------------
\* The selections on the way down have the constraints of the first of them.
LEMMA ExtendChain ==
  ASSUME ChainInv, data' = data, NEW link, LinkInv(link), link.pos = here.pos,
         NEW way, Len(way) \in Nat, DOMAIN way = 1..Len(way),
         \A n \in DOMAIN way :
           /\ way[n] \in Below[here.pos] /\ way[n] \in Inner /\ data[way[n]] = Obj
           /\ n > 1 => way[n] \in Below[way[n - 1]],
         chain' = Front(chain) \o <<link>> \o
                    [n \in DOMAIN way |-> Link(way[n], link.with, link.asked)]
  PROVE  ChainInv'
<1> DEFINE new == [n \in DOMAIN way |-> Link(way[n], link.with, link.asked)]
           L == ToSet(chain) \cup {link} \cup {new[n] : n \in DOMAIN way}
           last == Len(chain)
           f == Front(chain)
           g == f \o <<link>>
<1>1. chain \in Seq(L) /\ chain # <<>> /\ last \in DOMAIN chain
  <2>1. chain \in Seq(ToSet(chain)) /\ chain # <<>> /\ last \in DOMAIN chain
    BY HereFacts DEF ChainInv
  <2>2. ToSet(chain) \subseteq L
    OBVIOUS
  <2> HIDE DEF L
  <2>3. QED
    BY <2>1, <2>2
<1>2. link \in L /\ \A n \in DOMAIN way : new[n] \in L
  OBVIOUS
<1>3. \A n \in DOMAIN way :
        new[n].pos = way[n] /\ new[n].with = link.with /\ new[n].asked = link.asked
  BY DEF Link
<1>4. DOMAIN new = 1..Len(way)
  OBVIOUS
<1> HIDE DEF L, new
<1>5. new \in Seq(L) /\ Len(new) = Len(way)
  <2>1. new = [n \in 1..Len(way) |-> new[n]]
    BY DEF new
  <2>2. QED
    BY <2>1, <1>2, <1>4
<1>6. /\ f \in Seq(L) /\ last \in Nat \ {0} /\ Len(f) = last - 1
      /\ \A n \in 1..(last - 1) : f[n] = chain[n]
  BY <1>1, FrontFacts
<1>7. here = chain[last] /\ chain' = g \o new
  BY DEF here, new
<1> HIDE DEF f
<1>8. /\ g \in Seq(L) /\ Len(g) = last /\ g[last] = link
      /\ \A n \in 1..(last - 1) : g[n] = chain[n]
  <2>1. /\ g \in Seq(L) /\ Len(g) = Len(f) + 1 /\ g[Len(f) + 1] = link
        /\ \A n \in 1..Len(f) : g[n] = f[n]
    BY <1>2, <1>6
  <2>2. Len(f) + 1 = last /\ Len(f) = last - 1
    BY <1>6
  <2> HIDE DEF g
  <2>3. QED
    BY <2>1, <2>2, <1>6
<1> HIDE DEF g, last
<1>9. /\ chain' \in Seq(L) /\ Len(chain') = last + Len(way) /\ DOMAIN chain' = 1..(last + Len(way))
      /\ \A n \in 1..last : chain'[n] = g[n]
      /\ \A n \in 1..Len(way) : chain'[last + n] = new[n]
  <2> DEFINE h == g \o new
  <2>1. h \in Seq(L) /\ Len(h) = Len(g) + Len(new)
    BY <1>5, <1>8, Joined
  <2>2. /\ \A n \in 1..Len(g) : h[n] = g[n]
        /\ \A n \in 1..Len(new) : h[Len(g) + n] = new[n]
    BY <1>5, <1>8, Joined, SMTT(60)
  <2> HIDE DEF h
  <2>3. Len(chain') \in Nat /\ DOMAIN chain' = 1..Len(chain')
    BY <2>1, <1>7, SeqOfItself DEF h
  <2>4. QED
    BY <2>1, <2>2, <2>3, <1>5, <1>7, <1>8 DEF h
<1>10. ASSUME NEW n \in DOMAIN chain'
       PROVE  /\ LinkInv(chain'[n])
              /\ n > 1 => chain'[n].pos \in Below[chain'[n - 1].pos]
  <2>1. CASE n \in 1..(last - 1)
    <3>1. n \in DOMAIN chain /\ n \in Nat /\ n \in 1..last
           /\ (n > 1 => (n - 1) \in 1..(last - 1) /\ (n - 1) \in 1..last)
      BY <2>1, <1>6, <1>1, SeqOfItself DEF last
    <3>2. LinkInv(chain[n]) /\ (n > 1 => chain[n].pos \in Below[chain[n - 1].pos])
      BY <3>1 DEF ChainInv
    <3>3. chain'[n] = chain[n] /\ (n > 1 => chain'[n - 1] = chain[n - 1])
      BY <2>1, <3>1, <1>8, <1>9
    <3>4. QED
      BY <3>2, <3>3
  <2>2. CASE n = last
    <3>1. n \in DOMAIN chain /\ n \in Nat /\ n \in 1..last
           /\ (n > 1 => (n - 1) \in 1..(last - 1) /\ (n - 1) \in 1..last)
      BY <2>2, <1>6, <1>1, SeqOfItself
    <3>2. n > 1 => chain[n].pos \in Below[chain[n - 1].pos]
      BY <3>1 DEF ChainInv
    <3>3. chain'[n] = link /\ link.pos = chain[n].pos /\ (n > 1 => chain'[n - 1] = chain[n - 1])
      BY <2>2, <3>1, <1>7, <1>8, <1>9
    <3>4. QED
      BY <3>2, <3>3
  <2>3. CASE n \in (last + 1)..(last + Len(way))
    <3> DEFINE m == n - last
    <3>1. m \in 1..Len(way) /\ n = last + m /\ m \in DOMAIN way
      BY <2>3, <1>6
    <3>2. /\ chain'[n] = new[m] /\ new[m].pos = way[m]
          /\ new[m].with = link.with /\ new[m].asked = link.asked
      BY <3>1, <1>3, <1>9
    <3>3. LinkInv(chain'[n])
      <4>1. chain'[n].pos \in Inner /\ data[chain'[n].pos] = Obj
        BY <3>1, <3>2
      <4>2. \A l : l.with = link.with /\ l.asked = link.asked => Tells(l)
        BY DEF LinkInv, Tells
      <4>3. Tells(chain'[n])
        BY <4>2, <3>2
      <4>4. QED
        BY <4>1, <4>3, <3>2 DEF LinkInv
    <3> HIDE DEF m
    <3>4. CASE m = 1
      <4>1. n - 1 = last /\ last \in 1..last
        BY <3>1, <3>4, <1>6
      <4>2. chain'[n - 1] = link
        BY <4>1, <1>8, <1>9
      <4>3. QED
        BY <3>1, <3>2, <3>3, <4>2
    <3>5. CASE m # 1
      <4>1. m > 1 /\ n - 1 = last + (m - 1) /\ (m - 1) \in 1..Len(way) /\ (m - 1) \in DOMAIN way
        BY <3>1, <3>5, <1>6
      <4>2. chain'[n - 1] = new[m - 1] /\ new[m - 1].pos = way[m - 1]
        BY <4>1, <1>3, <1>9
      <4> HIDE DEF m
      <4>3. way[m] \in Below[way[m - 1]]
        BY <3>1, <4>1
      <4>4. QED
        BY <3>2, <3>3, <4>2, <4>3
    <3>6. QED
      BY <3>4, <3>5
  <2>4. n \in 1..(last + Len(way)) /\ last \in Nat
    BY <1>6, <1>9
  <2>5. n \in 1..(last - 1) \/ n = last \/ n \in (last + 1)..(last + Len(way))
    BY <2>4
  <2>6. QED
    BY <2>1, <2>2, <2>3, <2>5
<1>11. chain' # <<>> /\ chain' \in Seq(ToSet(chain'))
  <2>1. Len(chain') # 0
    BY <1>6, <1>9
  <2>2. QED
    BY <2>1, <1>9, SeqOfItself, EmptySeq
<1>12. QED
  BY <1>10, <1>11, ChainOf

-----------------------------------------------------------------------------
\* A call that fails without a panic leaves everything as it was.
LEMMA NoPanic ==
  ASSUME status' # "panic"
  PROVE  PlainSelectorsAreSafe'
  BY DEF PlainSelectorsAreSafe

LEMMA FindParentStep == SelInv /\ FindParent => SelInv'
<1> SUFFICES ASSUME SelInv, FindParent PROVE SelInv'
  OBVIOUS
<1>1. /\ TypeInv /\ ChainInv /\ Unread /\ data' = data /\ status' = "idle"
      /\ chain' = Front(chain) /\ Len(chain) > 1
  BY DEF SelInv, FindParent
<1> DEFINE S == ToSet(chain)
           last == Len(chain)
<1>2. chain \in Seq(S) /\ chain # <<>> /\ DOMAIN chain = 1..last /\ last \in Nat
  BY <1>1, HereFacts, SMTT(60) DEF ChainInv
<1>3. /\ chain' \in Seq(S) /\ Len(chain') = last - 1 /\ DOMAIN chain' = 1..(last - 1)
      /\ \A n \in 1..(last - 1) : chain'[n] = chain[n]
  <2> HIDE DEF S
  <2>1. QED
    BY <1>1, <1>2, FrontFacts
<1>4. chain' # <<>>
  BY <1>1, <1>2, <1>3, EmptySeq
<1>5. chain' \in Seq(ToSet(chain'))
  BY <1>3, SeqOfItself
<1>6. ASSUME NEW n \in DOMAIN chain'
      PROVE  /\ LinkInv(chain'[n])
             /\ n > 1 => chain'[n].pos \in Below[chain'[n - 1].pos]
  <2>1. n \in DOMAIN chain /\ n \in 1..(last - 1) /\ (n > 1 => (n - 1) \in 1..(last - 1))
    BY <1>2, <1>3
  <2>2. chain'[n] = chain[n] /\ (n > 1 => chain'[n - 1] = chain[n - 1])
    BY <2>1, <1>3
  <2>3. LinkInv(chain[n]) /\ (n > 1 => chain[n].pos \in Below[chain[n - 1].pos])
    BY <2>1, <1>1 DEF ChainInv
  <2>4. QED
    BY <2>2, <2>3
<1>7. ChainInv'
  BY <1>1, <1>4, <1>5, <1>6, ChainOf
<1>8. TypeInv' /\ WalkInv' /\ PartOfWhole' /\ AsAsked'
  BY <1>1, UnreadFacts DEF Results
<1>9. QED
  BY <1>1, <1>7, <1>8, NoPanic DEF SelInv

LEMMA ConstrainStep ==
  ASSUME SelInv, NEW query \in Queries, Constrain(query)
  PROVE  SelInv'
<1>1. /\ TypeInv /\ ChainInv /\ Unread /\ data' = data
      /\ status' = "idle" \/ status' = "refused"
      /\ \/ chain' = chain
         \/ \E link \in Given(here, query) : chain' = Append(Front(chain), link)
  BY DEF SelInv, Constrain
<1>2. ChainInv'
  <2>1. CASE chain' = chain
    BY <2>1, <1>1, KeptChain
  <2>2. CASE \E link \in Given(here, query) : chain' = Append(Front(chain), link)
    <3>1. PICK link \in Given(here, query) : chain' = Append(Front(chain), link)
      BY <2>2
    <3>2. LinkInv(link) /\ link.pos = here.pos
      BY <1>1, HereFacts, GivenFacts
    <3>3. QED
      BY <3>1, <3>2, <1>1, ReplaceHere
  <2>3. QED
    BY <2>1, <2>2, <1>1
<1>3. TypeInv' /\ WalkInv' /\ PartOfWhole' /\ AsAsked'
  BY <1>1, UnreadFacts DEF Results
<1>4. QED
  BY <1>1, <1>2, <1>3, NoPanic DEF SelInv

-----------------------------------------------------------------------------
LEMMA FindStep ==
  ASSUME SelInv, NEW dest \in Pos, NEW query \in Queries, Find(dest, query)
  PROVE  SelInv'
<1> DEFINE way == Way(dest)
           stopped(link) == {n \in DOMAIN way : Answer(link.with, way[n]) # "more"}
           missed(link) == CHOOSE n \in stopped(link) : \A m \in stopped(link) : n <= m
           replaced(link) == chain' = Append(Front(chain), link)
           extended(link) == chain' = Front(chain) \o <<link>> \o
                               [n \in DOMAIN way |-> Link(way[n], link.with, link.asked)]
<1>1. TypeInv /\ ChainInv /\ Unread /\ data' = data
  BY DEF SelInv, Find
<1>2. LinkInv(here) /\ here.pos \in Pos /\ dest \in Below[here.pos] /\ Kind[dest] # "leaf"
  BY <1>1, HereFacts DEF LinkInv, Inner, Find
<1>3. /\ Len(way) \in Nat /\ DOMAIN way = 1..Len(way)
      /\ \A n \in DOMAIN way :
           /\ way[n] \in Below[here.pos] \ {here.pos} /\ way[n] \in Inner /\ way[n] \in Pos
           /\ n > 1 => way[n] \in Below[way[n - 1]]
  BY <1>2, WayFacts
<1>4. \/ status' = "nothing" /\ chain' = chain
      \/ \E link \in Given(here, query) :
           \/ /\ stopped(link) # {} /\ Answer(link.with, way[missed(link)]) = "panic"
              /\ status' = "panic" /\ replaced(link)
           \/ stopped(link) = {} /\ extended(link) /\ status' = "idle"
  BY DEF Find
<1> HIDE DEF way, replaced, extended
<1>5. \A link \in Given(here, query) : LinkInv(link) /\ link.pos = here.pos
  BY <1>2, GivenFacts
<1>6. status' \in Results \ {"reading", "ok"}
  BY <1>4 DEF Results
<1>7. TypeInv' /\ WalkInv' /\ PartOfWhole' /\ AsAsked'
  BY <1>1, <1>6, UnreadFacts
<1>8. CASE status' = "nothing" /\ chain' = chain
  <2>1. ChainInv'
    BY <1>1, <1>8, KeptChain
  <2>2. QED
    BY <2>1, <1>7, <1>8, NoPanic DEF SelInv
<1>9. ASSUME NEW link \in Given(here, query), stopped(link) # {},
             Answer(link.with, way[missed(link)]) = "panic",
             status' = "panic", replaced(link)
      PROVE  SelInv'
  <2>1. ChainInv' /\ here' = link /\ base' = base
    BY <1>1, <1>5, <1>9, ReplaceHere DEF replaced
  <2>2. missed(link) \in stopped(link)
    <3>1. stopped(link) \subseteq Nat
      BY <1>3
    <3> HIDE DEF stopped
    <3>2. QED
      BY <3>1, <1>9, LeastOf
  <2>3. missed(link) \in DOMAIN way
    BY <2>2
  <2> DEFINE p == way[missed(link)]
  <2>4. p \in Pos /\ p \in Below[base]
    BY <2>3, <1>3 DEF base
  <2>5. CheckWhen(link.with, data, p) = "panic"
    BY <1>9 DEF Answer
  <2> HIDE DEF p
  <2>6. Sound(link.with)
    BY <1>5 DEF LinkInv
  <2>7. /\ When[p] # NoWhen
        /\ \E id \in {"fields", "fc.xfields"} :
             id \in DOMAIN link.with.entries /\ link.with.entries[id] # <<>>
    BY <2>4, <2>5, <2>6, WhenFacts
  <2>8. RiskyFields'
    BY <2>1, <2>4, <2>7 DEF RiskyFields, With, Param
  <2>9. PlainSelectorsAreSafe'
    BY <2>8 DEF PlainSelectorsAreSafe, RiskyFields
  <2>10. QED
    BY <2>1, <2>9, <1>7 DEF SelInv
<1>10. ASSUME NEW link \in Given(here, query), stopped(link) = {}, extended(link),
              status' = "idle"
       PROVE  SelInv'
  <2>1. ASSUME NEW n \in DOMAIN way
        PROVE  data[way[n]] = Obj
    <3>1. Answer(link.with, way[n]) = "more"
      BY <1>10
    <3>2. data[way[n]] # Absent
      BY <3>1 DEF Answer
    <3>3. QED
      BY <3>2, <1>1, <1>3, DataFacts
  <2>2. ChainInv'
    BY <2>1, <1>1, <1>3, <1>5, <1>10, ExtendChain DEF extended
  <2>3. QED
    BY <2>2, <1>7, <1>10, NoPanic DEF SelInv
<1>11. QED
  BY <1>4, <1>8, <1>9, <1>10

-----------------------------------------------------------------------------
(***************************************************************************)
(* Every step keeps the invariant.                                         *)
(***************************************************************************)
LEMMA RestInv == SelInv /\ UNCHANGED vars => SelInv'
<1> SUFFICES ASSUME SelInv, UNCHANGED vars PROVE SelInv'
  OBVIOUS
<1>1. Unmoved /\ status' = status /\ stack' = stack /\ out' = out
  BY DEF vars, Unmoved
<1>2. TypeInv /\ ChainInv /\ WalkInv /\ PartOfWhole /\ AsAsked /\ PlainSelectorsAreSafe
  BY DEF SelInv
<1>3. TypeInv' /\ ChainInv'
  BY <1>1, <1>2, KeptChain DEF TypeInv, Unmoved
<1>4. WalkInv'
  <2>1. \A l \in DOMAIN stack : FrameInv(l)'
    <3>1. \A p : /\ Passed(p)' <=> Passed(p)
                 /\ Done(p)' <=> Done(p)
                 /\ Untouched(p)' <=> Untouched(p)
                 /\ TurnOf(p)' = TurnOf(p)
      BY <1>1, SameWanted, SameRows DEF Done, Untouched
    <3>2. base' = base /\ here' = here /\ level' = level
      BY <1>1 DEF Unmoved, base, here, level
    <3>3. \A l \in DOMAIN stack : Passed(stack[l].pos)' <=> Passed(stack[l].pos)
      BY <3>1, <1>1
    <3>4. \A f : RowsInv(f)' <=> RowsInv(f)
      BY <3>2 DEF RowsInv
    <3>5. \A l \in DOMAIN stack : RowsInv(stack[l])' <=> RowsInv(stack[l])
      BY <3>4, <1>1
    <3>6. \A l \in DOMAIN stack : KidsInv(l)' <=> KidsInv(l)
      BY <3>1, <3>2, <1>1 DEF KidsInv
    <3>7. QED
      BY <3>2, <3>3, <3>5, <3>6, <1>1, <1>2 DEF FrameInv, WalkInv, Unmoved
  <2>2. QED
    BY <2>1, <1>1, <1>2 DEF WalkInv
<1>5. PartOfWhole' /\ AsAsked'
  <2>1. \A p : Whole(p)' = Whole(p) /\ (Asked(p)' <=> Asked(p)) /\ Above(p)' = Above(p)
    BY <1>1, SameWanted
  <2>2. base' = base /\ here' = here
    BY <1>1, SameHere
  <2>3. QED
    BY <2>1, <2>2, <1>1, <1>2 DEF PartOfWhole, AsAsked
<1>6. PlainSelectorsAreSafe'
  <2>1. (RiskyFields' <=> RiskyFields) /\ (RiskyRange' <=> RiskyRange)
    BY <1>1, SameWanted
  <2>2. status = "panic" => RiskyFields \/ RiskyRange
    BY <1>2 DEF PlainSelectorsAreSafe, RiskyFields, RiskyRange
  <2>3. status' = "panic" => RiskyFields' \/ RiskyRange'
    BY <2>1, <2>2, <1>1
  <2>4. QED
    BY <2>3 DEF PlainSelectorsAreSafe, RiskyFields, RiskyRange
<1>7. QED
  BY <1>3, <1>4, <1>5, <1>6 DEF SelInv

LEMMA SelStep == SelInv /\ [Next \/ Panicked]_vars => SelInv'
<1> SUFFICES ASSUME SelInv, [Next \/ Panicked]_vars PROVE SelInv'
  OBVIOUS
<1>1. CASE Step
  BY <1>1, PassOverStep, CopyLeafStep, EnterKidStep, EnterItemStep, LeaveStep, BreakStep DEF Step
<1>2. ASSUME NEW dest \in Pos, NEW query \in Queries, Find(dest, query)
      PROVE  SelInv'
  BY <1>2, FindStep
<1>3. CASE FindParent
  BY <1>3, FindParentStep
<1>4. ASSUME NEW query \in Queries, Constrain(query)
      PROVE  SelInv'
  BY <1>4, ConstrainStep
<1>5. ASSUME NEW defaults \in BOOLEAN, Read(defaults)
      PROVE  SelInv'
  BY <1>5, ReadStep
<1>6. CASE Panicked \/ UNCHANGED vars
  BY <1>6, RestInv DEF Panicked
<1>7. QED
  BY <1>1, <1>2, <1>3, <1>4, <1>5, <1>6 DEF Next

-----------------------------------------------------------------------------
(***************************************************************************)
(* Theorems.                                                               *)
(***************************************************************************)
LEMMA AlwaysSelInv == Spec => []SelInv
BY InitInv, SelStep, PTL DEF Spec

\* Whatever calls are made, in whatever order, with whatever parameters: each
\* selection is below the one it was found from (Selection.parent), compileds
\* and entries of its Constraints (node/constraints.go) agree, and the walk of
\* editor.enter has copied each position it is on, under the one before.
THEOREM TypeSafety == Spec => []TypeOK
<1>1. SelInv => TypeOK
  <2> SUFFICES ASSUME SelInv PROVE TypeOK
    OBVIOUS
  <2>1. TypeInv /\ ChainInv /\ WalkInv
    BY DEF SelInv
  <2>2. \A n \in DOMAIN chain :
          /\ chain[n].pos \in Inner
          /\ n > 1 => chain[n].pos \in Below[chain[n - 1].pos]
          /\ DOMAIN chain[n].with.entries = ToSet(chain[n].with.order)
          /\ DOMAIN chain[n].with.entries \subseteq Parameters \cup {"~when"}
    BY <2>1 DEF ChainInv, LinkInv, Sound, Settings, Ids
  <2>3. \A l \in DOMAIN stack :
          /\ out[stack[l].pos] = Obj
          /\ IF l = 1 THEN stack[l].pos = base ELSE Parent[stack[l].pos] = stack[l - 1].pos
    BY <2>1 DEF WalkInv, FrameInv
  <2>4. QED
    BY <2>1, <2>2, <2>3 DEF TypeOK, TypeInv, WalkInv, Results
<1>2. QED
  BY <1>1, AlwaysSelInv, PTL

\* However a read is constrained and wherever it is broken off, it has copied
\* nothing but what a read without constraints copies, with the same values
\* (fields_matcher.go, max_depth.go, content_param.go, list_range.go and
\* with_defaults_param.go only ever leave out), and nothing under what it has
\* left out.
THEOREM PartSafety == Spec => []PartOfWhole
<1>1. SelInv => PartOfWhole
  BY DEF SelInv
<1>2. QED
  BY <1>1, AlwaysSelInv, PTL

\* A read that succeeds has copied exactly what its parameters ask for, whatever
\* order sort.Sort has given to constraints of equal priority and weight.
THEOREM AskedSafety == Spec => []AsAsked
<1>1. SelInv => AsAsked
  BY DEF SelInv
<1>2. QED
  BY <1>1, AlwaysSelInv, PTL

\* buildConstraints adds to the constraints there are: each parameter that was
\* understood on the way to a selection is in force, in its last form.
THEOREM AddedSafety == Spec => []AddedToExisting
<1>1. SelInv => AddedToExisting
  BY DEF SelInv, ChainInv, LinkInv, Tells, AddedToExisting
<1>2. QED
  BY <1>1, AlwaysSelInv, PTL

\* PathMatches walks beyond the root of a path (path_matcher.go:203) only for a
\* selector with a slice of several names, for one that meets a "when", or for a
\* range on the list that is read.
THEOREM PlainSafety == Spec => []PlainSelectorsAreSafe
<1>1. SelInv => PlainSelectorsAreSafe
  BY DEF SelInv
<1>2. QED
  BY <1>1, AlwaysSelInv, PTL

-----------------------------------------------------------------------------
=============================================================================
