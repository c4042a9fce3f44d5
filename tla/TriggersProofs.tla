--------------------------- MODULE TriggersProofs ---------------------------
(***************************************************************************)
(* Proofs about module Triggers, for every set of listeners and however    *)
(* they install, remove and edit while they are called.                    *)
(***************************************************************************)
EXTENDS Triggers, SequenceTheorems, TLAPS

-----------------------------------------------------------------------------
(***************************************************************************)
(* The inductive invariant.                                                *)
(***************************************************************************)

\* The installed listeners are those that remember an element of the list, and
\* each element is remembered by its listener.
ListInv ==
  /\ \A e \in Members : hnd[owner[e]] = e /\ owner[e] \in installed
  /\ \A t \in installed : hnd[t] \in Members

\* A loop goes on from an element of the list; whatever runs above an edit runs
\* inside a listener or a node of it.
LoopInv ==
  \A n \in DOMAIN edits :
    LET round == edits[n]
    IN  /\ round.stay \subseteq installed
        /\ round.phase = "walk" => ~round.called /\ round.at = Nil
        /\ round.called => round.at \in DOMAIN owner
        /\ ~round.called => round.at \in Members \cup {Nil}
        /\ n < depth => round.called \/ round.phase = "walk"

\* The listeners of stay that a loop is due to have called at the place it is at,
Past(round) ==
  {t \in round.stay :
     /\ round.phase \in Hears[t]
     /\ \/ round.at = Nil \/ hnd[t] < round.at
        \/ round.called /\ hnd[t] = round.at}

\* and the calls it has made to listeners of stay.
Turns(round) == {k \in DOMAIN round.heard : round.heard[k] \in round.stay}

\* While no listener is removed in the middle of its call, the loop never loses
\* its place, and it has called what lies behind it, in the order of the list.
HeardSoFar(round) ==
  round.phase # "walk" =>
    /\ round.called => round.at \in Members
    /\ \A t \in Past(round) : \E k \in Turns(round) : round.heard[k] = t
    /\ \A k \in Turns(round) : round.heard[k] \in Past(round)
    /\ \A j, k \in Turns(round) : j < k => hnd[round.heard[j]] < hnd[round.heard[k]]
HeardInv == \A n \in DOMAIN edits : HeardSoFar(edits[n])

TriggersInv == TypeOK /\ ListInv /\ LoopInv

-----------------------------------------------------------------------------
(***************************************************************************)
(* The list.                                                               *)
(***************************************************************************)
Ascending(s) == \A m, n \in DOMAIN s : m < n => s[m] < s[n]

\* The element numbers are naturals, and Nil is none of them.
LEMMA Elements ==
  ASSUME TypeOK
  PROVE  /\ DOMAIN owner \subseteq Nat /\ Nil \notin DOMAIN owner
         /\ DOMAIN owner = 1..Len(owner) /\ Len(owner) \in Nat
         /\ DOMAIN owner \subseteq Element
         /\ Members \subseteq DOMAIN owner
         /\ table \in Seq(DOMAIN owner) /\ DOMAIN table = 1..Len(table) /\ Len(table) \in Nat
  BY TriggersAssumption DEF TypeOK, Members, Element

\* Taking the element at a place out moves those behind it up by one,
LEMMA MovedUp ==
  ASSUME NEW S, NEW s \in Seq(S), NEW n \in 1..Len(s)
  PROVE  /\ RemoveAt(s, n) \in Seq(S) /\ Len(RemoveAt(s, n)) = Len(s) - 1
         /\ \A i \in 1..(Len(s) - 1) :
              RemoveAt(s, n)[i] = IF i < n THEN s[i] ELSE s[i + 1]
<1> DEFINE a == SubSeq(s, 1, n - 1)
           b == SubSeq(s, n + 1, Len(s))
<1>1. Len(s) \in Nat /\ \A i \in 1..Len(s) : s[i] \in S
  OBVIOUS
<1>2. /\ a \in Seq(S) /\ Len(a) = n - 1
      /\ \A i \in 1..(n - 1) : a[i] = s[i]
  <2>1. 1 \in Int /\ n - 1 \in Int /\ \A i \in 1..(n - 1) : s[i] \in S
    BY <1>1
  <2>2. /\ a \in Seq(S)
        /\ Len(a) = IF 1 <= n - 1 THEN (n - 1) - 1 + 1 ELSE 0
        /\ \A i \in 1..((n - 1) - 1 + 1) : a[i] = s[1 + i - 1]
    BY <2>1, SubSeqProperties
  <2>3. QED
    BY <1>1, <2>2
<1>3. /\ b \in Seq(S) /\ Len(b) = Len(s) - n
      /\ \A i \in 1..(Len(s) - n) : b[i] = s[n + i]
  <2>1. n + 1 \in Int /\ Len(s) \in Int /\ \A i \in (n + 1)..Len(s) : s[i] \in S
    BY <1>1
  <2>2. /\ b \in Seq(S)
        /\ Len(b) = IF n + 1 <= Len(s) THEN Len(s) - (n + 1) + 1 ELSE 0
        /\ \A i \in 1..(Len(s) - (n + 1) + 1) : b[i] = s[(n + 1) + i - 1]
    BY <2>1, SubSeqProperties
  <2>3. QED
    BY <1>1, <2>2
<1>4. RemoveAt(s, n) = a \o b
  BY DEF RemoveAt
<1> HIDE DEF a, b
<1>5. /\ a \o b \in Seq(S) /\ Len(a \o b) = Len(a) + Len(b)
      /\ \A i \in 1..(Len(a) + Len(b)) :
           (a \o b)[i] = IF i <= Len(a) THEN a[i] ELSE b[i - Len(a)]
  BY <1>2, <1>3, ConcatProperties, Zenon
<1> DEFINE t == RemoveAt(s, n)
<1> HIDE DEF t
<1>6. t \in Seq(S) /\ Len(t) = Len(s) - 1
  BY <1>1, <1>2, <1>3, <1>4, <1>5 DEF t
<1>7. ASSUME NEW i \in 1..(Len(s) - 1)
      PROVE  t[i] = IF i < n THEN s[i] ELSE s[i + 1]
  <2>1. t[i] = IF i <= n - 1 THEN a[i] ELSE b[i - (n - 1)]
    BY <1>1, <1>2, <1>3, <1>4, <1>5 DEF t
  <2>2. CASE i < n
    BY <2>1, <2>2, <1>1, <1>2
  <2>3. CASE ~(i < n)
    <3>1. i - (n - 1) \in 1..(Len(s) - n) /\ n + (i - (n - 1)) = i + 1
      BY <2>3, <1>1
    <3>2. b[i - (n - 1)] = s[n + (i - (n - 1))]
      BY <3>1, <1>3
    <3>3. QED
      BY <2>1, <2>3, <3>1, <3>2
  <2>4. QED
    BY <2>2, <2>3
<1>8. QED
  BY <1>6, <1>7 DEF t

\* and leaves the others in their order.
LEMMA TakenOut ==
  ASSUME NEW S \in SUBSET Nat, NEW s \in Seq(S), Ascending(s), NEW n \in 1..Len(s),
         NEW t, t = RemoveAt(s, n)
  PROVE  /\ t \in Seq(S) /\ Ascending(t)
         /\ {t[m] : m \in DOMAIN t} = {s[m] : m \in DOMAIN s} \ {s[n]}
<1>1. /\ t \in Seq(S) /\ Len(t) = Len(s) - 1
      /\ \A i \in 1..(Len(s) - 1) : t[i] = IF i < n THEN s[i] ELSE s[i + 1]
  BY MovedUp
<1>2. Len(s) \in Nat /\ DOMAIN s = 1..Len(s) /\ DOMAIN t = 1..(Len(s) - 1)
  BY <1>1
<1>3. \A i, j \in 1..Len(s) : s[i] \in Nat /\ (i < j => s[i] < s[j])
  <2>1. \A i \in 1..Len(s) : s[i] \in S /\ S \subseteq Nat
    OBVIOUS
  <2>2. \A i, j \in 1..Len(s) : i < j => s[i] < s[j]
    BY <1>2 DEF Ascending
  <2>3. QED
    BY <2>1, <2>2
<1>4. Ascending(t)
  <2> SUFFICES ASSUME NEW i \in 1..(Len(s) - 1), NEW j \in 1..(Len(s) - 1), i < j
               PROVE  t[i] < t[j]
    BY <1>2 DEF Ascending
  <2>1. i + 1 \in 1..Len(s) /\ j + 1 \in 1..Len(s)
    BY <1>2
  <2>2. i \in 1..Len(s) /\ j \in 1..Len(s) /\ i < j + 1 /\ i + 1 < j + 1
    BY <1>2
  <2>3. t[i] = (IF i < n THEN s[i] ELSE s[i + 1]) /\ t[j] = IF j < n THEN s[j] ELSE s[j + 1]
    BY <1>1
  <2>4. s[i] < s[j] /\ s[i] < s[j + 1] /\ s[i + 1] < s[j + 1]
    BY <2>1, <2>2, <1>3
  <2>5. j < n => i < n
    BY <1>2
  <2>6. QED
    BY <2>3, <2>4, <2>5
<1>5. ASSUME NEW m \in DOMAIN t
      PROVE  \E i \in DOMAIN s : t[m] = s[i] /\ s[i] # s[n]
  <2>1. m \in 1..Len(s) /\ m + 1 \in 1..Len(s)
    BY <1>2
  <2>2. CASE m < n
    BY <2>1, <2>2, <1>1, <1>2, <1>3
  <2>3. CASE ~(m < n)
    <3>1. t[m] = s[m + 1] /\ n < m + 1
      BY <2>3, <1>1, <1>2
    <3>2. s[n] < s[m + 1] /\ s[n] \in Nat
      BY <3>1, <2>1, <1>3
    <3>3. QED
      BY <3>1, <3>2, <2>1, <1>2
  <2>4. QED
    BY <2>2, <2>3
<1>6. ASSUME NEW m \in DOMAIN s, s[m] # s[n]
      PROVE  \E i \in DOMAIN t : t[i] = s[m]
  <2>1. CASE m < n
    <3>1. m \in DOMAIN t
      BY <2>1, <1>2
    <3>2. QED
      BY <3>1, <2>1, <1>1, <1>2
  <2>2. CASE m > n
    <3>1. m - 1 \in 1..(Len(s) - 1) /\ ~(m - 1 < n) /\ (m - 1) + 1 = m
      BY <2>2, <1>2
    <3>2. t[m - 1] = s[m]
      BY <3>1, <1>1
    <3>3. QED
      BY <3>1, <3>2, <1>2
  <2>3. m # n /\ m \in Nat
    BY <1>2, <1>6
  <2>4. QED
    BY <2>1, <2>2, <2>3
<1>7. QED
  BY <1>1, <1>4, <1>5, <1>6

\* list.Remove keeps the rest of the list.
LEMMA Removed ==
  ASSUME TypeOK, NEW e
  PROVE  /\ Without(e) \in Seq(DOMAIN owner) /\ Ascending(Without(e))
         /\ {Without(e)[m] : m \in DOMAIN Without(e)} = Members \ {e}
<1>1. Ascending(table)
  BY DEF TypeOK, Ascending
<1>2. CASE e \in Members
  <2>1. Place(e) \in 1..Len(table) /\ table[Place(e)] = e
    BY <1>2, Elements DEF Members, Place
  <2>2. Without(e) = RemoveAt(table, Place(e))
    BY <1>2 DEF Without
  <2>3. DOMAIN owner \in SUBSET Nat /\ table \in Seq(DOMAIN owner)
    BY Elements
  <2>4. /\ Without(e) \in Seq(DOMAIN owner) /\ Ascending(Without(e))
        /\ {Without(e)[m] : m \in DOMAIN Without(e)} =
             {table[m] : m \in DOMAIN table} \ {table[Place(e)]}
    <3>1. \A n \in 1..Len(table) : \A t : t = RemoveAt(table, n) =>
            /\ t \in Seq(DOMAIN owner) /\ Ascending(t)
            /\ {t[m] : m \in DOMAIN t} = {table[m] : m \in DOMAIN table} \ {table[n]}
      BY <2>3, <1>1, TakenOut
    <3>2. QED
      BY <2>1, <2>2, <3>1, Zenon
  <2>5. QED
    BY <2>1, <2>4 DEF Members
<1>3. CASE e \notin Members
  BY <1>1, <1>3, Elements DEF Without, Members
<1>4. QED
  BY <1>2, <1>3

\* list.PushBack.
LEMMA Installed ==
  ASSUME TypeOK, NEW t \in Trigger,
         owner' = Append(owner, t), table' = Append(table, Len(owner'))
  PROVE  /\ owner' \in Seq(Trigger) /\ Len(owner') = Len(owner) + 1
         /\ owner'[Len(owner')] = t /\ \A e \in DOMAIN owner : owner'[e] = owner[e]
         /\ DOMAIN owner' = DOMAIN owner \cup {Len(owner')}
         /\ table' \in Seq(DOMAIN owner') /\ Ascending(table')
         /\ Members' = Members \cup {Len(owner')}
<1>1. /\ owner' \in Seq(Trigger) /\ Len(owner') = Len(owner) + 1
      /\ owner'[Len(owner')] = t /\ \A e \in DOMAIN owner : owner'[e] = owner[e]
  BY Elements DEF TypeOK
<1>2. DOMAIN owner' = DOMAIN owner \cup {Len(owner')}
  BY <1>1, Elements
<1>3. table \in Seq(DOMAIN owner') /\ Len(owner') \in DOMAIN owner'
  BY <1>2, Elements, SeqMonotonic
<1>4. /\ table' \in Seq(DOMAIN owner') /\ Len(table') = Len(table) + 1
      /\ \A n \in 1..Len(table) : table'[n] = table[n]
      /\ table'[Len(table) + 1] = Len(owner')
  BY <1>3, AppendProperties
<1>5. DOMAIN table' = 1..(Len(table) + 1) /\ DOMAIN table = 1..Len(table) /\ Len(table) \in Nat
  BY <1>4, Elements
<1>6. Ascending(table')
  <2>1. \A n \in DOMAIN table : table[n] \in Nat /\ table[n] < Len(owner')
    BY <1>1, Elements
  <2>2. Ascending(table)
    BY DEF TypeOK, Ascending
  <2>3. QED
    BY <2>1, <2>2, <1>4, <1>5 DEF Ascending
<1>7. Members' = Members \cup {Len(owner')}
  <2>1. ASSUME NEW n \in DOMAIN table' PROVE table'[n] \in Members \cup {Len(owner')}
    BY <1>4, <1>5 DEF Members
  <2>2. ASSUME NEW n \in DOMAIN table PROVE table[n] \in Members'
    BY <1>4, <1>5 DEF Members
  <2>3. Len(owner') \in Members'
    BY <1>4, <1>5 DEF Members
  <2>4. QED
    BY <2>1, <2>2, <2>3, SMTT(60) DEF Members
<1>8. QED
  BY <1>1, <1>2, <1>4, <1>6, <1>7

\* A loop begins at the least element,
LEMMA FrontElement ==
  ASSUME TypeOK
  PROVE  \/ Front = Nil /\ Members = {}
         \/ Front \in Members /\ \A f \in Members : Front <= f
<1>1. CASE table = <<>>
  BY <1>1, Elements DEF Front, Members
<1>2. CASE table # <<>>
  <2>1. 1 \in DOMAIN table /\ Front = table[1]
    BY <1>2, Elements DEF Front
  <2>2. \A m \in DOMAIN table : table[m] \in Nat /\ m \in Nat /\ (m = 1 \/ 1 < m)
    BY Elements
  <2>3. \A m \in DOMAIN table : table[1] <= table[m]
    <3>1. \A m \in DOMAIN table : 1 < m => table[1] < table[m]
      BY <2>1 DEF TypeOK
    <3>2. QED
      BY <3>1, <2>1, <2>2
  <2>4. QED
    BY <2>1, <2>3 DEF Members
<1>3. QED
  BY <1>1, <1>2

\* and goes on with the next larger one; one that was removed has none.
LEMMA AfterElement ==
  ASSUME TypeOK, NEW e
  PROVE  /\ After(e) \in Members \cup {Nil}
         /\ e \in Members /\ After(e) = Nil => \A f \in Members : f <= e
         /\ e \in Members /\ After(e) # Nil => \A f \in Members : f < After(e) <=> f <= e
<1>1. CASE e \notin Members
  BY <1>1 DEF After
<1>2. CASE e \in Members
  <2> DEFINE n == Place(e)
  <2>1. n \in DOMAIN table /\ table[n] = e
    BY <1>2 DEF Members, Place
  <2>2. After(e) = IF n < Len(table) THEN table[n + 1] ELSE Nil
    BY <1>2 DEF After
  <2> HIDE DEF n
  <2>3. \A m \in DOMAIN table : table[m] \in Nat /\ table[m] # Nil
    BY Elements
  <2>4. CASE n < Len(table)
    <3>1. After(e) = table[n + 1] /\ n + 1 \in DOMAIN table
      BY <2>1, <2>2, <2>4, Elements
    <3>2. \A m \in DOMAIN table : table[m] < table[n + 1] <=> table[m] <= table[n]
      <4>1. \A i, j \in DOMAIN table : i < j => table[i] < table[j]
        BY DEF TypeOK
      <4>2. \A m \in DOMAIN table : m \in Nat /\ (m <= n \/ m = n + 1 \/ n + 1 < m)
        BY <2>1, Elements
      <4>3. QED
        BY <4>1, <4>2, <3>1, <2>1, <2>3
    <3>3. QED
      BY <3>1, <3>2, <2>1, <2>3 DEF Members
  <2>5. CASE ~(n < Len(table))
    <3>1. \A m \in DOMAIN table : table[m] <= table[n]
      <4>1. \A i, j \in DOMAIN table : i < j => table[i] < table[j]
        BY DEF TypeOK
      <4>2. \A m \in DOMAIN table : m = n \/ m < n
        BY <2>5, <2>1, Elements
      <4>3. QED
        BY <4>1, <4>2, <2>1, <2>3
    <3>2. QED
      BY <3>1, <2>1, <2>2, <2>5 DEF Members
  <2>6. QED
    BY <2>4, <2>5
<1>3. QED
  BY <1>1, <1>2

-----------------------------------------------------------------------------
(***************************************************************************)
(* The stack of edits.                                                     *)
(***************************************************************************)

\* The edit that is running, and what an edit is made of.
LEMMA LastEdit ==
  ASSUME TypeOK
  PROVE  /\ edits \in Seq(Edit) /\ depth \in Nat /\ DOMAIN edits = 1..depth
         /\ \A n \in DOMAIN edits : edits[n] \in Edit
         /\ depth > 0 => depth \in DOMAIN edits /\ last \in Edit /\ last = edits[depth]
  BY DEF TypeOK, depth, last

\* The loop of the running edit goes on: the edits below stay as they are.
LEMMA TopStack ==
  ASSUME TypeOK, depth > 0, NEW f \in Edit, Top(f)
  PROVE  /\ edits' \in Seq(Edit) /\ depth' = depth /\ DOMAIN edits' = DOMAIN edits
         /\ edits'[depth] = f
         /\ \A n \in DOMAIN edits : n # depth => n < depth /\ edits'[n] = edits[n]
<1>1. edits \in Seq(Edit) /\ depth \in DOMAIN edits /\ DOMAIN edits = 1..depth /\ depth \in Nat
  BY LastEdit
<1>2. edits' = [edits EXCEPT ![depth] = f]
  BY DEF Top
<1>3. QED
  BY <1>1, <1>2 DEF depth

\* An edit begins on top of the others,
LEMMA PushStack ==
  ASSUME TypeOK, NEW f \in Edit, edits' = Append(edits, f)
  PROVE  /\ edits' \in Seq(Edit) /\ depth' = depth + 1
         /\ DOMAIN edits' = DOMAIN edits \cup {depth + 1}
         /\ edits'[depth + 1] = f
         /\ \A n \in DOMAIN edits : n < depth + 1 /\ edits'[n] = edits[n]
<1>1. edits \in Seq(Edit) /\ DOMAIN edits = 1..depth /\ depth \in Nat
  BY LastEdit
<1>2. QED
  BY <1>1 DEF depth

\* and ends first.
LEMMA PopStack ==
  ASSUME TypeOK, depth > 0, edits' = SubSeq(edits, 1, depth - 1)
  PROVE  /\ edits' \in Seq(Edit) /\ depth' = depth - 1
         /\ DOMAIN edits' \subseteq DOMAIN edits
         /\ \A n \in DOMAIN edits' : n < depth /\ edits'[n] = edits[n]
<1>1. edits \in Seq(Edit) /\ DOMAIN edits = 1..depth /\ depth \in Nat
  BY LastEdit
<1>2. 1 \in Int /\ depth - 1 \in Nat /\ depth - 1 \in Int /\ \A n \in 1..(depth - 1) : edits[n] \in Edit
  BY <1>1
<1>3. /\ edits' \in Seq(Edit)
      /\ Len(edits') = IF 1 <= depth - 1 THEN (depth - 1) - 1 + 1 ELSE 0
      /\ \A n \in 1..((depth - 1) - 1 + 1) : edits'[n] = edits[1 + n - 1]
  BY <1>2, SubSeqProperties
<1>4. depth' = depth - 1 /\ DOMAIN edits' = 1..(depth - 1)
  BY <1>1, <1>2, <1>3 DEF depth
<1>5. QED
  BY <1>1, <1>2, <1>3, <1>4

-----------------------------------------------------------------------------
(***************************************************************************)
(* The invariant, action by action.                                        *)
(***************************************************************************)

\* The steps of a loop leave the list alone.
Still == UNCHANGED <<table, owner, hnd, installed>>

LEMMA StillList ==
  ASSUME TriggersInv, Still
  PROVE  /\ ListInv' /\ Members' = Members
         /\ edits' \in Seq(Edit) => TypeOK'
  BY DEF TriggersInv, Still, TypeOK, ListInv, Members, Edit, Element

LEMMA InstallStep ==
  ASSUME TriggersInv, NEW t \in Trigger, Install(t)
  PROVE  TriggersInv'
<1>1. TypeOK /\ ListInv /\ LoopInv
  BY DEF TriggersInv
<1> DEFINE new == Len(owner')
<1>2. /\ owner' \in Seq(Trigger) /\ new = Len(owner) + 1
      /\ owner'[new] = t /\ \A e \in DOMAIN owner : owner'[e] = owner[e]
      /\ DOMAIN owner' = DOMAIN owner \cup {new}
      /\ table' \in Seq(DOMAIN owner') /\ Ascending(table')
      /\ Members' = Members \cup {new}
  BY <1>1, Installed DEF Install
<1>3. /\ Len(owner) < MaxElements /\ t \notin installed
      /\ hnd' = [hnd EXCEPT ![t] = new]
      /\ installed' = installed \cup {t} /\ edits' = edits
  BY DEF Install
<1> HIDE DEF new
<1>4. new \in DOMAIN owner' /\ new \notin DOMAIN owner /\ Members \subseteq DOMAIN owner
  BY <1>1, <1>2, Elements
<1>5. TypeOK'
  <2>1. new <= MaxElements
    BY <1>1, <1>2, <1>3, Elements, TriggersAssumption
  <2>2. /\ hnd' \in [Trigger -> DOMAIN owner' \cup {Nil}]
        /\ \A u \in Trigger : hnd'[u] # Nil => owner'[hnd'[u]] = u
    BY <1>1, <1>2, <1>3, <1>4 DEF TypeOK
  <2>3. edits' \in Seq(Edit) /\ installed' \subseteq Trigger
    BY <1>1, <1>3 DEF TypeOK
  <2>4. QED
    BY <1>2, <2>1, <2>2, <2>3 DEF TypeOK, Ascending, new
<1>6. ListInv'
  BY <1>1, <1>2, <1>3, <1>4 DEF ListInv, TypeOK
<1>7. LoopInv'
  BY <1>1, <1>2, <1>3 DEF LoopInv, depth
<1>8. QED
  BY <1>5, <1>6, <1>7 DEF TriggersInv

LEMMA RemoveStep ==
  ASSUME TriggersInv, NEW t \in Trigger, Remove(t)
  PROVE  TriggersInv'
<1>1. TypeOK /\ ListInv /\ LoopInv
  BY DEF TriggersInv
<1>2. /\ table' \in Seq(DOMAIN owner) /\ Ascending(table')
      /\ Members' = Members \ {hnd[t]}
  BY <1>1, Removed DEF Remove, Members
<1>3. /\ Free /\ hnd[t] # Nil /\ owner' = owner /\ hnd' = hnd
      /\ installed' = installed \ {t}
      /\ edits' = [n \in 1..depth |-> [edits[n] EXCEPT !.stay = @ \ {t}]]
  BY DEF Remove
<1>4. /\ edits' \in Seq(Edit) /\ depth' = depth /\ DOMAIN edits' = DOMAIN edits
      /\ \A n \in DOMAIN edits : edits'[n] = [edits[n] EXCEPT !.stay = @ \ {t}]
  <2>1. \A n \in 1..depth : [edits[n] EXCEPT !.stay = @ \ {t}] \in Edit
    BY <1>1, LastEdit DEF Edit
  <2>2. depth \in Nat /\ DOMAIN edits = 1..depth
    BY <1>1, LastEdit
  <2>3. QED
    BY <1>3, <2>1, <2>2 DEF depth
<1>5. TypeOK'
  BY <1>1, <1>2, <1>3, <1>4 DEF TypeOK, Ascending
<1>6. ListInv'
  <2>1. \A e \in Members' : hnd'[owner'[e]] = e /\ owner'[e] \in installed'
    BY <1>1, <1>2, <1>3 DEF ListInv
  <2>2. ASSUME NEW u \in installed' PROVE hnd'[u] \in Members'
    <3>1. u \in installed /\ u # t /\ u \in Trigger
      BY <1>1, <1>3 DEF TypeOK
    <3>2. hnd[u] \in Members /\ hnd[u] # Nil
      BY <3>1, <1>1, Elements DEF ListInv
    <3>3. owner[hnd[u]] = u /\ owner[hnd[t]] = t
      BY <3>1, <3>2, <1>1, <1>3 DEF TypeOK
    <3>4. QED
      BY <3>1, <3>2, <3>3, <1>2, <1>3
  <2>3. QED
    BY <2>1, <2>2 DEF ListInv
<1>7. LoopInv'
  <2> SUFFICES ASSUME NEW n \in DOMAIN edits
               PROVE  LET round == edits'[n]
                      IN  /\ round.stay \subseteq installed'
                          /\ round.phase = "walk" => ~round.called /\ round.at = Nil
                          /\ round.called => round.at \in DOMAIN owner'
                          /\ ~round.called => round.at \in Members' \cup {Nil}
                          /\ n < depth' => round.called \/ round.phase = "walk"
    BY <1>4 DEF LoopInv
  <2>1. /\ edits'[n].stay = edits[n].stay \ {t} /\ edits'[n].phase = edits[n].phase
        /\ edits'[n].called = edits[n].called /\ edits'[n].at = edits[n].at
    BY <1>1, <1>4, LastEdit DEF Edit
  <2>2. n \in 1..depth /\ depth \in Nat /\ (n = depth \/ n < depth)
    BY <1>1, LastEdit
  <2>3. n = depth => last.called \/ last.phase = "walk"
    BY <2>2, <1>3 DEF Free
  <2>4. edits[n].called \/ edits[n].phase = "walk"
    BY <2>2, <2>3, <1>1 DEF LoopInv, last
  <2>5. QED
    BY <2>1, <2>4, <1>1, <1>3, <1>4 DEF LoopInv
<1>8. QED
  BY <1>5, <1>6, <1>7 DEF TriggersInv

\* A round begins at an element of the list with all that are installed.
LEMMA RoundType ==
  ASSUME TriggersInv, NEW phase \in {"begin", "end"}
  PROVE  /\ Round(phase) \in Edit /\ Front \in Members \cup {Nil}
         /\ Round(phase).stay \subseteq installed
         /\ Round(phase).phase = phase /\ ~Round(phase).called /\ Round(phase).at = Front
         /\ Round(phase).heard = <<>>
<1>1. TypeOK /\ ListInv
  BY DEF TriggersInv
<1>2. Front \in Members \cup {Nil}
  BY <1>1, FrontElement
<1>3. Members \subseteq Element
  BY <1>1, Elements
<1>4. {owner[e] : e \in Members} \subseteq installed /\ installed \subseteq Trigger
  BY <1>1 DEF ListInv, TypeOK
<1>5. QED
  BY <1>2, <1>3, <1>4 DEF Round, Edit

LEMMA BeginStep ==
  ASSUME TriggersInv, BeginEdit
  PROVE  TriggersInv'
<1>1. TypeOK /\ ListInv /\ LoopInv
  BY DEF TriggersInv
<1>2. edits' = Append(edits, Round("begin")) /\ Still /\ Free
  BY DEF BeginEdit, Still
<1>3. Round("begin") \in Edit
  BY RoundType
<1>4. /\ edits' \in Seq(Edit) /\ depth' = depth + 1
      /\ DOMAIN edits' = DOMAIN edits \cup {depth + 1}
      /\ edits'[depth + 1] = Round("begin")
      /\ \A n \in DOMAIN edits : n < depth + 1 /\ edits'[n] = edits[n]
  BY <1>1, <1>2, <1>3, PushStack
<1>5. TypeOK' /\ ListInv' /\ Members' = Members /\ owner' = owner /\ installed' = installed
  BY <1>2, <1>4, StillList DEF Still
<1>6. \A n \in DOMAIN edits : edits[n].called \/ edits[n].phase = "walk"
  <2>1. \A n \in DOMAIN edits : n < depth \/ n = depth
    BY <1>1, LastEdit
  <2>2. depth > 0 => last.called \/ last.phase = "walk"
    BY <1>2 DEF Free
  <2>3. \A n \in DOMAIN edits : depth > 0
    BY <1>1, LastEdit
  <2>4. QED
    BY <2>1, <2>2, <2>3, <1>1 DEF LoopInv, last
<1>7. depth \in Nat
  BY <1>1, LastEdit
<1>8. LoopInv'
  BY <1>1, <1>4, <1>5, <1>6, <1>7, RoundType DEF LoopInv
<1>9. QED
  BY <1>5, <1>8 DEF TriggersInv

\* What a step of the running edit must keep of the loop.
LEMMA TopStep ==
  ASSUME TriggersInv, Still, depth > 0, NEW f \in Edit, Top(f),
         f.stay \subseteq installed,
         f.phase = "walk" => ~f.called /\ f.at = Nil,
         f.called => f.at \in DOMAIN owner,
         ~f.called => f.at \in Members \cup {Nil}
  PROVE  TriggersInv'
<1>1. TypeOK /\ ListInv /\ LoopInv
  BY DEF TriggersInv
<1>2. /\ edits' \in Seq(Edit) /\ depth' = depth /\ DOMAIN edits' = DOMAIN edits
      /\ edits'[depth] = f
      /\ \A n \in DOMAIN edits : n # depth => n < depth /\ edits'[n] = edits[n]
  BY <1>1, TopStack
<1>3. TypeOK' /\ ListInv' /\ Members' = Members /\ owner' = owner /\ installed' = installed
  BY <1>2, StillList DEF Still
<1>4. depth \in Nat
  BY <1>1, LastEdit
<1>5. LoopInv'
  BY <1>1, <1>2, <1>3, <1>4 DEF LoopInv
<1>6. QED
  BY <1>3, <1>5 DEF TriggersInv

\* An edit ends, with an error or without.
LEMMA PopStep ==
  ASSUME TriggersInv, Still, depth > 0, edits' = SubSeq(edits, 1, depth - 1)
  PROVE  TriggersInv'
<1>1. TypeOK /\ ListInv /\ LoopInv
  BY DEF TriggersInv
<1>2. /\ edits' \in Seq(Edit) /\ depth' = depth - 1
      /\ DOMAIN edits' \subseteq DOMAIN edits
      /\ \A n \in DOMAIN edits' : n < depth /\ edits'[n] = edits[n]
  BY <1>1, PopStack
<1>3. TypeOK' /\ ListInv' /\ Members' = Members /\ owner' = owner /\ installed' = installed
  BY <1>2, StillList DEF Still
<1>4. LoopInv'
  BY <1>1, <1>2, <1>3 DEF LoopInv
<1>5. QED
  BY <1>3, <1>4 DEF TriggersInv

\* The element a loop is at, and its listener.
LEMMA AtElementFacts ==
  ASSUME TriggersInv, AtElement
  PROVE  /\ last \in Edit /\ last.at \in Members /\ last.at \in DOMAIN owner
         /\ owner[last.at] \in installed /\ owner[last.at] \in Trigger
         /\ hnd[owner[last.at]] = last.at
         /\ last.stay \subseteq installed /\ last.phase # "walk"
<1>1. TypeOK /\ ListInv /\ LoopInv
  BY DEF TriggersInv
<1>2. /\ depth \in DOMAIN edits /\ last \in Edit /\ last = edits[depth]
      /\ ~last.called /\ last.at # Nil
  BY <1>1, LastEdit DEF AtElement
<1>3. last.at \in Members /\ last.stay \subseteq installed /\ last.phase # "walk"
  BY <1>1, <1>2 DEF LoopInv
<1>4. last.at \in DOMAIN owner
  BY <1>1, <1>3, Elements
<1>5. owner[last.at] \in Trigger
  BY <1>1, <1>4 DEF TypeOK
<1>6. QED
  BY <1>1, <1>2, <1>3, <1>4, <1>5 DEF ListInv

\* What the steps of a loop make of the edit's other fields.
LEMMA MovedFields ==
  ASSUME NEW r \in Edit, NEW e \in Element \cup {Nil},
         NEW f, f = [r EXCEPT !.at = e]
  PROVE  /\ f \in Edit /\ f.at = e /\ f.phase = r.phase
         /\ f.called = r.called /\ f.heard = r.heard /\ f.stay = r.stay
  BY DEF Edit

LEMMA WalkFields ==
  ASSUME NEW r \in Edit, NEW f, f = [r EXCEPT !.phase = "walk"]
  PROVE  /\ f \in Edit /\ f.at = r.at /\ f.phase = "walk"
         /\ f.called = r.called /\ f.heard = r.heard /\ f.stay = r.stay
  BY DEF Edit

LEMMA LoopStep ==
  ASSUME TriggersInv, Step \/ EditFails
  PROVE  TriggersInv'
<1>1. TypeOK /\ ListInv /\ LoopInv
  BY DEF TriggersInv
<1>2. /\ depth > 0 => depth \in DOMAIN edits /\ last \in Edit /\ last = edits[depth]
      /\ depth > 0 => last.stay \subseteq installed
  BY <1>1, LastEdit DEF LoopInv
<1>3. \A e : After(e) \in Members \cup {Nil} /\ After(e) \in Element \cup {Nil}
  BY <1>1, AfterElement, Elements
<1>4. CASE CallListener
  <2> DEFINE f == [last EXCEPT !.called = TRUE, !.heard = Append(@, owner[last.at])]
  <2>1. AtElement /\ Top(f) /\ Still /\ depth > 0
    BY <1>4 DEF CallListener, Still, AtElement
  <2>2. f = [last EXCEPT !.called = TRUE, !.heard = Append(@, owner[last.at])]
    OBVIOUS
  <2> HIDE DEF f
  <2>3. /\ f \in Edit /\ f.at = last.at /\ f.phase = last.phase
        /\ f.called /\ f.stay = last.stay
    <3>1. last \in Edit /\ owner[last.at] \in Trigger
      BY <2>1, AtElementFacts
    <3>2. last.heard \in Seq(Trigger) /\ Append(last.heard, owner[last.at]) \in Seq(Trigger)
      BY <3>1 DEF Edit
    <3>3. QED
      BY <2>2, <3>1, <3>2 DEF Edit
  <2>4. QED
    BY <2>1, <2>3, AtElementFacts, TopStep
<1>5. CASE PassOver
  <2> DEFINE f == [last EXCEPT !.at = After(last.at)]
  <2>1. AtElement /\ Top(f) /\ Still /\ depth > 0 /\ ~last.called
    BY <1>5 DEF PassOver, Still, AtElement
  <2>2. /\ f \in Edit /\ f.at = After(last.at) /\ f.phase = last.phase
        /\ ~f.called /\ f.stay = last.stay
    BY <2>1, <1>2, <1>3, MovedFields
  <2> HIDE DEF f
  <2>3. QED
    BY <2>1, <2>2, <1>3, AtElementFacts, TopStep
<1>6. CASE ListenerReturns
  <2> DEFINE f == [last EXCEPT !.called = FALSE, !.at = After(last.at)]
  <2>1. Top(f) /\ Still /\ depth > 0 /\ last.called
    BY <1>6 DEF ListenerReturns, Still
  <2>2. f = [last EXCEPT !.called = FALSE, !.at = After(last.at)]
    OBVIOUS
  <2> HIDE DEF f
  <2>3. /\ f \in Edit /\ f.at = After(last.at) /\ f.phase = last.phase
        /\ ~f.called /\ f.stay = last.stay
    <3>1. last \in Edit /\ After(last.at) \in Element \cup {Nil}
      BY <2>1, <1>2, <1>3
    <3>2. QED
      BY <2>2, <3>1 DEF Edit
  <2>4. last.phase # "walk"
    BY <2>1, <1>1, <1>2 DEF LoopInv
  <2>5. QED
    BY <2>1, <2>3, <2>4, <1>2, <1>3, TopStep
<1>7. CASE LoopEnds
  <2> DEFINE f == [last EXCEPT !.phase = "walk"]
  <2>1. Still /\ depth > 0 /\ ~last.called /\ last.at = Nil
    BY <1>7 DEF LoopEnds, Still
  <2>2. /\ f \in Edit /\ f.at = Nil /\ f.phase = "walk"
        /\ ~f.called /\ f.stay = last.stay
    BY <2>1, <1>2, WalkFields
  <2>3. Top(f) \/ edits' = SubSeq(edits, 1, depth - 1)
    BY <1>7 DEF LoopEnds
  <2> HIDE DEF f
  <2>4. CASE Top(f)
    BY <2>1, <2>2, <2>4, <1>2, TopStep
  <2>5. QED
    BY <2>1, <2>3, <2>4, PopStep
<1>8. CASE EndEdit
  <2> DEFINE f == Round("end")
  <2>1. Still /\ depth > 0 /\ Top(f)
    BY <1>8 DEF EndEdit, Still
  <2>2. /\ f \in Edit /\ f.at \in Members \cup {Nil} /\ f.phase = "end"
        /\ ~f.called /\ f.stay \subseteq installed
    BY RoundType
  <2> HIDE DEF f
  <2>3. QED
    BY <2>1, <2>2, TopStep
<1>9. CASE EditFails
  <2>1. Still /\ depth > 0 /\ edits' = SubSeq(edits, 1, depth - 1)
    BY <1>9 DEF EditFails, Still
  <2>2. QED
    BY <2>1, PopStep
<1>10. QED
  BY <1>4, <1>5, <1>6, <1>7, <1>8, <1>9 DEF Step

\* Whatever the application, the nodes and the listeners do, the invariant holds.
THEOREM TriggersInvariance == Spec => []TriggersInv
<1>1. Init => TriggersInv
  <2> SUFFICES ASSUME Init PROVE TriggersInv
    OBVIOUS
  <2>1. TypeOK
    BY TriggersAssumption DEF Init, TypeOK
  <2>2. ListInv /\ LoopInv
    BY DEF Init, ListInv, LoopInv, Members
  <2>3. QED
    BY <2>1, <2>2 DEF TriggersInv
<1>2. TriggersInv /\ [Next]_vars => TriggersInv'
  <2> SUFFICES ASSUME TriggersInv, [Next]_vars PROVE TriggersInv'
    OBVIOUS
  <2>1. CASE Step \/ EditFails
    BY <2>1, LoopStep
  <2>2. CASE BeginEdit
    BY <2>2, BeginStep
  <2>3. CASE \E t \in Trigger : Install(t) \/ Remove(t)
    BY <2>3, InstallStep, RemoveStep
  <2>4. CASE UNCHANGED vars
    BY <2>4 DEF vars, TriggersInv, TypeOK, ListInv, LoopInv, Members, depth
  <2>5. QED
    BY <2>1, <2>2, <2>3, <2>4 DEF Next
<1>3. QED
  BY <1>1, <1>2, PTL DEF Spec

\* Every variable has its type, and the list holds each element once, in the order
\* of the Installs (trigger.go 52-61).
THEOREM TypeCorrect == Spec => []TypeOK
<1>1. TriggersInv => TypeOK
  BY DEF TriggersInv
<1>2. QED
  BY <1>1, TriggersInvariance, PTL

\* The call of a listener, as a step of the running edit,
LEMMA CallTop ==
  ASSUME TriggersInv, CallListener
  PROVE  /\ DOMAIN edits' = DOMAIN edits /\ depth \in DOMAIN edits /\ last = edits[depth]
         /\ depth' = depth
         /\ edits'[depth] \in Edit
         /\ edits'[depth].at = last.at /\ edits'[depth].phase = last.phase
         /\ edits'[depth].called /\ edits'[depth].stay = last.stay
         /\ edits'[depth].heard = Append(last.heard, owner[last.at])
         /\ \A m \in DOMAIN edits : m # depth => m < depth /\ edits'[m] = edits[m]
<1> DEFINE f == [last EXCEPT !.called = TRUE, !.heard = Append(@, owner[last.at])]
<1>1. AtElement /\ Top(f) /\ depth > 0 /\ TypeOK
  BY DEF CallListener, AtElement, TriggersInv
<1>2. last \in Edit /\ owner[last.at] \in Trigger
  BY <1>1, AtElementFacts
<1>3. /\ f \in Edit /\ f.at = last.at /\ f.phase = last.phase /\ f.called
      /\ f.stay = last.stay /\ f.heard = Append(last.heard, owner[last.at])
  <2>1. last.heard \in Seq(Trigger) /\ Append(last.heard, owner[last.at]) \in Seq(Trigger)
    BY <1>2 DEF Edit
  <2>2. QED
    BY <1>2, <2>1 DEF Edit
<1> HIDE DEF f
<1>4. /\ DOMAIN edits' = DOMAIN edits /\ depth' = depth /\ edits'[depth] = f
      /\ \A m \in DOMAIN edits : m # depth => m < depth /\ edits'[m] = edits[m]
  BY <1>1, <1>3, TopStack
<1>5. depth \in DOMAIN edits /\ last = edits[depth]
  BY <1>1, LastEdit
<1>6. QED
  BY <1>3, <1>4, <1>5

\* and the step to the next element, after a call or without one.
LEMMA AdvanceTop ==
  ASSUME TriggersInv, PassOver \/ ListenerReturns
  PROVE  /\ DOMAIN edits' = DOMAIN edits /\ depth \in DOMAIN edits /\ last = edits[depth]
         /\ depth' = depth
         /\ edits'[depth] \in Edit /\ last \in Edit
         /\ edits'[depth].at = After(last.at) /\ edits'[depth].phase = last.phase
         /\ ~edits'[depth].called /\ edits'[depth].stay = last.stay
         /\ edits'[depth].heard = last.heard
         /\ \A m \in DOMAIN edits : m # depth => m < depth /\ edits'[m] = edits[m]
<1> DEFINE f == [last EXCEPT !.at = After(last.at)]
           g == [last EXCEPT !.called = FALSE, !.at = After(last.at)]
<1>1. depth > 0 /\ TypeOK
  BY DEF PassOver, ListenerReturns, AtElement, TriggersInv
<1>2. depth \in DOMAIN edits /\ last = edits[depth] /\ last \in Edit
  BY <1>1, LastEdit
<1>3. After(last.at) \in Element \cup {Nil}
  BY <1>1, AfterElement, Elements
<1>4. /\ f \in Edit /\ f.at = After(last.at) /\ f.phase = last.phase
      /\ f.called = last.called /\ f.stay = last.stay /\ f.heard = last.heard
  BY <1>2, <1>3 DEF Edit
<1>5. /\ g \in Edit /\ g.at = After(last.at) /\ g.phase = last.phase
      /\ ~g.called /\ g.stay = last.stay /\ g.heard = last.heard
  BY <1>2, <1>3 DEF Edit
<1> HIDE DEF f, g
<1>6. ASSUME NEW h \in Edit, Top(h)
      PROVE  /\ DOMAIN edits' = DOMAIN edits /\ depth' = depth /\ edits'[depth] = h
             /\ \A m \in DOMAIN edits : m # depth => m < depth /\ edits'[m] = edits[m]
  BY <1>1, <1>6, TopStack
<1>7. CASE PassOver
  <2>1. Top(f) /\ ~last.called
    BY <1>7 DEF PassOver, AtElement, f
  <2>2. QED
    BY <2>1, <1>2, <1>4, <1>6
<1>8. CASE ListenerReturns
  <2>1. Top(g)
    BY <1>8 DEF ListenerReturns, g
  <2>2. QED
    BY <2>1, <1>2, <1>5, <1>6
<1>9. QED
  BY <1>7, <1>8

\* In every other step no loop calls anybody.
LEMMA NobodyCalled ==
  ASSUME TriggersInv, [Next]_vars, ~CallListener, NEW n \in DOMAIN edits', edits'[n].called
  PROVE  n \in DOMAIN edits /\ edits[n].called
<1>1. TypeOK /\ depth \in Nat
  BY LastEdit DEF TriggersInv
<1>2. CASE PassOver \/ ListenerReturns
  BY <1>2, AdvanceTop
<1>3. CASE LoopEnds \/ EndEdit
  <2>1. /\ depth > 0 /\ last \in Edit
        /\ LoopEnds => ~last.called
    BY <1>1, <1>3, LastEdit DEF LoopEnds, EndEdit
  <2>2. ASSUME NEW h \in Edit, Top(h), ~h.called
        PROVE  n \in DOMAIN edits /\ edits[n].called
    <3>1. /\ DOMAIN edits' = DOMAIN edits /\ edits'[depth] = h
          /\ \A m \in DOMAIN edits : m # depth => edits'[m] = edits[m]
      BY <1>1, <2>1, <2>2, TopStack
    <3>2. QED
      BY <3>1, <2>2
  <2>3. CASE edits' = SubSeq(edits, 1, depth - 1)
    BY <2>1, <2>3, <1>1, PopStack
  <2>4. /\ [last EXCEPT !.phase = "walk"] \in Edit
        /\ [last EXCEPT !.phase = "walk"].called = last.called
    BY <2>1 DEF Edit
  <2>5. Round("end") \in Edit /\ ~Round("end").called
    BY RoundType
  <2>6. \/ Top([last EXCEPT !.phase = "walk"]) /\ ~last.called
        \/ edits' = SubSeq(edits, 1, depth - 1)
        \/ Top(Round("end"))
    BY <1>3 DEF LoopEnds, EndEdit
  <2>7. CASE Top([last EXCEPT !.phase = "walk"]) /\ ~last.called
    BY <2>2, <2>4, <2>7
  <2>8. CASE Top(Round("end"))
    BY <2>2, <2>5, <2>8
  <2>9. QED
    BY <2>3, <2>6, <2>7, <2>8
<1>4. CASE EditFails
  BY <1>1, <1>4, PopStack DEF EditFails
<1>5. CASE BeginEdit
  <2>1. Round("begin") \in Edit /\ ~Round("begin").called /\ edits' = Append(edits, Round("begin"))
    BY <1>5, RoundType DEF BeginEdit
  <2>2. QED
    BY <1>1, <2>1, PushStack
<1>6. ASSUME NEW t \in Trigger, Install(t)
      PROVE  n \in DOMAIN edits /\ edits[n].called
  BY <1>6 DEF Install
<1>7. ASSUME NEW t \in Trigger, Remove(t)
      PROVE  n \in DOMAIN edits /\ edits[n].called
  <2>1. edits' = [m \in 1..depth |-> [edits[m] EXCEPT !.stay = @ \ {t}]]
    BY <1>7 DEF Remove
  <2>2. n \in DOMAIN edits /\ edits[n] \in Edit /\ edits'[n] = [edits[n] EXCEPT !.stay = @ \ {t}]
    BY <1>1, <2>1, LastEdit
  <2>3. edits'[n].called = edits[n].called
    BY <2>2 DEF Edit
  <2>4. QED
    BY <2>2, <2>3
<1>8. CASE UNCHANGED vars
  BY <1>8 DEF vars
<1>9. QED
  BY <1>2, <1>3, <1>4, <1>5, <1>6, <1>7, <1>8 DEF Next, Step

\* A listener that was removed, or that was never installed, is not called: the
\* loops go from an element of the list to an element of the list (trigger.go 34-50,
\* 58-61), also when listeners are removed in the middle of their calls.
THEOREM RemovedStaysSilent == Spec => RemovedIsSilent
<1>1. TriggersInv /\ [Next]_vars =>
        [ \A t \in Trigger :
            (\E n \in DOMAIN edits' :
               /\ edits'[n].called /\ owner'[edits'[n].at] = t
               /\ n > depth \/ ~edits[n].called) => t \in installed ]_vars
  <2> SUFFICES ASSUME TriggersInv, [Next]_vars, NEW t \in Trigger, NEW n \in DOMAIN edits',
                      edits'[n].called, owner'[edits'[n].at] = t,
                      n > depth \/ ~edits[n].called
               PROVE  t \in installed
    OBVIOUS
  <2>1. TypeOK /\ depth \in Nat /\ \A m \in DOMAIN edits : m \in Nat /\ m <= depth
    BY LastEdit DEF TriggersInv
  <2>2. CASE CallListener
    <3>1. n = depth /\ edits'[n].at = last.at
      BY <2>1, <2>2, CallTop
    <3>2. owner[last.at] \in installed /\ owner' = owner
      BY <2>2, AtElementFacts DEF CallListener
    <3>3. QED
      BY <3>1, <3>2
  <2>3. CASE ~CallListener
    BY <2>1, <2>3, NobodyCalled
  <2>4. QED
    BY <2>2, <2>3
<1>2. QED
  BY <1>1, TriggersInvariance, PTL DEF Spec, RemovedIsSilent

-----------------------------------------------------------------------------
(***************************************************************************)
(* Every listener that stays is called once, in its turn.                  *)
(***************************************************************************)

\* An edit whose loop does not move keeps what it has called.
LEMMA SameHeard ==
  ASSUME Still, Members' = Members, NEW m, NEW n, edits'[m] = edits[n], HeardSoFar(edits[n])
  PROVE  HeardSoFar(edits[m])'
  BY DEF Still, HeardSoFar, Past, Turns

\* What the listeners a loop is to call remember.
LEMMA StayFacts ==
  ASSUME TriggersInv, NEW n \in DOMAIN edits
  PROVE  /\ \A t \in edits[n].stay :
              /\ t \in installed /\ t \in Trigger
              /\ hnd[t] \in Members /\ hnd[t] \in Nat /\ owner[hnd[t]] = t
         /\ edits[n] \in Edit /\ edits[n].heard \in Seq(Trigger)
<1>1. TypeOK /\ ListInv /\ LoopInv
  BY DEF TriggersInv
<1>2. edits[n].stay \subseteq installed /\ installed \subseteq Trigger
  BY <1>1 DEF LoopInv, TypeOK
<1>3. \A t \in installed : hnd[t] \in Members /\ hnd[t] \in Nat /\ hnd[t] # Nil
  BY <1>1, Elements DEF ListInv
<1>4. \A t \in installed : owner[hnd[t]] = t
  BY <1>1, <1>2, <1>3 DEF TypeOK
<1>5. edits[n] \in Edit
  BY <1>1, LastEdit
<1>6. QED
  BY <1>2, <1>3, <1>4, <1>5 DEF Edit

LEMMA HeardInstall ==
  ASSUME TriggersInv, HeardInv, NEW t \in Trigger, Install(t)
  PROVE  HeardInv'
<1>1. TypeOK
  BY DEF TriggersInv
<1>2. Members \subseteq Members'
  BY <1>1, Installed DEF Install
<1>3. edits' = edits /\ t \notin installed /\ hnd \in [Trigger -> DOMAIN owner \cup {Nil}]
      /\ \A u \in Trigger : u # t => hnd'[u] = hnd[u]
  BY <1>1 DEF Install, TypeOK
<1> SUFFICES ASSUME NEW n \in DOMAIN edits PROVE HeardSoFar(edits[n])'
  BY <1>3 DEF HeardInv
<1>4. \A u \in edits[n].stay : hnd'[u] = hnd[u]
  BY <1>3, StayFacts
<1>5. HeardSoFar(edits[n])
  BY DEF HeardInv
<1>6. Past(edits[n])' = Past(edits[n]) /\ Turns(edits[n])' = Turns(edits[n])
  BY <1>3, <1>4 DEF Past, Turns
<1>7. \A k \in Turns(edits[n]) : hnd'[edits[n].heard[k]] = hnd[edits[n].heard[k]]
  BY <1>4 DEF Turns
<1>8. QED
  BY <1>2, <1>3, <1>5, <1>6, <1>7 DEF HeardSoFar

LEMMA HeardRemove ==
  ASSUME TriggersInv, HeardInv, ~RemovesRunning, NEW t \in Trigger, Remove(t)
  PROVE  HeardInv'
<1>1. TypeOK
  BY DEF TriggersInv
<1>2. /\ Members' = Members \ {hnd[t]}
  BY <1>1, Removed DEF Remove, Members
<1>3. /\ hnd[t] # Nil /\ ~Running(t) /\ hnd' = hnd
      /\ edits' = [n \in 1..depth |-> [edits[n] EXCEPT !.stay = @ \ {t}]]
  BY DEF Remove
<1>4. DOMAIN edits' = DOMAIN edits
  BY <1>1, <1>3, LastEdit
<1> SUFFICES ASSUME NEW n \in DOMAIN edits PROVE HeardSoFar(edits[n])'
  BY <1>4 DEF HeardInv
<1> DEFINE r == edits[n]
           s == edits'[n]
<1>5. /\ s.stay = r.stay \ {t} /\ s.phase = r.phase
      /\ s.called = r.called /\ s.at = r.at /\ s.heard = r.heard
  <2>1. n \in 1..depth /\ r \in Edit /\ s = [r EXCEPT !.stay = @ \ {t}]
    BY <1>1, <1>3, LastEdit
  <2>2. QED
    BY <2>1 DEF Edit
<1>6. HeardSoFar(r)
  BY DEF HeardInv
<1>7. r.called /\ r.at \in Members => r.at # hnd[t]
  <2>1. r.called => owner[r.at] # t
    BY <1>1, <1>3, LastEdit DEF Running
  <2>2. owner[hnd[t]] = t
    BY <1>1, <1>3 DEF TypeOK
  <2>3. QED
    BY <2>1, <2>2
<1>8. Turns(edits[n])' = {k \in Turns(r) : r.heard[k] # t}
  BY <1>5 DEF Turns
<1>9. Past(edits[n])' = Past(r) \ {t}
  BY <1>3, <1>5 DEF Past
<1> HIDE DEF r, s
<1>10. edits[n]' = s
  BY DEF s
<1> DEFINE P == Past(r)
           T == Turns(r)
<1>11. /\ r.phase # "walk" =>
            /\ r.called => r.at \in Members
            /\ \A u \in P : \E k \in T : r.heard[k] = u
            /\ \A k \in T : r.heard[k] \in P
            /\ \A j, k \in T : j < k => hnd[r.heard[j]] < hnd[r.heard[k]]
  BY <1>6 DEF HeardSoFar
<1> HIDE DEF P, T
<1>12. s.phase # "walk" =>
         /\ s.called => s.at \in Members'
         /\ \A u \in P \ {t} : \E k \in {j \in T : r.heard[j] # t} : s.heard[k] = u
         /\ \A k \in {j \in T : r.heard[j] # t} : s.heard[k] \in P \ {t}
         /\ \A i, k \in {j \in T : r.heard[j] # t} :
               i < k => hnd'[s.heard[i]] < hnd'[s.heard[k]]
  BY <1>2, <1>3, <1>5, <1>7, <1>11
<1>13. QED
  BY <1>8, <1>9, <1>10, <1>12 DEF HeardSoFar, P, T

\* A round that begins has called nobody and passed nobody.
LEMMA HeardRound ==
  ASSUME TriggersInv, Still, Members' = Members, NEW phase \in {"begin", "end"}, NEW n,
         edits'[n] = Round(phase)
  PROVE  HeardSoFar(edits[n])'
<1>1. TypeOK /\ ListInv
  BY DEF TriggersInv
<1> DEFINE r == Round(phase)
<1>2. r.stay \subseteq installed /\ r.phase = phase /\ ~r.called /\ r.at = Front /\ r.heard = <<>>
  BY RoundType
<1>3. r.stay = {owner[e] : e \in Members}
  BY DEF Round
<1> HIDE DEF r
<1>4. ASSUME NEW t \in r.stay PROVE ~(r.at = Nil) /\ ~(hnd[t] < r.at)
  <2>1. hnd[t] \in Members /\ hnd[t] \in Nat
    BY <1>1, <1>2, Elements DEF ListInv
  <2>2. Front \in Members /\ Front <= hnd[t]
    BY <1>1, <2>1, FrontElement
  <2>3. Front # Nil /\ Front \in Nat
    BY <1>1, <2>2, Elements
  <2>4. QED
    BY <1>2, <2>1, <2>2, <2>3
<1>5. edits[n]' = r /\ hnd' = hnd
  BY DEF r, Still
<1>6. Past(edits[n])' = {}
  BY <1>2, <1>4, <1>5 DEF Past
<1>7. Turns(edits[n])' = {}
  BY <1>2, <1>5 DEF Turns
<1>8. QED
  BY <1>2, <1>5, <1>6, <1>7 DEF HeardSoFar

\* The listener of the element the loop is at takes its turn: it is the last so far.
LEMMA HeardCall ==
  ASSUME TriggersInv, HeardInv, CallListener
  PROVE  HeardSoFar(edits[depth])'
<1> DEFINE r == edits[depth]
           s == edits'[depth]
           t == owner[last.at]
<1>1. /\ depth \in DOMAIN edits /\ last = r /\ s \in Edit
      /\ s.at = r.at /\ s.phase = r.phase /\ s.called /\ s.stay = r.stay
      /\ s.heard = Append(r.heard, t)
  BY CallTop
<1>2. /\ r.at \in Members /\ r.at \in Nat /\ r.at # Nil /\ hnd[t] = r.at /\ r.phase # "walk"
      /\ t = owner[r.at] /\ t \in Trigger /\ r.phase \in Hears[t] /\ ~r.called
  BY <1>1, AtElementFacts, Elements DEF CallListener, AtElement, TriggersInv
<1>3. Members' = Members /\ hnd' = hnd
  BY DEF CallListener, Members
<1>4. /\ \A u \in r.stay : hnd[u] \in Nat /\ owner[hnd[u]] = u
      /\ r.heard \in Seq(Trigger)
  BY <1>1, StayFacts
<1> DEFINE n == Len(r.heard)
<1>5. /\ n \in Nat /\ DOMAIN r.heard = 1..n /\ DOMAIN s.heard = 1..(n + 1)
      /\ s.heard[n + 1] = t /\ \A k \in 1..n : s.heard[k] = r.heard[k]
  BY <1>1, <1>2, <1>4
<1>6. depth' = depth
  BY <1>1, LastEdit, CallTop DEF TriggersInv, CallListener, AtElement, depth
<1> HIDE DEF r, s, t, n
<1>7. /\ \A u \in Past(r) : \E k \in Turns(r) : r.heard[k] = u
      /\ \A k \in Turns(r) : r.heard[k] \in Past(r)
      /\ \A j, k \in Turns(r) : j < k => hnd[r.heard[j]] < hnd[r.heard[k]]
  BY <1>1, <1>2 DEF HeardInv, HeardSoFar, r
<1> DEFINE P == {u \in r.stay : u \in Past(r) \/ u = t}
           T == {k \in DOMAIN s.heard : s.heard[k] \in r.stay}
<1>8. \A u \in r.stay : u \in Past(r) <=> r.phase \in Hears[u] /\ hnd[u] < r.at
  BY <1>2 DEF Past
<1>9. Past(edits[depth])' = P
  <2>1. Past(edits[depth])' =
          {u \in r.stay : r.phase \in Hears[u] /\ (hnd[u] < r.at \/ hnd[u] = r.at)}
    BY <1>1, <1>2, <1>3, <1>6 DEF Past, s
  <2>2. \A u \in r.stay : hnd[u] = r.at <=> u = t
    BY <1>2, <1>4
  <2>3. QED
    BY <2>1, <2>2, <1>2, <1>8
<1>10. Turns(edits[depth])' = T
  BY <1>1, <1>6 DEF Turns, s
<1>11. T = {k \in 1..(n + 1) : k \in Turns(r) \/ (k = n + 1 /\ t \in r.stay)}
  BY <1>5 DEF Turns
<1>12. /\ \A k \in Turns(r) : k \in 1..n /\ s.heard[k] = r.heard[k] /\ k # n + 1
       /\ \A k \in Turns(r) : r.heard[k] \in r.stay /\ hnd[r.heard[k]] < hnd[t]
  BY <1>2, <1>5, <1>7, <1>8 DEF Turns
<1>13. \A u \in P : \E k \in T : s.heard[k] = u
  <2> SUFFICES ASSUME NEW u \in P PROVE \E k \in T : s.heard[k] = u
    OBVIOUS
  <2>1. CASE u = t
    <3>1. n + 1 \in T
      BY <2>1, <1>5, <1>11
    <3>2. QED
      BY <3>1, <2>1, <1>5
  <2>2. CASE u \in Past(r)
    <3>1. PICK k \in Turns(r) : r.heard[k] = u
      BY <2>2, <1>7
    <3>2. k \in T /\ s.heard[k] = u
      BY <3>1, <1>5, <1>11, <1>12
    <3>3. QED
      BY <3>2
  <2>3. QED
    BY <2>1, <2>2
<1>14. \A k \in T : s.heard[k] \in P
  BY <1>5, <1>7, <1>11, <1>12
<1>15. \A j, k \in T : j < k => hnd[s.heard[j]] < hnd[s.heard[k]]
  BY <1>5, <1>7, <1>11, <1>12
<1> HIDE DEF P, T
<1>16. QED
  BY <1>1, <1>2, <1>3, <1>6, <1>9, <1>10, <1>13, <1>14, <1>15 DEF HeardSoFar, s

\* Going on, the loop has passed the element it was at and no other: either it has
\* called its listener or the listener does not hear this.
LEMMA HeardAdvance ==
  ASSUME TriggersInv, HeardInv, PassOver \/ ListenerReturns
  PROVE  HeardSoFar(edits[depth])'
<1> DEFINE r == edits[depth]
           s == edits'[depth]
<1>1. /\ depth \in DOMAIN edits /\ last = r /\ r \in Edit
      /\ s.at = After(r.at) /\ s.phase = r.phase /\ ~s.called /\ s.stay = r.stay
      /\ s.heard = r.heard
  BY AdvanceTop
<1>2. TypeOK /\ LoopInv /\ depth' = depth
  BY <1>1, LastEdit, AdvanceTop DEF TriggersInv, depth
<1>3. Members' = Members /\ hnd' = hnd
  BY DEF PassOver, ListenerReturns, Members
<1>4. \A u \in r.stay : hnd[u] \in Members /\ hnd[u] \in Nat /\ owner[hnd[u]] = u
  BY <1>1, StayFacts
<1>5. /\ r.phase # "walk" /\ r.at # Nil
      /\ PassOver => ~r.called /\ r.phase \notin Hears[owner[r.at]]
      /\ ListenerReturns => r.called
  <2>1. r.phase = "walk" => ~r.called /\ r.at = Nil
    BY <1>1, <1>2 DEF LoopInv
  <2>2. /\ PassOver => ~r.called /\ r.at # Nil /\ r.phase \notin Hears[owner[r.at]]
        /\ ListenerReturns => r.called
    BY <1>1 DEF PassOver, ListenerReturns, AtElement
  <2>3. r.called => r.at \in DOMAIN owner
    BY <1>1, <1>2 DEF LoopInv
  <2>4. QED
    BY <2>1, <2>2, <2>3, <1>2, Elements
<1> HIDE DEF r, s
<1>6. /\ r.called => r.at \in Members
      /\ \A u \in Past(r) : \E k \in Turns(r) : r.heard[k] = u
      /\ \A k \in Turns(r) : r.heard[k] \in Past(r)
      /\ \A j, k \in Turns(r) : j < k => hnd[r.heard[j]] < hnd[r.heard[k]]
  BY <1>1, <1>5 DEF HeardInv, HeardSoFar, r
<1>7. r.at \in Members /\ r.at \in Nat
  <2>1. ~r.called => r.at \in Members \cup {Nil}
    BY <1>1, <1>2 DEF LoopInv, r
  <2>2. QED
    BY <2>1, <1>2, <1>5, <1>6, Elements
<1>8. \A u \in r.stay : s.at = Nil \/ hnd[u] < s.at <=> hnd[u] <= r.at
  <2>1. /\ s.at = Nil => \A e \in Members : e <= r.at
        /\ s.at # Nil => \A e \in Members : e < s.at <=> e <= r.at
    BY <1>1, <1>2, <1>7, AfterElement
  <2>2. QED
    BY <2>1, <1>4
<1>9. \A u \in r.stay : hnd[u] = r.at => owner[r.at] = u
  BY <1>4
<1>10. Past(edits[depth])' = Past(r)
  <2>1. Past(edits[depth])' =
          {u \in r.stay : r.phase \in Hears[u] /\ (s.at = Nil \/ hnd[u] < s.at)}
    BY <1>1, <1>2, <1>3 DEF Past, s
  <2>2. \A u \in r.stay : u \in Past(r) <=>
           r.phase \in Hears[u] /\ (hnd[u] < r.at \/ (r.called /\ hnd[u] = r.at))
    BY <1>5 DEF Past
  <2>3. \A u \in r.stay : r.phase \in Hears[u] =>
           (hnd[u] <= r.at <=> hnd[u] < r.at \/ (r.called /\ hnd[u] = r.at))
    BY <1>4, <1>5, <1>7, <1>9
  <2>4. QED
    BY <2>1, <2>2, <2>3, <1>8 DEF Past
<1>11. Turns(edits[depth])' = Turns(r)
  BY <1>1, <1>2 DEF Turns, s
<1>12. QED
  BY <1>1, <1>2, <1>3, <1>6, <1>10, <1>11 DEF HeardSoFar, s

\* Every step keeps what the loops have called.
LEMMA HeardStep ==
  ASSUME TriggersInv, HeardInv, ~RemovesRunning, [Next]_vars
  PROVE  HeardInv'
<1>1. TypeOK /\ \A n \in DOMAIN edits : HeardSoFar(edits[n])
  BY DEF TriggersInv, HeardInv
<1>2. /\ depth \in Nat
      /\ depth > 0 => depth \in DOMAIN edits /\ last \in Edit /\ last = edits[depth]
  BY <1>1, LastEdit
<1>3. Still => Members' = Members
  BY DEF Still, Members
<1>4. ASSUME Still, depth' = depth, DOMAIN edits' = DOMAIN edits,
             \A n \in DOMAIN edits : n # depth => edits'[n] = edits[n],
             HeardSoFar(edits[depth])'
      PROVE  HeardInv'
  <2>1. ASSUME NEW n \in DOMAIN edits PROVE HeardSoFar(edits[n])'
    <3>1. CASE n = depth
      BY <3>1, <1>4
    <3>2. CASE n # depth
      BY <3>2, <1>1, <1>3, <1>4, SameHeard
    <3>3. QED
      BY <3>1, <3>2
  <2>2. QED
    BY <2>1, <1>4 DEF HeardInv
<1>5. ASSUME Still, depth > 0, NEW f \in Edit, Top(f), HeardSoFar(edits[depth])'
      PROVE  HeardInv'
  BY <1>1, <1>4, <1>5, TopStack
<1>6. ASSUME Still, depth > 0, edits' = SubSeq(edits, 1, depth - 1)
      PROVE  HeardInv'
  <2>1. /\ DOMAIN edits' \subseteq DOMAIN edits
        /\ \A n \in DOMAIN edits' : edits'[n] = edits[n]
    BY <1>1, <1>6, PopStack
  <2>2. QED
    BY <2>1, <1>1, <1>3, <1>6, SameHeard DEF HeardInv
<1>7. CASE CallListener
  <2>1. Still
    BY <1>7 DEF CallListener, Still
  <2>2. QED
    BY <2>1, <1>4, <1>7, CallTop, HeardCall
<1>8. CASE PassOver \/ ListenerReturns
  <2>1. Still
    BY <1>8 DEF PassOver, ListenerReturns, Still
  <2>2. QED
    BY <2>1, <1>4, <1>8, AdvanceTop, HeardAdvance
<1>9. CASE LoopEnds
  <2> DEFINE f == [last EXCEPT !.phase = "walk"]
  <2>1. Still /\ depth > 0 /\ (Top(f) \/ edits' = SubSeq(edits, 1, depth - 1))
    BY <1>9 DEF LoopEnds, Still
  <2>2. f \in Edit /\ f.phase = "walk"
    BY <2>1, <1>2, WalkFields
  <2> HIDE DEF f
  <2>3. ASSUME Top(f) PROVE HeardInv'
    <3>1. edits'[depth] = f /\ depth' = depth
      BY <2>1, <2>2, <2>3, <1>1, TopStack
    <3>2. HeardSoFar(edits[depth])'
      BY <3>1, <2>2 DEF HeardSoFar
    <3>3. QED
      BY <2>1, <2>2, <2>3, <3>2, <1>5
  <2>4. QED
    BY <2>1, <2>3, <1>6
<1>10. CASE EndEdit
  <2>1. Still /\ depth > 0 /\ Top(Round("end")) /\ Round("end") \in Edit
    BY <1>10, RoundType DEF EndEdit, Still
  <2>2. edits'[depth] = Round("end") /\ depth' = depth
    BY <2>1, <1>1, TopStack
  <2>3. HeardSoFar(edits[depth])'
    BY <2>1, <2>2, <1>3, HeardRound
  <2>4. QED
    BY <2>1, <2>3, <1>5
<1>11. CASE EditFails
  BY <1>11, <1>6 DEF EditFails, Still
<1>12. CASE BeginEdit
  <2>1. Still /\ Round("begin") \in Edit /\ edits' = Append(edits, Round("begin"))
    BY <1>12, RoundType DEF BeginEdit, Still
  <2>2. /\ DOMAIN edits' = DOMAIN edits \cup {depth + 1} /\ edits'[depth + 1] = Round("begin")
        /\ \A n \in DOMAIN edits : edits'[n] = edits[n]
    BY <2>1, <1>1, PushStack
  <2>3. QED
    BY <2>1, <2>2, <1>1, <1>3, SameHeard, HeardRound DEF HeardInv
<1>13. CASE UNCHANGED vars
  BY <1>1, <1>3, <1>13, SameHeard DEF vars, Still, HeardInv
<1>14. QED
  BY <1>7, <1>8, <1>9, <1>10, <1>11, <1>12, <1>13, HeardInstall, HeardRemove DEF Next, Step

\* Unless a listener is removed while it is being called, every loop that ends
\* without an error has called each listener that was installed throughout it and
\* hears this, once, in the order of the Installs (trigger.go 34-50 and 73-76), for
\* any number of listeners that install, remove and edit at any depth.
THEOREM EverybodyHears ==
  ASSUME ~RemovesRunning
  PROVE  Spec => []EveryoneHears
<1>1. Init => HeardInv
  BY DEF Init, HeardInv
<1>2. TriggersInv /\ HeardInv /\ [Next]_vars => HeardInv'
  BY HeardStep
<1>3. TriggersInv /\ HeardInv => EveryoneHears
  <2> SUFFICES ASSUME TriggersInv, HeardInv, NEW n \in DOMAIN edits,
                      edits[n].at = Nil, edits[n].phase # "walk"
               PROVE  LET round == edits[n]
                          turns == {k \in DOMAIN round.heard : round.heard[k] \in round.stay}
                      IN  /\ {round.heard[k] : k \in turns} =
                                {t \in round.stay : round.phase \in Hears[t]}
                          /\ \A j, k \in turns :
                               j < k => hnd[round.heard[j]] < hnd[round.heard[k]]
    BY DEF EveryoneHears
  <2>1. Past(edits[n]) = {t \in edits[n].stay : edits[n].phase \in Hears[t]}
    BY DEF Past
  <2>2. HeardSoFar(edits[n])
    BY DEF HeardInv
  <2>3. QED
    BY <2>1, <2>2 DEF HeardSoFar, Turns
<1>4. QED
  BY <1>1, <1>2, <1>3, TriggersInvariance, PTL DEF Spec

=============================================================================
