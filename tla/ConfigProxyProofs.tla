--------------------------- MODULE ConfigProxyProofs ---------------------------
(***************************************************************************)
(* The config proxy: its two copies are always data nodes of the schema    *)
(* and, where the schema has no choice, the local copy behaves as if it    *)
(* had been edited itself, the remote one holds all that the local one     *)
(* does, and the two agree again after what succeeds.                      *)
(***************************************************************************)
EXTENDS ConfigProxy, MergeProofs

-----------------------------------------------------------------------------
(***************************************************************************)
(* What the steps make of the copies.                                      *)
(***************************************************************************)

\* What an edit that fails half way leaves is at each place the one or the other.
LEMMA PartialAt ==
  ASSUME NEW t, NEW m, NEW u \in Partial(t, m)
  PROVE  /\ u = [p \in Pos |-> u[p]]
         /\ \A p \in Pos : u[p] = t[p] \/ u[p] = m[p]
  BY DEF Partial

LEMMA PartialTyped ==
  ASSUME NEW t, NEW m, NEW u \in Partial(t, m), WellTyped(t), WellTyped(m)
  PROVE  WellTyped(u)
<1>1. u = [p \in Pos |-> u[p]] /\ \A p \in Pos : u[p] = t[p] \/ u[p] = m[p]
  BY PartialAt
<1>2. \A p \in Pos : Fit(p, t[p]) /\ Fit(p, m[p])
  BY FitTree
<1>3. \A p \in Pos : Fit(p, u[p])
  BY <1>1, <1>2
<1>4. u \in Tree
  BY <1>1, <1>3 DEF Tree, Fit, Data
<1>5. QED
  BY <1>3, <1>4, FitTree

\* What a request names.
LEMMA RequestFacts ==
  ASSUME op \in Requests
  PROVE  /\ op \in Request /\ op.base \in Inner /\ op.base \in Pos /\ Below[op.base] \subseteq Pos
         /\ op.kind = "delete" => op.base # Root
  BY RequestAssumption, TreeAssumption DEF Request, Inner

\* The edit that sends or saves what was collected.
Sending == [kind |-> "upsert", base |-> op.base, dir |-> "into", defaults |-> FALSE]

LEMMA UpsertedStore ==
  ASSUME op \in Requests, WellTyped(changes), NEW t, WellTyped(t), Rooted(t), t[op.base] # Absent
  PROVE  WellTyped(Upserted(t)) /\ Rooted(Upserted(t))
<1>1. Upserted(t) = Merge(Sending, changes, t)
  BY DEF Upserted, Sending
<1>2. Sending.base = op.base /\ Sending.kind # "delete" /\ Sending.base \in Inner
  BY RequestFacts DEF Sending
<1> HIDE DEF Sending
<1>3. WellTyped(Merge(Sending, changes, t))
  BY <1>2, MergeTyped
<1>4. Rooted(Merge(Sending, changes, t))
  BY <1>2, MergeRooted
<1>5. QED
  BY <1>1, <1>3, <1>4

\* What is taken out of the local copy lies strictly below what is edited.
LEMMA DeletedFacts ==
  ASSUME op \in Requests, NEW a \in Deleted
  PROVE  /\ a \in Pos /\ a \in Inner /\ a \in Below[op.base] \ {op.base}
         /\ op.base \notin Below[a] /\ Root \notin Below[a]
<1>1. a \in Below[op.base] /\ a \in Inner /\ a # op.base /\ a \in Pos
  BY DEF Deleted, Inner
<1>2. op.base \in Inner /\ op.base \in Pos
  BY RequestFacts
<1>3. op.base \notin Below[a]
  BY <1>1, <1>2, TreeAssumption
<1>4. Root \notin Below[a]
  BY <1>1, <1>2, <1>3, TreeAssumption, PosAssumption
<1>5. QED
  BY <1>1, <1>3, <1>4

LEMMA KeptStore ==
  ASSUME op \in Requests, WellTyped(local), Rooted(local), local[op.base] # Absent
  PROVE  WellTyped(Kept) /\ Rooted(Kept) /\ Kept[op.base] # Absent
<1>1. \A p \in Pos : Kept[p] = IF \E a \in Deleted : p \in Below[a] THEN Absent ELSE local[p]
  BY DEF Kept
<1>2. \A a \in Deleted : a \in Pos /\ op.base \notin Below[a] /\ Root \notin Below[a]
  BY DeletedFacts
<1>3. op.base \in Pos /\ Root \in Pos
  BY RequestFacts, PosAssumption
<1>4. Kept \in Tree /\ \A p \in Pos : Fit(p, Kept[p])
  <2>1. \A p \in Pos : Fit(p, local[p])
    BY FitTree
  <2>2. \A p \in Pos : Fit(p, Absent)
    BY TokensAssumption DEF Fit, Data
  <2>3. \A p \in Pos : Fit(p, Kept[p])
    BY <2>1, <2>2, <1>1
  <2>4. Kept \in Tree
    BY <2>3 DEF Kept, Tree, Fit, Data
  <2>5. QED
    BY <2>3, <2>4
<1>5. \A p \in Pos : \A q \in Below[p] : q \in Pos /\ \A a \in Deleted : p \in Below[a] => q \in Below[a]
  BY <1>2, TreeAssumption
<1>6. Rooted(Kept)
  <2>1. Kept[Root] = Obj
    BY <1>1, <1>2, <1>3 DEF Rooted
  <2>2. ASSUME NEW p \in Pos, NEW q \in Below[p], Kept[q] # Absent
        PROVE  Kept[p] # Absent
    <3>1. q \in Pos /\ ~\E a \in Deleted : q \in Below[a]
      BY <2>2, <1>1, <1>5
    <3>2. ~\E a \in Deleted : p \in Below[a]
      BY <3>1, <1>5
    <3>3. local[q] # Absent
      BY <2>2, <3>1, <1>1
    <3>4. local[p] # Absent
      BY <3>3 DEF Rooted
    <3>5. QED
      BY <3>2, <3>4, <1>1
  <2>3. QED
    BY <2>1, <2>2 DEF Rooted
<1>7. Kept[op.base] # Absent
  BY <1>1, <1>2, <1>3
<1>8. QED
  BY <1>4, <1>6, <1>7, FitTree

\* What is looked up to be deleted is on the way of something that is given.
LEMMA DeletedAbove ==
  ASSUME op \in Requests, NEW a \in Deleted, NEW c \in Through(op, a), c # a
  PROVE  Gives(c) # Absent
<1> DEFINE given == [q \in Pos |-> Gives(q)]
<1>1. op.base \in Inner /\ op.base \in Pos /\ Below[op.base] \subseteq Pos
  BY RequestFacts
<1>2. a \in Below[op.base] \ {op.base} /\ a \in Pos
  BY DeletedFacts
<1>3. PICK n \in DOMAIN Kids[Parent[a]] : given[Kids[Parent[a]][n]] # Absent
  <2>1. Displaced(op, given, a)
    BY DEF Deleted
  <2> HIDE DEF given
  <2>2. QED
    BY <2>1 DEF Displaced
<1>4. Parent[a] \in Pos /\ Through(op, Parent[a]) = Through(op, a) \ {a}
  BY <1>1, <1>2, ThroughParent, TreeAssumption DEF Inner
<1> DEFINE k == Kids[Parent[a]][n]
<1>5. k \in Pos /\ Parent[k] = Parent[a]
  BY <1>4, KidsAssumption
<1>6. given[k] = Given(op, from, local, k)
  BY <1>5 DEF Gives
<1> HIDE DEF given, k
<1>7. Given(op, from, local, k) # Absent
  BY <1>3, <1>6 DEF k
<1>8. Reached(op, from, Parent[k])
  BY <1>1, <1>5, <1>7, GivenAbove
<1>9. c \in Through(op, Parent[k])
  BY <1>4, <1>5
<1>10. Given(op, from, local, c) = from[c] /\ from[c] # Absent
  BY <1>1, <1>4, <1>5, <1>8, <1>9, ReachedGiven
<1>11. QED
  BY <1>10 DEF Gives

\* What is collected is a data node too: the edit writes under nothing it has not
\* made or looked up.
LEMMA WrittenStore ==
  ASSUME op \in Requests, from \in Seen
  PROVE  WellTyped(Written) /\ Rooted(Written) /\ Written[op.base] # Absent
<1>1. op.base \in Inner /\ op.base \in Pos /\ Below[op.base] \subseteq Pos /\ Root \in Pos
  BY RequestFacts, PosAssumption
<1>2. \A p \in Pos : Written[p] = IF op.base \in Below[p] \/ p \in Deleted THEN Obj ELSE Gives(p)
  BY DEF Written
<1>3. WellTyped(from)
  BY SeenFacts
<1>4. \A p \in Pos : op.base \in Below[p] \/ p \in Deleted => p \in Inner
  BY <1>1, AboveIsInner, DeletedFacts
<1>5. Written \in Tree /\ \A p \in Pos : Fit(p, Written[p])
  <2>1. \A p \in Pos : Fit(p, Gives(p))
    BY <1>3, GivenFits DEF Gives
  <2>2. \A p \in Inner : Fit(p, Obj)
    BY DEF Fit, Data, Inner
  <2>3. \A p \in Pos : Fit(p, Written[p])
    BY <2>1, <2>2, <1>2, <1>4
  <2>4. Written \in Tree
    BY <2>3 DEF Written, Tree, Fit, Data
  <2>5. QED
    BY <2>3, <2>4
<1>6. ASSUME NEW p \in Pos, op.base \in Below[p]
      PROVE  Written[p] = Obj
  BY <1>6, <1>2
<1>7. Obj # Absent
  BY TokensAssumption
<1>8. Root \in Pos /\ op.base \in Below[Root] /\ op.base \in Below[op.base]
  BY <1>1, TreeAssumption
<1>9. ASSUME NEW p \in Pos, NEW q \in Below[p], Written[q] # Absent
      PROVE  Written[p] # Absent
  <2>1. q \in Pos
    BY TreeAssumption
  <2>2. CASE op.base \in Below[q]
    <3>1. op.base \in Below[p]
      BY <2>1, <2>2, <1>1, TreeAssumption
    <3>2. QED
      BY <3>1, <1>6, <1>7
  <2>3. CASE op.base \notin Below[q]
    <3>1. q \in Below[op.base] \ {op.base}
      <4>1. CASE q \in Deleted
        BY <4>1, DeletedFacts
      <4>2. CASE q \notin Deleted
        <5>1. Given(op, from, local, q) # Absent
          BY <4>2, <2>1, <2>3, <1>2, <1>9 DEF Gives
        <5>2. QED
          BY <5>1, <2>1, <1>1, GivenAbove
      <4>3. QED
        BY <4>1, <4>2
    <3>2. op.base \in Below[p] \/ p \in Below[op.base]
      BY <3>1, <2>1, <1>1, TreeAssumption
    <3>3. CASE op.base \in Below[p]
      BY <3>3, <1>6, <1>7
    <3>4. CASE op.base \notin Below[p]
      <4>1. p \in Through(op, q)
        BY <3>2, <3>4, <1>8 DEF Through
      <4>2. CASE p = q
        BY <4>2, <1>9
      <4>3. CASE p # q
        <5>1. Gives(p) # Absent
          <6>1. CASE q \in Deleted
            BY <6>1, <4>1, <4>3, DeletedAbove
          <6>2. CASE q \notin Deleted
            <7>1. Given(op, from, local, q) # Absent
              BY <6>2, <2>1, <2>3, <1>2, <1>9 DEF Gives
            <7>2. QED
              BY <7>1, <4>1, <2>1, <1>1, GivenAbove DEF Gives
          <6>3. QED
            BY <6>1, <6>2
        <5>2. QED
          BY <5>1, <1>2, <1>7
      <4>4. QED
        BY <4>2, <4>3
    <3>5. QED
      BY <3>3, <3>4
  <2>4. QED
    BY <2>2, <2>3
<1>10. Rooted(Written)
  BY <1>6, <1>8, <1>9 DEF Rooted
<1>11. Written[op.base] # Absent
  BY <1>6, <1>7, <1>8, <1>1
<1>12. QED
  BY <1>5, <1>10, <1>11, FitTree
-----------------------------------------------------------------------------
(***************************************************************************)
(* Type correctness, for any schema.                                       *)
(***************************************************************************)

\* What the next step of a call finds: the place it is for is there.
Shape ==
  /\ status \in {"collect", "send", "save"} =>
       op.kind # "delete" /\ local[op.base] # Absent /\ from[op.base] # Absent
  /\ status \in {"send", "save"} => changes[op.base] # Absent
  /\ status \in {"collect", "send"} => remote[op.base] # Absent
  /\ status \in {"drop", "dropRemote"} => op.kind = "delete"

ShapeInv == TypeOK /\ Shape

\* A data node of the schema.
DataNode(t) == WellTyped(t) /\ Rooted(t)

LEMMA TypeParts ==
  TypeOK <=> /\ DataNode(local) /\ DataNode(remote) /\ DataNode(changes)
             /\ DataNode(before.local) /\ DataNode(before.remote)
             /\ op \in Requests /\ from \in Seen
             /\ status \in {"idle", "ok", "failed", "collect", "send", "save", "drop", "dropRemote"}
  BY DEF TypeOK, DataNode

LEMMA NothingStore == DataNode(Nothing)
<1>1. \A p \in Pos : Fit(p, Nothing[p])
  BY TokensAssumption, PosAssumption DEF Nothing, Fit, Data, Leaves, Inner
<1>2. Nothing \in Tree
  BY <1>1 DEF Nothing, Tree, Fit, Data
<1>3. \A p \in Pos : Root \in Below[p] => p = Root
  BY PosAssumption, TreeAssumption
<1>4. \A p \in Pos : Nothing[p] = IF p = Root THEN Obj ELSE Absent
  BY DEF Nothing
<1>5. Rooted(Nothing)
  BY <1>3, <1>4, PosAssumption, TreeAssumption DEF Rooted
<1>6. QED
  BY <1>1, <1>2, <1>5, FitTree DEF DataNode

LEMMA ShapeInit == Init => ShapeInv
<1> SUFFICES ASSUME Init PROVE ShapeInv
  OBVIOUS
<1>1. local \in Targets /\ remote = local /\ op \in Requests /\ from \in Seen
  BY RequestAssumption DEF Init
<1>2. DataNode(local)
  BY <1>1, RequestAssumption DEF DataNode
<1>3. before.local = local /\ before.remote = local /\ changes = Nothing /\ status = "idle"
  BY <1>1 DEF Init, Both
<1>4. TypeOK
  BY <1>1, <1>2, <1>3, NothingStore, TypeParts
<1>5. Shape
  BY <1>3 DEF Shape
<1>6. QED
  BY <1>4, <1>5 DEF ShapeInv

\* What the steps need of the state they start in, and what they make.
LEMMA StepStores ==
  ASSUME ShapeInv
  PROVE  /\ status = "collect" => DataNode(Kept) /\ DataNode(Written)
                                  /\ Kept[op.base] # Absent /\ Written[op.base] # Absent
         /\ status = "send" => DataNode(Upserted(remote))
         /\ status = "save" => DataNode(Upserted(local))
<1>1. /\ DataNode(local) /\ DataNode(remote) /\ DataNode(changes)
      /\ op \in Requests /\ from \in Seen /\ Shape
  BY TypeParts DEF ShapeInv
<1>2. CASE status = "collect"
  BY <1>1, <1>2, KeptStore, WrittenStore DEF DataNode, Shape
<1>3. CASE status = "send"
  BY <1>1, <1>3, UpsertedStore DEF DataNode, Shape
<1>4. CASE status = "save"
  BY <1>1, <1>4, UpsertedStore DEF DataNode, Shape
<1>5. QED
  BY <1>2, <1>3, <1>4

LEMMA PartialStore ==
  ASSUME NEW t, NEW m, NEW u \in Partial(t, m), DataNode(t), DataNode(m), Rooted(u)
  PROVE  DataNode(u)
  BY PartialTyped DEF DataNode

LEMMA ErasedStore ==
  ASSUME op \in Requests, op.kind = "delete", NEW t, DataNode(t)
  PROVE  DataNode(Erase(t, op.base))
  BY RequestFacts, EraseStore DEF DataNode

LEMMA ShapeStep == ShapeInv /\ [Next]_vars => ShapeInv'
<1> SUFFICES ASSUME ShapeInv, [Next]_vars PROVE ShapeInv'
  OBVIOUS
<1> USE DEF ShapeInv
<1>1. /\ DataNode(local) /\ DataNode(remote) /\ DataNode(changes)
      /\ DataNode(before.local) /\ DataNode(before.remote)
      /\ op \in Requests /\ from \in Seen /\ Shape
      /\ status \in {"idle", "ok", "failed", "collect", "send", "save", "drop", "dropRemote"}
  BY TypeParts
<1>2. TypeOK' <=> /\ DataNode(local') /\ DataNode(remote') /\ DataNode(changes')
                  /\ DataNode(before'.local) /\ DataNode(before'.remote)
                  /\ op' \in Requests /\ from' \in Seen
                  /\ status' \in {"idle", "ok", "failed", "collect", "send", "save", "drop",
                                  "dropRemote"}
  BY DEF TypeOK, DataNode
<1> USE DEF Shape
<1>3. ASSUME NEW r \in Requests, NEW src \in Seen, Call(r, src) PROVE ShapeInv'
  <2>1. /\ op' = r /\ from' = src /\ changes' = Nothing /\ UNCHANGED <<local, remote>>
        /\ before'.local = local /\ before'.remote = remote
        /\ status' = IF r.kind = "delete" THEN "drop" ELSE "collect"
        /\ local[r.base] # Absent /\ remote[r.base] # Absent /\ src[r.base] # Absent
    BY <1>3 DEF Call, Both
  <2>2. QED
    BY <1>1, <1>2, <2>1, NothingStore
<1>4. ASSUME Collect PROVE ShapeInv'
  BY <1>1, <1>2, <1>4, StepStores DEF Collect
<1>5. ASSUME CollectFails PROVE ShapeInv'
  BY <1>1, <1>2, <1>5, StepStores, PartialStore DEF CollectFails
<1>6. ASSUME Send PROVE ShapeInv'
  BY <1>1, <1>2, <1>6, StepStores DEF Send
<1>7. ASSUME SendFails PROVE ShapeInv'
  BY <1>1, <1>2, <1>7, StepStores, PartialStore DEF SendFails
<1>8. ASSUME Save PROVE ShapeInv'
  BY <1>1, <1>2, <1>8, StepStores DEF Save
<1>9. ASSUME SaveFails PROVE ShapeInv'
  BY <1>1, <1>2, <1>9, StepStores, PartialStore DEF SaveFails
<1>10. ASSUME DropLocal PROVE ShapeInv'
  BY <1>1, <1>2, <1>10, ErasedStore DEF DropLocal
<1>11. ASSUME DropRemote PROVE ShapeInv'
  BY <1>1, <1>2, <1>11, ErasedStore DEF DropRemote
<1>12. ASSUME UNCHANGED vars PROVE ShapeInv'
  BY <1>1, <1>2, <1>12 DEF vars
<1>13. QED
  BY <1>3, <1>4, <1>5, <1>6, <1>7, <1>8, <1>9, <1>10, <1>11, <1>12 DEF Next

THEOREM ProxyShape == Spec => []ShapeInv
<1>1. QED
  BY ShapeInit, ShapeStep, PTL DEF Spec

\* TypeOK: whatever is collected, sent, saved, dropped or lost half way, both copies,
\* what was collected and what the call found are data nodes of the schema.
THEOREM TypeCorrect == Spec => []TypeOK
<1>1. ShapeInv => TypeOK
  BY DEF ShapeInv
<1>2. QED
  BY <1>1, ProxyShape, PTL
-----------------------------------------------------------------------------
(***************************************************************************)
(* Without choices.  A choice among what is edited ends a call of the      *)
(* proxy with a panic (CopyOnWrite has no OnChoose for the module and the  *)
(* case that is left is deleted from the local copy at once), so what      *)
(* follows is claimed for schemas that have none.                          *)
(***************************************************************************)
NoChoice == \A p \in Pos : Case[p] = NoCase

LEMMA NoCaseFacts ==
  ASSUME NoChoice
  PROVE  /\ \A t : \A p \in Pos : Selected(t, p)
         /\ \A r, given : \A p \in Pos : ~Displaced(r, given, p)
         /\ \A t : OneCase(t)
<1>1. ASSUME NEW t, NEW p \in Pos PROVE Selected(t, p)
  BY DEF NoChoice, Selected
<1>2. ASSUME NEW r, NEW given, NEW p \in Pos PROVE ~Displaced(r, given, p)
  BY DEF NoChoice, Displaced
<1>3. ASSUME NEW t PROVE OneCase(t)
  BY DEF NoChoice, OneCase
<1>4. QED
  BY <1>1, <1>2, <1>3

\* What a data node holds below the base of an edit is reached.
LEMMA ReachedThere ==
  ASSUME NoChoice, NEW r, r.base \in Inner, NEW src, Rooted(src),
         NEW p \in Pos, p \in Below[r.base], src[p] # Absent
  PROVE  Reached(r, src, p)
<1>1. \A a \in Through(r, p) : a \in Pos /\ p \in Below[a]
  BY ThroughFacts
<1>2. QED
  BY <1>1, NoCaseFacts DEF Reached, Rooted

\* What a data node holds strictly below the base of an edit is given as it is.
LEMMA GivenThere ==
  ASSUME NoChoice, NEW r, r.base \in Inner, NEW src, Rooted(src), NEW t,
         NEW p \in Below[r.base] \ {r.base}, src[p] # Absent
  PROVE  Given(r, src, t, p) = src[p]
<1>1. p \in Pos /\ Parent[p] \in Pos /\ Parent[p] \in Below[r.base] /\ p \in Below[Parent[p]]
  BY ParentBelow DEF Inner
<1>2. src[Parent[p]] # Absent
  BY <1>1 DEF Rooted
<1>3. Reached(r, src, Parent[p])
  BY <1>1, <1>2, ReachedThere
<1>4. Selected(src, p)
  BY <1>1, NoCaseFacts
<1>5. QED
  BY <1>1, <1>3, <1>4 DEF Given

\* Without choices nothing gives way.
LEMMA PlainMerge ==
  ASSUME NoChoice, NEW r, r.base \in Inner, r.kind # "delete", NEW src, NEW t, NEW p \in Pos
  PROVE  Merge(r, src, t)[p] = IF Given(r, src, t, p) # Absent THEN Given(r, src, t, p) ELSE t[p]
<1>1. Merge(r, src, t)[p] = IF Given(r, src, t, p) # Absent THEN Given(r, src, t, p)
                            ELSE IF Through(r, p) \cap GivesWay(r, src, t) # {} THEN Absent
                            ELSE t[p]
  BY MergeAt
<1>2. \A a \in Below[r.base] : a \in Pos
  BY TreeAssumption DEF Inner
<1>3. GivesWay(r, src, t) = {}
  BY <1>2, NoCaseFacts DEF GivesWay
<1>4. QED
  BY <1>1, <1>3

LEMMA NothingDeleted ==
  ASSUME NoChoice, op \in Requests, WellTyped(local)
  PROVE  Deleted = {} /\ Kept = local
<1>1. \A p \in Below[op.base] : p \in Pos
  BY RequestFacts
<1>2. \A p \in Pos : ~Displaced(op, [q \in Pos |-> Gives(q)], p)
  BY NoCaseFacts
<1>3. Deleted = {}
  BY <1>1, <1>2 DEF Deleted
<1>4. QED
  BY <1>3 DEF Kept, WellTyped, Tree

-----------------------------------------------------------------------------
(***************************************************************************)
(* What was collected is what the edit gives, to either copy.              *)
(***************************************************************************)
Inside(p) == p \in Below[op.base] \ {op.base}

LEMMA SendingFacts ==
  ASSUME op \in Requests
  PROVE  /\ Sending.base = op.base /\ Sending.base \in Inner /\ Sending.kind = "upsert"
         /\ Sending.kind # "delete" /\ Sending.defaults = FALSE
         /\ \A p \in Pos : Through(Sending, p) = Through(op, p)
         /\ \A p \in Pos : StrategyAt(Sending, p) = "upsert"
  BY RequestFacts DEF Sending, Through, StrategyAt

LEMMA WrittenInside ==
  ASSUME NoChoice, op \in Requests, WellTyped(local), NEW p \in Pos, Inside(p)
  PROVE  Written[p] = Gives(p)
<1>1. op.base \notin Below[p]
  BY RequestFacts, AboveBase DEF Inside
<1>2. QED
  BY <1>1, NothingDeleted DEF Written

\* What was collected is put there, whatever it is put into.
LEMMA SentThere ==
  ASSUME NoChoice, op \in Requests, from \in Seen, WellTyped(local), NEW t,
         NEW p \in Pos, Inside(p), Gives(p) # Absent
  PROVE  Given(Sending, Written, t, p) = Gives(p)
<1>1. Written[p] = Gives(p)
  BY WrittenInside
<1>2. Rooted(Written)
  BY WrittenStore
<1>3. Sending.base = op.base /\ Sending.base \in Inner
  BY SendingFacts
<1>4. p \in Below[Sending.base] \ {Sending.base}
  BY <1>3 DEF Inside
<1> HIDE DEF Sending
<1>5. Given(Sending, Written, t, p) = Written[p]
  BY <1>1, <1>2, <1>3, <1>4, GivenThere
<1>6. QED
  BY <1>1, <1>5

\* An edit that is not refused fills in the defaults of what it creates, so saving
\* what it collected adds none.
LEMMA SavedGiven ==
  ASSUME NoChoice, op \in Requests, op.kind # "delete", from \in Seen,
         WellTyped(local), ~Refused(op, from, local), NEW p \in Pos
  PROVE  Given(Sending, Written, local, p) = Gives(p)
<1>1. /\ Sending.base = op.base /\ Sending.base \in Inner /\ Sending.defaults = FALSE
      /\ op.base \in Inner /\ op.base \in Pos
  BY SendingFacts, RequestFacts
<1>2. CASE ~Inside(p)
  BY <1>1, <1>2 DEF Given, Inside, Gives
<1>3. CASE Inside(p) /\ Gives(p) # Absent
  BY <1>3, SentThere
<1>4. CASE Inside(p) /\ Gives(p) = Absent
  <2> DEFINE q == Parent[p]
  <2>1. Written[p] = Absent
    BY <1>4, WrittenInside
  <2>2. q \in Pos /\ q \in Inner /\ q \in Below[op.base] /\ Through(op, q) = Through(op, p) \ {p}
    BY <1>1, <1>4, ThroughParent, TreeAssumption DEF Inside, Inner
  <2> SUFFICES ASSUME Given(Sending, Written, local, p) # Absent PROVE FALSE
    BY <1>4
  <2>3. Reached(Sending, Written, q)
    BY DEF Given
  <2>4. q # op.base /\ local[q] = Absent /\ Default[p] # Absent
    BY <2>1, <1>1 DEF Given, Fills
  <2>5. Inside(q)
    BY <2>2, <2>4 DEF Inside
  <2>6. q \in Through(op, q) /\ q \in Through(Sending, q)
    BY <2>2, <2>5, <1>1, ThroughFacts, SendingFacts DEF Inside
  <2>7. Gives(q) # Absent
    BY <2>3, <2>5, <2>6, <2>2, WrittenInside DEF Reached
  <2>8. Given(op, from, local, q) # Absent /\ from[q] # Absent
    BY <2>2, <2>7, GivenInner DEF Gives
  <2>9. Reached(op, from, q)
    <3>1. from[q] # Absent /\ Rooted(from)
      BY <2>8, SeenFacts
    <3>2. QED
      BY <3>1, <2>2, <1>1, ReachedThere
  <2>10. StrategyAt(op, Parent[q]) # "update"
    BY <2>2, <2>4, <2>5, <2>8 DEF Refused, Inside
  <2>11. StrategyAt(op, q) # "update"
    <3>1. Through(op, Parent[q]) \subseteq Through(op, q)
      BY <2>5, <1>1, ThroughParent DEF Inside
    <3>2. QED
      BY <3>1, <2>10 DEF StrategyAt
  <2>12. Fills(op, local, q)
    BY <2>4, <2>11 DEF Fills
  <2>13. Gives(p) # Absent
    BY <1>4, <2>4, <2>9, <2>12, NoCaseFacts DEF Gives, Given, Inside
  <2>14. QED
    BY <1>4, <2>13
<1>5. QED
  BY <1>2, <1>3, <1>4

\* Saving what was collected is the edit itself.
LEMMA SavedIsMerged ==
  ASSUME NoChoice, op \in Requests, op.kind # "delete", from \in Seen,
         WellTyped(local), ~Refused(op, from, local), changes = Written
  PROVE  Upserted(local) = Merge(op, from, local)
<1>1. Upserted(local) = Merge(Sending, Written, local)
  BY DEF Upserted, Sending
<1>2. /\ Sending.base \in Inner /\ Sending.kind # "delete" /\ op.base \in Inner
  BY SendingFacts, RequestFacts
<1>3. \A p \in Pos : Given(Sending, Written, local, p) = Given(op, from, local, p)
  BY SavedGiven DEF Gives
<1> HIDE DEF Sending
<1>4. ASSUME NEW p \in Pos
      PROVE  Merge(Sending, Written, local)[p] = Merge(op, from, local)[p]
  <2>1. Merge(Sending, Written, local)[p] =
          IF Given(Sending, Written, local, p) # Absent THEN Given(Sending, Written, local, p)
          ELSE local[p]
    BY <1>2, PlainMerge
  <2>2. Merge(op, from, local)[p] =
          IF Given(op, from, local, p) # Absent THEN Given(op, from, local, p) ELSE local[p]
    BY <1>2, PlainMerge
  <2>3. QED
    BY <1>3, <2>1, <2>2
<1>5. /\ Merge(Sending, Written, local) = [p \in Pos |-> Merge(Sending, Written, local)[p]]
      /\ Merge(op, from, local) = [p \in Pos |-> Merge(op, from, local)[p]]
  BY <1>2, MergeAt
<1>6. QED
  BY <1>1, <1>4, <1>5
-----------------------------------------------------------------------------
(***************************************************************************)
(* The invariant of a proxy without choices.                               *)
(***************************************************************************)

\* What the edit may change: it gives a container, a list or an item only where the
\* source has one, and a leaf there or where it has a default.
Touched(p) == Inside(p) /\ (p \in Leaves \/ from[p] # Absent)

\* Until the last step of a call the copy it ends with is the one it found, and what
\* was collected is what the edit gives to that copy.
Phases ==
  /\ ~Resting => ~refused /\ before.local[op.base] # Absent /\ from[op.base] # Absent
  /\ status \in {"collect", "send", "save", "drop"} => local = before.local
  /\ status \in {"collect", "send", "drop", "dropRemote"} => remote = before.remote
  /\ status \in {"send", "save"} => changes = Written /\ ~Refused(op, from, local)
  /\ status = "save" => remote = Upserted(before.remote)
  /\ status = "dropRemote" => local = Erase(before.local, op.base)

\* Attempts at the same upsert leave alone what it does not change; the one that
\* succeeds brings both copies to what was given.
Attempts ==
  op.kind = "upsert" =>
    /\ \A p \in Pos : ~Touched(p) => local[p] = first.local[p] /\ remote[p] = first.remote[p]
    /\ status = "ok" =>
         \A p \in Pos : Inside(p) /\ from[p] # Absent => local[p] = from[p] /\ remote[p] = from[p]

Covered == \A p \in Pos : local[p] # Absent => remote[p] # Absent
Refusals ==
  refused => local = IF op.kind = "delete" THEN Erase(before.local, op.base) ELSE before.local
Agreement == status = "ok" /\ Agree(before) => local = remote

ProxyInv == ShapeInv /\ Phases /\ Attempts /\ Covered /\ Refusals /\ Agreement

-----------------------------------------------------------------------------
\* Sending or saving adds to a copy and replaces in it, and takes nothing away.
LEMMA UpsertedAt ==
  ASSUME NoChoice, op \in Requests, NEW t, NEW p \in Pos
  PROVE  Upserted(t)[p] = IF Given(Sending, changes, t, p) # Absent
                          THEN Given(Sending, changes, t, p) ELSE t[p]
<1>1. Upserted(t) = Merge(Sending, changes, t)
  BY DEF Upserted, Sending
<1>2. Sending.base \in Inner /\ Sending.kind # "delete"
  BY SendingFacts
<1> HIDE DEF Sending
<1>3. QED
  BY <1>1, <1>2, PlainMerge

LEMMA UpsertedGrows ==
  ASSUME NoChoice, op \in Requests, NEW t, NEW p \in Pos, t[p] # Absent
  PROVE  Upserted(t)[p] # Absent
  BY UpsertedAt

LEMMA UpsertedGives ==
  ASSUME NoChoice, op \in Requests, from \in Seen, WellTyped(local), changes = Written,
         NEW t, NEW p \in Pos, Gives(p) # Absent
  PROVE  Upserted(t)[p] = Gives(p)
<1>1. Inside(p)
  BY DEF Gives, Given, Inside
<1>2. Given(Sending, changes, t, p) = Gives(p)
  BY <1>1, SentThere
<1>3. QED
  BY <1>2, UpsertedAt

LEMMA UpsertedSource ==
  ASSUME NoChoice, op \in Requests, from \in Seen, WellTyped(local), changes = Written,
         NEW t, NEW p \in Pos, Inside(p), from[p] # Absent
  PROVE  Upserted(t)[p] = from[p]
<1>1. op.base \in Inner /\ Rooted(from)
  BY RequestFacts, SeenFacts
<1>2. Gives(p) = from[p]
  BY <1>1, GivenThere DEF Gives, Inside
<1>3. QED
  BY <1>2, UpsertedGives

LEMMA UpsertedUntouched ==
  ASSUME NoChoice, op \in Requests, from \in Seen, WellTyped(local), changes = Written,
         NEW t, NEW p \in Pos, ~Touched(p)
  PROVE  Upserted(t)[p] = t[p]
<1>1. CASE ~Inside(p)
  <2>1. Given(Sending, changes, t, p) = Absent
    BY <1>1, SendingFacts DEF Given, Inside
  <2>2. QED
    BY <2>1, UpsertedAt
<1>2. CASE Inside(p)
  <2>1. p \in Inner /\ from[p] = Absent
    BY <1>2 DEF Touched, Inner
  <2>2. Written[p] = Absent
    BY <1>2, <2>1, WrittenInside, GivenInner DEF Gives
  <2>3. Given(Sending, changes, t, p) = Absent
    BY <2>1, <2>2, GivenInner
  <2>4. QED
    BY <2>3, UpsertedAt
<1>3. QED
  BY <1>1, <1>2

\* What saving puts into the local copy, sending has put into the remote one.
LEMMA SavedIsSent ==
  ASSUME NoChoice, op \in Requests, op.kind # "delete", from \in Seen, WellTyped(local),
         changes = Written, ~Refused(op, from, local),
         NEW t, NEW p \in Pos, local[p] # Absent => Upserted(t)[p] # Absent,
         Upserted(local)[p] # Absent
  PROVE  Upserted(t)[p] # Absent
<1>1. Given(Sending, changes, local, p) = Gives(p)
  BY SavedGiven
<1>2. CASE Gives(p) # Absent
  BY <1>2, UpsertedGives
<1>3. CASE Gives(p) = Absent
  BY <1>1, <1>3, UpsertedAt
<1>4. QED
  BY <1>2, <1>3

\* What was collected is the same as long as what it was made from is.
LEMMA WrittenStays ==
  ASSUME op' = op, from' = from, local' = local
  PROVE  Written' = Written
  BY DEF Written, Deleted, Gives

\* An edit that did nothing before it failed.
LEMMA PartialSame ==
  ASSUME NEW t, WellTyped(t), NEW u \in Partial(t, t)
  PROVE  u = t
<1>1. u = [p \in Pos |-> u[p]] /\ \A p \in Pos : u[p] = t[p]
  BY PartialAt
<1>2. t = [p \in Pos |-> t[p]]
  BY DEF WellTyped, Tree
<1>3. QED
  BY <1>1, <1>2

LEMMA ProxyInit == Init => ProxyInv
<1> SUFFICES ASSUME Init PROVE ProxyInv
  OBVIOUS
<1>1. ShapeInv
  BY ShapeInit
<1>2. /\ local = remote /\ status = "idle" /\ refused = FALSE
      /\ first.local = local /\ first.remote = remote
  BY DEF Init, Both
<1>3. QED
  BY <1>1, <1>2 DEF ProxyInv, Phases, Attempts, Covered, Refusals, Agreement, Resting
\* Everything but the types, to be shown of the next state.
ProxyRest == Phases /\ Attempts /\ Covered /\ Refusals /\ Agreement

\* What the steps may rely on.
LEMMA ProxyFacts ==
  ASSUME NoChoice, ProxyInv
  PROVE  /\ op \in Requests /\ from \in Seen /\ op.base \in Pos
         /\ WellTyped(local) /\ WellTyped(remote) /\ Kept = local
         /\ status \in {"collect", "send", "save"} =>
              op.kind # "delete" /\ local[op.base] # Absent /\ from[op.base] # Absent
         /\ status \in {"drop", "dropRemote"} => op.kind = "delete"
<1>1. /\ op \in Requests /\ from \in Seen /\ WellTyped(local) /\ WellTyped(remote) /\ Shape
  BY TypeParts DEF ProxyInv, ShapeInv, DataNode
<1>2. QED
  BY <1>1, NothingDeleted, RequestFacts DEF Shape

LEMMA CallRest ==
  ASSUME NoChoice, ProxyInv, NEW r \in Requests, NEW src \in Seen, Call(r, src)
  PROVE  ProxyRest'
<1>1. /\ op' = r /\ from' = src /\ UNCHANGED <<local, remote>> /\ refused' = FALSE
      /\ before'.local = local /\ before'.remote = remote
      /\ status' = IF r.kind = "delete" THEN "drop" ELSE "collect"
      /\ local[r.base] # Absent /\ src[r.base] # Absent
      /\ first' = (IF status = "failed" /\ r = op /\ src = from THEN first ELSE Both)
  BY DEF Call, Both
<1>2. Phases'
  BY <1>1 DEF Phases
<1>3. Attempts'
  <2>1. CASE status = "failed" /\ r = op /\ src = from
    BY <1>1, <2>1 DEF ProxyInv, Attempts, Touched, Inside
  <2>2. CASE ~(status = "failed" /\ r = op /\ src = from)
    <3>1. first'.local = local' /\ first'.remote = remote'
      BY <1>1, <2>2 DEF Both
    <3>2. QED
      BY <1>1, <3>1 DEF Attempts
  <2>3. QED
    BY <2>1, <2>2
<1>4. Covered' /\ Refusals' /\ Agreement'
  BY <1>1 DEF ProxyInv, Covered, Refusals, Agreement
<1>5. QED
  BY <1>2, <1>3, <1>4 DEF ProxyRest

LEMMA CollectRest ==
  ASSUME NoChoice, ProxyInv, Collect \/ CollectFails
  PROVE  ProxyRest'
<1>1. /\ op' = op /\ from' = from /\ UNCHANGED <<remote, before, first>>
      /\ status = "collect" /\ op.kind # "delete"
  BY ProxyFacts DEF Collect, CollectFails
<1>2. local' = local
  BY ProxyFacts, PartialSame DEF Collect, CollectFails
<1>3. Phases'
  <2>1. CASE Collect
    <3>1. changes' = Written' /\ ~Refused(op, from, local) /\ status' = "send"
          /\ refused' = refused
      BY <2>1, <1>1, <1>2, WrittenStays DEF Collect
    <3>2. QED
      BY <3>1, <1>1, <1>2 DEF ProxyInv, Phases, Resting
  <2>2. CASE CollectFails
    BY <2>2 DEF Phases, CollectFails, Resting
  <2>3. QED
    BY <2>1, <2>2
<1>4. status' # "ok" /\ status' \in {"send", "failed"}
  BY DEF Collect, CollectFails
<1>5. Attempts'
  BY <1>1, <1>2, <1>4 DEF ProxyInv, Attempts, Touched, Inside
<1>6. Covered' /\ Refusals' /\ Agreement'
  <2>1. local = before.local
    BY <1>1 DEF ProxyInv, Phases
  <2>2. Refusals'
    BY <2>1, <1>1, <1>2 DEF Refusals
  <2>3. QED
    BY <2>2, <1>1, <1>2, <1>4 DEF ProxyInv, Covered, Agreement
<1>7. QED
  BY <1>3, <1>5, <1>6 DEF ProxyRest

\* A copy after an edit that sent or saved all, or only part, of what was collected.
LEMMA PartialUpserted ==
  ASSUME NoChoice, op \in Requests, from \in Seen, WellTyped(local), changes = Written,
         NEW t, NEW u, u = Upserted(t) \/ u \in Partial(t, Upserted(t))
  PROVE  /\ \A p \in Pos : t[p] # Absent => u[p] # Absent
         /\ \A p \in Pos : ~Touched(p) => u[p] = t[p]
         /\ \A p \in Pos : u[p] = t[p] \/ u[p] = Upserted(t)[p]
  BY PartialAt, UpsertedGrows, UpsertedUntouched

LEMMA SendRest ==
  ASSUME NoChoice, ProxyInv, Send \/ SendFails
  PROVE  ProxyRest'
<1>1. /\ op' = op /\ from' = from /\ UNCHANGED <<local, changes, before, first>>
      /\ status = "send" /\ op.kind # "delete"
      /\ remote' = Upserted(remote) \/ remote' \in Partial(remote, Upserted(remote))
  BY ProxyFacts DEF Send, SendFails
<1>2. /\ changes = Written /\ ~Refused(op, from, local) /\ ~refused
      /\ local = before.local /\ remote = before.remote
      /\ before.local[op.base] # Absent /\ from[op.base] # Absent
  BY <1>1 DEF ProxyInv, Phases, Resting
<1>3. /\ \A p \in Pos : remote[p] # Absent => remote'[p] # Absent
      /\ \A p \in Pos : ~Touched(p) => remote'[p] = remote[p]
  <2>1. op \in Requests /\ from \in Seen /\ WellTyped(local)
    BY ProxyFacts
  <2>2. QED
    BY <1>1, <1>2, <2>1, PartialUpserted, SMTT(60)
<1>4. Phases'
  <2>1. CASE Send
    <3>1. status' = "save" /\ refused' = refused /\ remote' = Upserted(before.remote)'
      BY <2>1, <1>1, <1>2 DEF Send, Upserted
    <3>2. changes' = Written'
      BY <1>1, <1>2, WrittenStays
    <3>3. QED
      BY <3>1, <3>2, <1>1, <1>2 DEF Phases
  <2>2. CASE SendFails
    BY <2>2 DEF Phases, SendFails, Resting
  <2>3. QED
    BY <1>1, <2>1, <2>2 DEF ProxyInv
<1>5. status' # "ok"
  BY DEF Send, SendFails
<1>6. Attempts'
  BY <1>1, <1>3, <1>5 DEF ProxyInv, Attempts, Touched, Inside
<1>7. Covered' /\ Refusals' /\ Agreement'
  <2>1. Refusals'
    BY <1>1, <1>2 DEF Refusals
  <2>2. QED
    BY <2>1, <1>1, <1>2, <1>3, <1>5 DEF ProxyInv, Covered, Agreement
<1>8. QED
  BY <1>4, <1>6, <1>7 DEF ProxyRest

LEMMA SaveRest ==
  ASSUME NoChoice, ProxyInv, Save \/ SaveFails
  PROVE  ProxyRest'
<1>1. /\ op' = op /\ from' = from /\ UNCHANGED <<remote, changes, before, first, refused>>
      /\ status = "save"
      /\ local' = Upserted(local) \/ local' \in Partial(local, Upserted(local))
  BY DEF Save, SaveFails
<1>2. /\ changes = Written /\ ~Refused(op, from, local) /\ ~refused
      /\ local = before.local /\ remote = Upserted(before.remote)
  BY <1>1 DEF ProxyInv, Phases, Resting
<1>3. /\ \A p \in Pos : ~Touched(p) => local'[p] = local[p]
      /\ \A p \in Pos : local'[p] = local[p] \/ local'[p] = Upserted(local)[p]
  <2>1. op \in Requests /\ from \in Seen /\ WellTyped(local)
    BY ProxyFacts
  <2>2. QED
    BY <1>1, <1>2, <2>1, PartialUpserted
<1>4. status' \in {"ok", "failed"} /\ (status' = "ok" => local' = Upserted(local))
  BY DEF Save, SaveFails
<1>5. Phases'
  BY <1>4 DEF Phases, Resting
<1>6. Covered'
  <2>1. \A p \in Pos : local[p] # Absent => Upserted(before.remote)[p] # Absent
    BY <1>2 DEF ProxyInv, Covered
  <2>2. \A p \in Pos : Upserted(local)[p] # Absent => Upserted(before.remote)[p] # Absent
    BY <2>1, <1>1, <1>2, ProxyFacts, SavedIsSent
  <2>3. QED
    BY <2>1, <2>2, <1>1, <1>2, <1>3 DEF Covered
<1>7. Attempts'
  <2>1. \A p \in Pos : Inside(p) /\ from[p] # Absent =>
          Upserted(local)[p] = from[p] /\ Upserted(before.remote)[p] = from[p]
    BY <1>2, ProxyFacts, UpsertedSource
  <2>2. QED
    BY <2>1, <1>1, <1>2, <1>3, <1>4 DEF ProxyInv, Attempts, Touched, Inside
<1>8. Refusals' /\ Agreement'
  BY <1>1, <1>2, <1>4 DEF Refusals, Agreement, Agree
<1>9. QED
  BY <1>5, <1>6, <1>7, <1>8 DEF ProxyRest

LEMMA EraseAt ==
  ASSUME NEW t, NEW b, NEW p \in Pos
  PROVE  Erase(t, b)[p] = IF p \in Below[b] THEN Absent ELSE t[p]
  BY DEF Erase

LEMMA DropLocalRest ==
  ASSUME NoChoice, ProxyInv, DropLocal
  PROVE  ProxyRest'
<1>1. /\ op' = op /\ from' = from /\ UNCHANGED <<remote, before, first, refused>>
      /\ status = "drop" /\ op.kind = "delete"
      /\ \/ local' = Erase(local, op.base) /\ status' = "dropRemote"
         \/ local' = local /\ status' = "failed"
  BY ProxyFacts DEF DropLocal
<1>2. /\ ~refused /\ local = before.local /\ remote = before.remote
      /\ before.local[op.base] # Absent /\ from[op.base] # Absent
  BY <1>1 DEF ProxyInv, Phases, Resting
<1>3. Phases'
  <2>1. CASE local' = Erase(local, op.base) /\ status' = "dropRemote"
    <3>1. local' = Erase(before'.local, op'.base)
      BY <2>1, <1>1, <1>2
    <3>2. QED
      BY <2>1, <3>1, <1>1, <1>2 DEF Phases
  <2>2. CASE local' = local /\ status' = "failed"
    BY <2>2 DEF Phases, Resting
  <2>3. QED
    BY <1>1, <2>1, <2>2
<1>4. Attempts' /\ Refusals' /\ Agreement'
  BY <1>1, <1>2 DEF Attempts, Refusals, Agreement
<1>5. Covered'
  <2>1. \A p \in Pos : local'[p] # Absent => local[p] # Absent
    BY <1>1, EraseAt
  <2>2. QED
    BY <2>1, <1>1 DEF ProxyInv, Covered
<1>6. QED
  BY <1>3, <1>4, <1>5 DEF ProxyRest

LEMMA DropRemoteRest ==
  ASSUME NoChoice, ProxyInv, DropRemote
  PROVE  ProxyRest'
<1>1. /\ op' = op /\ from' = from /\ UNCHANGED <<local, before, first>>
      /\ status = "dropRemote" /\ op.kind = "delete"
      /\ \/ remote' = Erase(remote, op.base) /\ status' = "ok"
         \/ remote' = remote /\ status' = "failed"
  BY ProxyFacts DEF DropRemote
<1>2. ~refused /\ remote = before.remote /\ local = Erase(before.local, op.base)
  BY <1>1 DEF ProxyInv, Phases, Resting
<1>3. Phases'
  BY <1>1 DEF Phases, Resting
<1>4. Attempts' /\ Refusals'
  BY <1>1, <1>2 DEF Attempts, Refusals
<1>5. Agreement'
  BY <1>1, <1>2 DEF Agreement, Agree
<1>6. Covered'
  <2>1. \A p \in Pos : local[p] # Absent => p \notin Below[op.base]
    BY <1>2, EraseAt
  <2>2. \A p \in Pos : p \notin Below[op.base] => remote'[p] = remote[p]
    BY <1>1, EraseAt
  <2>3. QED
    BY <2>1, <2>2, <1>1 DEF ProxyInv, Covered
<1>7. QED
  BY <1>3, <1>4, <1>5, <1>6 DEF ProxyRest

LEMMA ProxyStep == NoChoice /\ ProxyInv /\ [Next]_vars => ProxyInv'
<1> SUFFICES ASSUME NoChoice, ProxyInv, [Next]_vars PROVE ProxyInv'
  OBVIOUS
<1>1. ShapeInv'
  BY ShapeStep DEF ProxyInv
<1>2. ASSUME UNCHANGED vars PROVE ProxyRest'
  <2>1. Written' = Written
    BY <1>2, WrittenStays DEF vars
  <2>2. Phases'
    BY <1>2, <2>1 DEF vars, ProxyInv, Phases, Resting, Upserted
  <2>3. Attempts'
    BY <1>2 DEF vars, ProxyInv, Attempts, Touched, Inside
  <2>4. Covered' /\ Refusals' /\ Agreement'
    BY <1>2 DEF vars, ProxyInv, Covered, Refusals, Agreement, Agree
  <2>5. QED
    BY <2>2, <2>3, <2>4 DEF ProxyRest
<1>3. ProxyRest'
  BY <1>2, CallRest, CollectRest, SendRest, SaveRest, DropLocalRest, DropRemoteRest DEF Next
<1>4. QED
  BY <1>1, <1>3 DEF ProxyInv, ProxyRest

THEOREM ProxyInvariance == ASSUME NoChoice PROVE Spec => []ProxyInv
<1>1. Init => ProxyInv
  BY ProxyInit
<1>2. ProxyInv /\ [Next]_vars => ProxyInv'
  BY ProxyStep
<1>3. QED
  BY <1>1, <1>2, PTL DEF Spec

\* RemoteFirst: whatever failed before, the local copy holds nothing the remote one
\* does not; a write the remote node refused has left it alone, and a deletion that
\* it refused has erased it.
THEOREM NothingOnlyLocal == ASSUME NoChoice PROVE Spec => []RemoteFirst
<1>1. ProxyInv => RemoteFirst
  BY DEF ProxyInv, Covered, Refusals, RemoteFirst
<1>2. QED
  BY <1>1, ProxyInvariance, PTL

\* CopiesAgree: copies that agree still do after what succeeds, and after failed
\* attempts at the same upsert differ in nothing but the defaults of leaves.
THEOREM CopiesStayTogether == ASSUME NoChoice PROVE Spec => []CopiesAgree
<1>1. ASSUME ProxyInv PROVE CopiesAgree
  <2>1. ASSUME status = "ok", op.kind = "upsert", Agree(first), NEW p \in Pos,
               local[p] # remote[p]
        PROVE  p \in Leaves /\ from[p] = Absent
    <3>1. Touched(p)
      BY <1>1, <2>1 DEF ProxyInv, Attempts, Agree
    <3>2. from[p] = Absent
      BY <1>1, <2>1, <3>1 DEF ProxyInv, Attempts, Touched
    <3>3. QED
      BY <3>1, <3>2 DEF Touched
  <2>2. QED
    BY <1>1, <2>1 DEF ProxyInv, Agreement, CopiesAgree
<1>2. QED
  BY <1>1, ProxyInvariance, PTL
-----------------------------------------------------------------------------
(***************************************************************************)
(* The local copy implements DataStore.                                    *)
(***************************************************************************)

\* The instance speaks of the same merge.
LEMMA SameGiven ==
  ASSUME NEW r, NEW src, NEW t, NEW p
  PROVE  Store!Given(r, src, t, p) = Given(r, src, t, p)
<1>1. \A a : Store!Selected(src, a) = Selected(src, a)
  BY DEF Store!Selected, Selected, Store!Choosable, Choosable, Store!Cases, Cases
<1>2. \A q : Store!Through(r, q) = Through(r, q)
  BY DEF Store!Through, Through
<1>3. \A q : Store!StrategyAt(r, q) = StrategyAt(r, q)
  BY <1>2 DEF Store!StrategyAt, StrategyAt
<1>4. \A q : Store!Reached(r, src, q) = Reached(r, src, q)
  BY <1>1, <1>2 DEF Store!Reached, Reached
<1>5. \A q : Store!Fills(r, t, q) = Fills(r, t, q)
  BY <1>3 DEF Store!Fills, Fills
<1>6. QED
  BY <1>1, <1>4, <1>5 DEF Store!Given, Given
LEMMA SameMerge ==
  ASSUME NEW r, NEW src, NEW t
  PROVE  Store!Merge(r, src, t) = Merge(r, src, t)
<1> DEFINE given == [p \in Pos |-> Given(r, src, t, p)]
<1>1. \A p : Store!Given(r, src, t, p) = Given(r, src, t, p)
  BY SameGiven
<1>2. [p \in Pos |-> Store!Given(r, src, t, p)] = given
  BY <1>1
<1>3. \A p : Store!Through(r, p) = Through(r, p)
  BY DEF Store!Through, Through
<1>4. \A a : Store!StrategyAt(r, a) = StrategyAt(r, a)
  BY <1>3 DEF Store!StrategyAt, StrategyAt
<1>5. ASSUME NEW a PROVE Store!Displaced(r, given, a) <=> Displaced(r, given, a)
  <2> HIDE DEF given
  <2>1. Store!StrategyAt(r, Parent[a]) = StrategyAt(r, Parent[a])
    BY <1>4
  <2>2. QED
    BY <2>1 DEF Store!Displaced, Displaced
<1>6. Store!Erase(t, r.base) = Erase(t, r.base)
  BY DEF Store!Erase, Erase
<1> DEFINE gone == {a \in Below[r.base] \ {r.base} : Displaced(r, given, a)}
           merged == [p \in Pos |-> IF given[p] # Absent THEN given[p]
                                   ELSE IF Through(r, p) \cap gone # {} THEN Absent ELSE t[p]]
<1>7. Merge(r, src, t) = IF r.kind = "delete" THEN Erase(t, r.base) ELSE merged
  BY DEF Merge
<1> HIDE DEF given
<1>8. {a \in Below[r.base] \ {r.base} : Store!Displaced(r, given, a)} = gone
  BY <1>5
<1> HIDE DEF gone
<1>9. [p \in Pos |-> IF given[p] # Absent THEN given[p]
                     ELSE IF Store!Through(r, p) \cap gone # {} THEN Absent ELSE t[p]] = merged
  BY <1>3
<1> HIDE DEF merged
<1>10. QED
  BY <1>2, <1>6, <1>7, <1>8, <1>9 DEF Store!Merge

LEMMA SameRefused ==
  ASSUME NEW r, NEW src, NEW t
  PROVE  Store!Refused(r, src, t) = Refused(r, src, t)
<1>1. \A p : Store!Given(r, src, t, p) = Given(r, src, t, p)
  BY SameGiven
<1>2. \A p : Store!Through(r, p) = Through(r, p)
  BY DEF Store!Through, Through
<1>3. \A a : Store!StrategyAt(r, a) = StrategyAt(r, a)
  BY <1>2 DEF Store!StrategyAt, StrategyAt
<1>4. Store!Inner = Inner
  BY DEF Store!Inner, Inner, Store!Leaves, Leaves
<1>5. QED
  BY <1>1, <1>3, <1>4 DEF Store!Refused, Refused

LEMMA SameBetween ==
  ASSUME NEW r, NEW src, NEW t, NEW u
  PROVE  /\ Store!Between(r, src, t, u) = Between(r, src, t, u)
         /\ Store!Tree = Tree /\ Store!OneCase(t) = OneCase(t)
<1>1. Store!Merge(r, src, t) = Merge(r, src, t)
  BY SameMerge
<1>2. Store!Rooted(u) = Rooted(u)
  BY DEF Store!Rooted, Rooted
<1>3. QED
  BY <1>1, <1>2 DEF Store!Between, Between, Store!Tree, Tree, Store!OneCase, OneCase

\* And of the same views of the sources.
LEMMA SameSeen == Store!Seen = Seen
<1>1. \A t, p, ch : Store!Choosable(t, p, ch) = Choosable(t, p, ch)
  BY DEF Store!Choosable, Choosable, Store!Cases, Cases
<1>2. Store!Cases = Cases
  BY DEF Store!Cases, Cases
<1>3. ASSUME NEW t PROVE Store!Views(t) = Views(t)
  BY <1>1, <1>2, Zenon DEF Store!Views, Views
<1>4. QED
  BY <1>3, Zenon DEF Store!Seen, Seen

\* What a step shows of a call that ends.
LEMMA SeenAbort ==
  ASSUME ~Resting, Resting', op' = op, from' = from, status' = "failed",
         local' \in Tree, Between(op, from, before.local, local')
  PROVE  Store!Abort
  BY SameBetween DEF Store!Abort

LEMMA SeenCommit ==
  ASSUME NoChoice, ~Resting, Resting', op' = op, from' = from, status' = "ok",
         ~Refused(op, from, before.local), local' = Merge(op, from, before.local),
         local' \in Tree, Rooted(local')
  PROVE  Store!Commit
<1>1. Store!OneCase(before.local) /\ ~Store!Refused(op, from, before.local)
      /\ Store!Merge(op, from, before.local) = Merge(op, from, before.local)
  BY NoCaseFacts, SameBetween, SameRefused, SameMerge
<1>0. Between(op, from, before.local, local')
  BY DEF Between
<1> DEFINE m == Merge(op, from, before.local)
<1>2. /\ local' \in Store!Tree /\ Store!Between(op, from, before.local, local')
      /\ Store!Merge(op, from, before.local) = m /\ local' = m
  BY <1>0, <1>1, SameBetween
<1> HIDE DEF m
<1>3. QED
  BY <1>1, <1>2 DEF Store!Commit

LEMMA SeenSilent ==
  ASSUME ~Resting, ~Resting', op' = op, from' = from, before' = before
  PROVE  UNCHANGED Store!vars
  BY DEF Store!vars
\* An edit that fails half way leaves what the abstract one may leave.
LEMMA PartialBetween ==
  ASSUME NEW t, NEW m, NEW u \in Partial(t, m), Rooted(u), m = Merge(op, from, t)
  PROVE  Between(op, from, t, u)
<1>1. \A p \in Pos : u[p] = t[p] \/ u[p] = m[p]
  BY PartialAt
<1>2. QED
  BY <1>1 DEF Between

LEMMA DeleteMerge ==
  ASSUME op.kind = "delete", NEW t
  PROVE  Merge(op, from, t) = Erase(t, op.base) /\ ~Refused(op, from, t)
<1>1. \A p : StrategyAt(op, p) \notin {"insert", "update"}
  BY DEF StrategyAt
<1>2. QED
  BY <1>1 DEF Merge, Refused

LEMMA SeenStep == NoChoice /\ ProxyInv /\ ProxyInv' /\ [Next]_vars => [Store!Next]_Store!vars
<1> SUFFICES ASSUME NoChoice, ProxyInv, ProxyInv', [Next]_vars PROVE [Store!Next]_Store!vars
  OBVIOUS
<1>1. /\ op \in Requests /\ from \in Seen /\ WellTyped(local) /\ Rooted(local) /\ Kept = local
      /\ local' \in Tree /\ Rooted(local')
  <2>1. WellTyped(local') /\ Rooted(local')
    BY DEF ProxyInv, ShapeInv, TypeOK
  <2>2. Rooted(local)
    BY DEF ProxyInv, ShapeInv, TypeOK
  <2>3. QED
    BY <2>1, <2>2, ProxyFacts DEF WellTyped
<1>2. ASSUME NEW r \in Requests, NEW src \in Seen, Call(r, src) PROVE Store!Call
  <2>1. /\ Resting /\ ~Resting' /\ before'.local = local /\ op' = r /\ from' = src
        /\ local[r.base] # Absent /\ src[r.base] # Absent
    BY <1>2 DEF Call, Both, Resting
  <2>2. QED
    BY <2>1, SameSeen DEF Store!Call, Resting
<1>3. ASSUME Collect \/ Send PROVE UNCHANGED Store!vars
  BY <1>3, SeenSilent DEF Collect, Send, Resting
<1>4. ASSUME CollectFails PROVE Store!Abort
  <2>1. local = before.local /\ local' = local
    BY <1>1, <1>4, PartialSame DEF ProxyInv, Phases, CollectFails
  <2>2. Between(op, from, before.local, local')
    BY <2>1, <1>1 DEF Between
  <2>3. QED
    BY <2>2, <1>1, <1>4, SeenAbort DEF CollectFails, Resting
<1>5. ASSUME SendFails PROVE Store!Abort
  <2>1. local = before.local /\ local' = local
    BY <1>5 DEF ProxyInv, Phases, SendFails
  <2>2. Between(op, from, before.local, local')
    BY <2>1, <1>1 DEF Between
  <2>3. QED
    BY <2>2, <1>1, <1>5, SeenAbort DEF SendFails, Resting
<1>6. ASSUME Save \/ SaveFails
      PROVE  /\ local = before.local /\ ~Refused(op, from, before.local)
             /\ Upserted(local) = Merge(op, from, before.local)
  <2>1. /\ local = before.local /\ changes = Written /\ ~Refused(op, from, local)
        /\ op.kind # "delete"
    BY <1>6 DEF ProxyInv, ShapeInv, Shape, Phases, Save, SaveFails
  <2>2. QED
    BY <2>1, <1>1, SavedIsMerged
<1>7. ASSUME Save PROVE Store!Commit
  BY <1>1, <1>6, <1>7, SeenCommit DEF Save, Resting
<1>8. ASSUME SaveFails PROVE Store!Abort
  <2>1. Between(op, from, before.local, local')
    BY <1>6, <1>8, PartialBetween DEF SaveFails
  <2>2. QED
    BY <2>1, <1>1, <1>8, SeenAbort DEF SaveFails, Resting
<1>9. ASSUME DropLocal PROVE UNCHANGED Store!vars \/ Store!Abort
  <2>1. CASE status' = "dropRemote"
    BY <2>1, <1>9, SeenSilent DEF DropLocal, Resting
  <2>2. CASE status' = "failed" /\ local' = local
    <3>1. local = before.local
      BY <1>9 DEF ProxyInv, Phases, DropLocal
    <3>2. Between(op, from, before.local, local')
      BY <2>2, <3>1, <1>1 DEF Between
    <3>3. QED
      BY <2>2, <3>2, <1>1, <1>9, SeenAbort DEF DropLocal, Resting
  <2>3. QED
    BY <1>9, <2>1, <2>2 DEF DropLocal
<1>10. ASSUME DropRemote PROVE Store!Commit \/ Store!Abort
  <2>1. op.kind = "delete" /\ local' = Erase(before.local, op.base)
    BY <1>10 DEF ProxyInv, ShapeInv, Shape, Phases, DropRemote
  <2>2. /\ Merge(op, from, before.local) = Erase(before.local, op.base)
        /\ ~Refused(op, from, before.local)
    BY <2>1, DeleteMerge
  <2>3. CASE status' = "ok"
    BY <1>1, <2>1, <2>2, <2>3, <1>10, SeenCommit DEF DropRemote, Resting
  <2>4. CASE status' = "failed"
    <3>1. Between(op, from, before.local, local')
      BY <2>1, <2>2, <1>1 DEF Between
    <3>2. QED
      BY <2>4, <3>1, <1>1, <1>10, SeenAbort DEF DropRemote, Resting
  <2>5. QED
    BY <1>10, <2>3, <2>4 DEF DropRemote
<1>11. ASSUME UNCHANGED vars PROVE UNCHANGED Store!vars
  BY <1>11 DEF vars, Store!vars, Resting
<1>12. QED
  BY <1>2, <1>3, <1>4, <1>5, <1>7, <1>8, <1>9, <1>10, <1>11 DEF Next, Store!Next

\* LocalSpec: read, collected from and merged into in separate steps, with failures
\* between them, the local copy does what a store does that is edited itself.
THEOREM LocalIsAStore == ASSUME NoChoice PROVE Spec => LocalSpec
<1>1. Init => Store!Init
  BY SameSeen DEF Init, Store!Init, Resting
<1>2. ProxyInv /\ ProxyInv' /\ [Next]_vars => [Store!Next]_Store!vars
  BY SeenStep
<1>3. Spec => []ProxyInv
  BY ProxyInvariance
<1>4. QED
  BY <1>1, <1>2, <1>3, PTL DEF Spec, LocalSpec, Store!Spec
=============================================================================
