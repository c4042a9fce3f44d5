--------------------------- MODULE EditStoreProofs ---------------------------
(***************************************************************************)
(* The walk makes the merge: proofs that MergeInv is inductive, that an    *)
(* upsert keeps to one case per choice at every step, and that Edit        *)
(* implements DataStore, for every schema without a "when", every source,  *)
(* destination and sequence of calls.                                      *)
(***************************************************************************)
EXTENDS EditSafetyProofs

-----------------------------------------------------------------------------
(***************************************************************************)
(* Siblings, and what has not been come to.                                *)
(***************************************************************************)

\* No position is under two definitions of one container.
LEMMA SiblingsApart ==
  ASSUME NEW a \in Pos, NEW m \in DOMAIN Kids[a], NEW n \in DOMAIN Kids[a], NEW p \in Pos,
         p \in Below[Kids[a][m]], p \in Below[Kids[a][n]]
  PROVE  m = n
<1> DEFINE k == Kids[a][m]
           q == Kids[a][n]
<1>1. /\ k \in Pos \ {Root} /\ Parent[k] = a
      /\ q \in Pos \ {Root} /\ Parent[q] = a
  BY KidsAssumption
<1>2. k = q => m = n
  BY KidsAssumption
<1>3. p \in Below[k] /\ p \in Below[q]
  OBVIOUS
<1> HIDE DEF k, q
<1>4. k \in Below[q] \/ q \in Below[k]
  BY <1>1, <1>3, TreeAssumption
<1>5. a \notin Below[q] /\ a \notin Below[k]
  BY <1>1, ChildFacts
<1>6. k = q
  BY <1>1, <1>4, <1>5, ChildFacts
<1>7. QED
  BY <1>2, <1>6

\* What an activation has left lies strictly under its position.
LEMMA LeftBelow ==
  ASSUME NEW f, f.pos \in Pos, NEW p \in Pos, Left(f, p)
  PROVE  p \in Below[f.pos] /\ p # f.pos
<1>1. PICK n \in DOMAIN Kids[f.pos] : p \in Below[Kids[f.pos][n]]
  BY DEF Left
<1> DEFINE k == Kids[f.pos][n]
<1>2. k \in Pos \ {Root} /\ Parent[k] = f.pos /\ p \in Below[k]
  BY <1>1, KidsAssumption
<1> HIDE DEF k
<1>3. k \in Below[f.pos] /\ f.pos \notin Below[k]
  BY <1>2, ChildFacts
<1>4. QED
  BY <1>2, <1>3, TreeAssumption

\* An activation that starts has left everything under its position.
LEMMA LeftAll ==
  ASSUME NEW f, f.fn = "enter", f.pos \in Pos, f.i = 1, NEW p \in Pos
  PROVE  Left(f, p) <=> p \in Below[f.pos] /\ p # f.pos
<1>1. ASSUME p \in Below[f.pos], p # f.pos PROVE Left(f, p)
  <2>1. PICK n \in DOMAIN Kids[f.pos] : p \in Below[Kids[f.pos][n]]
    BY <1>1, KidsAssumption
  <2>2. n >= 1
    BY <2>1, KidsAssumption
  <2>3. QED
    BY <2>1, <2>2 DEF Left
<1>2. QED
  BY <1>1, LeftBelow

\* One definition on.
LEMMA LeftOn ==
  ASSUME NEW f, NEW g, f.fn = "enter", g.fn = "enter", f.pos \in Pos, g.pos = f.pos,
         f.i \in DOMAIN Kids[f.pos], g.i = f.i + 1, NEW p \in Pos
  PROVE  Left(g, p) <=> Left(f, p) /\ p \notin Below[Kids[f.pos][f.i]]
<1>1. DOMAIN Kids[f.pos] \subseteq Nat
  BY KidsAssumption
<1>2. \A n \in DOMAIN Kids[f.pos] : n >= f.i + 1 <=> n >= f.i /\ n # f.i
  BY <1>1
<1>3. \A n \in DOMAIN Kids[f.pos] :
        p \in Below[Kids[f.pos][n]] /\ p \in Below[Kids[f.pos][f.i]] => n = f.i
  BY SiblingsApart
<1>4. QED
  BY <1>2, <1>3 DEF Left

\* At the end of its loop an activation has left nothing.
LEMMA LeftNone ==
  ASSUME NEW f, f.pos \in Pos, f.i \in Nat, f.i > Len(Kids[f.pos]), NEW p
  PROVE  ~Left(f, p)
<1>1. Kids[f.pos] \in Seq(Pos \ {Root})
  BY KidsAssumption
<1>2. \A n \in DOMAIN Kids[f.pos] : ~(n >= f.i)
  BY <1>1
<1>3. QED
  BY <1>2 DEF Left

\* What is under the position of the top activation no outer one has left.
LEMMA LeftApart ==
  ASSUME TypeOK, Shape, Live, LinkInv, status = "running", top.fn = "enter",
         NEW l \in 1..(level - 1), NEW p \in Pos, p \in Below[top.pos]
  PROVE  ~Left(stack[l], p)
<1>1. /\ level \in Nat \ {0} /\ top = stack[level] /\ top.pos \in Pos
      /\ stack[l].pos \in Pos /\ top.pos \in Below[stack[l].pos] /\ stack[l].pos # top.pos
  BY TopShape, LiveNow
<1>2. ~Left(stack[l], top.pos)
  BY <1>1 DEF LinkInv
<1>3. SUFFICES ASSUME NEW n \in DOMAIN Kids[stack[l].pos], n >= stack[l].i,
                      stack[l].fn = "enter", p \in Below[Kids[stack[l].pos][n]]
               PROVE  FALSE
  BY DEF Left
<1> DEFINE k == Kids[stack[l].pos][n]
<1>4. k \in Pos \ {Root} /\ Parent[k] = stack[l].pos /\ p \in Below[k]
  BY <1>1, <1>3, KidsAssumption
<1>5. top.pos \notin Below[k]
  BY <1>2, <1>3 DEF Left
<1> HIDE DEF k
<1>6. k \in Below[top.pos]
  BY <1>1, <1>4, <1>5, TreeAssumption
<1>7. k # top.pos
  BY <1>4, <1>5, TreeAssumption
<1>8. stack[l].pos \in Below[top.pos]
  BY <1>1, <1>4, <1>6, <1>7, ChildFacts
<1>9. QED
  BY <1>1, <1>8, TreeAssumption
-----------------------------------------------------------------------------
(***************************************************************************)
(* What is ahead of the walk, under its changes of the stack.              *)
(***************************************************************************)

\* A step that leaves the activation where it is.
LEMMA AheadStay ==
  ASSUME TypeOK, status = "running", NEW f \in Frame, Goto(f),
         f.fn = top.fn, f.pos = top.pos, f.i = top.i
  PROVE  \A p : Ahead(p)' <=> Ahead(p)
<1>1. /\ level \in Nat \ {0} /\ top = stack[level]
      /\ level' = level /\ stack'[level] = f
      /\ \A l \in 1..(level - 1) : stack'[l] = stack[l]
  BY TopFrame, GotoFrame DEF top
<1>2. \A p : Left(f, p) <=> Left(top, p)
  BY DEF Left
<1>3. \A l \in 1..level : l = level \/ l \in 1..(level - 1)
  BY <1>1
<1>4. \A l \in 1..level : \A p : Left(stack'[l], p) <=> Left(stack[l], p)
  BY <1>1, <1>2, <1>3
<1>5. QED
  BY <1>1, <1>4 DEF Ahead

\* The activation goes on to the next definition.
LEMMA AheadOn ==
  ASSUME TypeOK, Shape, Live, LinkInv, status = "running", NEW f \in Frame, Goto(f),
         top.fn = "enter", f.fn = "enter", f.pos = top.pos, f.i = top.i + 1,
         top.i <= Len(Kids[top.pos])
  PROVE  \A p \in Pos : Ahead(p)' <=> Ahead(p) /\ p \notin Below[Kid]
<1>1. /\ level \in Nat \ {0} /\ top = stack[level] /\ top \in Frame /\ top.pos \in Pos
      /\ level' = level /\ stack'[level] = f
      /\ \A l \in 1..(level - 1) : stack'[l] = stack[l]
  BY TopShape, GotoFrame
<1>2. top.i \in 1..Len(Kids[top.pos]) /\ top.i \in DOMAIN Kids[top.pos]
  BY <1>1, KidsAssumption DEF Frame
<1>3. Kid \in Pos /\ Kid \in Below[top.pos]
  BY <1>1, <1>2, KidFacts, ChildFacts DEF Kid
<1>4. \A p \in Pos : Left(f, p) <=> Left(top, p) /\ p \notin Below[Kid]
  BY <1>1, <1>2, LeftOn DEF Kid
<1>5. \A p \in Pos : p \in Below[Kid] => p \in Below[top.pos]
  BY <1>1, <1>3, TreeAssumption
<1>6. \A l \in 1..(level - 1) : \A p \in Pos : p \in Below[Kid] => ~Left(stack[l], p)
  BY <1>5, LeftApart
<1>7. \A l \in 1..level : l = level \/ l \in 1..(level - 1)
  BY <1>1
<1>8. \A p \in Pos : Ahead(p)' <=> \E l \in 1..level : Left(stack'[l], p)
  BY <1>1 DEF Ahead
<1>9. \A l \in 1..level : \A p \in Pos :
        Left(stack'[l], p) <=> Left(stack[l], p) /\ p \notin Below[Kid]
  BY <1>1, <1>4, <1>6, <1>7
<1>10. QED
  BY <1>8, <1>9 DEF Ahead

\* The activation goes down to the definition it is at.
LEMMA AheadDown ==
  ASSUME TypeOK, Shape, Live, LinkInv, status = "running",
         NEW f \in Frame, NEW g \in Frame, stack' = Push(f, g),
         top.fn = "enter", f.fn = "enter", f.pos = top.pos, f.i = top.i + 1,
         top.i <= Len(Kids[top.pos]), g.fn = "enter", g.pos = Kid, g.i = 1
  PROVE  \A p \in Pos : Ahead(p)' <=> Ahead(p) /\ p # Kid
<1>1. /\ level \in Nat \ {0} /\ top = stack[level] /\ top \in Frame /\ top.pos \in Pos
      /\ level' = level + 1 /\ stack'[level] = f /\ stack'[level + 1] = g
      /\ \A l \in 1..(level - 1) : stack'[l] = stack[l]
  BY TopShape, PushFrame
<1>2. top.i \in 1..Len(Kids[top.pos]) /\ top.i \in DOMAIN Kids[top.pos]
  BY <1>1, KidsAssumption DEF Frame
<1>3. Kid \in Pos /\ Kid \in Below[top.pos]
  BY <1>1, <1>2, KidFacts, ChildFacts DEF Kid
<1>4. \A p \in Pos : Left(f, p) <=> Left(top, p) /\ p \notin Below[Kid]
  BY <1>1, <1>2, LeftOn, ZenonT(60) DEF Kid
<1>5. \A p \in Pos : Left(g, p) <=> p \in Below[Kid] /\ p # Kid
  BY <1>3, LeftAll
<1>6. \A p \in Pos : p \in Below[Kid] => p \in Below[top.pos]
  BY <1>1, <1>3, TreeAssumption
<1>7. \A l \in 1..(level - 1) : \A p \in Pos : p \in Below[Kid] => ~Left(stack[l], p)
  BY <1>6, LeftApart
<1>8. \A p \in Pos : p \in Below[Kid] => Left(top, p)
  <2>1. top.i >= top.i
    BY <1>1 DEF Frame
  <2>2. QED
    BY <1>2, <2>1 DEF Left, Kid
<1>9. Kid \in Below[Kid]
  BY <1>3, TreeAssumption
<1>10. SUFFICES ASSUME NEW p \in Pos PROVE Ahead(p)' <=> Ahead(p) /\ p # Kid
  OBVIOUS
<1>11. level + 1 \in 1..(level + 1) /\ level \in 1..(level + 1) /\ level \in 1..level
  BY <1>1
<1>12. Ahead(p)' <=> \E l \in 1..(level + 1) : Left(stack'[l], p)
  BY <1>1 DEF Ahead
<1>13. Ahead(p) <=> \E l \in 1..level : Left(stack[l], p)
  BY DEF Ahead
<1>14. \A l \in 1..(level + 1) : l = level + 1 \/ l = level \/ l \in 1..(level - 1)
  BY <1>1
<1>15. \A l \in 1..(level - 1) : l \in 1..(level + 1) /\ l \in 1..level
  BY <1>1
<1>16. \A l \in 1..level : l = level \/ l \in 1..(level - 1)
  BY <1>1
<1>17. CASE p \in Below[Kid]
  BY <1>1, <1>4, <1>5, <1>7, <1>8, <1>11, <1>12, <1>13, <1>14, <1>15, <1>16, <1>17
<1>18. CASE p \notin Below[Kid]
  BY <1>1, <1>4, <1>5, <1>9, <1>11, <1>12, <1>13, <1>14, <1>15, <1>16, <1>18
<1>19. QED
  BY <1>17, <1>18

\* The activation deletes something.
LEMMA AheadDelete ==
  ASSUME TypeOK, status = "running",
         NEW f \in Frame, NEW g \in Frame, stack' = Push(f, g),
         f.fn = top.fn, f.pos = top.pos, f.i = top.i, g.fn = "delete"
  PROVE  \A p : Ahead(p)' <=> Ahead(p)
<1>1. /\ level \in Nat \ {0} /\ top = stack[level]
      /\ level' = level + 1 /\ stack'[level] = f /\ stack'[level + 1] = g
      /\ \A l \in 1..(level - 1) : stack'[l] = stack[l]
  BY TopFrame, PushFrame DEF top
<1>2. \A p : (Left(f, p) <=> Left(top, p)) /\ ~Left(g, p)
  BY DEF Left
<1>3. \A l \in 1..(level + 1) : l = level + 1 \/ l = level \/ l \in 1..(level - 1)
  BY <1>1
<1>4. \A l \in 1..level : l \in 1..(level + 1) /\ (l = level \/ l \in 1..(level - 1))
  BY <1>1
<1>5. \A p : Ahead(p)' <=> \E l \in 1..(level + 1) : Left(stack'[l], p)
  BY <1>1 DEF Ahead
<1>6. \A l \in 1..level : \A p : Left(stack'[l], p) <=> Left(stack[l], p)
  BY <1>1, <1>2, <1>4
<1>7. level + 1 \notin 1..level /\ \A l \in 1..(level + 1) : l = level + 1 \/ l \in 1..level
  BY <1>1
<1>8. QED
  BY <1>1, <1>2, <1>4, <1>5, <1>6, <1>7 DEF Ahead

\* The activation returns with nothing left.
LEMMA AheadReturn ==
  ASSUME TypeOK, status = "running", stack' = SubSeq(stack, 1, level - 1),
         \A p : ~Left(top, p)
  PROVE  \A p : Ahead(p)' <=> Ahead(p)
<1>1. /\ level \in Nat \ {0} /\ top = stack[level] /\ level' = level - 1
      /\ \A l \in 1..(level - 1) : stack'[l] = stack[l]
  BY TopFrame, PopFrame DEF top
<1>2. \A l \in 1..level : l = level \/ l \in 1..(level - 1)
  BY <1>1
<1>3. \A l \in 1..(level - 1) : l \in 1..level
  BY <1>1
<1>4. \A p : Ahead(p)' <=> \E l \in 1..(level - 1) : Left(stack[l], p)
  BY <1>1 DEF Ahead
<1>5. QED
  BY <1>1, <1>2, <1>3, <1>4 DEF Ahead

-----------------------------------------------------------------------------
(***************************************************************************)
(* What is given.                                                          *)
(***************************************************************************)
LEMMA GivesFacts ==
  ASSUME TypeOK, NEW p \in Pos, Gives(p) # Absent
  PROVE  /\ p \in Below[op.base] \ {op.base} /\ p \in Pos \ {Root}
         /\ Reached(op, from, Parent[p]) /\ Selected(from, p)
         /\ \A a \in Through(op, p) : Gives(a) # Absent
         /\ p \in Inner => Gives(p) = Obj /\ from[p] = Obj
<1>1. op.base \in Inner /\ op.base \in Pos /\ WellTyped(from)
  BY CeilingType, SeenFacts DEF TypeOK, Inner
<1>2. /\ p \in Below[op.base] \ {op.base}
      /\ Reached(op, from, Parent[p]) /\ Selected(from, p)
      /\ \A a \in Through(op, p) : Gives(a) # Absent
  <2>1. Given(op, from, before, p) # Absent
    BY DEF Gives
  <2>2. \A a : Gives(a) = Given(op, from, before, a)
    BY DEF Gives
  <2>3. QED
    BY <1>1, <2>1, <2>2, GivenAbove
<1>3. p \in Pos \ {Root}
  BY <1>1, <1>2, ParentBelow
<1>4. p \in Inner => Gives(p) = Obj /\ from[p] = Obj
  BY <1>1, GivenInner DEF Gives, WellTyped
<1>5. QED
  BY <1>2, <1>3, <1>4

\* The walk sees one case of the source.
LEMMA OneGiven ==
  ASSUME TypeOK, NEW k \in Pos, Gives(k) # Absent, NEW p \in Pos, Gives(p) # Absent
  PROVE  ~Rivals(k, p)
<1>1. Selected(from, k) /\ Selected(from, p)
  BY GivesFacts
<1>2. OneCase(from)
  BY SeenFacts DEF TypeOK
<1>3. QED
  BY <1>1, <1>2, OneSelected DEF Rivals

\* What is given does not give way, nor does anything above it.
LEMMA GivenStays ==
  ASSUME TypeOK, NEW p \in Pos, Gives(p) # Absent, NEW a \in Through(op, p)
  PROVE  ~Yields(a)
<1>1. Gives(a) # Absent /\ a \in Pos
  <2>1. op.base \in Inner
    BY CeilingType
  <2>2. QED
    BY <2>1, GivesFacts, ThroughFacts
<1>2. QED
  BY <1>1, OneGiven DEF Yields, Displaces

\* Only what lies in the base gives way, and neither it nor what is under it is given.
LEMMA YieldsFacts ==
  ASSUME TypeOK, NEW a \in Pos, Yields(a)
  PROVE  /\ a \in Below[op.base] \ {op.base} /\ a \in Pos \ {Root} /\ Gives(a) = Absent
         /\ \A p \in Below[a] : p \in Pos /\ a \in Through(op, p) /\ Gives(p) = Absent
<1>1. op.base \in Inner /\ op.base \in Pos
  BY CeilingType DEF Inner
<1>2. PICK k \in Pos : Gives(k) # Absent /\ Rivals(k, a)
  BY DEF Yields, Displaces
<1>3. k \in Below[op.base] \ {op.base} /\ a \in Pos \ {Root} /\ Parent[a] = Parent[k]
  BY <1>2, GivesFacts DEF Rivals
<1>4. Parent[a] \in Below[op.base]
  BY <1>1, <1>3, ParentBelow
<1>5. a \in Below[op.base] /\ a # op.base
  <2>1. a \in Below[op.base]
    BY <1>1, <1>3, <1>4, TreeAssumption
  <2>2. op.base # a
    <3>1. Parent[a] \notin Below[a]
      BY <1>3, ChildFacts
    <3>2. QED
      BY <1>4, <3>1
  <2>3. QED
    BY <2>1, <2>2
<1>6. Gives(a) = Absent
  BY <1>2, OneGiven
<1>7. ASSUME NEW p \in Below[a] PROVE p \in Pos /\ a \in Through(op, p) /\ Gives(p) = Absent
  <2>1. p \in Pos /\ a \in Through(op, p)
    BY <1>5, TreeAssumption DEF Through
  <2>2. QED
    BY <2>1, GivenStays
<1>8. QED
  BY <1>3, <1>5, <1>6, <1>7
-----------------------------------------------------------------------------
(***************************************************************************)
(* A call says the same while it runs.                                     *)
(***************************************************************************)
LEMMA SameSays ==
  ASSUME UNCHANGED <<op, from, before>>
  PROVE  /\ \A p : Gives(p)' = Gives(p)
         /\ \A k, p : Displaces(k, p)' <=> Displaces(k, p)
         /\ \A p : Yields(p)' <=> Yields(p)
         /\ \A p : ClashAt(p)' <=> ClashAt(p)
         /\ \A f : EnterOK(f)' <=> EnterOK(f)
<1>1. \A p : Gives(p)' = Gives(p)
  BY DEF Gives
<1>2. \A k, p : Displaces(k, p)' <=> Displaces(k, p)
  BY <1>1 DEF Displaces
<1>3. \A p : Yields(p)' <=> Yields(p)
  BY <1>2 DEF Yields
<1>4. \A p : ClashAt(p)' <=> ClashAt(p)
  BY DEF ClashAt
<1>5. \A f : EnterOK(f)' <=> EnterOK(f)
  BY <1>1, <1>4 DEF EnterOK
<1>6. QED
  BY <1>1, <1>2, <1>3, <1>4, <1>5

-----------------------------------------------------------------------------
(***************************************************************************)
(* The activations under the three changes of the stack.                   *)
(***************************************************************************)

\* The outer activations are of enter, and they wait.
LEMMA OuterFrames ==
  ASSUME TypeOK, Shape, status = "running", NEW l \in 1..(level - 1)
  PROVE  /\ l \in 1..level /\ stack[l].fn = "enter"
         /\ \/ stack[l].phase = "walk"
            \/ stack[l].phase = "clear" /\ top.fn = "delete" /\ l = level - 1
<1>1. level \in Nat \ {0}
  BY TopFrame
<1>2. l \in 1..level /\ l < level
  BY <1>1
<1>3. Waiting(l)
  BY <1>2 DEF Shape, FrameInv
<1>4. QED
  BY <1>2, <1>3 DEF Waiting

LEMMA WalkGoto ==
  ASSUME TypeOK, Shape, WalkInv, status = "running", UNCHANGED <<op, from, before>>,
         NEW f \in Frame, Goto(f), f.fn = "enter" => EnterOK(f),
         f.fn # "enter" => Yields(f.pos) /\ (f.phase = "end" => to'[f.pos] = Absent)
  PROVE  WalkInv'
<1>1. /\ level \in Nat \ {0} /\ level' = level /\ stack'[level] = f
      /\ \A l \in 1..(level - 1) : stack'[l] = stack[l]
  BY TopFrame, GotoFrame
<1>2. ASSUME NEW l \in 1..(level - 1) PROVE stack'[l].fn = "enter" /\ EnterOK(stack'[l])
  BY <1>1, OuterFrames DEF WalkInv
<1>3. \A l \in 1..level : l = level \/ l \in 1..(level - 1)
  BY <1>1
<1>4. QED
  BY <1>1, <1>2, <1>3, SameSays DEF WalkInv, DeleteOK

LEMMA WalkPush ==
  ASSUME TypeOK, Shape, WalkInv, status = "running", UNCHANGED <<op, from, before>>,
         NEW f \in Frame, NEW g \in Frame, stack' = Push(f, g),
         f.fn = "enter", EnterOK(f), g.fn = "enter" => EnterOK(g),
         g.fn # "enter" => Yields(g.pos) /\ g.phase # "end"
  PROVE  WalkInv'
<1>1. /\ level \in Nat \ {0} /\ level' = level + 1
      /\ stack'[level] = f /\ stack'[level + 1] = g
      /\ \A l \in 1..(level - 1) : stack'[l] = stack[l]
  BY TopFrame, PushFrame
<1>2. ASSUME NEW l \in 1..(level - 1) PROVE stack'[l].fn = "enter" /\ EnterOK(stack'[l])
  BY <1>1, OuterFrames DEF WalkInv
<1>3. \A l \in 1..(level + 1) : l = level + 1 \/ l = level \/ l \in 1..(level - 1)
  BY <1>1
<1>4. QED
  BY <1>1, <1>2, <1>3, SameSays DEF WalkInv, DeleteOK

LEMMA WalkPop ==
  ASSUME TypeOK, Shape, WalkInv, status = "running", UNCHANGED <<op, from, before>>,
         stack' = SubSeq(stack, 1, level - 1)
  PROVE  WalkInv'
<1>1. /\ level \in Nat \ {0} /\ level' = level - 1
      /\ \A l \in 1..(level - 1) : stack'[l] = stack[l]
  BY TopFrame, PopFrame
<1>2. ASSUME NEW l \in 1..(level - 1) PROVE stack'[l].fn = "enter" /\ EnterOK(stack'[l])
  BY <1>1, OuterFrames DEF WalkInv
<1>3. QED
  BY <1>1, <1>2, SameSays DEF WalkInv

LEMMA LinkGoto ==
  ASSUME TypeOK, LinkInv, status = "running",
         NEW f \in Frame, Goto(f), f.fn = top.fn, f.pos = top.pos
  PROVE  LinkInv'
<1>1. /\ level \in Nat \ {0} /\ top = stack[level] /\ level' = level /\ stack'[level] = f
      /\ \A l \in 1..(level - 1) : stack'[l] = stack[l]
  BY TopFrame, GotoFrame DEF top
<1>2. \A m \in 1..level : /\ stack'[m].fn = stack[m].fn /\ stack'[m].pos = stack[m].pos
                          /\ \A l \in 1..(m - 1) : l \in 1..(level - 1)
  BY <1>1
<1>3. QED
  BY <1>1, <1>2 DEF LinkInv

LEMMA LinkPush ==
  ASSUME TypeOK, LinkInv, status = "running",
         NEW f \in Frame, NEW g \in Frame, stack' = Push(f, g), f.fn = top.fn, f.pos = top.pos,
         g.fn = "enter" => /\ ~Left(f, g.pos)
                           /\ \A l \in 1..(level - 1) : ~Left(stack[l], g.pos)
  PROVE  LinkInv'
<1>1. /\ level \in Nat \ {0} /\ top = stack[level] /\ level' = level + 1
      /\ stack'[level] = f /\ stack'[level + 1] = g
      /\ \A l \in 1..(level - 1) : stack'[l] = stack[l]
  BY TopFrame, PushFrame DEF top
<1>2. \A m \in 1..level : /\ stack'[m].fn = stack[m].fn /\ stack'[m].pos = stack[m].pos
                          /\ \A l \in 1..(m - 1) : l \in 1..(level - 1)
  BY <1>1
<1>3. \A m \in 1..(level + 1) : m = level + 1 \/ m \in 1..level
  BY <1>1
<1>4. \A l \in 1..(level + 1 - 1) : l = level \/ l \in 1..(level - 1)
  BY <1>1
<1>5. QED
  BY <1>1, <1>2, <1>3, <1>4 DEF LinkInv

LEMMA LinkPop ==
  ASSUME TypeOK, LinkInv, status = "running", stack' = SubSeq(stack, 1, level - 1)
  PROVE  LinkInv'
<1>1. /\ level \in Nat \ {0} /\ level' = level - 1
      /\ \A l \in 1..(level - 1) : stack'[l] = stack[l]
  BY TopFrame, PopFrame
<1>2. \A m \in 1..(level - 1) : m \in 1..level /\ \A l \in 1..(m - 1) : l \in 1..(level - 1)
  BY <1>1
<1>3. QED
  BY <1>1, <1>2 DEF LinkInv

-----------------------------------------------------------------------------
(***************************************************************************)
(* The data under the four things a step does to it.                       *)
(***************************************************************************)

\* Nothing new is there.
Fewer == \A p \in Pos : to'[p] # Absent => to[p] # Absent

LEMMA DataStay ==
  ASSUME DataInv, UNCHANGED <<op, from, before, to>>, \A p : Ahead(p)' <=> Ahead(p)
  PROVE  DataInv'
  BY SameSays DEF DataInv

\* What is passed over is not given.
LEMMA DataSkip ==
  ASSUME TypeOK, DataInv, UNCHANGED <<op, from, before, to>>, NEW k \in Pos,
         k \in Below[op.base] \ {op.base}, Gives(k) = Absent,
         \A p \in Pos : Ahead(p)' <=> Ahead(p) /\ p \notin Below[k]
  PROVE  DataInv'
<1>1. ASSUME NEW p \in Pos, Gives(p) # Absent PROVE p \notin Below[k]
  <2>1. \A a \in Through(op, p) : Gives(a) # Absent
    BY <1>1, GivesFacts
  <2>2. QED
    BY <2>1 DEF Through
<1>2. QED
  BY <1>1, SameSays DEF DataInv

\* What is given is taken.
LEMMA DataTake ==
  ASSUME DataInv, UNCHANGED <<op, from, before>>, NEW k \in Pos,
         Gives(k) # Absent, ~ClashAt(k), to'[k] = Gives(k),
         \A p \in Pos : p # k => to'[p] = to[p],
         \A p \in Pos : Ahead(p)' <=> Ahead(p) /\ p # k
  PROVE  DataInv'
  BY SameSays DEF DataInv

\* What gives way goes.
LEMMA DataDrop ==
  ASSUME TypeOK, DataInv, UNCHANGED <<op, from, before>>, NEW a \in Pos, Yields(a),
         to' = Erase(to, a), \A p : Ahead(p)' <=> Ahead(p)
  PROVE  DataInv'
<1>1. \A p \in Pos : to'[p] = IF p \in Below[a] THEN Absent ELSE to[p]
  BY DEF Erase
<1>2. \A p \in Pos : p \in Below[a] => Gives(p) = Absent /\ a \in Through(op, p)
  BY YieldsFacts
<1>3. QED
  BY <1>1, <1>2, SameSays DEF DataInv

LEMMA DoneStay ==
  ASSUME CasesDone, UNCHANGED <<op, from, before>>, Fewer, \A p : Ahead(p)' <=> Ahead(p)
  PROVE  CasesDone'
  BY SameSays DEF CasesDone, Fewer

LEMMA DoneSkip ==
  ASSUME TypeOK, CasesDone, UNCHANGED <<op, from, before, to>>, NEW k \in Pos,
         k \in Below[op.base] \ {op.base}, Gives(k) = Absent,
         \A p \in Pos : Ahead(p)' <=> Ahead(p) /\ p \notin Below[k]
  PROVE  CasesDone'
<1>1. ASSUME NEW p \in Pos, Gives(p) # Absent PROVE p \notin Below[k]
  <2>1. \A a \in Through(op, p) : Gives(a) # Absent
    BY <1>1, GivesFacts
  <2>2. QED
    BY <2>1 DEF Through
<1>2. \A p, q \in Pos : Displaces(p, q) => Gives(p) # Absent
  BY DEF Displaces
<1>3. QED
  BY <1>1, <1>2, SameSays DEF CasesDone

LEMMA DoneTake ==
  ASSUME TypeOK, CasesDone, UNCHANGED <<op, from, before>>, NEW k \in Pos, Gives(k) # Absent,
         \A p \in Pos : p # k => to'[p] = to[p],
         \A p \in Pos : Displaces(k, p) => to[p] = Absent,
         \A p \in Pos : Ahead(p)' <=> Ahead(p) /\ p # k
  PROVE  CasesDone'
<1>1. SUFFICES ASSUME NEW q \in Pos, NEW p \in Pos, Displaces(q, p), ~Ahead(q) \/ q = k
               PROVE  to'[p] = Absent
  BY SameSays DEF CasesDone
<1>2. p # k
  BY <1>1, OneGiven DEF Displaces
<1>3. QED
  BY <1>1, <1>2 DEF CasesDone

\* The outer activations hold nothing up while this one works.
LEMMA PendingGoto ==
  ASSUME TypeOK, Shape, status = "running", UNCHANGED <<op, from, before>>,
         \A l \in 1..level : CasePending(l), top.fn = "enter" \/ Fewer,
         NEW f \in Frame, Goto(f), f.pos = top.pos, CasePending(level)'
  PROVE  \A l \in 1..level' : CasePending(l)'
<1>1. /\ level \in Nat \ {0} /\ level' = level /\ stack'[level] = f /\ top = stack[level]
      /\ \A l \in 1..(level - 1) : stack'[l] = stack[l]
  BY TopFrame, GotoFrame DEF top
<1>2. \A l \in 1..level : l = level \/ l \in 1..(level - 1)
  BY <1>1
<1>3. SUFFICES ASSUME NEW l \in 1..(level - 1) PROVE CasePending(l)'
  BY <1>1, <1>2
<1>4. l \in 1..level /\ stack'[l] = stack[l]
  BY <1>1, SMTT(60)
<1>5. CASE stack[l].phase = "walk"
  BY <1>4, <1>5, SMTT(60) DEF CasePending
<1>6. CASE top.fn = "delete"
  <2>1. \A m \in 1..level : stack'[m].pos = stack[m].pos
    BY <1>1, <1>2
  <2>2. \A m \in (l + 1)..level : m \in 1..level
    BY <1>1, <1>4
  <2>3. CasePending(l) /\ Fewer
    BY <1>4, <1>6
  <2>4. \A n \in DOMAIN Kids[stack[l].pos] : Kids[stack[l].pos][n] \in Pos
    <3>1. stack[l].pos \in Pos
      BY <1>4, TopFrame DEF Frame, Inner
    <3>2. QED
      BY <3>1, KidsAssumption
  <2>5. QED
    BY <1>1, <1>4, <2>1, <2>2, <2>3, <2>4, SameSays, SMTT(40) DEF CasePending, Fewer
<1>7. QED
  BY <1>5, <1>6, OuterFrames

LEMMA PendingPush ==
  ASSUME TypeOK, Shape, status = "running", UNCHANGED <<op, from, before>>,
         top.fn = "enter", NEW f \in Frame, NEW g \in Frame, stack' = Push(f, g),
         NEW L, L = level, CasePending(L)', CasePending(L + 1)'
  PROVE  \A l \in 1..level' : CasePending(l)'
<1>1. /\ level \in Nat \ {0} /\ level' = level + 1 /\ stack'[level] = f
      /\ \A l \in 1..(level - 1) : stack'[l] = stack[l]
  BY TopFrame, PushFrame
<1>2. \A l \in 1..(level + 1) : l = L + 1 \/ l = L \/ l \in 1..(level - 1)
  BY <1>1, SMTT(60)
<1>3. ASSUME NEW l \in 1..(level - 1) PROVE CasePending(l)'
  BY <1>1, OuterFrames DEF CasePending
<1>4. QED
  BY <1>1, <1>2, <1>3

LEMMA PendingPop ==
  ASSUME TypeOK, Shape, status = "running", UNCHANGED <<op, from, before, to>>,
         stack' = SubSeq(stack, 1, level - 1), \A l \in 1..level : CasePending(l),
         top.fn = "delete" => to[top.pos] = Absent
  PROVE  \A l \in 1..level' : CasePending(l)'
<1>1. /\ level \in Nat \ {0} /\ level' = level - 1 /\ top = stack[level]
      /\ \A l \in 1..(level - 1) : stack'[l] = stack[l]
  BY TopFrame, PopFrame DEF top
<1>2. SUFFICES ASSUME NEW l \in 1..(level - 1) PROVE CasePending(l)'
  BY <1>1
<1>3. l \in 1..level /\ stack'[l] = stack[l]
  BY <1>1, SMTT(60)
<1>4. CASE stack[l].phase = "walk"
  BY <1>3, <1>4 DEF CasePending
<1>5. CASE top.fn = "delete" /\ l = level - 1
  <2>1. \A m \in (l + 1)..level : m = level
    BY <1>1, <1>5
  <2>2. \A m \in (l + 1)..level : to[stack[m].pos] = Absent
    BY <1>1, <1>5, <2>1
  <2>3. CasePending(l)
    BY <1>3, SMTT(60)
  <2>4. SUFFICES ASSUME stack[l].fn = "enter", stack[l].phase \in {"clear", "apply"},
                        NEW n \in DOMAIN Kids[stack[l].pos], NEW p, p = Kids[stack[l].pos][n],
                        Displaces(Kids[stack[l].pos][stack[l].i], p), to[p] # Absent
                 PROVE  stack[l].phase = "clear" /\ Case[p] = stack[l].case /\ n >= stack[l].j
    BY <1>3, SameSays, ZenonT(60) DEF CasePending
  <2>5. QED
    BY <2>2, <2>3, <2>4 DEF CasePending
<1>6. QED
  BY <1>4, <1>5, OuterFrames

\* One case per choice.
LEMMA KeepFewer ==
  ASSUME UpsertKeepsOneCase, UNCHANGED <<op, before>>, dropped => dropped', Fewer
  PROVE  UpsertKeepsOneCase'
  BY DEF UpsertKeepsOneCase, OneCase, Fewer

LEMMA KeepTake ==
  ASSUME UpsertKeepsOneCase, UNCHANGED <<op, from, before, dropped>>, op.kind # "delete",
         NEW k \in Pos, Gives(k) # Absent,
         \A p \in Pos : p # k => to'[p] = to[p],
         OneCase(before) /\ ~dropped => \A p \in Pos : Displaces(k, p) => to[p] = Absent
  PROVE  UpsertKeepsOneCase'
<1>1. SUFFICES ASSUME op.kind = "upsert", OneCase(before), ~dropped PROVE OneCase(to')
  BY DEF UpsertKeepsOneCase
<1>2. OneCase(to)
  BY <1>1 DEF UpsertKeepsOneCase
<1>3. \A p : StrategyAt(op, p) = "upsert"
  BY <1>1 DEF StrategyAt
<1>4. \A p \in Pos : Rivals(k, p) => to[p] = Absent
  BY <1>1, <1>3 DEF Displaces
<1>5. SUFFICES ASSUME NEW p \in Pos \ {Root}, NEW q \in Pos \ {Root},
                      Parent[p] = Parent[q], Case[p] # NoCase, Case[q] # NoCase,
                      ChoiceOf[Case[p]] = ChoiceOf[Case[q]],
                      to'[p] # Absent, to'[q] # Absent, Case[p] # Case[q]
               PROVE  FALSE
  BY DEF OneCase
<1>6. Rivals(p, q) /\ Rivals(q, p)
  BY <1>5 DEF Rivals
<1>7. p # k /\ q # k
  BY <1>4, <1>5, <1>6
<1>8. to[p] # Absent /\ to[q] # Absent
  BY <1>5, <1>7
<1>9. QED
  BY <1>2, <1>5, <1>8 DEF OneCase
-----------------------------------------------------------------------------
(***************************************************************************)
(* Where the walk stands.                                                  *)
(***************************************************************************)
Walks == WalkInv /\ LinkInv /\ DataInv /\ CaseInv /\ UpsertKeepsOneCase

LEMMA Visible ==
  ASSUME WhenFree, NEW p \in Pos
  PROVE  VisibleFrom(p) /\ \A t : VisibleTo(t, p)
  BY DEF WhenFree, VisibleFrom, VisibleTo, WhenMet

\* The definition the top activation is at.
LEMMA Place ==
  ASSUME TypeOK, Shape, Walks, status = "running",
         Walking \/ top.phase \in {"clear", "apply"}
  PROVE  /\ level \in Nat \ {0} /\ top = stack[level] /\ top \in Frame /\ top.pos \in Pos
         /\ top.fn = "enter" /\ EnterOK(top)
         /\ top.i \in DOMAIN Kids[top.pos] /\ top.i <= Len(Kids[top.pos])
         /\ Kid = Kids[top.pos][top.i] /\ Kid \in Pos \ {Root} /\ Parent[Kid] = top.pos
         /\ Kid \in Below[top.pos] /\ Kid \in Below[op.base] \ {op.base}
         /\ Ahead(Kid)
         /\ \A n \in DOMAIN Kids[top.pos] :
              Kids[top.pos][n] \in Pos \ {Root} /\ Parent[Kids[top.pos][n]] = top.pos
         /\ \A p \in Pos \ {Root} :
              Parent[p] = top.pos => \E n \in DOMAIN Kids[top.pos] : Kids[top.pos][n] = p
<1>1. /\ level \in Nat \ {0} /\ top = stack[level] /\ top \in Frame /\ top.pos \in Pos
      /\ top.fn = "enter" /\ Kid \in Pos \ {Root} /\ Parent[Kid] = top.pos
      /\ FrameOK(top, level, Ceiling)
  BY TopShape, KidType
<1>2. level \in 1..level
  BY <1>1
<1>3. EnterOK(top)
  BY <1>1, <1>2 DEF Walks, WalkInv
<1>4. top.i \in 1..Len(Kids[top.pos]) /\ top.i <= Len(Kids[top.pos])
  BY <1>1 DEF Frame, FrameOK, Walking
<1>5. top.i \in DOMAIN Kids[top.pos]
  BY <1>1, <1>4, KidsAssumption
<1>6. Kid = Kids[top.pos][top.i] /\ Kid \in Below[top.pos] /\ top.pos \notin Below[Kid]
  BY <1>1, ChildFacts DEF Kid
<1>7. top.pos \in Below[op.base] /\ op.base \in Pos
  BY <1>2, <1>1, CeilingType DEF Shape, SpineInv, Inner
<1>8. Kid \in Below[op.base] \ {op.base}
  BY <1>1, <1>6, <1>7, TreeAssumption
<1>9. Ahead(Kid)
  <2>1. Kid \in Below[Kid] /\ top.i >= top.i
    BY <1>1, TreeAssumption, SMTT(60) DEF Frame
  <2>2. Left(top, Kid)
    BY <1>1, <1>5, <1>6, <2>1 DEF Left
  <2>3. QED
    BY <1>1, <1>2, <2>2 DEF Ahead
<1>10. /\ \A n \in DOMAIN Kids[top.pos] :
            Kids[top.pos][n] \in Pos \ {Root} /\ Parent[Kids[top.pos][n]] = top.pos
       /\ \A p \in Pos \ {Root} :
            Parent[p] = top.pos => \E n \in DOMAIN Kids[top.pos] : Kids[top.pos][n] = p
  BY <1>1, KidsAssumption
<1>11. QED
  BY <1>1, <1>3, <1>4, <1>5, <1>6, <1>8, <1>9, <1>10

\* What it makes of that definition is what the merge makes of it (edit.go 73-79,
\* value.go 60-74).
LEMMA GivenKid ==
  ASSUME WhenFree, TypeOK, Shape, Walks, status = "running",
         Walking \/ top.phase \in {"clear", "apply"}
  PROVE  /\ Offered(Kid) <=> Gives(Kid) # Absent
         /\ Gives(Kid) # Absent /\ Kid \in Leaves => SourceValue(Kid) = Gives(Kid)
         /\ Gives(Kid) # Absent => to[Kid] = before[Kid]
<1> DEFINE k == Kid
<1>1. /\ k \in Pos /\ Parent[k] = top.pos /\ k \in Below[op.base] \ {op.base} /\ Ahead(k)
      /\ top.strat = StrategyAt(op, top.pos) /\ Reached(op, from, top.pos)
      /\ top.new <=> top.pos # op.base /\ before[top.pos] = Absent
  BY Place DEF EnterOK
<1>2. VisibleFrom(k)
  BY <1>1, Visible
<1> HIDE DEF k
<1>3. Gives(k) = IF ~Selected(from, k) THEN Absent
                 ELSE IF from[k] = Absent /\ (op.defaults \/ (top.strat # "update" /\ top.new))
                 THEN Default[k] ELSE from[k]
  BY <1>1 DEF Gives, Given, Fills
<1>4. SourceValue(k) = IF from[k] = Absent /\ (op.defaults \/ (top.strat # "update" /\ top.new))
                       THEN Default[k] ELSE from[k]
  BY <1>2 DEF SourceValue
<1>5. k \in Inner => Default[k] = Absent
  BY SchemaAssumption
<1>6. Offered(k) <=> Gives(k) # Absent
  BY <1>1, <1>2, <1>3, <1>4, <1>5 DEF Offered, Inner
<1>7. Gives(k) # Absent => SourceValue(k) = Gives(k)
  BY <1>3, <1>4
<1>8. Gives(k) # Absent => to[k] = before[k]
  BY <1>1, SMTT(60) DEF Walks, DataInv
<1>9. QED
  BY <1>6, <1>7, <1>8 DEF k

\* When it comes to be written, nothing is left of its other cases.
LEMMA NoRivals ==
  ASSUME TypeOK, Shape, Walks, status = "running", top.phase = "apply", OneCase(before),
         ~dropped, NEW p \in Pos, Displaces(Kid, p)
  PROVE  to[p] = Absent
<1>1. /\ level \in 1..level /\ top = stack[level] /\ top.fn = "enter"
      /\ Kid = Kids[top.pos][top.i] /\ Parent[Kid] = top.pos
  BY Place
<1>2. PICK n \in DOMAIN Kids[top.pos] : Kids[top.pos][n] = p
  <2>1. p \in Pos \ {Root} /\ Parent[p] = top.pos
    BY <1>1 DEF Displaces, Rivals
  <2>2. QED
    BY <2>1, Place
<1>3. CasePending(level)
  BY <1>1 DEF Walks, CaseInv
<1>4. QED
  BY <1>1, <1>2, <1>3 DEF CasePending

-----------------------------------------------------------------------------
(***************************************************************************)
(* Each step of the walk keeps the invariant.                              *)
(***************************************************************************)

\* The steps that move the top activation to another phase and touch no data.
LEMMA QuietWalks ==
  ASSUME TypeOK, Shape, Walks, status = "running", UNCHANGED <<op, from, before, to, dropped>>,
         NEW f \in Frame, Goto(f), f.fn = top.fn, f.pos = top.pos, f.i = top.i,
         f.new = top.new, f.strat = top.strat, f.phase \notin {"clear", "apply"},
         f.phase = "end" => IF f.fn = "enter" THEN f.i > Len(Kids[f.pos])
                            ELSE to[f.pos] = Absent
  PROVE  Walks'
<1>1. /\ level \in 1..level /\ top = stack[level]
      /\ level' = level /\ stack'[level] = f
  BY TopShape, GotoFrame
<1>2. \A p : Ahead(p)' <=> Ahead(p)
  BY AheadStay
<1>3. WalkInv'
  <2>1. IF top.fn = "enter" THEN EnterOK(top) ELSE DeleteOK(top)
    BY <1>1 DEF Walks, WalkInv
  <2>2. f.fn = "enter" => EnterOK(f)
    BY <2>1 DEF EnterOK
  <2>3. f.fn # "enter" => Yields(f.pos) /\ (f.phase = "end" => to'[f.pos] = Absent)
    BY <2>1 DEF DeleteOK
  <2>4. QED
    BY <2>2, <2>3, WalkGoto DEF Walks
<1>4. LinkInv'
  BY LinkGoto DEF Walks
<1>5. DataInv'
  BY <1>2, DataStay DEF Walks
<1>6. Fewer
  BY DEF Fewer
<1>7. CaseInv'
  <2> SUFFICES ASSUME OneCase(before), ~dropped PROVE CasesDone' /\ \A l \in 1..level' : CasePending(l)'
    BY DEF CaseInv
  <2>1. CasesDone'
    BY <1>2, <1>6, DoneStay DEF Walks, CaseInv
  <2>2. CasePending(level)'
    BY <1>1 DEF CasePending
  <2>3. QED
    BY <1>6, <2>1, <2>2, PendingGoto DEF Walks, CaseInv
<1>8. UpsertKeepsOneCase'
  BY <1>6, KeepFewer DEF Walks
<1>9. QED
  BY <1>3, <1>4, <1>5, <1>7, <1>8 DEF Walks

\* A return (edit.go 52-55).
LEMMA ReturnWalks ==
  ASSUME TypeOK, Shape, Walks, status = "running", UNCHANGED <<op, from, before, to, dropped>>,
         top.phase = "end", stack' = SubSeq(stack, 1, level - 1)
  PROVE  Walks'
<1>1. level \in 1..level /\ top = stack[level] /\ top \in Frame /\ top.pos \in Pos
  BY TopShape
<1>2. IF top.fn = "enter" THEN top.i > Len(Kids[top.pos]) ELSE to[top.pos] = Absent
  BY <1>1 DEF Walks, WalkInv, EnterOK, DeleteOK
<1>3. \A p : ~Left(top, p)
  <2>1. CASE top.fn = "enter"
    BY <1>1, <1>2, <2>1, LeftNone DEF Frame
  <2>2. CASE top.fn # "enter"
    BY <2>2 DEF Left
  <2>3. QED
    BY <2>1, <2>2
<1>4. \A p : Ahead(p)' <=> Ahead(p)
  BY <1>3, AheadReturn
<1>5. WalkInv' /\ LinkInv' /\ DataInv'
  BY <1>4, WalkPop, LinkPop, DataStay DEF Walks
<1>6. Fewer
  BY DEF Fewer
<1>7. CaseInv'
  <2> SUFFICES ASSUME OneCase(before), ~dropped PROVE CasesDone' /\ \A l \in 1..level' : CasePending(l)'
    BY DEF CaseInv
  <2>1. CasesDone'
    BY <1>4, <1>6, DoneStay DEF Walks, CaseInv
  <2>2. QED
    BY <1>2, <2>1, PendingPop DEF Walks, CaseInv
<1>8. UpsertKeepsOneCase'
  BY <1>6, KeepFewer DEF Walks
<1>9. QED
  BY <1>5, <1>7, <1>8 DEF Walks

\* A deletion for a choice takes its data away (edit.go 128, selection.go 349-362).
LEMMA RemoveWalks ==
  ASSUME TypeOK, Shape, Walks, RemoveData
  PROVE  Walks'
<1> DEFINE f == [top EXCEPT !.phase = "end"]
<1>1. /\ status = "running" /\ top.phase = "remove" /\ Goto(f)
      /\ to' = Erase(to, top.pos) /\ UNCHANGED <<op, from, before, dropped>>
  BY DEF RemoveData, Running
<1>2. /\ level \in 1..level /\ top = stack[level] /\ top \in Frame /\ top.pos \in Pos
      /\ FrameOK(top, level, Ceiling)
  BY <1>1, TopShape
<1>3. top.fn = "delete"
  BY <1>1, <1>2 DEF FrameOK, EnterPhases, Frame
<1>4. f \in Frame
  <2>1. "end" \in Phase
    BY DEF Phase
  <2>2. QED
    BY <1>2, <2>1, FrameMoves, Zenon
<1>5. f.fn = top.fn /\ f.pos = top.pos /\ f.i = top.i /\ f.phase = "end"
  BY <1>2 DEF Frame
<1> HIDE DEF f
<1>6. level' = level /\ stack'[level] = f
  BY <1>1, <1>4, GotoFrame
<1>7. Yields(top.pos)
  BY <1>2, <1>3 DEF Walks, WalkInv, DeleteOK
<1>8. \A p : Ahead(p)' <=> Ahead(p)
  BY <1>1, <1>4, <1>5, AheadStay
<1>9. Fewer /\ to'[top.pos] = Absent
  <2>1. top.pos \in Below[top.pos]
    BY <1>2, TreeAssumption
  <2>2. QED
    BY <1>1, <1>2, <2>1 DEF Fewer, Erase
<1>10. WalkInv'
  BY <1>1, <1>3, <1>4, <1>5, <1>7, <1>9, WalkGoto DEF Walks
<1>11. LinkInv'
  BY <1>1, <1>4, <1>5, LinkGoto DEF Walks
<1>12. DataInv'
  BY <1>1, <1>2, <1>7, <1>8, DataDrop DEF Walks
<1>13. CaseInv'
  <2> SUFFICES ASSUME OneCase(before), ~dropped PROVE CasesDone' /\ \A l \in 1..level' : CasePending(l)'
    BY <1>1 DEF CaseInv
  <2>1. CasesDone'
    BY <1>1, <1>8, <1>9, DoneStay DEF Walks, CaseInv
  <2>2. CasePending(level)'
    BY <1>3, <1>5, <1>6 DEF CasePending
  <2>3. QED
    BY <1>1, <1>4, <1>5, <1>9, <2>1, <2>2, PendingGoto DEF Walks, CaseInv
<1>14. UpsertKeepsOneCase'
  BY <1>1, <1>9, KeepFewer DEF Walks
<1>15. QED
  BY <1>10, <1>11, <1>12, <1>13, <1>14 DEF Walks
\* What is not given is passed over (edit.go 66-79).
LEMMA SkipWalks ==
  ASSUME WhenFree, TypeOK, Shape, Live, Walks, Skip
  PROVE  Walks'
<1> DEFINE f == [top EXCEPT !.i = @ + 1]
<1>1. /\ Walking /\ status = "running" /\ top.phase = "walk" /\ ~Offered(Kid) /\ Goto(f)
      /\ UNCHANGED <<op, from, before, to, dropped>>
  BY DEF Skip, Walking, Running
<1>2. /\ top \in Frame /\ top.fn = "enter" /\ EnterOK(top) /\ top.i <= Len(Kids[top.pos])
      /\ Kid \in Pos /\ Kid \in Below[op.base] \ {op.base}
  BY <1>1, Place
<1>3. f \in Frame
  BY <1>2, FrameMoves, Zenon
<1>4. /\ f.fn = top.fn /\ f.pos = top.pos /\ f.i = top.i + 1 /\ f.phase = "walk"
      /\ f.strat = top.strat /\ f.new = top.new
  BY <1>1, <1>2 DEF Frame
<1> HIDE DEF f
<1>5. level' = level /\ stack'[level] = f
  BY <1>1, <1>3, GotoFrame
<1>6. Gives(Kid) = Absent
  BY <1>1, GivenKid
<1>7. \A p \in Pos : Ahead(p)' <=> Ahead(p) /\ p \notin Below[Kid]
  BY <1>1, <1>2, <1>3, <1>4, AheadOn DEF Walks
<1>8. WalkInv'
  <2>1. EnterOK(f)
    BY <1>2, <1>4 DEF EnterOK
  <2>2. QED
    BY <1>1, <1>2, <1>3, <1>4, <2>1, WalkGoto DEF Walks
<1>9. LinkInv'
  BY <1>1, <1>3, <1>4, LinkGoto DEF Walks
<1>10. DataInv'
  BY <1>1, <1>2, <1>6, <1>7, DataSkip DEF Walks
<1>11. Fewer
  BY <1>1 DEF Fewer
<1>12. CaseInv'
  <2> SUFFICES ASSUME OneCase(before), ~dropped PROVE CasesDone' /\ \A l \in 1..level' : CasePending(l)'
    BY <1>1 DEF CaseInv
  <2>1. CasesDone'
    BY <1>1, <1>2, <1>6, <1>7, DoneSkip DEF Walks, CaseInv
  <2>2. CasePending(level)'
    BY <1>4, <1>5 DEF CasePending
  <2>3. QED
    BY <1>1, <1>3, <1>4, <1>11, <2>1, <2>2, PendingGoto DEF Walks, CaseInv
<1>13. UpsertKeepsOneCase'
  BY <1>1, <1>11, KeepFewer DEF Walks
<1>14. QED
  BY <1>8, <1>9, <1>10, <1>12, <1>13 DEF Walks

\* While the store has one case per choice, what is there of the other cases of
\* what is given is all of one case.
LEMMA OneRival ==
  ASSUME TypeOK, DataInv, CaseInv, OneCase(before), ~dropped,
         NEW k \in Pos, NEW p \in Pos, NEW q \in Pos, Displaces(k, p), to[p] # Absent,
         Rivals(p, q), to[q] # Absent
  PROVE  FALSE
<1>1. Gives(k) # Absent /\ Rivals(k, p) /\ StrategyAt(op, Parent[p]) = "upsert"
  BY DEF Displaces, Rivals
<1>2. Gives(p) = Absent
  BY <1>1, OneGiven
<1>3. before[p] # Absent
  BY <1>2 DEF DataInv
<1>4. CASE Gives(q) # Absent /\ ~Ahead(q)
  <2>1. Displaces(q, p)
    BY <1>1, <1>4 DEF Displaces, Rivals
  <2>2. QED
    BY <1>4, <2>1 DEF CaseInv, CasesDone
<1>5. CASE Gives(q) = Absent \/ Ahead(q)
  <2>1. before[q] # Absent
    BY <1>5 DEF DataInv
  <2>2. QED
    BY <1>3, <2>1 DEF OneCase, Rivals
<1>6. QED
  BY <1>4, <1>5

\* What is given is taken up, and the case it displaces looked for, or not when the
\* destination's Choose fails (edit.go 89-111).
LEMMA TakeWalks ==
  ASSUME WhenFree, TypeOK, Shape, Live, Walks, Accept \/ ChooseError
  PROVE  Walks' /\ UNCHANGED <<op, from, before>>
<1>0. PICK other \in Cases \cup {NoCase} :
        /\ Walking /\ Take(other)
        /\ other # NoCase =>
             /\ top.strat = "upsert" /\ Case[Kid] # NoCase
             /\ other # Case[Kid] /\ ChoiceOf[other] = ChoiceOf[Case[Kid]]
        /\ \/ dropped' = TRUE
           \/ /\ dropped' = dropped
              /\ other \in IF top.strat = "upsert" THEN OtherCases(Kid) ELSE {NoCase}
  BY Takes
<1> DEFINE ph == IF other = NoCase THEN "apply" ELSE "clear"
           f == [top EXCEPT !.found = Found(Kid), !.case = other, !.j = 1, !.phase = ph]
<1>1. /\ Walking /\ status = "running" /\ top.phase = "walk" /\ Offered(Kid) /\ ~Clashes(Kid)
      /\ Goto(f) /\ UNCHANGED <<op, from, before, to>> /\ dropped' \in {dropped, TRUE}
  BY <1>0 DEF Take, Walking, Running
<1>2. /\ top \in Frame /\ top.fn = "enter" /\ EnterOK(top)
      /\ Kid = Kids[top.pos][top.i] /\ top.pos \in Pos /\ Kid \in Pos
      /\ Parent[Kid] = top.pos /\ top.strat = StrategyAt(op, top.pos)
  BY <1>1, Place DEF EnterOK
<1>3. other \in Cases \cup {NoCase} /\ Found(Kid) \in BOOLEAN /\ ph \in Phase
  BY DEF Found, VisibleTo, WhenMet, Phase
<1>4. other # NoCase =>
        /\ top.strat = "upsert" /\ Case[Kid] # NoCase /\ other # Case[Kid]
        /\ ChoiceOf[other] = ChoiceOf[Case[Kid]]
  BY <1>0
<1>5. f \in Frame
  <2> HIDE DEF ph
  <2>1. QED
    BY <1>2, <1>3, FrameMoves, Zenon
<1>6. /\ f.fn = top.fn /\ f.pos = top.pos /\ f.i = top.i /\ f.strat = top.strat
      /\ f.new = top.new /\ f.phase = ph /\ f.case = other /\ f.j = 1
  <2> HIDE DEF ph
  <2>1. QED
    BY <1>2 DEF Frame
<1>7. Gives(Kid) # Absent /\ to[Kid] = before[Kid]
  BY <1>1, GivenKid
<1>8. ~ClashAt(Kid)
  BY <1>1, <1>2, <1>7, Visible DEF Clashes, Found, ClashAt
<1>9. OneCase(before) /\ ~dropped' => \A n \in DOMAIN Kids[top.pos] : \A p \in Pos :
        p = Kids[top.pos][n] /\ Displaces(Kid, p) /\ to[p] # Absent =>
          ph = "clear" /\ Case[p] = other
  <2> SUFFICES ASSUME OneCase(before), ~dropped', NEW n \in DOMAIN Kids[top.pos], NEW p \in Pos,
                      p = Kids[top.pos][n], Displaces(Kid, p), to[p] # Absent
               PROVE  other # NoCase /\ Case[p] = other
    OBVIOUS
  <2> DEFINE there == Choosable(to, top.pos, ChoiceOf[Case[Kid]])
  <2>1. /\ top.strat = "upsert" /\ Case[Kid] # NoCase /\ Case[p] # NoCase /\ Case[p] # Case[Kid]
        /\ ChoiceOf[Case[p]] = ChoiceOf[Case[Kid]] /\ Parent[p] = top.pos /\ p \in Pos \ {Root}
    BY <1>2 DEF Displaces, Rivals
  <2>2. other \in OtherCases(Kid) /\ ~dropped
    BY <1>0, <2>1
  <2>3. Case[p] \in there
    BY <2>1, SchemaAssumption DEF Choosable
  <2>4. PICK c \in there : other = IF c = Case[Kid] THEN NoCase ELSE c
    BY <2>1, <2>2, <2>3 DEF OtherCases
  <2>5. PICK q \in Pos \ {Root} : Parent[q] = top.pos /\ Case[q] = c /\ to[q] # Absent
    BY <2>4 DEF Choosable
  <2>6. c \in Cases /\ ChoiceOf[c] = ChoiceOf[Case[Kid]] /\ c # NoCase
    BY <2>4, TokensAssumption DEF Choosable
  <2>7. ~Rivals(p, q)
    BY <1>2, <2>2, <2>5, OneRival DEF Walks
  <2>8. Case[p] = c
    BY <2>1, <2>5, <2>6, <2>7 DEF Rivals
  <2>9. QED
    BY <2>1, <2>4, <2>6, <2>8
<1> HIDE DEF ph, f
<1>10. ph = "clear" => other # NoCase
  BY DEF ph
<1>11. level' = level /\ stack'[level] = f
  BY <1>1, <1>5, GotoFrame
<1>12. \A p : Ahead(p)' <=> Ahead(p)
  BY <1>1, <1>5, <1>6, AheadStay
<1>13. WalkInv'
  <2>1. EnterOK(f)
    BY <1>2, <1>4, <1>6, <1>7, <1>8, <1>10 DEF EnterOK, ph
  <2>2. QED
    BY <1>1, <1>2, <1>5, <1>6, <2>1, WalkGoto DEF Walks
<1>14. LinkInv'
  BY <1>1, <1>5, <1>6, LinkGoto DEF Walks
<1>15. DataInv'
  BY <1>1, <1>12, DataStay DEF Walks
<1>16. Fewer
  BY <1>1 DEF Fewer
<1>17. CaseInv'
  <2> SUFFICES ASSUME OneCase(before), ~dropped' PROVE CasesDone' /\ \A l \in 1..level' : CasePending(l)'
    BY <1>1 DEF CaseInv
  <2>0. ~dropped
    BY <1>0
  <2>1. CasesDone'
    BY <1>1, <1>12, <1>16, <2>0, DoneStay DEF Walks, CaseInv
  <2>2. CasePending(level)'
    <3>1. \A n \in DOMAIN Kids[top.pos] : n >= 1 /\ Kids[top.pos][n] \in Pos
      BY <1>2, KidsAssumption
    <3>2. QED
      BY <1>1, <1>2, <1>6, <1>9, <1>11, <3>1, SameSays DEF CasePending
  <2>3. QED
    BY <1>1, <1>5, <1>6, <1>16, <2>0, <2>1, <2>2, PendingGoto DEF Walks, CaseInv
<1>18. UpsertKeepsOneCase'
  <2>1. UpsertKeepsOneCase /\ UNCHANGED <<op, before>>
    BY <1>1 DEF Walks
  <2>2. dropped => dropped'
    BY <1>0
  <2>3. QED
    BY <1>16, <2>1, <2>2, KeepFewer
<1>19. QED
  BY <1>1, <1>13, <1>14, <1>15, <1>17, <1>18 DEF Walks

\* One definition of the case that gives way (edit.go 115-134).
LEMMA ClearWalks ==
  ASSUME WhenFree, TypeOK, Shape, Live, Walks, Clear
  PROVE  Walks'
<1> DEFINE m == Kids[top.pos][top.j]
           next == [top EXCEPT !.j = @ + 1]
           g == DeleteFrame(m)
           hit == Case[m] = top.case
<1>1. /\ status = "running" /\ top.phase = "clear" /\ top.j <= Len(Kids[top.pos])
      /\ UNCHANGED <<op, from, before, dropped>>
  BY DEF Clear, Clearing, Running
<1>2. /\ level \in Nat \ {0} /\ top = stack[level] /\ top \in Frame /\ top.pos \in Pos
      /\ top.fn = "enter" /\ EnterOK(top) /\ Kid = Kids[top.pos][top.i] /\ Kid \in Pos \ {Root}
      /\ Parent[Kid] = top.pos
      /\ \A n \in DOMAIN Kids[top.pos] : Kids[top.pos][n] \in Pos
  BY <1>1, Place
<1>3. top.case # Case[Kid]
  BY <1>1, <1>2, TopShape DEF FrameOK
<1>4. top.j \in DOMAIN Kids[top.pos] /\ top.j \in Nat /\ m \in Pos \ {Root} /\ Parent[m] = top.pos
  <2>1. top.j \in 1..Len(Kids[top.pos])
    BY <1>1, <1>2 DEF Frame
  <2>2. QED
    BY <1>2, <2>1, KidFacts, KidsAssumption, SMTT(60)
<1>5. hit => Yields(m)
  <2> SUFFICES ASSUME hit PROVE Displaces(Kid, m)
    BY <1>2, SMTT(60) DEF Yields
  <2>1. /\ Gives(Kid) # Absent /\ StrategyAt(op, top.pos) = "upsert" /\ Case[Kid] # NoCase
        /\ top.case # NoCase /\ ChoiceOf[top.case] = ChoiceOf[Case[Kid]]
    BY <1>1, <1>2 DEF EnterOK
  <2>2. QED
    BY <1>2, <1>3, <1>4, <2>1 DEF Displaces, Rivals
<1>6. next \in Frame
  BY <1>2, FrameMoves, Zenon
<1>7. /\ next.fn = "enter" /\ next.pos = top.pos /\ next.i = top.i /\ next.strat = top.strat
      /\ next.new = top.new /\ next.phase = "clear" /\ next.case = top.case
      /\ next.j = top.j + 1
  BY <1>1, <1>2 DEF Frame
<1>8. /\ to' = IF hit /\ m \in Leaves THEN Erase(to, m) ELSE to
      /\ IF hit /\ m \in Inner /\ to[m] # Absent THEN stack' = Push(next, g) ELSE Goto(next)
  <2>1. \A t : VisibleTo(t, m)
    BY <1>4, Visible
  <2>2. QED
    BY <2>1 DEF Clear, Hit, Member
<1>9. m \in Below[m]
  BY <1>4, TreeAssumption
<1> HIDE DEF m, next, g, hit
<1>10. EnterOK(next)
  BY <1>1, <1>2, <1>7, ZenonT(60) DEF EnterOK
<1>11. Fewer /\ (hit /\ m \in Leaves => to'[m] = Absent)
  BY <1>4, <1>8, <1>9 DEF Fewer, Erase
<1>12. UpsertKeepsOneCase'
  BY <1>1, <1>11, KeepFewer DEF Walks
<1>13. (\A p : Ahead(p)' <=> Ahead(p)) => DataInv' /\ (OneCase(before) /\ ~dropped => CasesDone')
  BY <1>1, <1>4, <1>5, <1>8, <1>11, DataStay, DataDrop, DoneStay DEF Walks, CaseInv
<1>14. OneCase(before) /\ ~dropped => \A n \in DOMAIN Kids[top.pos] : \A p \in Pos :
         p = Kids[top.pos][n] /\ Displaces(Kid, p) /\ to'[p] # Absent =>
           Case[p] = top.case /\ (n >= top.j + 1 \/ p = m)
  <2> SUFFICES ASSUME OneCase(before), ~dropped, NEW n \in DOMAIN Kids[top.pos], NEW p \in Pos,
                      p = Kids[top.pos][n], Displaces(Kid, p), to'[p] # Absent
               PROVE  Case[p] = top.case /\ (n >= top.j + 1 \/ p = m)
    OBVIOUS
  <2>1. to[p] # Absent
    BY <1>11 DEF Fewer
  <2>2. level \in 1..level /\ ~(\E x \in (level + 1)..level : stack[x].pos = p)
    BY <1>2
  <2>3. CasePending(level)
    BY <2>2 DEF Walks, CaseInv
  <2>4. Case[p] = top.case /\ n >= top.j
    BY <1>1, <1>2, <2>1, <2>2, <2>3 DEF CasePending
  <2>5. n \in Nat
    BY <1>2, KidsAssumption, SMTT(40)
  <2>6. n >= top.j + 1 \/ n = top.j
    BY <1>4, <2>4, <2>5
  <2>7. QED
    BY <2>4, <2>6 DEF m
<1>15. CASE Goto(next) /\ ~(hit /\ m \in Inner /\ to[m] # Absent)
  <2>1. level' = level /\ stack'[level] = next
    BY <1>1, <1>6, <1>15, GotoFrame
  <2>2. \A p : Ahead(p)' <=> Ahead(p)
    BY <1>1, <1>2, <1>6, <1>7, <1>15, AheadStay
  <2>3. WalkInv'
    BY <1>1, <1>6, <1>7, <1>10, <1>15, WalkGoto DEF Walks
  <2>4. LinkInv'
    BY <1>1, <1>2, <1>6, <1>7, <1>15, LinkGoto DEF Walks
  <2>5. ASSUME OneCase(before), ~dropped PROVE \A l \in 1..level' : CasePending(l)'
    <3>1. hit => to'[m] = Absent
      BY <1>4, <1>8, <1>11, <1>15 DEF Inner
    <3>2. \A n \in DOMAIN Kids[top.pos] : \A p \in Pos :
            p = Kids[top.pos][n] /\ Displaces(Kid, p) /\ to'[p] # Absent =>
              Case[p] = top.case /\ n >= top.j + 1
      BY <1>14, <2>5, <3>1 DEF hit
    <3>3. CasePending(level)'
      BY <1>1, <1>2, <1>7, <2>1, <3>2, SameSays DEF CasePending
    <3>4. QED
      BY <1>1, <1>2, <1>6, <1>7, <1>15, <2>5, <3>3, PendingGoto DEF Walks, CaseInv
  <2>6. CaseInv'
    BY <1>1, <1>13, <2>2, <2>5 DEF CaseInv
  <2>7. QED
    BY <1>12, <1>13, <2>2, <2>3, <2>4, <2>6 DEF Walks
<1>16. CASE stack' = Push(next, g) /\ hit /\ m \in Inner
  <2>1. g \in Frame /\ g.fn = "delete" /\ g.pos = m /\ g.phase = "hook"
    <3>1. g \in Frame
      BY <1>16, NewFrames DEF g
    <3>2. QED
      BY <3>1 DEF g, DeleteFrame, EnterFrame
  <2>2. level' = level + 1 /\ stack'[level] = next /\ stack'[level + 1] = g
    BY <1>1, <1>6, <1>16, <2>1, PushFrame
  <2>3. \A p : Ahead(p)' <=> Ahead(p)
    BY <1>1, <1>2, <1>6, <1>7, <1>16, <2>1, AheadDelete
  <2>4. WalkInv'
    BY <1>1, <1>5, <1>6, <1>7, <1>10, <1>16, <2>1, WalkPush DEF Walks
  <2>5. LinkInv'
    BY <1>1, <1>2, <1>6, <1>7, <1>16, <2>1, LinkPush DEF Walks
  <2>6. ASSUME OneCase(before), ~dropped PROVE \A l \in 1..level' : CasePending(l)'
    <3>1. PICK L : L = level
      OBVIOUS
    <3>2. L + 1 \in (L + 1)..level' /\ stack'[L] = next /\ stack'[L + 1] = g
      BY <1>2, <2>2, <3>1, SMTT(60)
    <3>3. CasePending(L)'
      BY <1>1, <1>2, <1>7, <1>14, <2>1, <2>6, <3>2, SameSays DEF CasePending
    <3>4. CasePending(L + 1)'
      BY <2>1, <3>2 DEF CasePending
    <3>5. QED
      BY <1>1, <1>2, <1>6, <1>16, <2>1, <3>1, <3>3, <3>4, PendingPush
  <2>7. CaseInv'
    BY <1>1, <1>13, <2>3, <2>6 DEF CaseInv
  <2>8. QED
    BY <1>12, <1>13, <2>3, <2>4, <2>5, <2>7 DEF Walks
<1>17. QED
  BY <1>8, <1>15, <1>16

\* One that cannot be looked up is passed over (edit.go 124-131).
LEMMA FindErrorWalks ==
  ASSUME TypeOK, Shape, Live, Walks, FindError
  PROVE  Walks' /\ UNCHANGED <<op, from, before>>
<1> DEFINE next == [top EXCEPT !.j = @ + 1]
<1>1. /\ status = "running" /\ top.phase = "clear" /\ Goto(next)
      /\ UNCHANGED <<op, from, before, to>> /\ dropped' = TRUE
  BY DEF FindError, Clearing, Running
<1>2. top \in Frame /\ top.fn = "enter" /\ EnterOK(top)
  BY <1>1, Place
<1>3. next \in Frame
  BY <1>2, FrameMoves, Zenon
<1>4. /\ next.fn = "enter" /\ next.pos = top.pos /\ next.i = top.i /\ next.strat = top.strat
      /\ next.new = top.new /\ next.phase = "clear" /\ next.case = top.case
  BY <1>1, <1>2 DEF Frame
<1> HIDE DEF next
<1>5. EnterOK(next)
  BY <1>1, <1>2, <1>4, ZenonT(60) DEF EnterOK
<1>6. WalkInv' /\ LinkInv'
  BY <1>1, <1>2, <1>3, <1>4, <1>5, WalkGoto, LinkGoto DEF Walks
<1>7. DataInv'
  <2>1. \A p : Ahead(p)' <=> Ahead(p)
    BY <1>1, <1>2, <1>3, <1>4, AheadStay
  <2>2. QED
    BY <1>1, <2>1, DataStay DEF Walks
<1>8. CaseInv' /\ UpsertKeepsOneCase'
  BY <1>1 DEF CaseInv, UpsertKeepsOneCase
<1>9. QED
  BY <1>1, <1>6, <1>7, <1>8 DEF Walks

\* The case is clear.
LEMMA ClearedWalks ==
  ASSUME TypeOK, Shape, Live, Walks, Cleared
  PROVE  Walks'
<1> DEFINE f == [top EXCEPT !.phase = "apply"]
<1>1. /\ status = "running" /\ top.phase = "clear" /\ top.j > Len(Kids[top.pos]) /\ Goto(f)
      /\ UNCHANGED <<op, from, before, to, dropped>>
  BY DEF Cleared, Running
<1>2. /\ level \in Nat \ {0} /\ top = stack[level] /\ top \in Frame /\ top.pos \in Pos
      /\ top.fn = "enter" /\ EnterOK(top)
  BY <1>1, Place
<1>3. f \in Frame
  <2>1. "apply" \in Phase
    BY DEF Phase
  <2>2. QED
    BY <1>2, <2>1, FrameMoves, Zenon
<1>4. /\ f.fn = top.fn /\ f.pos = top.pos /\ f.i = top.i /\ f.strat = top.strat
      /\ f.new = top.new /\ f.phase = "apply"
  BY <1>2 DEF Frame
<1> HIDE DEF f
<1>5. level' = level /\ stack'[level] = f
  BY <1>1, <1>3, GotoFrame
<1>6. \A p : Ahead(p)' <=> Ahead(p)
  BY <1>1, <1>3, <1>4, AheadStay
<1>7. WalkInv'
  <2>1. EnterOK(f)
    BY <1>1, <1>2, <1>4 DEF EnterOK
  <2>2. QED
    BY <1>1, <1>2, <1>3, <1>4, <2>1, WalkGoto DEF Walks
<1>8. LinkInv' /\ DataInv'
  BY <1>1, <1>3, <1>4, <1>6, LinkGoto, DataStay DEF Walks
<1>9. Fewer
  BY <1>1 DEF Fewer
<1>10. CaseInv'
  <2> SUFFICES ASSUME OneCase(before), ~dropped PROVE CasesDone' /\ \A l \in 1..level' : CasePending(l)'
    BY <1>1 DEF CaseInv
  <2>1. CasesDone'
    BY <1>1, <1>6, <1>9, DoneStay DEF Walks, CaseInv
  <2>2. \A n \in DOMAIN Kids[top.pos] : ~(n >= top.j)
    BY <1>1, <1>2, KidsAssumption DEF Frame
  <2>3. level \in 1..level /\ \A p : ~(\E x \in (level + 1)..level : stack[x].pos = p)
    BY <1>2
  <2>4. CasePending(level)
    BY <2>3 DEF Walks, CaseInv
  <2>5. CasePending(level)'
    BY <1>1, <1>2, <1>4, <1>5, <2>2, <2>3, <2>4, SameSays DEF CasePending
  <2>6. QED
    BY <1>1, <1>3, <1>4, <1>9, <2>1, <2>5, PendingGoto DEF Walks, CaseInv
<1>11. UpsertKeepsOneCase'
  BY <1>1, <1>9, KeepFewer DEF Walks
<1>12. QED
  BY <1>7, <1>8, <1>10, <1>11 DEF Walks
\* What the top activation is about to give.
LEMMA Applying ==
  ASSUME WhenFree, TypeOK, Shape, Walks, status = "running", top.phase = "apply"
  PROVE  /\ Gives(Kid) # Absent /\ ~ClashAt(Kid) /\ to[Kid] = before[Kid]
         /\ Kid \in Leaves => SourceValue(Kid) = Gives(Kid)
         /\ Kid \in Inner => Gives(Kid) = Obj
         /\ OneCase(before) /\ ~dropped => \A p \in Pos : Displaces(Kid, p) => to[p] = Absent
<1>1. Kid \in Pos /\ Gives(Kid) # Absent /\ ~ClashAt(Kid)
  BY Place DEF EnterOK
<1>2. OneCase(before) /\ ~dropped => \A p \in Pos : Displaces(Kid, p) => to[p] = Absent
  BY NoRivals
<1>3. QED
  BY <1>1, <1>2, GivenKid, GivesFacts

\* The data of a step that gives the definition the walk is at.
LEMMA TakeData ==
  ASSUME WhenFree, TypeOK, Shape, Walks, status = "running", top.phase = "apply",
         UNCHANGED <<op, from, before, dropped>>, op.kind # "delete",
         to'[Kid] = Gives(Kid), \A p \in Pos : p # Kid => to'[p] = to[p],
         \A p \in Pos : Ahead(p)' <=> Ahead(p) /\ p # Kid
  PROVE  DataInv' /\ (OneCase(before) /\ ~dropped => CasesDone') /\ UpsertKeepsOneCase'
<1>1. /\ Kid \in Pos /\ Gives(Kid) # Absent /\ ~ClashAt(Kid)
      /\ OneCase(before) /\ ~dropped => \A p \in Pos : Displaces(Kid, p) => to[p] = Absent
  BY Place, Applying
<1>2. DataInv'
  BY <1>1, DataTake DEF Walks
<1>3. OneCase(before) /\ ~dropped => CasesDone'
  BY <1>1, DoneTake DEF Walks, CaseInv
<1>4. UpsertKeepsOneCase'
  BY <1>1, KeepTake DEF Walks
<1>5. QED
  BY <1>2, <1>3, <1>4

\* A leaf is written (edit.go 149-166, selection.go 605-617).
LEMMA SetLeafWalks ==
  ASSUME WhenFree, TypeOK, Shape, Live, Walks, op.kind # "delete", SetLeaf
  PROVE  Walks'
<1> DEFINE f == [top EXCEPT !.phase = "walk", !.i = @ + 1]
<1>1. /\ status = "running" /\ top.phase = "apply" /\ Kid \in Leaves /\ Goto(f)
      /\ UNCHANGED <<op, from, before, dropped>>
  BY DEF SetLeaf, Running
<1>2. /\ level \in Nat \ {0} /\ top = stack[level] /\ top \in Frame /\ top.pos \in Pos
      /\ top.fn = "enter" /\ EnterOK(top) /\ top.i <= Len(Kids[top.pos]) /\ Kid \in Pos
  BY <1>1, Place
<1>3. f \in Frame
  BY <1>2, FrameMoves, Zenon
<1>4. /\ f.fn = "enter" /\ f.pos = top.pos /\ f.i = top.i + 1 /\ f.strat = top.strat
      /\ f.new = top.new /\ f.phase = "walk"
  BY <1>2 DEF Frame
<1> HIDE DEF f
<1>5. level' = level /\ stack'[level] = f
  BY <1>1, <1>3, GotoFrame
<1>6. to'[Kid] = Gives(Kid) /\ \A p \in Pos : p # Kid => to'[p] = to[p]
  <2>1. SourceValue(Kid) = Gives(Kid)
    BY <1>1, Applying
  <2>2. to' = Write(to, Kid, Gives(Kid))
    BY <1>2, <2>1, Visible DEF SetLeaf
  <2>3. to \in [Pos -> Val \cup {Obj, Absent}]
    BY DEF TypeOK, WellTyped, Tree
  <2>4. QED
    BY <1>2, <2>2, <2>3 DEF Write
<1>7. \A p \in Pos : Ahead(p)' <=> Ahead(p) /\ p # Kid
  <2>1. \A p \in Pos : Ahead(p)' <=> Ahead(p) /\ p \notin Below[Kid]
    BY <1>1, <1>2, <1>3, <1>4, AheadOn DEF Walks
  <2>2. Below[Kid] = {Kid}
    BY <1>1, TreeAssumption
  <2>3. QED
    BY <2>1, <2>2
<1>8. DataInv' /\ (OneCase(before) /\ ~dropped => CasesDone') /\ UpsertKeepsOneCase'
  BY <1>1, <1>6, <1>7, TakeData
<1>9. WalkInv'
  <2>1. EnterOK(f)
    BY <1>2, <1>4 DEF EnterOK
  <2>2. QED
    BY <1>1, <1>3, <1>4, <2>1, WalkGoto DEF Walks
<1>10. LinkInv'
  BY <1>1, <1>2, <1>3, <1>4, LinkGoto DEF Walks
<1>11. OneCase(before) /\ ~dropped => \A l \in 1..level' : CasePending(l)'
  <2>1. CasePending(level)'
    BY <1>4, <1>5 DEF CasePending
  <2>2. QED
    BY <1>1, <1>2, <1>3, <1>4, <2>1, PendingGoto DEF Walks, CaseInv
<1>12. CaseInv'
  BY <1>1, <1>8, <1>11 DEF CaseInv
<1>13. QED
  BY <1>8, <1>9, <1>10, <1>12 DEF Walks

\* The activation of a child is where the source leads.
LEMMA ChildEnters ==
  ASSUME TypeOK, Shape, Walks, status = "running", top.phase = "apply", Kid \in Inner,
         to[Kid] = before[Kid], NEW new \in BOOLEAN, new <=> to[Kid] = Absent
  PROVE  /\ EnterFrame(Kid, new, Nested(Kid)) \in Frame
         /\ EnterOK(EnterFrame(Kid, new, Nested(Kid)))
<1> DEFINE g == EnterFrame(Kid, new, Nested(Kid))
<1>1. /\ top \in Frame /\ EnterOK(top) /\ Kid \in Pos /\ Parent[Kid] = top.pos
      /\ Kid \in Below[op.base] \ {op.base} /\ Gives(Kid) # Absent
      /\ top.strat = StrategyAt(op, top.pos) /\ Reached(op, from, top.pos)
  BY Place DEF EnterOK
<1>2. Nested(Kid) \in Strategy
  BY <1>1 DEF Nested, Strategy, Frame
<1>3. g \in Frame
  BY <1>2, NewFrames
<1>4. /\ g.fn = "enter" /\ g.pos = Kid /\ g.new = new /\ g.strat = Nested(Kid)
      /\ g.phase = "begin" /\ g.i = 1
  BY DEF EnterFrame
<1> HIDE DEF g
<1>5. Kid \in Through(op, Kid) /\ Through(op, top.pos) = Through(op, Kid) \ {Kid}
  <2>1. op.base \in Inner
    BY CeilingType
  <2>2. QED
    BY <1>1, <2>1, ThroughFacts, ThroughParent
<1>6. Nested(Kid) = StrategyAt(op, Kid)
  BY <1>1, <1>5 DEF Nested, StrategyAt
<1>7. Reached(op, from, Kid)
  <2>1. Selected(from, Kid) /\ from[Kid] # Absent
    BY <1>1, GivesFacts, TokensAssumption
  <2>2. QED
    BY <1>1, <1>5, <2>1 DEF Reached
<1>8. EnterOK(g)
  BY <1>1, <1>4, <1>6, <1>7 DEF EnterOK
<1>9. QED
  BY <1>3, <1>8 DEF g

\* Down to a child that is there, found or new (edit.go 186-205, 246-270).
LEMMA DownWalks ==
  ASSUME WhenFree, TypeOK, Shape, Live, Walks, op.kind # "delete",
         status = "running", top.phase = "apply", Kid \in Inner, UNCHANGED <<op, from, before, dropped>>,
         NEW new \in BOOLEAN, new <=> to[Kid] = Absent,
         stack' = Push(Return, EnterFrame(Kid, new, Nested(Kid))),
         to'[Kid] = Obj, \A p \in Pos : p # Kid => to'[p] = to[p]
  PROVE  Walks'
<1> DEFINE g == EnterFrame(Kid, new, Nested(Kid))
<1>1. /\ level \in Nat \ {0} /\ top = stack[level] /\ top \in Frame /\ top.pos \in Pos
      /\ top.fn = "enter" /\ EnterOK(top) /\ top.i \in DOMAIN Kids[top.pos]
      /\ top.i <= Len(Kids[top.pos]) /\ Kid = Kids[top.pos][top.i]
      /\ Kid \in Pos /\ Kid \in Below[top.pos]
  BY Place, SMTT(60)
<1>2. Return \in Frame
  BY <1>1, FrameMoves DEF Return
<1>3. /\ Return.fn = "enter" /\ Return.pos = top.pos /\ Return.i = top.i + 1
      /\ Return.strat = top.strat /\ Return.new = top.new /\ Return.phase = "walk"
  BY <1>1 DEF Return, Frame
<1>4. g \in Frame /\ EnterOK(g)
  BY Applying, ChildEnters
<1>5. g.fn = "enter" /\ g.pos = Kid /\ g.phase = "begin" /\ g.i = 1 /\ stack' = Push(Return, g)
  BY DEF EnterFrame
<1> HIDE DEF g
<1>6. level' = level + 1 /\ stack'[level] = Return /\ stack'[level + 1] = g
  BY <1>2, <1>4, <1>5, PushFrame, SMTT(60)
<1>7. \A p \in Pos : Ahead(p)' <=> Ahead(p) /\ p # Kid
  BY <1>1, <1>2, <1>3, <1>4, <1>5, AheadDown DEF Walks
<1>8. DataInv' /\ (OneCase(before) /\ ~dropped => CasesDone') /\ UpsertKeepsOneCase'
  BY <1>7, Applying, TakeData
<1>9. WalkInv'
  <2>1. EnterOK(Return)
    BY <1>1, <1>3, SMTT(60) DEF EnterOK
  <2>2. QED
    BY <1>2, <1>3, <1>4, <1>5, <2>1, WalkPush, SMTT(60) DEF Walks
<1>10. LinkInv'
  <2>1. ~Left(Return, Kid)
    <3>1. Kid \in Below[Kids[top.pos][top.i]]
      BY <1>1, TreeAssumption
    <3>2. QED
      BY <1>1, <1>3, <3>1, LeftOn
  <2>2. \A l \in 1..(level - 1) : ~Left(stack[l], Kid)
    BY <1>1, LeftApart, SMTT(60) DEF Walks
  <2>3. QED
    BY <1>1, <1>2, <1>3, <1>4, <1>5, <2>1, <2>2, LinkPush, ZenonT(60) DEF Walks
<1>11. \A l \in 1..level' : CasePending(l)'
  <2>1. PICK L : L = level
    OBVIOUS
  <2>2. CasePending(L)' /\ CasePending(L + 1)'
    BY <1>3, <1>5, <1>6, <2>1 DEF CasePending
  <2>3. QED
    BY <1>1, <1>2, <1>4, <1>5, <2>1, <2>2, PendingPush
<1>12. CaseInv'
  BY <1>8, <1>11 DEF CaseInv
<1>13. QED
  BY <1>8, <1>9, <1>10, <1>12 DEF Walks

LEMMA DescendWalks ==
  ASSUME WhenFree, TypeOK, Shape, Live, Walks, op.kind # "delete", Descend
  PROVE  Walks'
<1>1. /\ status = "running" /\ top.phase = "apply" /\ Kid \in Inner /\ top.found
      /\ stack' = Push(Return, EnterFrame(Kid, FALSE, Nested(Kid)))
      /\ UNCHANGED <<op, from, before, to, dropped>>
  BY DEF Descend, Running
<1>2. to[Kid] # Absent /\ WellTyped(to)
  BY <1>1, LiveNow DEF FoundOK, Kid
<1>3. to[Kid] = Obj
  BY <1>1, <1>2 DEF WellTyped
<1>4. QED
  BY <1>1, <1>2, <1>3, DownWalks

LEMMA CreateChildWalks ==
  ASSUME WhenFree, TypeOK, Shape, Live, Walks, op.kind # "delete", CreateChild
  PROVE  Walks'
<1>1. /\ status = "running" /\ top.phase = "apply" /\ Kid \in Inner /\ Kid \in Pos /\ ~top.found
      /\ to' = Create(to, Kid) /\ UNCHANGED <<op, from, before, dropped>>
  BY DEF CreateChild, Running, Inner
<1>2. stack' = Push(Return, EnterFrame(Kid, TRUE, Nested(Kid)))
  BY <1>1, Visible DEF CreateChild
<1>3. to[Kid] = Absent /\ Rooted(to)
  BY <1>1, LiveNow DEF FoundOK, Kid
<1>4. to'[Kid] = Obj /\ \A p \in Pos : p # Kid => to'[p] = to[p]
  BY <1>1, <1>3 DEF Create, Rooted
<1>5. QED
  BY <1>1, <1>2, <1>3, <1>4, DownWalks
-----------------------------------------------------------------------------
(***************************************************************************)
(* MergeInv is inductive.                                                  *)
(***************************************************************************)
LEMMA MergeInit == Init => MergeInv
  BY DEF Init, MergeInv, UpsertKeepsOneCase

\* A call has everything ahead of it (edit.go 25-62).
LEMMA CallMerge ==
  ASSUME TypeOK, NEW r \in Requests, NEW src \in Seen, Call(r, src)
  PROVE  MergeInv'
<1>1. /\ op' = r /\ from' = src /\ before' = to /\ to' = to /\ status' = "running"
      /\ stack' = << IF r.kind = "delete" THEN DeleteFrame(r.base)
                     ELSE EnterFrame(r.base, FALSE, r.kind) >>
  BY DEF Call
<1>2. r.base \in Inner /\ r.base \in Pos /\ Below[r.base] \subseteq Pos
  BY RequestAssumption, TreeAssumption DEF Request, Inner
<1>3. UpsertKeepsOneCase'
  BY <1>1 DEF UpsertKeepsOneCase
<1>4. CASE r.kind = "delete"
  <2>1. stack' = <<DeleteFrame(r.base)>>
    BY <1>1, <1>4
  <2>2. level' = 1 /\ top' = DeleteFrame(r.base)
    BY <2>1 DEF level, top
  <2>3. DeleteFrame(r.base).fn = "delete" /\ DeleteFrame(r.base).phase = "hook"
    BY DEF DeleteFrame, EnterFrame
  <2>4. RemoveInv'
    BY <1>1, <2>2, <2>3 DEF RemoveInv
  <2>5. QED
    BY <1>1, <1>3, <1>4, <2>4 DEF MergeInv
<1>5. CASE r.kind # "delete"
  <2> DEFINE f == EnterFrame(r.base, FALSE, r.kind)
  <2>1. /\ f.fn = "enter" /\ f.pos = r.base /\ f.i = 1 /\ f.phase = "begin"
        /\ f.new = FALSE /\ f.strat = r.kind
    BY DEF EnterFrame
  <2>2. stack' = <<f>>
    BY <1>1, <1>5
  <2> HIDE DEF f
  <2>3. level' = 1 /\ stack'[1] = f
    BY <2>2 DEF level
  <2>4. Through(r, r.base) = {} /\ r.base \in Below[r.base]
    BY <1>2, ThroughFacts, TreeAssumption
  <2>5. WalkInv'
    <3>1. StrategyAt(r, r.base) = r.kind /\ Reached(r, src, r.base)
      BY <2>4 DEF StrategyAt, Reached
    <3>2. EnterOK(f)'
      BY <1>1, <2>1, <3>1 DEF EnterOK
    <3>3. QED
      BY <2>1, <2>3, <3>2 DEF WalkInv
  <2>6. LinkInv'
    BY <2>3 DEF LinkInv
  <2>7. ASSUME NEW p \in Pos, Gives(p)' # Absent PROVE Ahead(p)'
    <3>1. Given(r, src, to, p) # Absent
      BY <1>1, <2>7 DEF Gives
    <3>2. p \in Below[r.base] /\ p # r.base
      BY <1>2, <3>1, GivenAbove
    <3>3. Left(f, p)
      BY <1>2, <2>1, <3>2, LeftAll
    <3>4. QED
      BY <2>3, <3>3 DEF Ahead
  <2>8. DataInv'
    BY <1>1, <2>7 DEF DataInv
  <2>9. CaseInv'
    <3>1. CasesDone'
      BY <2>7 DEF CasesDone, Displaces
    <3>2. \A l \in 1..level' : CasePending(l)'
      BY <2>1, <2>3 DEF CasePending
    <3>3. QED
      BY <3>1, <3>2 DEF CaseInv
  <2>10. QED
    BY <1>1, <1>3, <1>5, <2>5, <2>6, <2>8, <2>9 DEF MergeInv
<1>6. QED
  BY <1>4, <1>5

\* A step without a change.
LEMMA StutterMerge ==
  ASSUME MergeInv, UNCHANGED vars
  PROVE  MergeInv'
<1>1. /\ UNCHANGED <<op, from, to, status, stack, before, dropped>> /\ level' = level /\ top' = top
  BY DEF vars, level, top
<1>2. \A p : Ahead(p)' <=> Ahead(p)
  BY <1>1 DEF Ahead
<1>3. WalkInv => WalkInv'
  BY <1>1, SameSays DEF WalkInv, DeleteOK
<1>4. LinkInv => LinkInv'
  BY <1>1 DEF LinkInv
<1>5. DataInv => DataInv'
  BY <1>1, <1>2, DataStay
<1>6. CaseInv => CaseInv'
  BY <1>1, <1>2, SameSays DEF CaseInv, CasesDone, CasePending
<1>7. RemoveInv => RemoveInv'
  BY <1>1 DEF RemoveInv
<1>8. UpsertKeepsOneCase'
  BY <1>1 DEF MergeInv, UpsertKeepsOneCase
<1>9. QED
  BY <1>1, <1>3, <1>4, <1>5, <1>6, <1>7, <1>8 DEF MergeInv

\* The quiet steps are quiet.
LEMMA QuietMoves ==
  ASSUME TypeOK, Shape, DeleteHook \/ BeginEdit \/ (EndEdit /\ Bubbles /\ top.at # Ceiling) \/ Walked
  PROVE  /\ status = "running" /\ status' = "running" /\ UNCHANGED <<op, from, before, to, dropped>>
         /\ \E f \in Frame :
              /\ Goto(f) /\ f.fn = top.fn /\ f.pos = top.pos /\ f.i = top.i
              /\ f.new = top.new /\ f.strat = top.strat /\ f.phase \notin {"clear", "apply"}
              /\ f.phase = "end" => \/ top.phase = "end"
                                    \/ top.fn = "enter" /\ f.i > Len(Kids[f.pos])
              /\ top.phase = "end" => f.phase = "end"
<1>1. /\ status = "running" /\ status' = "running" /\ UNCHANGED <<op, from, before, to, dropped>>
      /\ top.phase \in {"hook", "begin", "end", "walk"}
  BY DEF DeleteHook, BeginEdit, EndEdit, Walked, Running
<1>2. /\ top \in Frame /\ top.at \in Inner /\ top.pos \in Inner
      /\ FrameOK(top, level, Ceiling)
  BY <1>1, TopShape DEF Frame
<1>3. \E f \in Frame : /\ Goto(f) /\ f.fn = top.fn /\ f.pos = top.pos /\ f.i = top.i
                       /\ f.new = top.new /\ f.strat = top.strat
                       /\ \/ f.phase \in {"begin", "walk", "remove"} /\ top.phase # "end"
                          \/ f.phase = "end" /\ top.phase = "end"
                          \/ f.phase = "end" /\ top.phase = "walk" /\ top.i > Len(Kids[top.pos])
  <2>1. CASE DeleteHook
    <3> DEFINE f == [top EXCEPT !.phase = "begin"]
    <3>1. f \in Frame
      BY <1>2 DEF Frame, Phase
    <3>2. Goto(f) /\ f.fn = top.fn /\ f.pos = top.pos /\ f.i = top.i /\ f.new = top.new
          /\ f.strat = top.strat /\ f.phase = "begin" /\ top.phase = "hook"
      BY <1>2, <2>1 DEF DeleteHook, Running, Frame
    <3>3. QED
      BY <3>1, <3>2
  <2>2. CASE BeginEdit /\ Bubbles /\ top.at # Ceiling
    <3> DEFINE f == [top EXCEPT !.at = Parent[top.at]]
    <3>1. f \in Frame
      BY <1>2, TreeAssumption, SMTT(60) DEF Frame, Inner
    <3>2. Goto(f) /\ f.fn = top.fn /\ f.pos = top.pos /\ f.i = top.i /\ f.new = top.new
          /\ f.strat = top.strat /\ f.phase = "begin" /\ top.phase = "begin"
      BY <1>2, <2>2 DEF BeginEdit, Running, Frame
    <3>3. QED
      BY <3>1, <3>2
  <2>3. CASE BeginEdit /\ ~(Bubbles /\ top.at # Ceiling)
    <3> DEFINE ph == IF top.fn = "enter" THEN "walk" ELSE "remove"
               f == [top EXCEPT !.at = top.pos, !.phase = ph]
    <3>1. ph \in Phase /\ ph \in {"walk", "remove"}
      BY DEF Phase
    <3>2. Goto(f) /\ top.phase = "begin"
      BY <2>3 DEF BeginEdit, Running
    <3> HIDE DEF ph
    <3>3. f \in Frame
      BY <1>2, <3>1, FrameMoves, Zenon
    <3>4. f.fn = top.fn /\ f.pos = top.pos /\ f.i = top.i /\ f.new = top.new
          /\ f.strat = top.strat /\ f.phase = ph
      BY <1>2 DEF Frame
    <3>5. QED
      BY <3>1, <3>2, <3>3, <3>4
  <2>4. CASE EndEdit /\ Bubbles /\ top.at # Ceiling
    <3> DEFINE f == [top EXCEPT !.at = Parent[top.at]]
    <3>1. f \in Frame
      BY <1>2, TreeAssumption, SMTT(60) DEF Frame, Inner
    <3>2. Goto(f) /\ f.fn = top.fn /\ f.pos = top.pos /\ f.i = top.i /\ f.new = top.new
          /\ f.strat = top.strat /\ f.phase = "end" /\ top.phase = "end"
      BY <1>2, <2>4 DEF EndEdit, Running, Frame
    <3>3. QED
      BY <3>1, <3>2
  <2>5. CASE Walked
    <3> DEFINE f == [top EXCEPT !.phase = "end"]
    <3>1. f \in Frame
      BY <1>2 DEF Frame, Phase
    <3>2. Goto(f) /\ f.fn = top.fn /\ f.pos = top.pos /\ f.i = top.i /\ f.new = top.new
          /\ f.strat = top.strat /\ f.phase = "end" /\ top.phase = "walk"
          /\ top.i > Len(Kids[top.pos])
      BY <1>2, <2>5 DEF Walked, Running, Frame
    <3>3. QED
      BY <3>1, <3>2
  <2>6. QED
    BY <2>1, <2>2, <2>3, <2>4, <2>5
<1>4. top.phase = "walk" => top.fn = "enter"
  BY <1>2 DEF FrameOK, DeletePhases
<1>5. QED
  BY <1>1, <1>3, <1>4
\* A call of Delete: nothing is gone before its one step, and all of it after.
LEMMA RemoveMerge ==
  ASSUME TypeOK, Shape, op.kind = "delete", RemoveInv, UpsertKeepsOneCase,
         status = "running", Step \/ ChooseError \/ FindError
  PROVE  MergeInv'
<1>1. /\ level = 1 /\ top = stack[level] /\ top \in Frame /\ top.fn = "delete"
      /\ FrameOK(top, level, Ceiling) /\ op.base \in Pos
  BY TopShape, CeilingType DEF RemoveInv, Inner
<1>2. top.phase \in DeletePhases /\ top.pos = op.base
  BY <1>1, OpenBase DEF FrameOK
<1>3. DeleteHook \/ BeginEdit \/ EndEdit \/ RemoveData
  BY <1>2 DEF Step, Skip, Refuse, Accept, ChooseError, Clear, FindError, Cleared, SetLeaf, Descend,
              CreateChild, Walked, Walking, Clearing, Running, DeletePhases
<1>4. CASE DeleteHook \/ BeginEdit \/ (EndEdit /\ Bubbles /\ top.at # Ceiling)
  <2>1. status' = "running" /\ UNCHANGED <<op, from, before, to, dropped>>
    BY <1>4, QuietMoves
  <2>2. PICK f \in Frame : /\ Goto(f) /\ f.fn = top.fn
                           /\ f.phase = "end" <=> top.phase = "end"
    <3>1. top.fn # "enter"
      BY <1>1
    <3>2. QED
      BY <1>4, <3>1, QuietMoves
  <2>3. level' = 1 /\ top' = f
    <3>1. level' = level /\ stack'[level] = f
      BY <2>2, GotoFrame
    <3>2. QED
      BY <1>1, <3>1 DEF top
  <2>4. RemoveInv'
    BY <1>1, <2>1, <2>2, <2>3 DEF RemoveInv
  <2>5. UpsertKeepsOneCase'
    BY <2>1 DEF UpsertKeepsOneCase
  <2>6. QED
    BY <2>1, <2>4, <2>5 DEF MergeInv
<1>5. CASE RemoveData
  <2> DEFINE f == [top EXCEPT !.phase = "end"]
  <2>1. /\ status' = "running" /\ UNCHANGED <<op, from, before, dropped>> /\ top.phase = "remove"
        /\ to' = Erase(to, top.pos) /\ Goto(f)
    BY <1>5 DEF RemoveData, Running
  <2>2. f \in Frame /\ f.fn = "delete" /\ f.phase = "end"
    BY <1>1 DEF Frame, Phase
  <2> HIDE DEF f
  <2>3. level' = 1 /\ top' = f
    <3>1. level' = level /\ stack'[level] = f
      BY <2>1, <2>2, GotoFrame
    <3>2. QED
      BY <1>1, <3>1 DEF top
  <2>4. to = before
    BY <2>1 DEF RemoveInv
  <2>5. RemoveInv'
    BY <1>2, <2>1, <2>2, <2>3, <2>4 DEF RemoveInv
  <2>6. UpsertKeepsOneCase'
    <3>1. Fewer
      BY <2>1 DEF Fewer, Erase
    <3>2. QED
      BY <2>1, <3>1, KeepFewer
  <2>7. QED
    BY <2>1, <2>5, <2>6 DEF MergeInv
<1>6. CASE EndEdit /\ ~(Bubbles /\ top.at # Ceiling)
  <2>1. status' = "ok" /\ UNCHANGED <<op, before, to, dropped>>
    BY <1>1, <1>6 DEF EndEdit
  <2>2. UpsertKeepsOneCase'
    BY <2>1 DEF UpsertKeepsOneCase
  <2>3. QED
    BY <2>1, <2>2 DEF MergeInv
<1>7. QED
  BY <1>3, <1>4, <1>5, <1>6

\* A failure leaves everything where it is.
LEMMA FailMerge ==
  ASSUME MergeInv, Fail
  PROVE  MergeInv'
<1>1. status' = "failed" /\ UNCHANGED <<op, before, to, dropped>>
  BY DEF Fail
<1>2. QED
  BY <1>1 DEF MergeInv, UpsertKeepsOneCase

\* Each step of a walk (edit.go 32-207).
LEMMA StepWalks ==
  ASSUME WhenFree, TypeOK, Shape, Live, Walks, status = "running", op.kind # "delete",
         Step \/ ChooseError \/ FindError, ~Refuse
  PROVE  Walks' /\ UNCHANGED <<op, from, before>>
<1>1. CASE DeleteHook \/ BeginEdit \/ (EndEdit /\ Bubbles /\ top.at # Ceiling) \/ Walked
  <2>1. UNCHANGED <<op, from, before, to, dropped>>
    BY <1>1, QuietMoves
  <2>2. PICK f \in Frame :
          /\ Goto(f) /\ f.fn = top.fn /\ f.pos = top.pos /\ f.i = top.i
          /\ f.new = top.new /\ f.strat = top.strat /\ f.phase \notin {"clear", "apply"}
          /\ f.phase = "end" => \/ top.phase = "end"
                                \/ top.fn = "enter" /\ f.i > Len(Kids[f.pos])
    BY <1>1, QuietMoves
  <2>3. f.phase = "end" => IF f.fn = "enter" THEN f.i > Len(Kids[f.pos]) ELSE to[f.pos] = Absent
    <3>1. level \in 1..level /\ top = stack[level]
      BY TopShape
    <3>2. IF top.fn = "enter" THEN EnterOK(top) ELSE DeleteOK(top)
      BY <3>1 DEF Walks, WalkInv
    <3>3. top.phase = "end" => IF top.fn = "enter" THEN top.i > Len(Kids[top.pos])
                               ELSE to[top.pos] = Absent
      BY <3>2 DEF EnterOK, DeleteOK
    <3>4. QED
      BY <2>2, <3>3
  <2>4. QED
    BY <2>1, <2>2, <2>3, QuietWalks
<1>2. CASE EndEdit /\ ~(Bubbles /\ top.at # Ceiling)
  BY <1>2, ReturnWalks DEF EndEdit, Running
<1>3. CASE RemoveData
  BY <1>3, RemoveWalks DEF RemoveData
<1>4. CASE Skip
  BY <1>4, SkipWalks DEF Skip
<1>5. CASE Accept \/ ChooseError
  BY <1>5, TakeWalks
<1>6. CASE Clear
  BY <1>6, ClearWalks DEF Clear
<1>7. CASE Cleared
  BY <1>7, ClearedWalks DEF Cleared
<1>8. CASE SetLeaf
  BY <1>8, SetLeafWalks DEF SetLeaf
<1>9. CASE Descend
  BY <1>9, DescendWalks DEF Descend
<1>10. CASE CreateChild
  BY <1>10, CreateChildWalks DEF CreateChild
<1>11. CASE FindError
  BY <1>11, FindErrorWalks
<1>12. QED
  BY <1>1, <1>2, <1>3, <1>4, <1>5, <1>6, <1>7, <1>8, <1>9, <1>10, <1>11 DEF Step

LEMMA MergeStep ==
  ASSUME WhenFree, EditInv, MergeInv, [Next]_vars
  PROVE  MergeInv'
<1>1. TypeOK /\ Shape /\ Live
  BY DEF EditInv, Shape, Live
<1>2. ASSUME NEW r \in Requests, NEW src \in Seen, Call(r, src) PROVE MergeInv'
  BY <1>1, <1>2, CallMerge
<1>3. CASE UNCHANGED vars
  BY <1>3, StutterMerge
<1>4. CASE CallbackError \/ Refuse
  BY <1>4, FailMerge DEF CallbackError, Refuse
<1>5. CASE (Step \/ ChooseError \/ FindError) /\ ~Refuse
  <2>1. status = "running"
    BY <1>5 DEF Step, DeleteHook, BeginEdit, EndEdit, RemoveData, Skip, Accept,
                ChooseError, Clear, FindError, Cleared, SetLeaf, Descend, CreateChild, Walked,
                Walking, Clearing, Running
  <2>2. CASE op.kind = "delete"
    BY <1>1, <1>5, <2>1, <2>2, RemoveMerge DEF MergeInv
  <2>3. CASE op.kind # "delete"
    <3>1. Walks' /\ UNCHANGED <<op, from, before>>
      BY <1>1, <1>5, <2>1, <2>3, StepWalks DEF MergeInv, Walks
    <3>2. QED
      BY <2>3, <3>1 DEF MergeInv, Walks
  <2>4. QED
    BY <2>2, <2>3
<1>6. QED
  BY <1>2, <1>3, <1>4, <1>5 DEF Next

\* However the walk goes and wherever it stops, what it has come to is as the
\* merge has it and the rest as the call found it (edit.go 32-207).
THEOREM MergeInvariance ==
  ASSUME WhenFree
  PROVE  Spec => [](EditInv /\ MergeInv)
<1>1. Init => EditInv /\ MergeInv
  BY EditInvInit, MergeInit
<1>2. EditInv /\ MergeInv /\ [Next]_vars => (EditInv /\ MergeInv)'
  BY EditInvStep, MergeStep
<1>3. QED
  BY <1>1, <1>2, PTL DEF Spec

\* edit.go 81-87: for every schema without a "when", an upsert of a store that has
\* one case per choice keeps it so at every step, wherever an error stops it.
THEOREM OneCaseKept ==
  ASSUME WhenFree
  PROVE  Spec => []UpsertKeepsOneCase
<1>1. EditInv /\ MergeInv => UpsertKeepsOneCase
  BY DEF MergeInv
<1>2. QED
  BY <1>1, MergeInvariance, PTL
-----------------------------------------------------------------------------
(***************************************************************************)
(* The walk implements DataStore.                                          *)
(***************************************************************************)

\* What the walk makes give way is what the merge makes give way.
LEMMA YieldsIs ==
  ASSUME TypeOK, NEW a \in Pos
  PROVE  Yields(a) <=> a \in GivesWay(op, from, before)
<1> DEFINE given == [q \in Pos |-> Given(op, from, before, q)]
<1>1. \A q \in Pos : given[q] = Gives(q)
  BY DEF Gives
<1>2. GivesWay(op, from, before) = {q \in Below[op.base] \ {op.base} : Displaced(op, given, q)}
  BY DEF GivesWay
<1> HIDE DEF given
<1>3. ASSUME Yields(a) PROVE a \in GivesWay(op, from, before)
  <2>1. PICK k \in Pos : Displaces(k, a)
    BY <1>3 DEF Yields
  <2>2. /\ Gives(k) # Absent /\ StrategyAt(op, Parent[a]) = "upsert"
        /\ k \in Pos \ {Root} /\ Parent[k] = Parent[a]
        /\ Case[a] # NoCase /\ Case[k] \notin {NoCase, Case[a]}
        /\ ChoiceOf[Case[k]] = ChoiceOf[Case[a]]
    BY <2>1 DEF Displaces, Rivals
  <2>3. PICK n \in DOMAIN Kids[Parent[a]] : Kids[Parent[a]][n] = k
    BY <2>2, KidsAssumption
  <2>4. Displaced(op, given, a)
    BY <1>1, <2>2, <2>3 DEF Displaced
  <2>5. QED
    BY <1>2, <1>3, <2>4, YieldsFacts
<1>4. ASSUME a \in GivesWay(op, from, before) PROVE Yields(a)
  <2>1. a \in Below[op.base] \ {op.base} /\ Displaced(op, given, a)
    BY <1>2, <1>4
  <2>2. a \in Pos \ {Root} /\ Parent[a] \in Pos
    <3>1. op.base \in Pos
      BY CeilingType DEF Inner
    <3>2. QED
      BY <2>1, <3>1, ParentBelow DEF Inner
  <2>3. /\ StrategyAt(op, Parent[a]) = "upsert" /\ Case[a] # NoCase
        /\ \E n \in DOMAIN Kids[Parent[a]] :
             /\ given[Kids[Parent[a]][n]] # Absent
             /\ Case[Kids[Parent[a]][n]] \notin {NoCase, Case[a]}
             /\ ChoiceOf[Case[Kids[Parent[a]][n]]] = ChoiceOf[Case[a]]
    BY <2>1 DEF Displaced
  <2>4. PICK n \in DOMAIN Kids[Parent[a]] :
             /\ given[Kids[Parent[a]][n]] # Absent
             /\ Case[Kids[Parent[a]][n]] \notin {NoCase, Case[a]}
             /\ ChoiceOf[Case[Kids[Parent[a]][n]]] = ChoiceOf[Case[a]]
    BY <2>3
  <2> DEFINE k == Kids[Parent[a]][n]
  <2>5. k \in Pos \ {Root} /\ Parent[k] = Parent[a]
    BY <2>2, KidsAssumption
  <2>6. given[k] # Absent /\ Case[k] \notin {NoCase, Case[a]} /\ ChoiceOf[Case[k]] = ChoiceOf[Case[a]]
    BY <2>4
  <2> HIDE DEF k
  <2>7. Displaces(k, a)
    BY <1>1, <2>2, <2>3, <2>5, <2>6 DEF Displaces, Rivals
  <2>8. QED
    BY <2>5, <2>7 DEF Yields
<1>5. QED
  BY <1>3, <1>4

\* The merge, in the words of the walk.
LEMMA MergeSays ==
  ASSUME TypeOK, op.kind # "delete", NEW p \in Pos
  PROVE  Merge(op, from, before)[p] =
           IF Gives(p) # Absent THEN Gives(p)
           ELSE IF \E a \in Through(op, p) : Yields(a) THEN Absent ELSE before[p]
<1>1. Through(op, p) \subseteq Pos
  BY CeilingType, ThroughFacts
<1>2. Through(op, p) \cap GivesWay(op, from, before) # {} <=> \E a \in Through(op, p) : Yields(a)
  BY <1>1, YieldsIs
<1>3. QED
  BY <1>2, MergeAt DEF Gives

\* Wherever it stops, each place is as it was or as the merge has it.
LEMMA WalkBetween ==
  ASSUME EditInv, MergeInv, status = "running"
  PROVE  Between(op, from, before, to)
<1>1. TypeOK /\ Rooted(to)
  BY DEF EditInv, NoDanglingSelection
<1>2. CASE op.kind = "delete"
  <2>1. to = before \/ to = Erase(before, op.base)
    BY <1>2 DEF MergeInv, RemoveInv
  <2>2. Merge(op, from, before) = Erase(before, op.base)
    BY <1>2 DEF Merge
  <2>3. QED
    BY <1>1, <2>1, <2>2 DEF Between
<1>3. CASE op.kind # "delete"
  <2>1. DataInv
    BY <1>3 DEF MergeInv
  <2>2. \A p \in Pos : to[p] = before[p] \/ to[p] = Merge(op, from, before)[p]
    BY <1>1, <1>3, <2>1, MergeSays DEF DataInv
  <2>3. QED
    BY <1>1, <2>2 DEF Between
<1>4. QED
  BY <1>2, <1>3

\* With nothing ahead of it the walk has made the merge.
LEMMA WalkDone ==
  ASSUME TypeOK, Rooted(to), op.kind # "delete", DataInv, \A p \in Pos : ~Ahead(p)
  PROVE  /\ ~Refused(op, from, before)
         /\ CasesDone => to = Merge(op, from, before)
         /\ \A p \in Pos : Merge(op, from, before)[p] # Absent => to[p] = Merge(op, from, before)[p]
<1>1. ~Refused(op, from, before)
  <2>1. \A p \in Pos : Gives(p) # Absent => ~ClashAt(p)
    BY DEF DataInv
  <2>2. QED
    BY <2>1 DEF Refused, ClashAt, Gives, Inner
<1>2. ASSUME CasesDone PROVE to = Merge(op, from, before)
  <2>1. ASSUME NEW p \in Pos, NEW a \in Through(op, p), Yields(a) PROVE to[p] = Absent
    <3>1. a \in Pos /\ p \in Below[a]
      BY <2>1, CeilingType, ThroughFacts
    <3>2. PICK k \in Pos : Displaces(k, a)
      BY <2>1 DEF Yields
    <3>3. to[a] = Absent
      BY <1>2, <3>1, <3>2 DEF CasesDone
    <3>4. QED
      BY <3>1, <3>3 DEF Rooted
  <2>2. \A p \in Pos : to[p] = Merge(op, from, before)[p]
    BY <2>1, MergeSays DEF DataInv
  <2>3. to = [p \in Pos |-> to[p]]
    BY DEF TypeOK, WellTyped, Tree
  <2> DEFINE m == Merge(op, from, before)
  <2>4. m = [p \in Pos |-> m[p]]
    BY MergeAt
  <2> HIDE DEF m
  <2>5. QED
    BY <2>2, <2>3, <2>4 DEF m
<1>3. ASSUME NEW p \in Pos, Merge(op, from, before)[p] # Absent
      PROVE  to[p] = Merge(op, from, before)[p]
  BY <1>3, MergeSays DEF DataInv
<1>4. QED
  BY <1>1, <1>2, <1>3

\* The call that returns well has made the merge, or all of it but for what should
\* have given way.
LEMMA CallDone ==
  ASSUME EditInv, MergeInv, EndEdit, status' = "ok"
  PROVE  /\ ~Refused(op, from, before) /\ Between(op, from, before, to)
         /\ OneCase(before) /\ ~dropped => to = Merge(op, from, before)
         /\ \A p \in Pos : Merge(op, from, before)[p] # Absent => to[p] = Merge(op, from, before)[p]
<1>1. /\ TypeOK /\ Rooted(to) /\ status = "running" /\ level = 1 /\ top.phase = "end"
  BY DEF EditInv, NoDanglingSelection, EndEdit, Running
<1>2. Between(op, from, before, to)
  BY <1>1, WalkBetween
<1>3. CASE op.kind = "delete"
  <2>1. to = Erase(before, op.base)
    BY <1>1, <1>3 DEF MergeInv, RemoveInv
  <2>2. \A p : StrategyAt(op, p) \notin {"insert", "update"}
    BY <1>3 DEF StrategyAt
  <2>3. QED
    BY <1>2, <1>3, <2>1, <2>2 DEF Merge, Refused
<1>4. CASE op.kind # "delete"
  <2>1. WalkInv /\ DataInv /\ CaseInv
    BY <1>1, <1>4 DEF MergeInv
  <2>2. top \in Frame /\ top = stack[1] /\ 1 \in 1..level
    BY <1>1, TopFrame DEF top
  <2>3. \A p \in Pos : ~Left(top, p)
    <3>1. CASE top.fn = "enter"
      <4>1. EnterOK(top)
        BY <2>1, <2>2, <3>1 DEF WalkInv
      <4>2. top.i > Len(Kids[top.pos]) /\ top.i \in Nat /\ top.pos \in Pos
        BY <1>1, <2>2, <4>1 DEF EnterOK, Frame, Inner
      <4>3. QED
        BY <4>2, LeftNone
    <3>2. CASE top.fn # "enter"
      BY <3>2 DEF Left
    <3>3. QED
      BY <3>1, <3>2
  <2>4. \A p \in Pos : ~Ahead(p)
    BY <1>1, <2>2, <2>3 DEF Ahead
  <2>5. QED
    BY <1>1, <1>2, <1>4, <2>1, <2>4, WalkDone DEF CaseInv
<1>5. QED
  BY <1>3, <1>4
-----------------------------------------------------------------------------
\* The instance speaks of the same merge.
LEMMA SameGiven ==
  ASSUME NEW r, NEW src, NEW t, NEW p
  PROVE  Store!Given(r, src, t, p) = Given(r, src, t, p)
<1>1. \A a : Store!Selected(src, a) = Selected(src, a)
  BY DEF Store!Selected, Selected, Store!Choosable, Choosable, Store!Cases, Cases
<1>2. \A q : Store!Through(r, q) = Through(r, q)
  BY DEF Store!Through, Through
<1>3. \A q : Store!StrategyAt(r, q) = StrategyAt(r, q)
  BY <1>2 DEF Store!StrategyAt, StrategyAt
<1>4. \A q : Store!Reached(r, src, q) = Reached(r, src, q)
  BY <1>1, <1>2 DEF Store!Reached, Reached
<1>5. \A q : Store!Fills(r, t, q) = Fills(r, t, q)
  BY <1>3 DEF Store!Fills, Fills
<1>6. QED
  BY <1>1, <1>4, <1>5 DEF Store!Given, Given

LEMMA SameMerge ==
  ASSUME NEW r, NEW src, NEW t
  PROVE  Store!Merge(r, src, t) = Merge(r, src, t)
<1> DEFINE given == [p \in Pos |-> Given(r, src, t, p)]
<1>1. \A p : Store!Given(r, src, t, p) = Given(r, src, t, p)
  BY SameGiven
<1>2. [p \in Pos |-> Store!Given(r, src, t, p)] = given
  BY <1>1
<1>3. \A p : Store!Through(r, p) = Through(r, p)
  BY DEF Store!Through, Through
<1>4. \A a : Store!StrategyAt(r, a) = StrategyAt(r, a)
  BY <1>3 DEF Store!StrategyAt, StrategyAt
<1>5. ASSUME NEW a PROVE Store!Displaced(r, given, a) <=> Displaced(r, given, a)
  <2> HIDE DEF given
  <2>1. Store!StrategyAt(r, Parent[a]) = StrategyAt(r, Parent[a])
    BY <1>4
  <2>2. QED
    BY <2>1 DEF Store!Displaced, Displaced
<1>6. Store!Erase(t, r.base) = Erase(t, r.base)
  BY DEF Store!Erase, Erase
<1> DEFINE gone == {a \in Below[r.base] \ {r.base} : Displaced(r, given, a)}
           merged == [p \in Pos |-> IF given[p] # Absent THEN given[p]
                                   ELSE IF Through(r, p) \cap gone # {} THEN Absent ELSE t[p]]
<1>7. Merge(r, src, t) = IF r.kind = "delete" THEN Erase(t, r.base) ELSE merged
  BY DEF Merge
<1> HIDE DEF given
<1>8. {a \in Below[r.base] \ {r.base} : Store!Displaced(r, given, a)} = gone
  BY <1>5
<1> HIDE DEF gone
<1>9. [p \in Pos |-> IF given[p] # Absent THEN given[p]
                     ELSE IF Store!Through(r, p) \cap gone # {} THEN Absent ELSE t[p]] = merged
  BY <1>3
<1> HIDE DEF merged
<1>10. QED
  BY <1>2, <1>6, <1>7, <1>8, <1>9 DEF Store!Merge

LEMMA SameRefused ==
  ASSUME NEW r, NEW src, NEW t
  PROVE  Store!Refused(r, src, t) = Refused(r, src, t)
<1>1. \A p : Store!Given(r, src, t, p) = Given(r, src, t, p)
  BY SameGiven
<1>2. \A p : Store!Through(r, p) = Through(r, p)
  BY DEF Store!Through, Through
<1>3. \A a : Store!StrategyAt(r, a) = StrategyAt(r, a)
  BY <1>2 DEF Store!StrategyAt, StrategyAt
<1>4. Store!Inner = Inner
  BY DEF Store!Inner, Inner, Store!Leaves, Leaves
<1>5. QED
  BY <1>1, <1>3, <1>4 DEF Store!Refused, Refused

LEMMA SameBetween ==
  ASSUME NEW r, NEW src, NEW t, NEW u
  PROVE  /\ Store!Between(r, src, t, u) = Between(r, src, t, u)
         /\ Store!Tree = Tree /\ Store!OneCase(t) = OneCase(t)
<1>1. Store!Merge(r, src, t) = Merge(r, src, t)
  BY SameMerge
<1>2. Store!Rooted(u) = Rooted(u)
  BY DEF Store!Rooted, Rooted
<1>3. QED
  BY <1>1, <1>2 DEF Store!Between, Between, Store!Tree, Tree, Store!OneCase, OneCase

\* And of the same views of the sources.
LEMMA SameSeen == Store!Seen = Seen
<1>1. \A t, p, ch : Store!Choosable(t, p, ch) = Choosable(t, p, ch)
  BY DEF Store!Choosable, Choosable, Store!Cases, Cases
<1>2. Store!Cases = Cases
  BY DEF Store!Cases, Cases
<1>3. ASSUME NEW t PROVE Store!Views(t) = Views(t)
  BY <1>1, <1>2, Zenon DEF Store!Views, Views
<1>4. QED
  BY <1>3, Zenon DEF Store!Seen, Seen

-----------------------------------------------------------------------------
\* What a step shows of the call.
LEMMA SeenAbort ==
  ASSUME EditInv, MergeInv, status = "running", status' = "failed",
         UNCHANGED <<op, from, to, dropped>>
  PROVE  Store!Abort
<1>1. Between(op, from, before, to) /\ to \in Tree /\ dropped \in BOOLEAN
  BY WalkBetween DEF EditInv, TypeOK, WellTyped
<1>2. Store!Between(op, from, before, to) /\ to \in Store!Tree
  BY <1>1, SameBetween
<1>3. QED
  BY <1>1, <1>2 DEF Store!Abort

LEMMA SeenCommit ==
  ASSUME EditInv, MergeInv, EndEdit, status' = "ok"
  PROVE  Store!Commit
<1>1. /\ status = "running" /\ UNCHANGED <<op, from, to, dropped>>
      /\ to \in Tree /\ dropped \in BOOLEAN
  BY DEF EndEdit, Running, EditInv, TypeOK, WellTyped
<1> DEFINE m == Merge(op, from, before)
<1>2. /\ ~Refused(op, from, before) /\ Between(op, from, before, to)
      /\ OneCase(before) /\ ~dropped => to = m
      /\ \A p \in Pos : m[p] # Absent => to[p] = m[p]
  BY CallDone
<1>3. /\ ~Store!Refused(op, from, before) /\ Store!Between(op, from, before, to)
      /\ Store!OneCase(before) = OneCase(before) /\ Store!Merge(op, from, before) = m
      /\ to \in Store!Tree
  BY <1>1, <1>2, SameBetween, SameRefused, SameMerge
<1> HIDE DEF m
<1>4. \A p \in Pos : (OneCase(before) /\ ~dropped) \/ m[p] # Absent => to[p] = m[p]
  BY <1>2
<1>5. QED
  BY <1>1, <1>3, <1>4 DEF Store!Commit

LEMMA SeenSilent ==
  ASSUME status = "running", status' = "running", UNCHANGED <<op, from, before>>
  PROVE  UNCHANGED Store!vars
  BY DEF Store!vars

\* With no "when" a node that was made can be seen.
LEMMA CreateGoesOn ==
  ASSUME WhenFree, EditInv, CreateChild
  PROVE  status' = status
<1>1. status = "running" /\ top.phase = "apply"
  BY DEF CreateChild, Running
<1>2. TypeOK /\ Shape /\ Live
  BY DEF EditInv, Shape, Live
<1>3. Kid \in Pos
  BY <1>1, <1>2, KidType
<1>4. QED
  BY <1>3, Visible DEF CreateChild

\* What a step is to those who do not look at the walk: a call, its failure, its
\* success, or a part of it they do not see.
LEMMA StepKinds ==
  ASSUME WhenFree, EditInv, Next
  PROVE  \/ \E r \in Requests, src \in Seen : Call(r, src)
         \/ /\ status = "running" /\ status' = "failed"
            /\ UNCHANGED <<op, from, to, before, first, dropped>>
         \/ status = "running" /\ status' = "running" /\ UNCHANGED <<op, from, before, first>>
         \/ EndEdit /\ status' = "ok"
<1>1. CASE CallbackError \/ Refuse
  BY <1>1 DEF CallbackError, Refuse, Fail, Walking, Running
<1>2. CASE DeleteHook \/ BeginEdit \/ RemoveData
  BY <1>2 DEF DeleteHook, BeginEdit, RemoveData, Running
<1>3. CASE Skip \/ Accept \/ ChooseError \/ Clear \/ FindError \/ Cleared \/ Walked
  BY <1>3 DEF Skip, Accept, ChooseError, Take, Clear, FindError, Cleared, Walked, Walking,
              Clearing, Running
<1>4. CASE SetLeaf \/ Descend
  BY <1>4 DEF SetLeaf, Descend, Running
<1>5. CASE CreateChild
  <2>1. status = "running" /\ UNCHANGED <<op, from, before, first>>
    BY <1>5 DEF CreateChild, Running
  <2>2. QED
    BY <1>5, <2>1, CreateGoesOn
<1>6. CASE EndEdit
  BY <1>6 DEF EndEdit, Running
<1>7. QED
  BY <1>1, <1>2, <1>3, <1>4, <1>5, <1>6 DEF Next, Step

LEMMA SeenStep ==
  ASSUME WhenFree, EditInv, MergeInv, [Next]_vars
  PROVE  [Store!Next]_Store!vars
<1>1. ASSUME NEW r \in Requests, NEW src \in Seen, Call(r, src) PROVE Store!Call
  BY <1>1, SameSeen DEF Call, Store!Call
<1>2. ASSUME UNCHANGED vars PROVE UNCHANGED Store!vars
  BY <1>2 DEF vars, Store!vars
<1>3. QED
  BY <1>1, <1>2, StepKinds, SeenAbort, SeenCommit, SeenSilent DEF Store!Next

\* StoreSpec: the walk with its callbacks, its order and its failures does to the
\* destination what DataStore says of the call (edit.go 32-207).
THEOREM WalkIsAStore ==
  ASSUME WhenFree
  PROVE  Spec => StoreSpec
<1>1. Init => Store!Init
  BY SameSeen DEF Init, Store!Init
<1>2. EditInv /\ MergeInv /\ [Next]_vars => [Store!Next]_Store!vars
  BY SeenStep
<1>3. Spec => [](EditInv /\ MergeInv)
  BY MergeInvariance
<1>4. QED
  BY <1>1, <1>2, <1>3, PTL DEF Spec, StoreSpec, Store!Spec
-----------------------------------------------------------------------------
(***************************************************************************)
(* An upsert made again.                                                   *)
(***************************************************************************)

\* Over what an attempt has left, an upsert gives what it gave before, but for the
\* defaults of what is no longer new (edit.go 73).
LEMMA GivenAgain ==
  ASSUME op \in Requests, op.kind = "upsert", NEW t, Rooted(t), NEW u,
         Between(op, from, t, u), NEW p \in Pos
  PROVE  \/ Given(op, from, u, p) = Given(op, from, t, p)
         \/ /\ p \in Leaves /\ from[p] = Absent /\ t[p] = Absent
            /\ Given(op, from, u, p) = Absent
<1>1. op.base \in Inner
  BY RequestAssumption DEF Request
<1> DEFINE q == Parent[p]
<1>2. CASE \/ p \notin Below[op.base] \ {op.base} \/ ~Reached(op, from, q)
           \/ ~Selected(from, p) \/ from[p] # Absent \/ Default[p] = Absent
  BY <1>2 DEF Given
<1>3. CASE /\ p \in Below[op.base] \ {op.base} /\ Reached(op, from, q)
           /\ Selected(from, p) /\ from[p] = Absent /\ Default[p] # Absent
  <2>1. p \in Leaves /\ q \in Pos /\ p \in Below[q] /\ q \in Below[op.base]
    <3>1. p \in Leaves
      BY <1>3, SchemaAssumption DEF Inner
    <3>2. q \in Inner /\ p \in Below[q] /\ q \in Below[op.base]
      BY <1>1, <1>3, ParentBelow DEF Inner
    <3>3. QED
      BY <3>1, <3>2 DEF Inner
  <2>2. \A v : Given(op, from, v, p) = IF Fills(op, v, q) THEN Default[p] ELSE Absent
    BY <1>3 DEF Given
  <2> HIDE DEF q
  <2>3. ASSUME t[q] # Absent, q # op.base PROVE u[q] # Absent
    <3>1. q \in Through(op, q)
      BY <1>1, <2>1, <2>3, ThroughFacts
    <3>2. Given(op, from, t, q) # Absent
      BY <1>1, <1>3, <2>1, <3>1, ReachedGiven DEF q
    <3>3. Merge(op, from, t)[q] # Absent
      BY <2>1, <3>2, MergeAt
    <3>4. QED
      BY <2>1, <2>3, <3>3 DEF Between
  <2>4. CASE Fills(op, u, q) <=> Fills(op, t, q)
    BY <2>2, <2>4
  <2>5. CASE ~(Fills(op, u, q) <=> Fills(op, t, q))
    <3>1. t[q] = Absent /\ ~Fills(op, u, q)
      BY <2>3, <2>5 DEF Fills
    <3>2. t[p] = Absent
      BY <2>1, <3>1 DEF Rooted
    <3>3. QED
      BY <1>3, <2>1, <2>2, <3>1, <3>2
  <2>6. QED
    BY <2>4, <2>5
<1>4. QED
  BY <1>2, <1>3

\* A case that is chosen is chosen for something the source holds of it.
LEMMA ChosenHeld ==
  ASSUME NEW k \in Pos \ {Root}, Selected(from, k), Case[k] # NoCase
  PROVE  \E n \in DOMAIN Kids[Parent[k]] :
           LET h == Kids[Parent[k]][n] IN
           /\ h \in Pos \ {Root} /\ Parent[h] = Parent[k]
           /\ Case[h] = Case[k] /\ from[h] # Absent /\ Selected(from, h)
<1>1. PICK h \in Pos \ {Root} : Parent[h] = Parent[k] /\ Case[h] = Case[k] /\ from[h] # Absent
  BY DEF Selected, Choosable
<1>2. Selected(from, h)
  BY <1>1 DEF Selected
<1>3. PICK n \in DOMAIN Kids[Parent[h]] : Kids[Parent[h]][n] = h
  BY KidsAssumption
<1>4. QED
  BY <1>1, <1>2, <1>3

\* The same has to give way.
LEMMA SameGivesWay ==
  ASSUME op \in Requests, op.kind = "upsert", NEW t, Rooted(t), NEW u,
         Between(op, from, t, u)
  PROVE  GivesWay(op, from, u) = GivesWay(op, from, t)
<1> DEFINE old == [q \in Pos |-> Given(op, from, t, q)]
           new == [q \in Pos |-> Given(op, from, u, q)]
<1>1. op.base \in Pos /\ op.base \in Inner
  BY RequestAssumption DEF Request, Inner
<1>2. /\ GivesWay(op, from, t) = {a \in Below[op.base] \ {op.base} : Displaced(op, old, a)}
      /\ GivesWay(op, from, u) = {a \in Below[op.base] \ {op.base} : Displaced(op, new, a)}
  BY DEF GivesWay
<1>3. \A q \in Pos : old[q] = Given(op, from, t, q) /\ new[q] = Given(op, from, u, q)
  OBVIOUS
<1> HIDE DEF old, new
<1>4. SUFFICES ASSUME NEW a \in Below[op.base] \ {op.base}
               PROVE  Displaced(op, new, a) <=> Displaced(op, old, a)
  BY <1>2
<1>5. a \in Pos \ {Root} /\ Parent[a] \in Pos
  BY <1>1, ParentBelow DEF Inner
<1>6. ASSUME NEW m \in DOMAIN Kids[Parent[a]], old[Kids[Parent[a]][m]] # Absent,
             Case[Kids[Parent[a]][m]] # NoCase
      PROVE  \E n \in DOMAIN Kids[Parent[a]] :
               new[Kids[Parent[a]][n]] # Absent /\ Case[Kids[Parent[a]][n]] = Case[Kids[Parent[a]][m]]
  <2> DEFINE k == Kids[Parent[a]][m]
  <2>1. k \in Pos \ {Root} /\ Parent[k] = Parent[a]
    BY <1>5, KidsAssumption
  <2>2. old[k] # Absent /\ Case[k] # NoCase
    BY <1>6
  <2> HIDE DEF k
  <2>3. /\ k \in Below[op.base] \ {op.base} /\ Reached(op, from, Parent[a]) /\ Selected(from, k)
    BY <1>1, <1>3, <2>1, <2>2, GivenAbove
  <2>4. PICK n \in DOMAIN Kids[Parent[a]] :
           LET h == Kids[Parent[a]][n] IN
           /\ h \in Pos \ {Root} /\ Parent[h] = Parent[a]
           /\ Case[h] = Case[k] /\ from[h] # Absent /\ Selected(from, h)
    BY <2>1, <2>2, <2>3, ChosenHeld
  <2> DEFINE h == Kids[Parent[a]][n]
  <2>5. /\ h \in Pos \ {Root} /\ Parent[h] = Parent[a]
        /\ Case[h] = Case[k] /\ from[h] # Absent /\ Selected(from, h)
    BY <2>4
  <2> HIDE DEF h
  <2>6. h \in Below[op.base] \ {op.base}
    <3>1. Parent[a] \in Below[op.base]
      BY <1>1, ParentBelow
    <3>2. h \in Below[Parent[a]] /\ Parent[a] \notin Below[h] /\ h \in Pos
      BY <2>5, ChildFacts
    <3>3. QED
      BY <1>1, <1>5, <3>1, <3>2, TreeAssumption
  <2>7. Given(op, from, u, h) # Absent
    BY <2>3, <2>5, <2>6 DEF Given
  <2>8. QED
    BY <1>3, <2>5, <2>7 DEF h, k
<1>7. ASSUME NEW n \in DOMAIN Kids[Parent[a]], new[Kids[Parent[a]][n]] # Absent
      PROVE  old[Kids[Parent[a]][n]] # Absent
  <2> DEFINE k == Kids[Parent[a]][n]
  <2>1. k \in Pos
    BY <1>5, KidsAssumption
  <2>2. QED
    BY <1>3, <1>7, <2>1, GivenAgain
<1>8. ASSUME Displaced(op, new, a) PROVE Displaced(op, old, a)
  BY <1>7, <1>8, SMTT(60) DEF Displaced
<1>9. ASSUME Displaced(op, old, a) PROVE Displaced(op, new, a)
  <2>1. /\ StrategyAt(op, Parent[a]) = "upsert" /\ Case[a] # NoCase
        /\ \E n \in DOMAIN Kids[Parent[a]] :
             /\ old[Kids[Parent[a]][n]] # Absent
             /\ Case[Kids[Parent[a]][n]] \notin {NoCase, Case[a]}
             /\ ChoiceOf[Case[Kids[Parent[a]][n]]] = ChoiceOf[Case[a]]
    BY <1>9 DEF Displaced
  <2>2. PICK m \in DOMAIN Kids[Parent[a]] :
             /\ old[Kids[Parent[a]][m]] # Absent
             /\ Case[Kids[Parent[a]][m]] \notin {NoCase, Case[a]}
             /\ ChoiceOf[Case[Kids[Parent[a]][m]]] = ChoiceOf[Case[a]]
    BY <2>1
  <2>3. PICK n \in DOMAIN Kids[Parent[a]] :
          new[Kids[Parent[a]][n]] # Absent /\ Case[Kids[Parent[a]][n]] = Case[Kids[Parent[a]][m]]
    BY <1>6, <2>2
  <2>4. QED
    BY <2>1, <2>2, <2>3 DEF Displaced
<1>10. QED
  BY <1>8, <1>9

\* The merge with what an attempt has left is the merge of the first attempt, but
\* for those defaults.
LEMMA MergeAgain ==
  ASSUME op \in Requests, op.kind = "upsert", NEW t, Rooted(t), NEW u,
         Between(op, from, t, u), NEW p \in Pos
  PROVE  \/ Merge(op, from, u)[p] = Merge(op, from, t)[p]
         \/ /\ p \in Leaves /\ from[p] = Absent /\ t[p] = Absent
            /\ Merge(op, from, u)[p] = Absent
<1> DEFINE gone == Through(op, p) \cap GivesWay(op, from, t) # {}
<1>1. Merge(op, from, t)[p] = IF Given(op, from, t, p) # Absent THEN Given(op, from, t, p)
                              ELSE IF gone THEN Absent ELSE t[p]
  BY MergeAt
<1>2. Merge(op, from, u)[p] = IF Given(op, from, u, p) # Absent THEN Given(op, from, u, p)
                              ELSE IF gone THEN Absent ELSE u[p]
  BY MergeAt, SameGivesWay
<1>3. u[p] = t[p] \/ u[p] = Merge(op, from, t)[p]
  BY DEF Between
<1> HIDE DEF gone
<1>4. QED
  BY <1>1, <1>2, <1>3, GivenAgain

\* A further attempt stays within the merge of the first.
LEMMA StillBetween ==
  ASSUME op \in Requests, op.kind = "upsert", NEW t, Rooted(t), NEW u,
         Between(op, from, t, u), NEW w, Between(op, from, u, w)
  PROVE  Between(op, from, t, w)
<1>1. ASSUME NEW p \in Pos PROVE w[p] = t[p] \/ w[p] = Merge(op, from, t)[p]
  <2>1. w[p] = u[p] \/ w[p] = Merge(op, from, u)[p]
    BY DEF Between
  <2>2. u[p] = t[p] \/ u[p] = Merge(op, from, t)[p]
    BY DEF Between
  <2>3. QED
    BY <2>1, <2>2, MergeAgain
<1>2. QED
  BY <1>1 DEF Between

LEMMA RetryInit == Init => RetryInv
<1>1. ASSUME Init PROVE Rooted(to)
  BY <1>1, RequestAssumption DEF Init
<1>2. QED
  BY <1>1 DEF Init, RetryInv, RetryConverges, Between

LEMMA RetryStep ==
  ASSUME WhenFree, EditInv, MergeInv, RetryInv, [Next]_vars
  PROVE  RetryInv'
<1>1. op \in Requests /\ Rooted(to)
  BY DEF EditInv, TypeOK, NoDanglingSelection
<1>2. ASSUME NEW r \in Requests, NEW src \in Seen, Call(r, src) PROVE RetryInv'
  <2>1. /\ status' = "running" /\ before' = to /\ op' = r /\ from' = src
        /\ first' = IF status = "failed" /\ ~dropped /\ r = op /\ src = from THEN first ELSE to
    BY <1>2 DEF Call
  <2>2. CASE first' = to
    BY <1>1, <2>1, <2>2 DEF RetryInv, RetryConverges, Between
  <2>3. CASE status = "failed" /\ ~dropped /\ r = op /\ src = from /\ first' = first
    <3>1. op.kind = "upsert" /\ OneCase(first) => OneCase(to)
      BY <2>3 DEF RetryInv, MergeInv, UpsertKeepsOneCase
    <3>2. QED
      BY <2>1, <2>3, <3>1 DEF RetryInv, RetryConverges
  <2>4. QED
    BY <2>1, <2>2, <2>3
<1>3. ASSUME status = "running", status' = "failed",
             UNCHANGED <<op, from, to, before, first, dropped>>
      PROVE  RetryInv'
  <2>1. Between(op, from, before, to)
    BY <1>3, WalkBetween
  <2>2. ASSUME op.kind = "upsert", OneCase(first) PROVE Between(op, from, first, to)
    BY <1>1, <2>1, <2>2, StillBetween DEF RetryInv
  <2>3. QED
    BY <1>3, <2>2 DEF RetryInv, RetryConverges
<1>4. ASSUME status = "running", status' = "running", UNCHANGED <<op, from, before, first>>
      PROVE  RetryInv'
  BY <1>4 DEF RetryInv, RetryConverges
<1>5. ASSUME EndEdit, status' = "ok" PROVE RetryInv'
  <2>1. UNCHANGED <<op, from, to, before, first, dropped>>
    BY <1>5 DEF EndEdit
  <2>2. OneCase(before) /\ ~dropped => to = Merge(op, from, before)
    BY <1>5, CallDone
  <2>3. ASSUME op.kind = "upsert", OneCase(first), ~dropped, NEW p \in Pos,
               to[p] # Merge(op, from, first)[p]
        PROVE  p \in Leaves /\ from[p] = Absent /\ to[p] = Absent
    <3>1. Rooted(first) /\ Between(op, from, first, before) /\ to = Merge(op, from, before)
      BY <2>2, <2>3 DEF RetryInv
    <3>2. QED
      BY <1>1, <2>3, <3>1, MergeAgain
  <2>4. RetryConverges'
    BY <2>1, <2>3 DEF RetryConverges
  <2>5. QED
    BY <1>5, <2>1, <2>4 DEF RetryInv
<1>6. CASE UNCHANGED vars
  BY <1>6 DEF vars, RetryInv, RetryConverges
<1>7. QED
  BY <1>2, <1>3, <1>4, <1>5, <1>6, StepKinds

\* RetryConverges: however many attempts at an upsert failed, and wherever, the one
\* that succeeds makes of the store what the first would have made of it, but for
\* the defaults of leaves in what the failed ones created (edit.go 73).
THEOREM RetriesConverge ==
  ASSUME WhenFree
  PROVE  Spec => []RetryConverges
<1>1. Init => RetryInv
  BY RetryInit
<1>2. EditInv /\ MergeInv /\ RetryInv /\ [Next]_vars => RetryInv'
  BY RetryStep
<1>3. RetryInv => RetryConverges
  BY DEF RetryInv
<1>4. QED
  BY <1>1, <1>2, <1>3, MergeInvariance, PTL DEF Spec
=============================================================================
