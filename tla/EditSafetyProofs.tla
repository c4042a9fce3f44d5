-------------------------- MODULE EditSafetyProofs --------------------------
(***************************************************************************)
(* The walk never holds a deleted selection and its BeginEdit and EndEdit  *)
(* calls bracket every change: proofs that EditInv is inductive, for every *)
(* schema, source, destination and sequence of calls.                      *)
(***************************************************************************)
EXTENDS EditInvariant, MergeProofs, SequenceTheorems, WellFoundedInduction, TLAPS

-----------------------------------------------------------------------------
(***************************************************************************)
(* The call stack.                                                         *)
(***************************************************************************)
LEMMA GotoStack ==
  ASSUME NEW S, NEW s \in Seq(S), s # <<>>, NEW f \in S,
         NEW t, t = [s EXCEPT ![Len(s)] = f]
  PROVE  /\ t \in Seq(S) /\ t # <<>> /\ Len(t) = Len(s)
         /\ t[Len(s)] = f
         /\ \A l \in 1..(Len(s) - 1) : t[l] = s[l]
  OBVIOUS

\* Setting the last element of a stack and appending one.
LEMMA PushStack ==
  ASSUME NEW S, NEW s \in Seq(S), s # <<>>, NEW f \in S, NEW g \in S,
         NEW t, t = Append([s EXCEPT ![Len(s)] = f], g)
  PROVE  /\ t \in Seq(S) /\ t # <<>> /\ Len(t) = Len(s) + 1
         /\ t[Len(s) + 1] = g /\ t[Len(s)] = f
         /\ \A l \in 1..(Len(s) - 1) : t[l] = s[l]
  OBVIOUS

\* Taking the last element of a stack away.
LEMMA PopStack ==
  ASSUME NEW S, NEW s \in Seq(S), s # <<>>, NEW t, t = SubSeq(s, 1, Len(s) - 1)
  PROVE  /\ t \in Seq(S) /\ Len(t) = Len(s) - 1
         /\ t = <<>> <=> Len(s) = 1
         /\ \A l \in 1..(Len(s) - 1) : t[l] = s[l]
<1> DEFINE n == Len(s) - 1
<1>1. 1 \in Int /\ n \in Nat /\ n \in Int /\ \A i \in 1..n : s[i] \in S
  OBVIOUS
<1>2. /\ t \in Seq(S)
      /\ Len(t) = IF 1 <= n THEN n - 1 + 1 ELSE 0
      /\ \A i \in 1..(n - 1 + 1) : t[i] = s[1 + i - 1]
  BY <1>1, SubSeqProperties
<1> HIDE DEF n
<1>3. Len(t) = n
  BY <1>1, <1>2
<1>4. \A l \in 1..n : t[l] = s[l]
  BY <1>1, <1>2
<1>5. t = <<>> <=> n = 0
  BY <1>1, <1>2, <1>3, EmptySeq
<1>6. QED
  BY <1>1, <1>2, <1>3, <1>4, <1>5 DEF n

\* A set of naturals that is not empty has a least element.
LEMMA NatMin ==
  ASSUME NEW T, T \subseteq Nat, T # {}
  PROVE  \E n \in T : \A m \in T : n <= m
<1>1. \E n \in T : \A m \in T : ~(<<m, n>> \in OpToRel(<, Nat))
  BY NatLessThanWellFounded, WFMin
<1>2. \A m, n \in T : ~(<<m, n>> \in OpToRel(<, Nat)) => n <= m
  BY DEF OpToRel
<1>3. QED
  BY <1>1, <1>2

\* A running edit has a top frame, which is a Frame (editor.enter is active).
LEMMA TopFrame ==
  ASSUME TypeOK, status = "running"
  PROVE  /\ stack \in Seq(Frame) /\ stack # <<>>
         /\ level \in Nat \ {0} /\ top \in Frame
         /\ \A l \in 1..level : stack[l] \in Frame
  BY DEF TypeOK, level, top

\* Goto keeps the level and every frame but the top one.
LEMMA GotoFrame ==
  ASSUME TypeOK, status = "running", NEW f \in Frame, Goto(f)
  PROVE  /\ stack' \in Seq(Frame) /\ stack' # <<>>
         /\ level' = level /\ stack'[level] = f
         /\ \A l \in 1..(level - 1) : stack'[l] = stack[l]
  BY TopFrame, GotoStack DEF Goto, level

\* Push keeps the frames under the top one and adds one level.
LEMMA PushFrame ==
  ASSUME TypeOK, status = "running", NEW f \in Frame, NEW g \in Frame,
         stack' = Push(f, g)
  PROVE  /\ stack' \in Seq(Frame) /\ stack' # <<>>
         /\ level' = level + 1 /\ stack'[level + 1] = g /\ stack'[level] = f
         /\ \A l \in 1..(level - 1) : stack'[l] = stack[l]
  BY TopFrame, PushStack DEF Push, level

\* A return takes the top frame away and keeps the rest.
LEMMA PopFrame ==
  ASSUME TypeOK, status = "running", stack' = SubSeq(stack, 1, level - 1)
  PROVE  /\ stack' \in Seq(Frame)
         /\ level' = level - 1
         /\ stack' = <<>> <=> level = 1
         /\ \A l \in 1..(level - 1) : stack'[l] = stack[l]
<1>1. stack \in Seq(Frame) /\ stack # <<>>
  BY TopFrame
<1>2. stack' = SubSeq(stack, 1, Len(stack) - 1)
  BY DEF level
<1>3. /\ stack' \in Seq(Frame) /\ Len(stack') = Len(stack) - 1
      /\ stack' = <<>> <=> Len(stack) = 1
      /\ \A l \in 1..(Len(stack) - 1) : stack'[l] = stack[l]
  BY <1>1, <1>2, PopStack, ZenonT(60)
<1>4. QED
  BY <1>3 DEF level

-----------------------------------------------------------------------------
(***************************************************************************)
(* Types.                                                                  *)
(***************************************************************************)
LEMMA OtherCasesType ==
  ASSUME NEW k, NEW c \in OtherCases(k), c # NoCase
  PROVE  /\ Case[k] # NoCase /\ c \in Cases /\ c # Case[k] /\ ChoiceOf[c] = ChoiceOf[Case[k]]
         /\ c \in Choosable(to, top.pos, ChoiceOf[Case[k]])
<1> DEFINE there == Choosable(to, top.pos, ChoiceOf[Case[k]])
<1>1. Case[k] # NoCase /\ c \in there /\ c # Case[k]
  BY DEF OtherCases
<1>2. QED
  BY <1>1 DEF Choosable

\* The walk takes a definition, and clears no case but another one of its choice
\* (edit.go 81-87, 99-113).
LEMMA Takes ==
  ASSUME Accept \/ ChooseError
  PROVE  \E other \in Cases \cup {NoCase} :
           /\ Walking /\ Take(other)
           /\ other # NoCase =>
                /\ top.strat = "upsert" /\ Case[Kid] # NoCase
                /\ other # Case[Kid] /\ ChoiceOf[other] = ChoiceOf[Case[Kid]]
           /\ \/ dropped' = TRUE
              \/ /\ dropped' = dropped
                 /\ other \in IF top.strat = "upsert" THEN OtherCases(Kid) ELSE {NoCase}
<1>1. CASE Accept
  <2>1. PICK other \in IF top.strat = "upsert" THEN OtherCases(Kid) ELSE {NoCase} : Take(other)
    BY <1>1 DEF Accept
  <2>2. other # NoCase => top.strat = "upsert" /\ other \in OtherCases(Kid)
    BY <2>1
  <2>3. Walking /\ dropped' = dropped
    BY <1>1 DEF Accept
  <2>4. QED
    BY <2>1, <2>2, <2>3, OtherCasesType
<1>2. CASE ChooseError
  BY <1>2 DEF ChooseError
<1>3. QED
  BY <1>1, <1>2

\* The operations of a data node keep its type (reflect.go 306-343).
LEMMA DataTypes ==
  ASSUME NEW t, WellTyped(t)
  PROVE  /\ \A p \in Pos : WellTyped(Erase(t, p))
         /\ \A p \in Inner : WellTyped(Create(t, p))
         /\ \A p \in Leaves, v \in Val \cup {Absent} : WellTyped(Write(t, p, v))
<1>1. \A p \in Pos : WellTyped(Erase(t, p))
  BY TokensAssumption DEF WellTyped, Tree, Erase, Inner, Leaves
<1>2. \A p \in Inner : WellTyped(Create(t, p))
  BY TokensAssumption DEF WellTyped, Tree, Create, Inner, Leaves
<1>3. \A p \in Leaves, v \in Val \cup {Absent} : WellTyped(Write(t, p, v))
  BY TokensAssumption DEF WellTyped, Tree, Write, Inner, Leaves
<1>4. QED
  BY <1>1, <1>2, <1>3

\* A leaf the source offers has a value (edit.go 73-79).
LEMMA SourceValueType ==
  ASSUME TypeOK, NEW k \in Leaves
  PROVE  SourceValue(k) \in Val \cup {Absent}
<1>1. WellTyped(from) /\ k \in Pos
  BY SeenFacts DEF TypeOK, Leaves
<1>2. from[k] \in Val \cup {Absent} /\ Default[k] \in Val \cup {Absent}
  BY <1>1, SchemaAssumption DEF WellTyped, Tree
<1>3. QED
  BY <1>2 DEF SourceValue

\* What a call pushes is a Frame.
LEMMA NewFrames ==
  ASSUME NEW p \in Inner
  PROVE  /\ \A new \in BOOLEAN, s \in Strategy : EnterFrame(p, new, s) \in Frame
         /\ DeleteFrame(p) \in Frame
<1>1. NoCase \in Cases \cup {NoCase} /\ "upsert" \in Strategy
  BY DEF Strategy
<1>2. \A new \in BOOLEAN, s \in Strategy : EnterFrame(p, new, s) \in Frame
  BY <1>1 DEF EnterFrame, Frame, Phase
<1>3. EnterFrame(p, FALSE, "upsert") \in Frame
  BY <1>1, <1>2
<1>4. DeleteFrame(p) \in Frame
  BY <1>3 DEF DeleteFrame, Frame, Phase
<1>5. QED
  BY <1>2, <1>4

\* The moves of the walk make a Frame of a Frame.
LEMMA FrameMoves ==
  ASSUME NEW f \in Frame
  PROVE  /\ \A ph \in Phase : [f EXCEPT !.phase = ph] \in Frame
         /\ \A p \in Inner : [f EXCEPT !.at = p] \in Frame
         /\ \A p \in Inner, ph \in Phase : [f EXCEPT !.at = p, !.phase = ph] \in Frame
         /\ [f EXCEPT !.i = @ + 1] \in Frame
         /\ [f EXCEPT !.j = @ + 1] \in Frame
         /\ [f EXCEPT !.phase = "walk", !.i = @ + 1] \in Frame
         /\ \A b \in BOOLEAN, c \in Cases \cup {NoCase}, ph \in Phase :
              [f EXCEPT !.found = b, !.case = c, !.j = 1, !.phase = ph] \in Frame
<1>1. f.i + 1 \in Nat \ {0} /\ f.j + 1 \in Nat \ {0} /\ 1 \in Nat \ {0}
  BY DEF Frame
<1>2. [f EXCEPT !.i = @ + 1] \in Frame
  BY <1>1 DEF Frame
<1>3. [f EXCEPT !.j = @ + 1] \in Frame
  BY <1>1 DEF Frame
<1>4. [f EXCEPT !.phase = "walk", !.i = @ + 1] \in Frame
  BY <1>1 DEF Frame, Phase
<1>5. \A b \in BOOLEAN, c \in Cases \cup {NoCase}, ph \in Phase :
        [f EXCEPT !.found = b, !.case = c, !.j = 1, !.phase = ph] \in Frame
  BY <1>1 DEF Frame
<1>6. QED
  BY <1>2, <1>3, <1>4, <1>5 DEF Frame

\* The call and where its bubbling stops have their types (selection.go 53-66).
LEMMA CeilingType ==
  ASSUME TypeOK
  PROVE  /\ op.base \in Inner /\ Ceiling \in Inner /\ op.base \in Below[Ceiling]
         /\ op.kind \in Strategy \cup {"delete"}
         /\ Root \in Inner
  BY RequestAssumption, PosAssumption, TreeAssumption
     DEF TypeOK, Request, Ceiling, Inner, Leaves

\* Every initial state is well typed.
LEMMA TypeInit == Init => TypeOK
<1> SUFFICES ASSUME Init PROVE TypeOK
  OBVIOUS
<1>1. to \in Targets /\ before = to /\ first = to /\ stack = <<>> /\ open = {} /\ status = "idle"
  BY DEF Init
<1>2. op \in Requests /\ from \in Seen /\ dropped \in BOOLEAN
  BY RequestAssumption DEF Init
<1>3. WellTyped(to)
  BY <1>1, RequestAssumption
<1>4. stack \in Seq(Frame)
  BY <1>1
<1>5. QED
  BY <1>1, <1>2, <1>3, <1>4 DEF TypeOK

\* Every step keeps the types, one action at a time.
LEMMA TypeStep == TypeOK /\ [Next]_vars => TypeOK'
<1> SUFFICES ASSUME TypeOK, [Next]_vars PROVE TypeOK'
  OBVIOUS
<1>1. CASE UNCHANGED vars
  BY <1>1 DEF TypeOK, vars
<1>2. ASSUME NEW r \in Requests, NEW src \in Seen, Call(r, src) PROVE TypeOK'
  <2>1. r.base \in Inner /\ r.kind \in Strategy \cup {"delete"}
    BY RequestAssumption DEF Request
  <2>2. DeleteFrame(r.base) \in Frame
    BY <2>1, NewFrames
  <2>3. r.kind # "delete" => EnterFrame(r.base, FALSE, r.kind) \in Frame
    BY <2>1, NewFrames
  <2>4. \E f \in Frame : stack' = <<f>>
    BY <1>2, <2>2, <2>3 DEF Call
  <2>5. stack' \in Seq(Frame) /\ stack' # <<>>
    BY <2>4
  <2>6. first' = first \/ first' = to
    BY <1>2 DEF Call
  <2>7. QED
    BY <1>2, <2>5, <2>6 DEF TypeOK, Call
<1>3. CASE CallbackError
  BY <1>3 DEF CallbackError, Fail, TypeOK
<1>4. CASE DeleteHook
  <2>1. [top EXCEPT !.phase = "begin"] \in Frame
    BY <1>4, TopFrame DEF DeleteHook, Running, Frame, Phase
  <2>2. stack' \in Seq(Frame) /\ stack' # <<>>
    BY <1>4, <2>1, GotoFrame DEF DeleteHook, Running
  <2>3. QED
    BY <1>4, <2>2 DEF TypeOK, DeleteHook, Running
<1>5. CASE BeginEdit
  <2>1. /\ [top EXCEPT !.at = Parent[top.at]] \in Frame
        /\ [top EXCEPT !.at = top.pos,
             !.phase = IF top.fn = "enter" THEN "walk" ELSE "remove"] \in Frame
        /\ level \in Nat \ {0} /\ top.at \in Inner
    BY <1>5, TopFrame, TreeAssumption, ZenonT(60) DEF BeginEdit, Running, Frame, Phase, Inner
  <2>2. stack' \in Seq(Frame) /\ stack' # <<>>
    BY <1>5, <2>1, GotoFrame DEF BeginEdit, Running
  <2>3. QED
    BY <1>5, <2>1, <2>2 DEF TypeOK, BeginEdit, Running
<1>6. CASE EndEdit
  <2>1. [top EXCEPT !.at = Parent[top.at]] \in Frame
    BY <1>6, TopFrame, TreeAssumption DEF EndEdit, Running, Frame, Phase, Inner
  <2>2. CASE Bubbles /\ top.at # Ceiling
    <3>1. stack' \in Seq(Frame) /\ stack' # <<>> /\ status' = status
      BY <1>6, <2>1, <2>2, GotoFrame DEF EndEdit, Running
    <3>2. QED
      BY <1>6, <3>1 DEF TypeOK, EndEdit, Running
  <2>3. CASE ~(Bubbles /\ top.at # Ceiling)
    <3>1. stack' \in Seq(Frame) /\ (stack' = <<>> <=> level = 1)
      BY <1>6, <2>3, PopFrame DEF EndEdit, Running
    <3>2. QED
      BY <1>6, <2>3, <3>1 DEF TypeOK, EndEdit, Running
  <2>4. QED
    BY <2>2, <2>3
<1>7. CASE RemoveData
  <2>1. [top EXCEPT !.phase = "end"] \in Frame /\ top.pos \in Pos
    BY <1>7, TopFrame DEF RemoveData, Running, Frame, Phase, Inner
  <2>2. stack' \in Seq(Frame) /\ stack' # <<>>
    BY <1>7, <2>1, GotoFrame DEF RemoveData, Running
  <2>3. WellTyped(to')
    BY <1>7, <2>1, DataTypes DEF TypeOK, RemoveData
  <2>4. QED
    BY <1>7, <2>2, <2>3 DEF TypeOK, RemoveData, Running
<1>8. CASE Skip
  <2>1. [top EXCEPT !.i = @ + 1] \in Frame
    BY <1>8, TopFrame, FrameMoves DEF Skip, Walking, Running
  <2>2. stack' \in Seq(Frame) /\ stack' # <<>>
    BY <1>8, <2>1, GotoFrame DEF Skip, Walking, Running
  <2>3. QED
    BY <1>8, <2>2 DEF TypeOK, Skip, Walking, Running
<1>9. CASE Refuse
  BY <1>9 DEF Refuse, Fail, TypeOK
<1>10. CASE Accept \/ ChooseError
  <2>1. PICK other \in Cases \cup {NoCase} : Walking /\ Take(other) /\ dropped' \in {dropped, TRUE}
    BY <1>10, Takes
  <2> DEFINE f == [top EXCEPT !.found = Found(Kid), !.case = other, !.j = 1,
                              !.phase = IF other = NoCase THEN "apply" ELSE "clear"]
  <2>2. top \in Frame /\ top.pos \in Pos /\ status = "running"
    BY <2>1, TopFrame DEF Walking, Running, Frame, Inner
  <2>3. Found(Kid) \in BOOLEAN
    BY SMTT(60) DEF Found, VisibleTo, WhenMet
  <2>4. f \in Frame
    BY <2>1, <2>2, <2>3, FrameMoves DEF Phase
  <2>5. stack' \in Seq(Frame) /\ stack' # <<>>
    BY <2>1, <2>2, <2>4, GotoFrame DEF Take
  <2>6. QED
    BY <2>1, <2>2, <2>5 DEF TypeOK, Take
<1>11. CASE Clear \/ FindError
  <2> DEFINE m == Kids[top.pos][top.j]
             next == [top EXCEPT !.j = @ + 1]
  <2>1. next \in Frame /\ status = "running"
    BY <1>11, TopFrame, FrameMoves DEF Clear, FindError, Clearing, Running
  <2>2. m \in Pos
    <3>1. top.pos \in Pos /\ top.j \in 1..Len(Kids[top.pos])
      BY <1>11, TopFrame DEF Clear, FindError, Clearing, Running, Frame, Inner
    <3>2. Kids[top.pos] \in Seq(Pos \ {Root})
      BY <3>1, KidsAssumption
    <3>3. QED
      BY <3>1, <3>2
  <2>3. WellTyped(to')
    BY <1>11, <2>2, DataTypes DEF Clear, FindError, Member, TypeOK
  <2>4. \/ Goto(next)
        \/ m \in Inner /\ stack' = Push(next, DeleteFrame(m))
    BY <1>11 DEF Clear, FindError, Member
  <2>5. stack' \in Seq(Frame) /\ stack' # <<>>
    BY <2>1, <2>4, GotoFrame, PushFrame, NewFrames
  <2>6. UNCHANGED <<open, first, op, from, status, before>> /\ dropped' \in {dropped, TRUE}
    BY <1>11 DEF Clear, FindError
  <2>7. QED
    BY <2>1, <2>3, <2>5, <2>6 DEF TypeOK
<1>12. CASE Cleared
  <2>1. [top EXCEPT !.phase = "apply"] \in Frame
    BY <1>12, TopFrame DEF Cleared, Running, Frame, Phase
  <2>2. stack' \in Seq(Frame) /\ stack' # <<>>
    BY <1>12, <2>1, GotoFrame DEF Cleared, Running
  <2>3. QED
    BY <1>12, <2>2 DEF TypeOK, Cleared, Running
<1>13. status = "running" => Return \in Frame /\ top.strat \in Strategy
  BY TopFrame, FrameMoves DEF Return, Frame
<1>14. CASE SetLeaf
  <2>1. Kid \in Leaves /\ status = "running"
    BY <1>14 DEF SetLeaf, Running
  <2>2. stack' \in Seq(Frame) /\ stack' # <<>>
    BY <1>13, <1>14, <2>1, GotoFrame DEF SetLeaf, Return
  <2>3. WellTyped(to')
    BY <1>14, <2>1, DataTypes, SourceValueType DEF SetLeaf, TypeOK
  <2>4. QED
    BY <1>14, <2>1, <2>2, <2>3 DEF TypeOK, SetLeaf
<1>15. Kid \in Inner /\ status = "running" =>
         \A new \in BOOLEAN : EnterFrame(Kid, new, Nested(Kid)) \in Frame
  BY <1>13, NewFrames DEF Nested, Strategy
<1>16. CASE Descend
  <2>1. stack' \in Seq(Frame) /\ stack' # <<>>
    BY <1>13, <1>15, <1>16, PushFrame DEF Descend, Running
  <2>2. QED
    BY <1>16, <2>1 DEF TypeOK, Descend, Running
<1>17. CASE CreateChild
  <2>1. WellTyped(to')
    BY <1>17, DataTypes DEF CreateChild, TypeOK
  <2>2. CASE VisibleTo(to', Kid)
    <3>1. stack' \in Seq(Frame) /\ stack' # <<>>
      BY <1>13, <1>15, <1>17, <2>2, PushFrame DEF CreateChild, Running
    <3>2. QED
      BY <1>17, <2>1, <2>2, <3>1 DEF TypeOK, CreateChild, Running
  <2>3. CASE ~VisibleTo(to', Kid)
    BY <1>17, <2>1, <2>3 DEF TypeOK, CreateChild, Running
  <2>4. QED
    BY <2>2, <2>3
<1>18. CASE Walked
  <2>1. [top EXCEPT !.phase = "end"] \in Frame
    BY <1>18, TopFrame DEF Walked, Running, Frame, Phase
  <2>2. stack' \in Seq(Frame) /\ stack' # <<>>
    BY <1>18, <2>1, GotoFrame DEF Walked, Running
  <2>3. QED
    BY <1>18, <2>2 DEF TypeOK, Walked, Running
<1>19. QED
  BY <1>1, <1>2, <1>3, <1>4, <1>5, <1>6, <1>7, <1>8, <1>9, <1>10, <1>11, <1>12,
     <1>14, <1>16, <1>17, <1>18 DEF Next, Step

\* Every variable of an edit keeps its type, whatever is called.
THEOREM TypeCorrect == Spec => []TypeOK
  BY TypeInit, TypeStep, PTL DEF Spec

-----------------------------------------------------------------------------
(***************************************************************************)
(* Positions.                                                              *)
(***************************************************************************)
LEMMA KidFacts ==
  ASSUME NEW p \in Pos, NEW n \in 1..Len(Kids[p])
  PROVE  /\ Kids[p][n] \in Pos \ {Root} /\ Parent[Kids[p][n]] = p
         /\ p \in Inner /\ Kids[p][n] # p
<1>1. Kids[p] \in Seq(Pos \ {Root}) /\ n \in DOMAIN Kids[p]
  BY KidsAssumption
<1>2. QED
  BY <1>1, KidsAssumption, TreeAssumption

\* What is above a position is the position or above its parent.
LEMMA ChildFacts ==
  ASSUME NEW k \in Pos \ {Root}
  PROVE  /\ Parent[k] \in Inner /\ Parent[k] \in Pos
         /\ k \in Below[Parent[k]] /\ Parent[k] \notin Below[k]
         /\ \A a \in Pos : k \in Below[a] => a = k \/ Parent[k] \in Below[a]
         /\ \A a \in Pos : Parent[k] \in Below[a] => k \in Below[a] /\ a # k
  BY TreeAssumption DEF Inner

-----------------------------------------------------------------------------
(***************************************************************************)
(* The shape of the stack under its four kinds of change.                  *)
(***************************************************************************)
LEMMA SpineStay ==
  ASSUME TypeOK, SpineInv, level' = level, op' = op,
         \A l \in 1..level : stack'[l].pos = stack[l].pos
  PROVE  SpineInv'
<1>1. level \in Nat
  BY DEF TypeOK, level
<1>2. ASSUME NEW l \in 1..level PROVE
        /\ stack'[l].pos \in Below[op.base]
        /\ \A m \in 1..level : l < m =>
             stack'[m].pos \in Below[stack'[l].pos] /\ stack'[m].pos # stack'[l].pos
        /\ \A a \in Below[op.base] :
             stack'[l].pos \in Below[a] => \E m \in 1..l : stack'[m].pos = a
  BY <1>1 DEF SpineInv
<1>3. QED
  BY <1>2 DEF SpineInv

\* Going down to a child of the top position keeps the spine.
LEMMA SpinePush ==
  ASSUME TypeOK, SpineInv, status = "running", op' = op,
         NEW g \in Frame, g.pos \in Pos \ {Root}, Parent[g.pos] = top.pos,
         level' = level + 1, stack'[level + 1] = g,
         \A l \in 1..level : stack'[l].pos = stack[l].pos
  PROVE  SpineInv'
<1>1. level \in Nat \ {0} /\ top = stack[level]
  BY TopFrame DEF top
<1>2. /\ g.pos \in Below[top.pos] /\ g.pos # top.pos /\ top.pos \notin Below[g.pos]
      /\ \A a \in Pos : g.pos \in Below[a] => a = g.pos \/ top.pos \in Below[a]
  BY ChildFacts
<1>3. \A l \in 1..level : stack[l].pos \in Pos
  BY TopFrame DEF Frame, Inner
<1>4. \A l \in 1..level : g.pos \in Below[stack[l].pos] /\ g.pos # stack[l].pos
  <2> TAKE l \in 1..level
  <2>1. top.pos \in Below[stack[l].pos]
    BY <1>1, <1>3, TreeAssumption DEF SpineInv
  <2>2. QED
    BY <1>1, <1>2, <1>3, <2>1, TreeAssumption
<1>5. op.base \in Pos /\ top.pos \in Below[op.base]
  BY <1>1, CeilingType DEF SpineInv, Inner
<1>6. g.pos \in Below[op.base]
  BY <1>1, <1>2, <1>3, <1>5, TreeAssumption
<1>7. \A a \in Below[op.base] : g.pos \in Below[a] =>
        \E m \in 1..(level + 1) : stack'[m].pos = a
  <2> SUFFICES ASSUME NEW a \in Below[op.base], g.pos \in Below[a]
               PROVE  \E m \in 1..(level + 1) : stack'[m].pos = a
    OBVIOUS
  <2>1. a \in Pos
    BY <1>5, TreeAssumption
  <2>2. CASE a = g.pos
    BY <1>1, <2>2
  <2>3. CASE top.pos \in Below[a]
    <3>1. PICK m \in 1..level : stack[m].pos = a
      BY <1>1, <2>3 DEF SpineInv
    <3>2. QED
      BY <1>1, <3>1
  <2>4. QED
    BY <1>2, <2>1, <2>2, <2>3
<1>8. ASSUME NEW l \in 1..level PROVE
        /\ stack'[l].pos \in Below[op.base]
        /\ \A m \in 1..level : l < m =>
             stack'[m].pos \in Below[stack'[l].pos] /\ stack'[m].pos # stack'[l].pos
        /\ \A a \in Below[op.base] :
             stack'[l].pos \in Below[a] => \E m \in 1..l : stack'[m].pos = a
  BY <1>1 DEF SpineInv
<1>9. QED
  <2> SUFFICES ASSUME NEW l \in 1..(level + 1) PROVE
        /\ stack'[l].pos \in Below[op.base]
        /\ \A m \in 1..(level + 1) : l < m =>
             stack'[m].pos \in Below[stack'[l].pos] /\ stack'[m].pos # stack'[l].pos
        /\ \A a \in Below[op.base] :
             stack'[l].pos \in Below[a] => \E m \in 1..l : stack'[m].pos = a
    BY DEF SpineInv
  <2>1. CASE l = level + 1
    BY <1>1, <1>6, <1>7, <2>1
  <2>2. CASE l \in 1..level
    BY <1>1, <1>4, <1>8, <2>2
  <2>3. QED
    BY <1>1, <2>1, <2>2

\* So does returning.
LEMMA SpinePop ==
  ASSUME TypeOK, SpineInv, status = "running", op' = op, level' = level - 1,
         \A l \in 1..(level - 1) : stack'[l] = stack[l]
  PROVE  SpineInv'
<1>1. level \in Nat \ {0}
  BY TopFrame
<1>2. ASSUME NEW l \in 1..(level - 1) PROVE
        /\ stack'[l].pos \in Below[op.base]
        /\ \A m \in 1..(level - 1) : l < m =>
             stack'[m].pos \in Below[stack'[l].pos] /\ stack'[m].pos # stack'[l].pos
        /\ \A a \in Below[op.base] :
             stack'[l].pos \in Below[a] => \E m \in 1..l : stack'[m].pos = a
  BY <1>1 DEF SpineInv
<1>3. QED
  BY <1>2 DEF SpineInv

\* A change of the top frame alone keeps the shape of the frames.
LEMMA FrameStay ==
  ASSUME TypeOK, FrameInv, status = "running", op' = op,
         NEW f \in Frame, Goto(f), f.fn = top.fn, f.pos = top.pos,
         FrameOK(f, level, Ceiling)
  PROVE  FrameInv'
<1>1. level \in Nat \ {0} /\ top = stack[level]
  BY TopFrame DEF top
<1>2. /\ level' = level /\ stack'[level] = f /\ top' = f /\ Ceiling' = Ceiling
      /\ \A l \in 1..(level - 1) : stack'[l] = stack[l]
  BY GotoFrame DEF top, Ceiling
<1>3. ASSUME NEW l \in 1..level
      PROVE  FrameOK(stack'[l], l, Ceiling) /\ (l < level => Waiting(l)')
  <2>1. CASE l = level
    BY <1>1, <1>2, <2>1
  <2>2. CASE l \in 1..(level - 1)
    BY <1>1, <1>2, <2>2 DEF FrameInv, Waiting
  <2>3. QED
    BY <1>1, <2>1, <2>2
<1>4. QED
  BY <1>2, <1>3 DEF FrameInv

\* A new frame over a waiting one keeps it.
LEMMA FramePush ==
  ASSUME TypeOK, FrameInv, status = "running", op' = op,
         NEW f \in Frame, NEW g \in Frame, stack' = Push(f, g),
         top.fn = "enter", f.fn = "enter",
         \/ f.phase = "walk"
         \/ /\ f.phase = "clear" /\ g.fn = "delete"
            /\ Parent[g.pos] = f.pos /\ Case[g.pos] = f.case,
         FrameOK(f, level, Ceiling), FrameOK(g, level + 1, Ceiling)
  PROVE  FrameInv'
<1>1. level \in Nat \ {0} /\ top = stack[level]
  BY TopFrame DEF top
<1>2. /\ level' = level + 1 /\ stack'[level + 1] = g /\ stack'[level] = f
      /\ top' = g /\ Ceiling' = Ceiling
      /\ \A l \in 1..(level - 1) : stack'[l] = stack[l]
  BY PushFrame DEF top, Ceiling
<1>3. ASSUME NEW l \in 1..(level + 1)
      PROVE  FrameOK(stack'[l], l, Ceiling) /\ (l < level + 1 => Waiting(l)')
  <2>1. CASE l = level + 1
    BY <1>1, <1>2, <2>1
  <2>2. CASE l = level
    BY <1>1, <1>2, <2>2 DEF Waiting
  <2>3. CASE l \in 1..(level - 1)
    BY <1>1, <1>2, <2>3 DEF FrameInv, Waiting
  <2>4. QED
    BY <1>1, <2>1, <2>2, <2>3
<1>4. QED
  BY <1>2, <1>3 DEF FrameInv

\* And so does a return to the frame that waits.
LEMMA FramePop ==
  ASSUME TypeOK, FrameInv, status = "running", op' = op,
         stack' = SubSeq(stack, 1, level - 1)
  PROVE  FrameInv'
<1>1. level \in Nat \ {0}
  BY TopFrame
<1>2. /\ level' = level - 1 /\ Ceiling' = Ceiling
      /\ \A l \in 1..(level - 1) : stack'[l] = stack[l]
  BY PopFrame DEF Ceiling
<1>3. ASSUME NEW l \in 1..(level - 1)
      PROVE  FrameOK(stack'[l], l, Ceiling) /\ (l < level - 1 => Waiting(l)')
  BY <1>1, <1>2 DEF FrameInv, Waiting
<1>4. QED
  BY <1>2, <1>3 DEF FrameInv

-----------------------------------------------------------------------------
(***************************************************************************)
(* The open brackets under the same changes.                               *)
(***************************************************************************)
LEMMA OpenGoto ==
  ASSUME TypeOK, OpenInv, status = "running", op' = op,
         NEW f \in Frame, Goto(f),
         \A e \in open' : e \in open \/ e[1] = level,
         \A l \in 1..(level - 1), a \in Inner : <<l, a>> \in open' <=> <<l, a>> \in open,
         \A a \in Inner : <<level, a>> \in open' <=> a \in Held(f, level, Ceiling)
  PROVE  OpenInv'
<1>1. level \in Nat \ {0}
  BY TopFrame
<1>2. /\ level' = level /\ stack'[level] = f /\ Ceiling' = Ceiling
      /\ \A l \in 1..(level - 1) : stack'[l] = stack[l]
  BY GotoFrame DEF Ceiling
<1>3. \A e \in open' : e[1] \in 1..level
  BY <1>1 DEF OpenInv
<1>4. ASSUME NEW l \in 1..level, NEW a \in Inner
      PROVE  <<l, a>> \in open' <=> a \in Held(stack'[l], l, Ceiling)
  <2>1. CASE l = level
    BY <1>2, <2>1
  <2>2. CASE l \in 1..(level - 1)
    BY <1>1, <1>2, <2>2 DEF OpenInv
  <2>3. QED
    BY <1>1, <2>1, <2>2
<1>5. QED
  BY <1>2, <1>3, <1>4 DEF OpenInv

\* A new frame holds no bracket yet.
LEMMA OpenPush ==
  ASSUME TypeOK, OpenInv, status = "running", op' = op, open' = open,
         NEW f \in Frame, NEW g \in Frame, stack' = Push(f, g),
         Held(f, level, Ceiling) = Held(top, level, Ceiling),
         Held(g, level + 1, Ceiling) = {}
  PROVE  OpenInv'
<1>1. level \in Nat \ {0} /\ top = stack[level]
  BY TopFrame DEF top
<1>2. /\ level' = level + 1 /\ stack'[level + 1] = g /\ stack'[level] = f
      /\ Ceiling' = Ceiling
      /\ \A l \in 1..(level - 1) : stack'[l] = stack[l]
  BY PushFrame DEF Ceiling
<1>3. \A e \in open : e[1] \in 1..level
  BY DEF OpenInv
<1>4. ASSUME NEW l \in 1..(level + 1), NEW a \in Inner
      PROVE  <<l, a>> \in open <=> a \in Held(stack'[l], l, Ceiling)
  <2>1. CASE l = level + 1
    BY <1>1, <1>2, <1>3, <2>1
  <2>2. CASE l \in 1..level
    BY <1>1, <1>2, <2>2 DEF OpenInv
  <2>3. QED
    BY <1>1, <2>1, <2>2
<1>5. QED
  BY <1>1, <1>2, <1>3, <1>4 DEF OpenInv

\* A frame that returns has closed all of its brackets.
LEMMA OpenPop ==
  ASSUME TypeOK, OpenInv, status = "running", op' = op,
         stack' = SubSeq(stack, 1, level - 1), open' = open \ {<<level, top.at>>},
         Held(top, level, Ceiling) = {top.at}
  PROVE  OpenInv' /\ (level = 1 => open' = {})
<1>1. level \in Nat \ {0} /\ top = stack[level]
  BY TopFrame DEF top
<1>2. /\ level' = level - 1 /\ Ceiling' = Ceiling
      /\ \A l \in 1..(level - 1) : stack'[l] = stack[l]
  BY PopFrame DEF Ceiling
<1>3. ASSUME NEW e \in open' PROVE e[1] \in 1..(level - 1)
  <2>1. e \in open /\ e[1] \in 1..level /\ e[2] \in Inner /\ e = <<e[1], e[2]>>
    BY DEF OpenInv, TypeOK
  <2>2. CASE e[1] = level
    <3>1. e[2] \in Held(top, level, Ceiling)
      BY <1>1, <2>1, <2>2 DEF OpenInv
    <3>2. QED
      BY <2>1, <2>2, <3>1
  <2>3. QED
    BY <1>1, <2>1, <2>2
<1>4. ASSUME NEW l \in 1..(level - 1), NEW a \in Inner
      PROVE  <<l, a>> \in open' <=> a \in Held(stack'[l], l, Ceiling)
  BY <1>1, <1>2 DEF OpenInv
<1>5. QED
  BY <1>1, <1>2, <1>3, <1>4 DEF OpenInv

-----------------------------------------------------------------------------
(***************************************************************************)
(* What the steps do to the top activation's brackets.                     *)
(***************************************************************************)
LEMMA HeldAt ==
  ASSUME NEW f \in Frame, NEW l, NEW c
  PROVE  /\ f.phase \in {"walk", "clear", "apply", "remove"} => Held(f, l, c) = Scope(f, l, c)
         /\ f.phase = "end" /\ f.at = f.pos => Held(f, l, c) = Scope(f, l, c)
         /\ f.phase = "begin" /\ f.at = f.pos => Held(f, l, c) = {}
         /\ f.phase = "hook" => Held(f, l, c) = {}
<1>1. f.pos \in Pos /\ f.pos \in Below[f.pos]
  BY TreeAssumption DEF Frame, Inner
<1>2. \A a \in Scope(f, l, c) : a \in Pos /\ f.pos \in Below[a]
  BY <1>1 DEF Scope
<1>3. f.phase = "end" /\ f.at = f.pos => Held(f, l, c) = Scope(f, l, c)
  BY <1>2 DEF Held
<1>4. f.phase = "begin" /\ f.at = f.pos => Held(f, l, c) = {}
  BY <1>1, <1>2, TreeAssumption DEF Held
<1>5. QED
  BY <1>3, <1>4 DEF Held

\* Whose brackets a frame opens depends on its position and kind alone.
LEMMA SameScope ==
  ASSUME NEW f, NEW g, f.fn = g.fn, f.pos = g.pos, NEW l, NEW c
  PROVE  Scope(f, l, c) = Scope(g, l, c)
  BY DEF Scope

\* A step that changes neither brackets nor levels keeps the shape.
LEMMA QuietStep ==
  ASSUME TypeOK, FrameInv, SpineInv, OpenInv, status = "running",
         UNCHANGED <<op, open>>,
         NEW f \in Frame, Goto(f), f.fn = top.fn, f.pos = top.pos,
         FrameOK(f, level, Ceiling), Held(f, level, Ceiling) = Held(top, level, Ceiling)
  PROVE  FrameInv' /\ SpineInv' /\ OpenInv'
<1>1. level \in Nat \ {0} /\ top = stack[level]
  BY TopFrame DEF top
<1>2. FrameInv'
  BY FrameStay
<1>3. SpineInv'
  <2>1. level' = level /\ stack'[level] = f /\ \A l \in 1..(level - 1) : stack'[l] = stack[l]
    BY GotoFrame
  <2>2. \A l \in 1..level : stack'[l].pos = stack[l].pos
    BY <1>1, <2>1
  <2>3. QED
    BY <2>1, <2>2, SpineStay
<1>4. OpenInv'
  <2>1. \A a \in Inner : <<level, a>> \in open <=> a \in Held(top, level, Ceiling)
    BY <1>1 DEF OpenInv
  <2>2. QED
    BY <2>1, OpenGoto
<1>5. QED
  BY <1>2, <1>3, <1>4

\* A step that pushes a frame and touches no bracket keeps the shape of them all.
LEMMA PushStep ==
  ASSUME TypeOK, FrameInv, SpineInv, OpenInv, status = "running",
         UNCHANGED <<op, open>>,
         NEW f \in Frame, NEW g \in Frame, stack' = Push(f, g),
         top.fn = "enter", f.fn = "enter", f.pos = top.pos,
         g.pos \in Pos \ {Root}, Parent[g.pos] = top.pos,
         \/ f.phase = "walk"
         \/ f.phase = "clear" /\ g.fn = "delete" /\ Case[g.pos] = f.case,
         FrameOK(f, level, Ceiling), FrameOK(g, level + 1, Ceiling),
         Held(f, level, Ceiling) = Held(top, level, Ceiling),
         Held(g, level + 1, Ceiling) = {}
  PROVE  FrameInv' /\ SpineInv' /\ OpenInv'
<1>1. level \in Nat \ {0} /\ top = stack[level]
  BY TopFrame DEF top
<1>2. FrameInv'
  BY FramePush
<1>3. SpineInv'
  <2>1. /\ level' = level + 1 /\ stack'[level + 1] = g /\ stack'[level] = f
        /\ \A l \in 1..(level - 1) : stack'[l] = stack[l]
    BY PushFrame
  <2>2. \A l \in 1..level : stack'[l].pos = stack[l].pos
    BY <1>1, <2>1
  <2>3. QED
    BY <2>1, <2>2, SpinePush
<1>4. OpenInv'
  BY OpenPush
<1>5. QED
  BY <1>2, <1>3, <1>4

-----------------------------------------------------------------------------
(***************************************************************************)
(* Each step of the walk keeps the shape of the stack and its brackets.    *)
(***************************************************************************)
Shape == FrameInv /\ SpineInv /\ OpenInv

\* What the shape says of the top frame.
LEMMA TopShape ==
  ASSUME TypeOK, Shape, status = "running"
  PROVE  /\ level \in Nat \ {0} /\ top = stack[level]
         /\ top \in Frame /\ FrameOK(top, level, Ceiling)
         /\ top.pos \in Pos /\ top.at \in Inner /\ top.at \in Pos
         /\ Ceiling \in Inner /\ Ceiling \in Pos
<1>1. level \in Nat \ {0} /\ top = stack[level] /\ top \in Frame
  BY TopFrame DEF top
<1>2. FrameOK(top, level, Ceiling)
  BY <1>1 DEF Shape, FrameInv
<1>3. QED
  BY <1>1, <1>2, CeilingType DEF Frame, Inner

\* Selection.Delete before its BeginEdit (selection.go 336-338).
LEMMA DeleteHookShape ==
  ASSUME TypeOK, Shape, DeleteHook
  PROVE  Shape'
<1> DEFINE f == [top EXCEPT !.phase = "begin"]
<1>1. status = "running" /\ top.phase = "hook"
  BY DEF DeleteHook, Running
<1>2. f \in Frame /\ f.fn = top.fn /\ f.pos = top.pos /\ f.at = top.at /\ f.phase = "begin"
  <2>1. top \in Frame /\ "begin" \in Phase
    BY <1>1, TopShape DEF Phase
  <2>2. f \in Frame
    BY <2>1, FrameMoves, Zenon
  <2>3. QED
    BY <2>1, <2>2 DEF Frame
<1>3. Goto(f) /\ UNCHANGED <<op, open>>
  BY DEF DeleteHook
<1> HIDE DEF f
<1>4. FrameOK(f, level, Ceiling) /\ f.at = f.pos
  BY <1>1, <1>2, TopShape, SameScope DEF FrameOK, EnterPhases, DeletePhases
<1>5. Held(f, level, Ceiling) = Held(top, level, Ceiling)
  BY <1>1, <1>2, <1>4, TopShape, HeldAt
<1>6. QED
  BY <1>1, <1>2, <1>3, <1>4, <1>5, QuietStep DEF Shape

\* The moves of an activation that opens and closes no bracket.
LEMMA MoveShape ==
  ASSUME TypeOK, Shape, status = "running", UNCHANGED <<op, open>>,
         NEW f \in Frame, Goto(f), f.fn = top.fn, f.pos = top.pos, f.at = top.at,
         top.phase \in {"walk", "clear", "apply", "remove"},
         f.phase \in {"walk", "clear", "apply", "remove", "end"},
         f.phase \in IF f.fn = "enter" THEN EnterPhases ELSE DeletePhases,
         f.phase \in {"clear", "apply"} => f.i <= Len(Kids[f.pos]),
         f.phase = "clear" => f.case # Case[Kids[f.pos][f.i]]
  PROVE  Shape'
<1>1. f.at = f.pos
  BY TopShape DEF FrameOK
<1>2. FrameOK(f, level, Ceiling)
  BY <1>1, TopShape, SameScope DEF FrameOK
<1>3. Held(f, level, Ceiling) = Held(top, level, Ceiling)
  BY <1>1, TopShape, SameScope, HeldAt
<1>4. QED
  BY <1>2, <1>3, QuietStep DEF Shape

\* One Node.BeginEdit of the bubbling (selection.go 302-311).
LEMMA BeginEditShape ==
  ASSUME TypeOK, Shape, BeginEdit
  PROVE  Shape'
<1> DEFINE S == Scope(top, level, Ceiling)
<1>1. status = "running" /\ top.phase = "begin" /\ UNCHANGED op
      /\ open' = open \cup {<<level, top.at>>}
  BY DEF BeginEdit, Running
<1>2. /\ level \in Nat \ {0} /\ top = stack[level]
      /\ top \in Frame /\ FrameOK(top, level, Ceiling)
      /\ top.pos \in Pos /\ top.at \in Inner /\ top.at \in Pos
      /\ Ceiling \in Inner /\ Ceiling \in Pos
  BY <1>1, TopShape
<1>3. top.at \in S
  BY <1>2 DEF FrameOK
<1>4. Held(top, level, Ceiling) = {a \in S : a \in Below[top.at] /\ a # top.at}
  BY <1>1 DEF Held
<1>5. \A a \in Inner : <<level, a>> \in open <=> a \in Held(top, level, Ceiling)
  BY <1>1, <1>2 DEF Shape, OpenInv
<1>6. SUFFICES ASSUME NEW f \in Frame, Goto(f), f.fn = top.fn, f.pos = top.pos,
                      FrameOK(f, level, Ceiling),
                      Held(f, level, Ceiling) = Held(top, level, Ceiling) \cup {top.at}
               PROVE  Shape'
  <2>1. CASE Bubbles /\ top.at # Ceiling
    <3> DEFINE f == [top EXCEPT !.at = Parent[top.at]]
    <3>1. S = {a \in Pos : top.pos \in Below[a] /\ a \in Below[Ceiling]}
      BY <2>1 DEF Scope, Bubbles
    <3>2. top.at # Root
      BY <1>2, <1>3, <2>1, <3>1, TreeAssumption
    <3>3. /\ f \in Frame /\ f.fn = top.fn /\ f.pos = top.pos
          /\ f.at = Parent[top.at] /\ f.phase = "begin"
      <4>1. top \in Frame /\ Parent[top.at] \in Inner
        BY <1>2, TreeAssumption
      <4>2. f \in Frame
        BY <4>1, FrameMoves, Zenon
      <4>3. QED
        BY <1>1, <4>1, <4>2 DEF Frame
    <3>4. Goto(f)
      BY <2>1 DEF BeginEdit
    <3> HIDE DEF f
    <3>5. Parent[top.at] \in S
      <4>1. top.pos \in Below[top.at] /\ top.at \in Below[Ceiling]
        BY <1>3, <3>1
      <4>2. /\ Parent[top.at] \in Pos /\ top.at \in Below[Parent[top.at]]
            /\ Parent[top.at] \in Below[Ceiling]
        BY <1>2, <2>1, <3>2, <4>1, ChildFacts
      <4>3. top.pos \in Below[Parent[top.at]]
        BY <1>2, <4>1, <4>2, TreeAssumption
      <4>4. QED
        BY <3>1, <4>2, <4>3
    <3>6. FrameOK(f, level, Ceiling)
      BY <1>1, <1>2, <3>3, <3>5, SameScope DEF FrameOK, EnterPhases, DeletePhases
    <3>7. Held(f, level, Ceiling) = {a \in S : a \in Below[Parent[top.at]] /\ a # Parent[top.at]}
      BY <3>3, SameScope DEF Held
    <3>8. \A a \in S : a \in Below[Parent[top.at]] /\ a # Parent[top.at]
                       <=> (a \in Below[top.at] /\ a # top.at) \/ a = top.at
      <4> SUFFICES ASSUME NEW a \in S
                   PROVE  a \in Below[Parent[top.at]] /\ a # Parent[top.at]
                            <=> a \in Below[top.at]
        BY <1>2, TreeAssumption
      <4>1. a \in Pos /\ top.pos \in Below[a] /\ top.pos \in Below[top.at]
        BY <1>3, <3>1
      <4>2. a \in Below[top.at] \/ top.at \in Below[a]
        BY <1>2, <4>1, TreeAssumption
      <4>3. /\ Parent[top.at] \in Pos /\ top.at \in Below[Parent[top.at]]
            /\ Parent[top.at] \notin Below[top.at]
            /\ top.at \in Below[a] => a = top.at \/ Parent[top.at] \in Below[a]
        BY <1>2, <3>2, <4>1, ChildFacts
      <4>4. a \in Below[top.at] => a \in Below[Parent[top.at]] /\ a # Parent[top.at]
        BY <1>2, <4>1, <4>3, TreeAssumption
      <4>5. a \in Below[Parent[top.at]] /\ a # Parent[top.at] => a \in Below[top.at]
        BY <1>2, <4>1, <4>2, <4>3, TreeAssumption
      <4>6. QED
        BY <4>4, <4>5
    <3>9. Held(f, level, Ceiling) = Held(top, level, Ceiling) \cup {top.at}
      BY <1>3, <1>4, <3>7, <3>8
    <3>10. QED
      BY <1>6, <3>3, <3>4, <3>6, <3>9
  <2>2. CASE ~(Bubbles /\ top.at # Ceiling)
    <3> DEFINE ph == IF top.fn = "enter" THEN "walk" ELSE "remove"
               f == [top EXCEPT !.at = top.pos, !.phase = ph]
    <3>1. ph \in Phase /\ top.pos \in Inner
      BY <1>2 DEF Phase, Frame
    <3>2. Goto(f)
      BY <2>2 DEF BeginEdit
    <3>3. f \in Frame /\ f.fn = top.fn /\ f.pos = top.pos /\ f.at = top.pos /\ f.phase = ph
      <4>1. f \in Frame
        BY <1>2, <3>1, FrameMoves, Zenon
      <4>2. QED
        BY <1>2, <4>1 DEF Frame
    <3> HIDE DEF f
    <3>4. S = {top.at} \cup {a \in S : a \in Below[top.at] /\ a # top.at}
      BY <1>2, <1>3, <2>2 DEF Scope, Bubbles
    <3>5. Held(f, level, Ceiling) = S
      BY <3>3, SameScope DEF Held
    <3>6. top.pos \in S
      <4>1. top.pos \in Below[top.pos]
        BY <1>2, TreeAssumption
      <4>2. CASE Bubbles
        <5>1. top.at \in Pos /\ top.pos \in Below[top.at] /\ top.at = Ceiling
          BY <1>3, <2>2, <4>2 DEF Scope, Bubbles
        <5>2. QED
          BY <1>2, <4>1, <4>2, <5>1 DEF Scope, Bubbles
      <4>3. CASE ~Bubbles
        BY <4>3 DEF Scope, Bubbles
      <4>4. QED
        BY <4>2, <4>3
    <3>7. FrameOK(f, level, Ceiling)
      BY <1>2, <3>3, <3>6, SameScope DEF FrameOK, EnterPhases, DeletePhases
    <3>8. QED
      BY <1>4, <1>6, <3>2, <3>3, <3>4, <3>5, <3>7
  <2>3. QED
    BY <2>1, <2>2
<1>7. FrameInv'
  BY <1>1, <1>6, FrameStay DEF Shape
<1>8. SpineInv'
  <2>1. level' = level /\ stack'[level] = f /\ \A l \in 1..(level - 1) : stack'[l] = stack[l]
    BY <1>1, <1>6, GotoFrame
  <2>2. \A l \in 1..level : stack'[l].pos = stack[l].pos
    BY <1>2, <1>6, <2>1
  <2>3. QED
    BY <1>1, <2>1, <2>2, SpineStay DEF Shape
<1>9. OpenInv'
  <2>1. \A a \in Inner : <<level, a>> \in open' <=> a \in Held(f, level, Ceiling)
    BY <1>1, <1>5, <1>6
  <2>2. /\ \A e \in open' : e \in open \/ e[1] = level
        /\ \A l \in 1..(level - 1), a \in Inner : <<l, a>> \in open' <=> <<l, a>> \in open
    BY <1>1, <1>2
  <2>3. QED
    BY <1>1, <1>6, <2>1, <2>2, OpenGoto DEF Shape
<1>10. QED
  BY <1>7, <1>8, <1>9 DEF Shape

\* One Node.EndEdit of the bubbling, and the return (selection.go 318-331).
LEMMA EndEditShape ==
  ASSUME TypeOK, Shape, EndEdit
  PROVE  Shape' /\ (status' = "ok" => open' = {})
<1> DEFINE S == Scope(top, level, Ceiling)
<1>1. status = "running" /\ top.phase = "end" /\ UNCHANGED op
      /\ open' = open \ {<<level, top.at>>}
  BY DEF EndEdit, Running
<1>2. /\ level \in Nat \ {0} /\ top = stack[level]
      /\ top \in Frame /\ FrameOK(top, level, Ceiling)
      /\ top.pos \in Pos /\ top.at \in Inner /\ top.at \in Pos
      /\ Ceiling \in Inner /\ Ceiling \in Pos
  BY <1>1, TopShape
<1>3. top.at \in S
  BY <1>2 DEF FrameOK
<1>4. Held(top, level, Ceiling) = {a \in S : top.at \in Below[a]}
  BY <1>1 DEF Held
<1>5. CASE Bubbles /\ top.at # Ceiling
  <2> DEFINE f == [top EXCEPT !.at = Parent[top.at]]
  <2>1. S = {a \in Pos : top.pos \in Below[a] /\ a \in Below[Ceiling]}
    BY <1>5 DEF Scope, Bubbles
  <2>2. top.at # Root
    BY <1>2, <1>3, <1>5, <2>1, TreeAssumption
  <2>3. /\ f \in Frame /\ f.fn = top.fn /\ f.pos = top.pos
        /\ f.at = Parent[top.at] /\ f.phase = "end"
    <3>1. top \in Frame /\ Parent[top.at] \in Inner
      BY <1>2, TreeAssumption
    <3>2. f \in Frame
      BY <3>1, FrameMoves, Zenon
    <3>3. QED
      BY <1>1, <3>1, <3>2 DEF Frame
  <2>4. Goto(f) /\ UNCHANGED status
    BY <1>5 DEF EndEdit
  <2> HIDE DEF f
  <2>5. /\ Parent[top.at] \in Pos /\ top.at \in Below[Parent[top.at]]
        /\ Parent[top.at] \in Below[Ceiling]
        /\ \A a \in Pos : Parent[top.at] \in Below[a] <=> top.at \in Below[a] /\ a # top.at
    <3>1. top.at \in Below[Ceiling]
      BY <1>3, <2>1
    <3>2. QED
      BY <1>2, <1>5, <2>2, <3>1, ChildFacts
  <2>6. Parent[top.at] \in S
    <3>1. top.pos \in Below[top.at]
      BY <1>3, <2>1
    <3>2. top.pos \in Below[Parent[top.at]]
      BY <1>2, <2>5, <3>1, TreeAssumption
    <3>3. QED
      BY <2>1, <2>5, <3>2
  <2>7. FrameOK(f, level, Ceiling)
    BY <1>1, <1>2, <2>3, <2>6, SameScope DEF FrameOK, EnterPhases, DeletePhases
  <2>8. Held(f, level, Ceiling) = {a \in S : Parent[top.at] \in Below[a]}
    BY <2>3, SameScope DEF Held
  <2>9. \A a \in Inner : <<level, a>> \in open' <=> a \in Held(f, level, Ceiling)
    <3>1. \A a \in Inner : <<level, a>> \in open <=> a \in S /\ top.at \in Below[a]
      BY <1>1, <1>2, <1>4 DEF Shape, OpenInv
    <3>2. \A a \in S : a \in Pos
      BY <2>1
    <3>3. QED
      BY <1>1, <2>5, <2>8, <3>1, <3>2
  <2>10. FrameInv'
    BY <1>1, <2>3, <2>4, <2>7, FrameStay DEF Shape
  <2>11. SpineInv'
    <3>1. level' = level /\ stack'[level] = f /\ \A l \in 1..(level - 1) : stack'[l] = stack[l]
      BY <1>1, <2>3, <2>4, GotoFrame
    <3>2. \A l \in 1..level : stack'[l].pos = stack[l].pos
      BY <1>2, <2>3, <3>1
    <3>3. QED
      BY <1>1, <3>1, <3>2, SpineStay DEF Shape
  <2>12. OpenInv'
    <3>1. /\ \A e \in open' : e \in open \/ e[1] = level
          /\ \A l \in 1..(level - 1), a \in Inner : <<l, a>> \in open' <=> <<l, a>> \in open
      BY <1>1, <1>2
    <3>2. QED
      BY <1>1, <2>3, <2>4, <2>9, <3>1, OpenGoto DEF Shape
  <2>13. QED
    BY <1>1, <2>4, <2>10, <2>11, <2>12 DEF Shape
<1>6. CASE ~(Bubbles /\ top.at # Ceiling)
  <2>1. stack' = SubSeq(stack, 1, level - 1) /\ status' = IF level = 1 THEN "ok" ELSE status
    BY <1>6 DEF EndEdit
  <2>2. Held(top, level, Ceiling) = {top.at}
    <3>1. top.at \in Below[top.at]
      BY <1>2, TreeAssumption
    <3>2. \A a \in S : top.at \in Below[a] => a = top.at
      BY <1>2, <1>3, <1>6, TreeAssumption DEF Scope, Bubbles
    <3>3. QED
      BY <1>3, <1>4, <3>1, <3>2
  <2>3. FrameInv'
    BY <1>1, <2>1, FramePop DEF Shape
  <2>4. SpineInv'
    <3>1. level' = level - 1 /\ \A l \in 1..(level - 1) : stack'[l] = stack[l]
      BY <1>1, <2>1, PopFrame
    <3>2. QED
      BY <1>1, <3>1, SpinePop DEF Shape
  <2>5. OpenInv' /\ (level = 1 => open' = {})
    BY <1>1, <2>1, <2>2, OpenPop DEF Shape
  <2>6. QED
    BY <1>1, <2>1, <2>3, <2>4, <2>5 DEF Shape
<1>7. QED
  BY <1>5, <1>6

\* The frame of editor.enter on a child is well formed.
LEMMA NewEnterFrame ==
  ASSUME NEW c \in Pos, NEW p \in Inner, p \in Below[c], NEW l,
         NEW new \in BOOLEAN, NEW s \in Strategy
  PROVE  /\ FrameOK(EnterFrame(p, new, s), l, c)
         /\ Held(EnterFrame(p, new, s), l, c) = {}
         /\ EnterFrame(p, new, s).pos = p
<1> DEFINE g == EnterFrame(p, new, s)
<1>1. p \in Pos /\ p \in Below[p]
  BY TreeAssumption DEF Inner
<1>2. g \in Frame /\ g.fn = "enter" /\ g.pos = p /\ g.at = p /\ g.phase = "begin"
  BY NewFrames DEF EnterFrame
<1> HIDE DEF g
<1>3. FrameOK(g, l, c)
  BY <1>1, <1>2 DEF FrameOK, EnterPhases, Scope
<1>4. Held(g, l, c) = {}
  BY <1>2, HeldAt
<1>5. QED
  BY <1>2, <1>3, <1>4 DEF g

\* The frame of a deletion for a choice is well formed.
LEMMA NewDeleteFrame ==
  ASSUME NEW c \in Pos, NEW p \in Inner \ {Root}, p \in Below[c], NEW l
  PROVE  /\ FrameOK(DeleteFrame(p), l, c)
         /\ Held(DeleteFrame(p), l, c) = {}
         /\ DeleteFrame(p).pos = p /\ DeleteFrame(p).fn = "delete"
<1> DEFINE g == DeleteFrame(p)
<1>1. p \in Pos /\ p \in Below[p]
  BY TreeAssumption DEF Inner
<1>2. g \in Frame /\ g.fn = "delete" /\ g.pos = p /\ g.at = p /\ g.phase = "hook"
  BY NewFrames DEF DeleteFrame, EnterFrame
<1> HIDE DEF g
<1>3. FrameOK(g, l, c)
  BY <1>1, <1>2 DEF FrameOK, DeletePhases, Scope
<1>4. Held(g, l, c) = {}
  BY <1>2, HeldAt
<1>5. QED
  BY <1>2, <1>3, <1>4 DEF g

\* Where the copying stands: the definition the top activation is at.
LEMMA KidType ==
  ASSUME TypeOK, Shape, status = "running",
         Walking \/ top.phase \in {"clear", "apply"}
  PROVE  /\ top.fn = "enter"
         /\ Kid \in Pos \ {Root} /\ Parent[Kid] = top.pos
         /\ Kid # top.pos
<1>1. top \in Frame /\ FrameOK(top, level, Ceiling) /\ top.pos \in Pos
  BY TopShape
<1>2. top.phase \in {"walk", "clear", "apply"}
  BY DEF Walking, Running
<1>3. top.fn = "enter"
  BY <1>1, <1>2 DEF FrameOK, DeletePhases
<1>4. top.i \in 1..Len(Kids[top.pos])
  BY <1>1 DEF Frame, FrameOK, Walking
<1>5. QED
  BY <1>1, <1>3, <1>4, KidFacts DEF Kid

\* Skip keeps the shape.
LEMMA SkipShape ==
  ASSUME TypeOK, Shape, Skip
  PROVE  Shape'
<1> DEFINE f == [top EXCEPT !.i = @ + 1]
<1>1. status = "running" /\ top.phase = "walk" /\ Goto(f) /\ UNCHANGED <<op, open>>
  BY DEF Skip, Walking, Running
<1>2. top \in Frame /\ FrameOK(top, level, Ceiling)
  BY <1>1, TopShape
<1>3. f \in Frame
  BY <1>2, FrameMoves, Zenon
<1>4. f.fn = top.fn /\ f.pos = top.pos /\ f.at = top.at /\ f.phase = "walk"
  BY <1>1, <1>2 DEF Frame
<1> HIDE DEF f
<1>5. f.phase \in IF f.fn = "enter" THEN EnterPhases ELSE DeletePhases
  BY <1>1, <1>2, <1>4 DEF FrameOK
<1>6. QED
  BY <1>1, <1>3, <1>4, <1>5, MoveShape

\* So does taking a definition: a case is cleared only if it is another one.
LEMMA TakeShape ==
  ASSUME TypeOK, Shape, Accept \/ ChooseError
  PROVE  Shape'
<1>0. PICK other \in Cases \cup {NoCase} :
        Walking /\ Take(other) /\ (other # NoCase => other # Case[Kid])
  BY Takes
<1> DEFINE b == Found(Kid)
           ph == IF other = NoCase THEN "apply" ELSE "clear"
           f == [top EXCEPT !.found = b, !.case = other, !.j = 1, !.phase = ph]
<1>1. status = "running" /\ top.phase = "walk" /\ Goto(f) /\ UNCHANGED <<op, open>>
  BY <1>0 DEF Take, Walking, Running
<1>2. /\ top \in Frame /\ FrameOK(top, level, Ceiling) /\ top.pos \in Pos
      /\ top.fn = "enter"
  BY <1>0, <1>1, TopShape, KidType
<1>3. other \in Cases \cup {NoCase} /\ (ph = "clear" => other # Case[Kid])
  BY <1>0
<1>4. b \in BOOLEAN /\ ph \in {"apply", "clear"} /\ ph \in Phase /\ ph \in EnterPhases
  BY DEF Found, VisibleTo, WhenMet, Phase, EnterPhases
<1> HIDE DEF b, ph
<1>5. f \in Frame
  BY <1>2, <1>3, <1>4, FrameMoves, Zenon
<1>6. /\ f.fn = top.fn /\ f.pos = top.pos /\ f.at = top.at /\ f.phase = ph
      /\ f.i = top.i /\ f.case = other
  BY <1>2, <1>4 DEF Frame
<1>7. f.i <= Len(Kids[f.pos])
  BY <1>0, <1>6 DEF Walking
<1> HIDE DEF f
<1>8. f.phase = "clear" => f.case # Case[Kids[f.pos][f.i]]
  BY <1>3, <1>6 DEF Kid
<1>9. QED
  BY <1>1, <1>2, <1>4, <1>5, <1>6, <1>7, <1>8, MoveShape

\* Clear keeps the shape, whether it deletes or passes over (edit.go 118-132).
LEMMA ClearShape ==
  ASSUME TypeOK, Shape, Clear \/ FindError
  PROVE  Shape'
<1> DEFINE m == Kids[top.pos][top.j]
           next == [top EXCEPT !.j = @ + 1]
<1>1. status = "running" /\ top.phase = "clear" /\ UNCHANGED <<op, open>>
      /\ top.j <= Len(Kids[top.pos])
  BY DEF Clear, FindError, Clearing, Running
<1>2. /\ level \in Nat \ {0} /\ top = stack[level]
      /\ top \in Frame /\ FrameOK(top, level, Ceiling) /\ top.pos \in Pos
      /\ Ceiling \in Pos /\ top.fn = "enter"
  BY <1>1, TopShape, KidType
<1>3. next \in Frame
  BY <1>2, FrameMoves, Zenon
<1>4. /\ next.fn = top.fn /\ next.pos = top.pos /\ next.at = top.at
      /\ next.phase = "clear" /\ next.i = top.i /\ next.case = top.case
  BY <1>1, <1>2 DEF Frame
<1>5. m \in Pos \ {Root} /\ Parent[m] = top.pos
  <2>1. top.j \in 1..Len(Kids[top.pos])
    BY <1>1, <1>2 DEF Frame
  <2>2. QED
    BY <1>2, <2>1, KidFacts
<1>6. \/ Goto(next)
      \/ m \in Inner /\ Case[m] = top.case /\ stack' = Push(next, DeleteFrame(m))
  BY DEF Clear, FindError, Member, Hit
<1> HIDE DEF m, next
<1>7. FrameOK(next, level, Ceiling)
  BY <1>1, <1>2, <1>4, SameScope DEF FrameOK
<1>8. CASE Goto(next)
  BY <1>1, <1>2, <1>3, <1>4, <1>7, <1>8, MoveShape DEF FrameOK
<1>9. CASE m \in Inner /\ Case[m] = top.case /\ stack' = Push(next, DeleteFrame(m))
  <2>1. m \in Below[Ceiling]
    <3>1. top.pos \in Below[op.base]
      BY <1>2 DEF Shape, SpineInv
    <3>2. op.base \in Below[Ceiling] /\ op.base \in Pos
      BY CeilingType DEF Inner
    <3>3. m \in Below[top.pos]
      BY <1>5, ChildFacts
    <3>4. QED
      BY <1>2, <1>5, <3>1, <3>2, <3>3, TreeAssumption
  <2>2. /\ FrameOK(DeleteFrame(m), level + 1, Ceiling)
        /\ Held(DeleteFrame(m), level + 1, Ceiling) = {}
        /\ DeleteFrame(m).pos = m /\ DeleteFrame(m).fn = "delete" /\ DeleteFrame(m) \in Frame
    BY <1>2, <1>5, <1>9, <2>1, NewDeleteFrame, NewFrames
  <2>3. Held(next, level, Ceiling) = Held(top, level, Ceiling)
    BY <1>1, <1>2, <1>3, <1>4, SameScope, HeldAt
  <2>4. QED
    BY <1>1, <1>2, <1>3, <1>4, <1>5, <1>7, <1>9, <2>2, <2>3, PushStep DEF Shape
<1>10. QED
  BY <1>6, <1>8, <1>9

\* Cleared keeps the shape.
LEMMA ClearedShape ==
  ASSUME TypeOK, Shape, Cleared
  PROVE  Shape'
<1> DEFINE f == [top EXCEPT !.phase = "apply"]
<1>1. status = "running" /\ top.phase = "clear" /\ Goto(f) /\ UNCHANGED <<op, open>>
  BY DEF Cleared, Running
<1>2. top \in Frame /\ FrameOK(top, level, Ceiling) /\ top.fn = "enter"
  BY <1>1, TopShape, KidType
<1>3. f \in Frame
  <2>1. "apply" \in Phase
    BY DEF Phase
  <2>2. QED
    BY <1>2, <2>1, FrameMoves, Zenon
<1>4. /\ f.fn = top.fn /\ f.pos = top.pos /\ f.at = top.at /\ f.phase = "apply"
      /\ f.i = top.i
  BY <1>2 DEF Frame
<1> HIDE DEF f
<1>5. QED
  BY <1>1, <1>2, <1>3, <1>4, MoveShape DEF FrameOK, EnterPhases

\* SetLeaf keeps the shape.
LEMMA SetLeafShape ==
  ASSUME TypeOK, Shape, SetLeaf
  PROVE  Shape'
<1> DEFINE f == [top EXCEPT !.phase = "walk", !.i = @ + 1]
<1>1. status = "running" /\ top.phase = "apply" /\ Goto(f) /\ UNCHANGED <<op, open>>
  BY DEF SetLeaf, Running
<1>2. top \in Frame /\ FrameOK(top, level, Ceiling) /\ top.fn = "enter"
  BY <1>1, TopShape, KidType
<1>3. f \in Frame
  BY <1>2, FrameMoves, Zenon
<1>4. f.fn = top.fn /\ f.pos = top.pos /\ f.at = top.at /\ f.phase = "walk"
  BY <1>2 DEF Frame
<1> HIDE DEF f
<1>5. QED
  BY <1>1, <1>2, <1>3, <1>4, MoveShape DEF EnterPhases

\* Walked and RemoveData.
LEMMA ToEndShape ==
  ASSUME TypeOK, Shape, status = "running", UNCHANGED <<op, open>>,
         top.phase \in {"walk", "remove"}, Goto([top EXCEPT !.phase = "end"])
  PROVE  Shape'
<1> DEFINE f == [top EXCEPT !.phase = "end"]
<1>1. top \in Frame
  BY TopShape
<1>2. f \in Frame
  <2>1. "end" \in Phase
    BY DEF Phase
  <2>2. QED
    BY <1>1, <2>1, FrameMoves, Zenon
<1>3. f.fn = top.fn /\ f.pos = top.pos /\ f.at = top.at /\ f.phase = "end" /\ Goto(f)
  BY <1>1 DEF Frame
<1> HIDE DEF f
<1>4. QED
  BY <1>1, <1>2, <1>3, MoveShape DEF EnterPhases, DeletePhases

\* Descend, and CreateChild when the child may be entered.
LEMMA DownShape ==
  ASSUME TypeOK, Shape, status = "running", UNCHANGED <<op, open>>,
         top.phase = "apply", Kid \in Inner,
         NEW new \in BOOLEAN, stack' = Push(Return, EnterFrame(Kid, new, Nested(Kid)))
  PROVE  Shape'
<1> DEFINE g == EnterFrame(Kid, new, Nested(Kid))
<1>1. /\ level \in Nat \ {0} /\ top = stack[level]
      /\ top \in Frame /\ FrameOK(top, level, Ceiling) /\ top.pos \in Pos
      /\ Ceiling \in Pos /\ top.fn = "enter"
      /\ Kid \in Pos \ {Root} /\ Parent[Kid] = top.pos
  BY TopShape, KidType
<1>2. Return \in Frame /\ Return.fn = "enter" /\ Return.pos = top.pos
      /\ Return.at = top.at /\ Return.phase = "walk"
  <2>1. Return \in Frame
    BY <1>1, FrameMoves DEF Return
  <2>2. QED
    BY <1>1, <2>1, SMTT(60) DEF Return, Frame
<1>3. Nested(Kid) \in Strategy
  BY <1>1 DEF Nested, Strategy, Frame
<1>4. Kid \in Below[Ceiling]
  <2>1. top.pos \in Below[op.base]
    BY <1>1 DEF Shape, SpineInv
  <2>2. op.base \in Below[Ceiling] /\ op.base \in Pos
    BY CeilingType DEF Inner
  <2>3. Kid \in Below[top.pos]
    BY <1>1, ChildFacts
  <2>4. QED
    BY <1>1, <2>1, <2>2, <2>3, TreeAssumption
<1>5. /\ g \in Frame /\ g.pos = Kid
      /\ FrameOK(g, level + 1, Ceiling) /\ Held(g, level + 1, Ceiling) = {}
  BY <1>1, <1>3, <1>4, NewFrames, NewEnterFrame
<1>6. stack' = Push(Return, g)
  OBVIOUS
<1> HIDE DEF g
<1>7. FrameOK(Return, level, Ceiling)
  BY <1>1, <1>2, SameScope DEF FrameOK, EnterPhases
<1>8. Held(Return, level, Ceiling) = Held(top, level, Ceiling)
  BY <1>1, <1>2, <1>7, SameScope, HeldAt
<1>9. QED
  BY <1>1, <1>2, <1>5, <1>6, <1>7, <1>8, PushStep DEF Shape

\* An error unwinds the whole stack (edit.go 51-53).
LEMMA FailShape ==
  ASSUME Fail \/ (stack' = <<>> /\ status' = "failed")
  PROVE  Shape'
<1>1. stack' = <<>> /\ status' = "failed" /\ level' = 0
  BY DEF Fail, level
<1>2. QED
  BY <1>1 DEF Shape, FrameInv, SpineInv, OpenInv

\* A call starts with one frame at its base (edit.go 25-30).
LEMMA CallShape ==
  ASSUME TypeOK, NEW r \in Requests, NEW src \in Seen, Call(r, src)
  PROVE  Shape'
<1>1. r.base \in Inner /\ r.base \in Pos /\ r.kind \in Strategy \cup {"delete"}
      /\ (r.kind = "delete" => r.base # Root)
  BY RequestAssumption DEF Request, Inner
<1>2. op' = r /\ open' = {} /\ TypeOK'
  BY TypeStep DEF Call, Next
<1>3. Ceiling' \in Pos /\ r.base \in Below[Ceiling']
  BY <1>1, <1>2, TreeAssumption, PosAssumption DEF Ceiling
<1>4. \E g \in Frame : /\ stack' = <<g>> /\ g.pos = r.base
                       /\ FrameOK(g, 1, Ceiling') /\ Held(g, 1, Ceiling') = {}
  <2>1. CASE r.kind = "delete"
    <3>1. stack' = <<DeleteFrame(r.base)>>
      BY <2>1 DEF Call
    <3>2. QED
      BY <1>1, <1>3, <2>1, <3>1, NewFrames, NewDeleteFrame
  <2>2. CASE r.kind # "delete"
    <3>1. stack' = <<EnterFrame(r.base, FALSE, r.kind)>> /\ r.kind \in Strategy /\ FALSE \in BOOLEAN
      BY <1>1, <2>2 DEF Call
    <3>2. EnterFrame(r.base, FALSE, r.kind) \in Frame
      BY <1>1, <3>1, NewFrames
    <3>3. /\ FrameOK(EnterFrame(r.base, FALSE, r.kind), 1, Ceiling')
          /\ Held(EnterFrame(r.base, FALSE, r.kind), 1, Ceiling') = {}
          /\ EnterFrame(r.base, FALSE, r.kind).pos = r.base
      BY <1>1, <1>3, <3>1, NewEnterFrame
    <3>4. QED
      BY <3>1, <3>2, <3>3
  <2>3. QED
    BY <2>1, <2>2
<1>5. PICK g \in Frame : /\ stack' = <<g>> /\ g.pos = r.base
                        /\ FrameOK(g, 1, Ceiling') /\ Held(g, 1, Ceiling') = {}
  BY <1>4
<1>6. level' = 1 /\ stack'[1] = g
  BY <1>5 DEF level
<1>7. r.base \in Below[r.base]
  BY <1>1, TreeAssumption
<1>8. FrameInv'
  BY <1>5, <1>6 DEF FrameInv
<1>9. SpineInv'
  BY <1>1, <1>2, <1>5, <1>6, <1>7, TreeAssumption DEF SpineInv
<1>10. OpenInv'
  BY <1>2, <1>5, <1>6 DEF OpenInv
<1>11. QED
  BY <1>8, <1>9, <1>10 DEF Shape

\* Every step keeps the shape of the stack and of the brackets.
LEMMA ShapeStep ==
  ASSUME TypeOK, Shape, [Next]_vars
  PROVE  Shape'
<1>1. CASE UNCHANGED vars
  <2>1. level' = level /\ top' = top /\ Ceiling' = Ceiling
    BY <1>1 DEF vars, level, top, Ceiling
  <2>2. QED
    BY <1>1, <2>1 DEF vars, Shape, FrameInv, SpineInv, OpenInv, Waiting
<1>2. ASSUME NEW r \in Requests, NEW src \in Seen, Call(r, src) PROVE Shape'
  BY <1>2, CallShape
<1>3. CASE CallbackError
  BY <1>3, FailShape DEF CallbackError
<1>4. CASE DeleteHook
  BY <1>4, DeleteHookShape
<1>5. CASE BeginEdit
  BY <1>5, BeginEditShape
<1>6. CASE EndEdit
  BY <1>6, EndEditShape
<1>7. CASE RemoveData
  BY <1>7, ToEndShape DEF RemoveData, Running
<1>8. CASE Skip
  BY <1>8, SkipShape
<1>9. CASE Refuse
  BY <1>9, FailShape DEF Refuse
<1>10. CASE Accept \/ ChooseError
  BY <1>10, TakeShape
<1>11. CASE Clear \/ FindError
  BY <1>11, ClearShape
<1>12. CASE Cleared
  BY <1>12, ClearedShape
<1>13. CASE SetLeaf
  BY <1>13, SetLeafShape
<1>14. CASE Descend
  BY <1>14, DownShape DEF Descend, Running
<1>15. CASE CreateChild
  <2>1. CASE VisibleTo(to', Kid)
    <3>1. /\ status = "running" /\ UNCHANGED <<op, open>> /\ top.phase = "apply"
          /\ Kid \in Inner /\ stack' = Push(Return, EnterFrame(Kid, TRUE, Nested(Kid)))
      BY <1>15, <2>1 DEF CreateChild, Running
    <3>2. QED
      BY <3>1, DownShape
  <2>2. CASE ~VisibleTo(to', Kid)
    BY <1>15, <2>2, FailShape DEF CreateChild
  <2>3. QED
    BY <2>1, <2>2
<1>16. CASE Walked
  BY <1>16, ToEndShape DEF Walked, Running
<1>17. QED
  BY <1>1, <1>2, <1>3, <1>4, <1>5, <1>6, <1>7, <1>8, <1>9, <1>10, <1>11, <1>12,
     <1>13, <1>14, <1>15, <1>16 DEF Next, Step

-----------------------------------------------------------------------------
(***************************************************************************)
(* The data stays rooted.                                                  *)
(***************************************************************************)
LEMMA RootedErase ==
  ASSUME NEW t, Rooted(t), NEW p \in Pos \ {Root}
  PROVE  Rooted(Erase(t, p))
<1>1. Root \in Pos \ Below[p]
  BY PosAssumption, TreeAssumption
<1>2. \A x \in Pos : \A q \in Below[x] : q \notin Below[p] => x \notin Below[p]
  BY TreeAssumption
<1>3. \A x \in Pos : Below[x] \subseteq Pos
  BY TreeAssumption
<1>4. QED
  BY <1>1, <1>2, <1>3 DEF Rooted, Erase

\* Creating under what is there leaves nothing dangling.
LEMMA RootedCreate ==
  ASSUME NEW t, Rooted(t), NEW k \in Pos \ {Root}, t[Parent[k]] # Absent
  PROVE  Rooted(Create(t, k))
<1>1. Root \in Pos \ Below[k] /\ Obj # Absent
  BY PosAssumption, TreeAssumption, TokensAssumption
<1>2. SUFFICES ASSUME NEW x \in Pos, NEW q \in Below[x], Create(t, k)[q] # Absent
               PROVE  Create(t, k)[x] # Absent
  BY <1>1 DEF Rooted, Create
<1>3. q \in Pos
  BY TreeAssumption
<1>4. CASE q = k /\ x # k
  <2>1. Parent[k] \in Below[x]
    BY <1>4, ChildFacts
  <2>2. t[x] # Absent
    BY <2>1 DEF Rooted
  <2>3. x \notin Below[k]
    BY <1>4, TreeAssumption
  <2>4. QED
    BY <1>4, <2>2, <2>3 DEF Create
<1>5. CASE q # k
  <2>1. q \notin Below[k] /\ t[q] # Absent
    BY <1>2, <1>3, <1>5 DEF Create
  <2>2. t[x] # Absent
    BY <2>1 DEF Rooted
  <2>3. x \notin Below[k]
    BY <1>3, <2>1, TreeAssumption
  <2>4. QED
    BY <1>1, <2>2, <2>3 DEF Create
<1>6. QED
  BY <1>1, <1>4, <1>5 DEF Create

\* Writing a leaf of what is there leaves nothing dangling.
LEMMA RootedWrite ==
  ASSUME NEW t, t \in Tree, Rooted(t), NEW k \in Leaves \ {Root}, t[Parent[k]] # Absent, NEW v
  PROVE  Rooted(Write(t, k, v))
<1>1. k \in Pos \ {Root} /\ Below[k] = {k}
  BY TreeAssumption DEF Leaves
<1>2. SUFFICES ASSUME NEW x \in Pos, NEW q \in Below[x], Write(t, k, v)[q] # Absent
               PROVE  Write(t, k, v)[x] # Absent
  BY <1>1, PosAssumption DEF Rooted, Write, Tree
<1>3. q \in Pos
  BY TreeAssumption
<1>4. CASE q = k /\ x # k
  <2>1. Parent[k] \in Below[x]
    BY <1>1, <1>4, ChildFacts
  <2>2. t[x] # Absent
    BY <2>1 DEF Rooted
  <2>3. QED
    BY <1>4, <2>2 DEF Write, Tree
<1>5. CASE q # k
  <2>1. x # k
    BY <1>1, <1>5
  <2>2. t[q] # Absent
    BY <1>2, <1>3, <1>5 DEF Write, Tree
  <2>3. t[x] # Absent
    BY <2>2 DEF Rooted
  <2>4. QED
    BY <2>1, <2>3 DEF Write, Tree
<1>6. QED
  BY <1>2, <1>4, <1>5

-----------------------------------------------------------------------------
(***************************************************************************)
(* No activation loses its data, and what one found stays found.           *)
(***************************************************************************)
Live == NoDanglingSelection /\ FoundInv

\* A step that moves the top frame and leaves what the others hold keeps them alive.
LEMMA LiveStay ==
  ASSUME TypeOK, Live, status = "running", NEW f \in Frame, Goto(f), Rooted(to'),
         f.pos = top.pos,
         to'[top.pos] # Absent \/ (f.fn = "delete" /\ f.phase = "end"),
         \A l \in 1..(level - 1) :
           to'[stack[l].pos] # Absent /\ FoundOK(stack[l], to'),
         FoundOK(f, to')
  PROVE  Live'
<1>1. level \in Nat \ {0}
  BY TopFrame
<1>2. /\ level' = level /\ stack'[level] = f /\ top' = f
      /\ \A l \in 1..(level - 1) : stack'[l] = stack[l]
      /\ DOMAIN stack' = 1..level
  BY GotoFrame DEF top, level
<1>3. \A l \in 1..level : l = level \/ l \in 1..(level - 1)
  BY <1>1
<1>4. NoDanglingSelection'
  BY <1>2, <1>3 DEF NoDanglingSelection
<1>5. FoundInv'
  BY <1>2, <1>3 DEF FoundInv
<1>6. QED
  BY <1>4, <1>5 DEF Live

\* Going down to a child that is there keeps them alive.
LEMMA LivePush ==
  ASSUME TypeOK, Live, status = "running", Rooted(to'),
         NEW f \in Frame, NEW g \in Frame, stack' = Push(f, g), f.pos = top.pos,
         to'[top.pos] # Absent, to'[g.pos] # Absent,
         \A l \in 1..(level - 1) :
           to'[stack[l].pos] # Absent /\ FoundOK(stack[l], to'),
         FoundOK(f, to'), FoundOK(g, to')
  PROVE  Live'
<1>1. level \in Nat \ {0}
  BY TopFrame
<1>2. /\ level' = level + 1 /\ stack'[level + 1] = g /\ stack'[level] = f
      /\ \A l \in 1..(level - 1) : stack'[l] = stack[l]
      /\ DOMAIN stack' = 1..(level + 1)
  BY PushFrame DEF level
<1>3. \A l \in 1..(level + 1) : l = level + 1 \/ l = level \/ l \in 1..(level - 1)
  BY <1>1
<1>4. NoDanglingSelection'
  BY <1>2, <1>3 DEF NoDanglingSelection
<1>5. FoundInv'
  BY <1>2, <1>3 DEF FoundInv
<1>6. QED
  BY <1>4, <1>5 DEF Live

\* What Live says of the walk as it stands.
LEMMA LiveNow ==
  ASSUME TypeOK, Shape, Live, status = "running"
  PROVE  /\ Rooted(to) /\ WellTyped(to)
         /\ \A l \in 1..(level - 1) :
              /\ to[stack[l].pos] # Absent /\ FoundOK(stack[l], to)
              /\ stack[l].pos \in Inner /\ stack[l].pos \in Pos
              /\ top.pos \in Below[stack[l].pos] /\ stack[l].pos # top.pos
              /\ stack[l].fn = "enter" /\ Waiting(l)
         /\ to[top.pos] # Absent \/ (top.fn = "delete" /\ top.phase = "end")
         /\ FoundOK(top, to)
<1>1. level \in Nat \ {0} /\ top = stack[level] /\ DOMAIN stack = 1..level
  BY TopFrame DEF top, level
<1>2. \A l \in 1..(level - 1) : l \in 1..level /\ l < level
  BY <1>1
<1>3. Rooted(to) /\ WellTyped(to)
  BY DEF Live, NoDanglingSelection, TypeOK
<1>4. level \in DOMAIN stack /\ level \in 1..level
  BY <1>1
<1>5. /\ to[top.pos] # Absent \/ (top.fn = "delete" /\ top.phase = "end")
      /\ FoundOK(top, to)
  BY <1>1, <1>4 DEF Live, NoDanglingSelection, FoundInv
<1>6. ASSUME NEW l \in 1..(level - 1)
      PROVE  /\ to[stack[l].pos] # Absent /\ FoundOK(stack[l], to)
             /\ stack[l].pos \in Inner /\ stack[l].pos \in Pos
             /\ top.pos \in Below[stack[l].pos] /\ stack[l].pos # top.pos
             /\ stack[l].fn = "enter" /\ Waiting(l)
  <2>1. to[stack[l].pos] # Absent /\ FoundOK(stack[l], to)
    BY <1>1, <1>2 DEF Live, NoDanglingSelection, FoundInv
  <2>2. stack[l].pos \in Inner /\ stack[l].pos \in Pos
    BY <1>2, TopFrame DEF Frame, Inner
  <2>3. top.pos \in Below[stack[l].pos] /\ stack[l].pos # top.pos
    BY <1>1, <1>2, <1>4 DEF Shape, SpineInv
  <2>4. Waiting(l)
    BY <1>2 DEF Shape, FrameInv
  <2>5. QED
    BY <2>1, <2>2, <2>3, <2>4 DEF Waiting
<1>7. QED
  BY <1>3, <1>5, <1>6

\* Every step keeps the selections alive: what a deletion for a choice takes away
\* is never above or at a position that the walk is in.
LEMMA LiveStep ==
  ASSUME TypeOK, Shape, Live, [Next]_vars
  PROVE  Live'
<1>1. CASE UNCHANGED vars
  <2>1. level' = level /\ top' = top
    BY <1>1 DEF vars, level, top
  <2>2. QED
    BY <1>1, <2>1 DEF vars, Live, NoDanglingSelection, FoundInv
<1>2. ASSUME NEW r \in Requests, NEW src \in Seen, Call(r, src) PROVE Live'
  <2>1. \E g \in Frame : stack' = <<g>> /\ g.pos = r.base /\ g.phase \in {"hook", "begin"}
    <3>1. r.base \in Inner /\ r.kind \in Strategy \cup {"delete"}
      BY RequestAssumption DEF Request
    <3>2. CASE r.kind = "delete"
      BY <1>2, <3>1, <3>2, NewFrames DEF Call, DeleteFrame, EnterFrame
    <3>3. CASE r.kind # "delete"
      <4>1. r.kind \in Strategy /\ FALSE \in BOOLEAN
        BY <3>1, <3>3
      <4>2. EnterFrame(r.base, FALSE, r.kind) \in Frame
        BY <3>1, <4>1, NewFrames
      <4>3. QED
        BY <1>2, <3>3, <4>2 DEF Call, EnterFrame
    <3>4. QED
      BY <3>2, <3>3
  <2>2. PICK g \in Frame : stack' = <<g>> /\ g.pos = r.base /\ g.phase \in {"hook", "begin"}
    BY <2>1
  <2>3. level' = 1 /\ stack'[1] = g /\ DOMAIN stack' = 1..1
    BY <2>2 DEF level
  <2>4. to' = to /\ to[r.base] # Absent
    BY <1>2 DEF Call
  <2>5. NoDanglingSelection'
    BY <2>2, <2>3, <2>4 DEF Live, NoDanglingSelection
  <2>6. FoundInv'
    BY <2>2, <2>3 DEF FoundInv, FoundOK
  <2>7. QED
    BY <2>5, <2>6 DEF Live
<1>3. ASSUME stack' = <<>>, Rooted(to') PROVE Live'
  <2>1. level' = 0 /\ DOMAIN stack' = {}
    BY <1>3 DEF level
  <2>2. QED
    BY <1>3, <2>1 DEF Live, NoDanglingSelection, FoundInv
<1>4. CASE Fail
  BY <1>3, <1>4 DEF Fail, Live, NoDanglingSelection
\* Moves of the top activation that leave the data alone.
<1>5. ASSUME status = "running", to' = to, to[top.pos] # Absent,
             NEW f \in Frame, Goto(f), f.pos = top.pos, FoundOK(f, to)
      PROVE  Live'
  BY <1>5, LiveNow, LiveStay
<1>6. ASSUME status = "running", top.phase # "end" PROVE to[top.pos] # Absent
  BY <1>6, LiveNow
<1>7. CASE DeleteHook
  <2> DEFINE f == [top EXCEPT !.phase = "begin"]
  <2>1. status = "running" /\ top.phase = "hook" /\ Goto(f) /\ to' = to /\ top \in Frame
    BY <1>7, TopFrame DEF DeleteHook, Running
  <2>2. f \in Frame /\ f.pos = top.pos /\ f.phase = "begin"
    BY <2>1 DEF Frame, Phase
  <2> HIDE DEF f
  <2>3. QED
    BY <1>5, <1>6, <2>1, <2>2 DEF FoundOK
<1>8. CASE BeginEdit
  <2>1. status = "running" /\ top.phase = "begin" /\ to' = to /\ top \in Frame
    BY <1>8, TopFrame DEF BeginEdit, Running
  <2>2. \E f \in Frame : Goto(f) /\ f.pos = top.pos /\ f.phase \in {"begin", "walk", "remove"}
    <3>1. top.at \in Inner /\ top.pos \in Inner /\ Parent[top.at] \in Inner
      BY <2>1, TreeAssumption DEF Frame, Inner
    <3>2. CASE Bubbles /\ top.at # Ceiling
      <4> DEFINE f == [top EXCEPT !.at = Parent[top.at]]
      <4>1. f \in Frame /\ f.pos = top.pos /\ f.phase = "begin"
        BY <2>1, <3>1, FrameMoves, ZenonT(60) DEF Frame
      <4>2. QED
        BY <1>8, <3>2, <4>1 DEF BeginEdit
    <3>3. CASE ~(Bubbles /\ top.at # Ceiling)
      <4> DEFINE ph == IF top.fn = "enter" THEN "walk" ELSE "remove"
                 f == [top EXCEPT !.at = top.pos, !.phase = ph]
      <4>1. ph \in Phase /\ ph \in {"walk", "remove"}
        BY DEF Phase
      <4>2. f \in Frame
        BY <2>1, <3>1, <4>1, FrameMoves
      <4>3. f.pos = top.pos /\ f.phase = ph
        BY <2>1, <4>2 DEF Frame
      <4>4. Goto(f)
        BY <1>8, <3>3 DEF BeginEdit
      <4>5. QED
        BY <4>1, <4>2, <4>3, <4>4
    <3>4. QED
      BY <3>2, <3>3
  <2>3. QED
    BY <1>5, <1>6, <2>1, <2>2 DEF FoundOK
<1>9. CASE EndEdit
  <2>1. status = "running" /\ top.phase = "end" /\ to' = to /\ top \in Frame
    BY <1>9, TopFrame DEF EndEdit, Running
  <2>2. CASE Bubbles /\ top.at # Ceiling
    <3> DEFINE f == [top EXCEPT !.at = Parent[top.at]]
    <3>1. f \in Frame /\ f.pos = top.pos /\ f.phase = "end" /\ f.fn = top.fn
      <4>1. Parent[top.at] \in Inner
        BY <2>1, TreeAssumption, SMTT(60) DEF Frame, Inner
      <4>2. f \in Frame
        BY <2>1, <4>1, FrameMoves
      <4>3. QED
        BY <2>1, <4>2 DEF Frame
    <3>2. Goto(f)
      BY <1>9, <2>2 DEF EndEdit
    <3> HIDE DEF f
    <3>3. FoundOK(f, to)
      BY <3>1 DEF FoundOK
    <3>4. QED
      BY <2>1, <3>1, <3>2, <3>3, LiveNow, LiveStay
  <2>3. CASE ~(Bubbles /\ top.at # Ceiling)
    <3>1. stack' = SubSeq(stack, 1, level - 1)
      BY <1>9, <2>3 DEF EndEdit
    <3>2. /\ stack' \in Seq(Frame) /\ level' = level - 1 /\ level \in Nat \ {0}
          /\ \A l \in 1..(level - 1) : stack'[l] = stack[l]
          /\ DOMAIN stack' = 1..(level - 1)
      BY <2>1, <3>1, PopFrame, TopFrame DEF level
    <3>3. NoDanglingSelection'
      BY <2>1, <3>2, LiveNow DEF NoDanglingSelection
    <3>4. FoundInv'
      BY <2>1, <3>2, LiveNow DEF FoundInv
    <3>5. QED
      BY <3>3, <3>4 DEF Live
  <2>4. QED
    BY <2>2, <2>3
<1>10. CASE RemoveData
  <2> DEFINE f == [top EXCEPT !.phase = "end"]
  <2>1. /\ status = "running" /\ top.phase = "remove" /\ Goto(f) /\ to' = Erase(to, top.pos)
        /\ top \in Frame /\ FrameOK(top, level, Ceiling) /\ top.pos \in Pos
    BY <1>10, TopShape DEF RemoveData, Running
  <2>2. f \in Frame /\ f.pos = top.pos /\ f.phase = "end" /\ f.fn = top.fn
    BY <2>1 DEF Frame, Phase
  <2> HIDE DEF f
  <2>3. top.fn = "delete" /\ top.pos # Root
    BY <2>1 DEF FrameOK, EnterPhases, Frame
  <2>4. Rooted(to')
    BY <2>1, <2>3, RootedErase, LiveNow
  <2>5. ASSUME NEW l \in 1..(level - 1)
        PROVE  to'[stack[l].pos] # Absent /\ FoundOK(stack[l], to')
    <3>1. /\ to[stack[l].pos] # Absent /\ FoundOK(stack[l], to) /\ Waiting(l)
          /\ stack[l].pos \in Pos /\ top.pos \in Below[stack[l].pos] /\ stack[l].pos # top.pos
      BY <2>1, LiveNow
    <3>2. to'[stack[l].pos] # Absent
      BY <2>1, <3>1, TreeAssumption DEF Erase
    <3>3. CASE stack[l].phase = "walk"
      BY <3>2, <3>3 DEF FoundOK
    <3>4. CASE stack[l].phase = "clear"
      <4> DEFINE k == Kids[stack[l].pos][stack[l].i]
      <4>1. Parent[top.pos] = stack[l].pos /\ Case[top.pos] = stack[l].case
        BY <3>1, <3>4 DEF Waiting
      <4>2. stack[l] \in Frame /\ FrameOK(stack[l], l, Ceiling)
        <5>1. level \in Nat \ {0} /\ l \in 1..level
          BY <2>1, TopFrame
        <5>2. QED
          BY <2>1, <5>1, TopFrame DEF Shape, FrameInv
      <4>3. stack[l].i \in 1..Len(Kids[stack[l].pos]) /\ Case[k] # Case[top.pos]
        BY <3>4, <4>1, <4>2 DEF FrameOK, Frame
      <4>4. k \in Pos \ {Root} /\ Parent[k] = stack[l].pos
        BY <3>1, <4>3, KidFacts
      <4>5. k \notin Below[top.pos]
        BY <2>1, <2>3, <4>1, <4>3, <4>4, ChildFacts
      <4>6. to'[k] = to[k]
        BY <2>1, <4>4, <4>5 DEF Erase
      <4>7. QED
        BY <3>1, <3>2, <4>6 DEF FoundOK
    <3>5. QED
      BY <3>1, <3>3, <3>4 DEF Waiting
  <2>6. FoundOK(f, to')
    BY <2>2 DEF FoundOK
  <2>7. QED
    BY <2>1, <2>2, <2>3, <2>4, <2>5, <2>6, LiveStay
<1>11. CASE Skip
  <2> DEFINE f == [top EXCEPT !.i = @ + 1]
  <2>1. status = "running" /\ top.phase = "walk" /\ Goto(f) /\ to' = to /\ top \in Frame
    BY <1>11, TopFrame, SMTT(60) DEF Skip, Walking, Running
  <2>2. f \in Frame
    BY <2>1, FrameMoves
  <2>3. f.pos = top.pos /\ f.phase = "walk"
    BY <2>1, <2>2 DEF Frame
  <2> HIDE DEF f
  <2>4. QED
    BY <1>5, <1>6, <2>1, <2>2, <2>3 DEF FoundOK
<1>12. CASE Accept \/ ChooseError
  <2>0. PICK other \in Cases \cup {NoCase} : Walking /\ Take(other)
    BY <1>12, Takes
  <2> DEFINE b == Found(Kid)
             ph == IF other = NoCase THEN "apply" ELSE "clear"
             f == [top EXCEPT !.found = b, !.case = other, !.j = 1, !.phase = ph]
  <2>1. /\ status = "running" /\ top.phase = "walk" /\ Goto(f) /\ to' = to
        /\ top \in Frame /\ top.pos \in Pos
    BY <2>0, TopShape DEF Take, Walking, Running
  <2>2. b \in BOOLEAN /\ ph \in Phase
    BY <2>1 DEF Found, VisibleTo, WhenMet, Phase
  <2>3. IF b THEN to[Kid] # Absent ELSE WhenFree => to[Kid] = Absent
    <3>1. Kid \in Pos
      BY <2>0, <2>1, KidType, SMTT(60)
    <3>2. QED
      BY <3>1 DEF Found, VisibleTo, WhenMet, WhenFree
  <2> HIDE DEF b, ph
  <2>4. f \in Frame
    BY <2>0, <2>1, <2>2, FrameMoves
  <2>5. f.pos = top.pos /\ f.i = top.i /\ f.found = b
    BY <2>1, <2>2 DEF Frame
  <2> HIDE DEF f
  <2>6. FoundOK(f, to)
    BY <2>3, <2>5 DEF FoundOK, Kid
  <2>7. QED
    BY <1>5, <1>6, <2>1, <2>4, <2>5, <2>6
<1>13. CASE Clear \/ FindError
  <2> DEFINE m == Kids[top.pos][top.j]
             next == [top EXCEPT !.j = @ + 1]
  <2>1. /\ status = "running" /\ top.phase = "clear" /\ top \in Frame /\ top.pos \in Pos
        /\ top.j <= Len(Kids[top.pos]) /\ Rooted(to) /\ top.pos \in Inner
    BY <1>13, TopShape, LiveNow, SMTT(60) DEF Clear, FindError, Clearing, Running, Frame
  <2>2. next \in Frame
    BY <2>1, FrameMoves
  <2>3. next.pos = top.pos /\ next.i = top.i /\ next.found = top.found /\ next.phase = "clear"
    BY <2>1 DEF Frame
  <2>4. m \in Pos \ {Root}
    <3>1. top.j \in 1..Len(Kids[top.pos])
      BY <2>1 DEF Frame
    <3>2. QED
      BY <2>1, <3>1, KidFacts
  <2>5. \/ to' = to
        \/ m \in Leaves /\ to' = Erase(to, m)
    BY <1>13 DEF Clear, FindError, Member
  <2>6. \/ Goto(next)
        \/ m \in Inner /\ to[m] # Absent /\ to' = to /\ stack' = Push(next, DeleteFrame(m))
    BY <1>13 DEF Clear, FindError, Member, Inner
  <2> HIDE DEF m, next
  <2>7. Rooted(to') /\ \A p \in Inner : to'[p] = to[p]
    BY <2>1, <2>4, <2>5, RootedErase, TreeAssumption DEF Erase, Inner
  <2>8. \A g \in Frame : FoundOK(g, to) => FoundOK(g, to')
    BY <2>7 DEF FoundOK
  <2>9. FoundOK(next, to')
    <3>1. FoundOK(next, to)
      BY <2>1, <2>3, LiveNow DEF FoundOK
    <3>2. QED
      BY <2>2, <2>8, <3>1
  <2>10. to'[top.pos] # Absent
    BY <1>6, <2>1, <2>7
  <2>11. \A l \in 1..(level - 1) : to'[stack[l].pos] # Absent /\ FoundOK(stack[l], to')
    <3>1. TAKE l \in 1..(level - 1)
    <3>2. to[stack[l].pos] # Absent /\ FoundOK(stack[l], to) /\ stack[l].pos \in Inner
      BY <2>1, LiveNow
    <3>3. QED
      BY <2>7, <3>2 DEF FoundOK
  <2>12. CASE Goto(next)
    BY <2>1, <2>2, <2>3, <2>7, <2>9, <2>10, <2>11, <2>12, LiveStay
  <2>13. CASE m \in Inner /\ to[m] # Absent /\ to' = to /\ stack' = Push(next, DeleteFrame(m))
    <3>1. DeleteFrame(m) \in Frame /\ DeleteFrame(m).pos = m /\ DeleteFrame(m).phase = "hook"
      BY <2>13, NewFrames DEF DeleteFrame, EnterFrame
    <3>2. FoundOK(DeleteFrame(m), to')
      BY <3>1 DEF FoundOK
    <3>3. QED
      BY <2>1, <2>2, <2>3, <2>7, <2>9, <2>10, <2>11, <2>13, <3>1, <3>2, LivePush
  <2>14. QED
    BY <2>6, <2>12, <2>13
<1>14. CASE Cleared
  <2> DEFINE f == [top EXCEPT !.phase = "apply"]
  <2>1. status = "running" /\ top.phase = "clear" /\ Goto(f) /\ to' = to /\ top \in Frame
    BY <1>14, TopFrame DEF Cleared, Running
  <2>2. f \in Frame /\ f.pos = top.pos /\ f.i = top.i /\ f.found = top.found
    BY <2>1 DEF Frame, Phase
  <2> HIDE DEF f
  <2>3. FoundOK(f, to)
    BY <2>1, <2>2, LiveNow DEF FoundOK
  <2>4. QED
    BY <1>5, <1>6, <2>1, <2>2, <2>3
<1>15. status = "running" => Return \in Frame /\ Return.pos = top.pos /\ Return.phase = "walk"
  <2>1. status = "running" => top \in Frame
    BY TopFrame, SMTT(60)
  <2>2. status = "running" => Return \in Frame
    BY <2>1, FrameMoves DEF Return
  <2>3. QED
    BY <2>1, <2>2 DEF Return, Frame
<1>16. CASE SetLeaf
  <2>1. /\ status = "running" /\ top.phase = "apply" /\ Goto(Return)
        /\ Kid \in Leaves /\ Kid \in Pos \ {Root} /\ Parent[Kid] = top.pos
        /\ (to' = to \/ to' = Write(to, Kid, SourceValue(Kid)))
        /\ top.pos \in Inner /\ to[top.pos] # Absent /\ Rooted(to) /\ to \in Tree
    BY <1>6, <1>16, KidType, TopFrame, LiveNow DEF SetLeaf, Running, Return, Frame, WellTyped
  <2>2. \A p \in Inner : to'[p] = to[p]
    BY <2>1 DEF Write, Tree, Inner
  <2>3. Rooted(to')
    BY <2>1, RootedWrite
  <2>4. \A l \in 1..(level - 1) : to'[stack[l].pos] # Absent /\ FoundOK(stack[l], to')
    <3>1. TAKE l \in 1..(level - 1)
    <3>2. to[stack[l].pos] # Absent /\ FoundOK(stack[l], to) /\ stack[l].pos \in Inner
      BY <2>1, LiveNow
    <3>3. QED
      BY <2>2, <3>2 DEF FoundOK
  <2>5. FoundOK(Return, to')
    BY <1>15, <2>1 DEF FoundOK
  <2>6. QED
    BY <1>15, <2>1, <2>2, <2>3, <2>4, <2>5, LiveStay
<1>17. ASSUME status = "running", top.phase = "apply", Kid \in Inner, NEW new \in BOOLEAN
       PROVE  LET g == EnterFrame(Kid, new, Nested(Kid)) IN
              g \in Frame /\ g.pos = Kid /\ g.phase = "begin" /\ \A t : FoundOK(g, t)
  <2> DEFINE g == EnterFrame(Kid, new, Nested(Kid))
  <2>1. Nested(Kid) \in Strategy
    BY <1>17, TopFrame DEF Nested, Strategy, Frame
  <2>2. g \in Frame /\ g.pos = Kid /\ g.phase = "begin"
    BY <1>17, <2>1, NewFrames DEF EnterFrame
  <2> HIDE DEF g
  <2>3. \A t : FoundOK(g, t)
    BY <2>2 DEF FoundOK
  <2>4. QED
    BY <2>2, <2>3 DEF g
<1>18. CASE Descend
  <2> DEFINE g == EnterFrame(Kid, FALSE, Nested(Kid))
  <2>1. /\ status = "running" /\ top.phase = "apply" /\ top.found /\ Kid \in Inner
        /\ to' = to /\ stack' = Push(Return, g)
    BY <1>18 DEF Descend, Running
  <2>2. to[Kid] # Absent /\ to[top.pos] # Absent /\ Rooted(to)
    BY <1>6, <2>1, LiveNow DEF FoundOK, Kid
  <2>3. g \in Frame /\ g.pos = Kid /\ FoundOK(g, to)
    BY <1>17, <2>1
  <2> HIDE DEF g
  <2>4. FoundOK(Return, to)
    BY <1>15, <2>1 DEF FoundOK
  <2>5. QED
    BY <1>15, <2>1, <2>2, <2>3, <2>4, LiveNow, LivePush
<1>19. CASE CreateChild
  <2> DEFINE g == EnterFrame(Kid, TRUE, Nested(Kid))
  <2>1. /\ status = "running" /\ top.phase = "apply" /\ Kid \in Inner
        /\ to' = Create(to, Kid) /\ Kid \in Pos \ {Root} /\ Parent[Kid] = top.pos
        /\ top.fn = "enter" /\ top.pos \in Pos /\ top.pos \in Inner
        /\ to[top.pos] # Absent /\ Rooted(to)
        /\ (stack' = Push(Return, g) \/ stack' = <<>>)
    BY <1>6, <1>19, KidType, TopShape, LiveNow DEF CreateChild, Running, Frame
  <2>2. Rooted(to')
    BY <2>1, RootedCreate
  <2>3. CASE stack' = <<>>
    BY <1>3, <2>2, <2>3
  <2>4. CASE stack' = Push(Return, g)
    <3>1. to'[Kid] # Absent
      BY <2>1, TokensAssumption DEF Create
    <3>2. /\ Kid \in Below[top.pos] /\ top.pos \notin Below[Kid]
          /\ to'[top.pos] # Absent
      BY <2>1, ChildFacts, TreeAssumption DEF Create
    <3>3. \A l \in 1..(level - 1) : to'[stack[l].pos] # Absent /\ FoundOK(stack[l], to')
      <4>1. TAKE l \in 1..(level - 1)
      <4>2. /\ to[stack[l].pos] # Absent /\ stack[l].pos \in Pos
            /\ top.pos \in Below[stack[l].pos] /\ Waiting(l)
        BY <2>1, LiveNow
      <4>3. stack[l].phase = "walk"
        BY <2>1, <4>2 DEF Waiting
      <4>4. stack[l].pos \notin Below[Kid]
        BY <2>1, <3>2, <4>2, TreeAssumption
      <4>5. to'[stack[l].pos] # Absent
        BY <2>1, <4>2, <4>4, TreeAssumption DEF Create
      <4>6. QED
        BY <4>3, <4>5 DEF FoundOK
    <3>4. g \in Frame /\ g.pos = Kid /\ FoundOK(g, to')
      BY <1>17, <2>1
    <3> HIDE DEF g
    <3>5. FoundOK(Return, to')
      BY <1>15, <2>1 DEF FoundOK
    <3>6. QED
      BY <1>15, <2>1, <2>2, <2>4, <3>1, <3>2, <3>3, <3>4, <3>5, LivePush
  <2>5. QED
    BY <2>1, <2>3, <2>4
<1>20. CASE Walked
  <2> DEFINE f == [top EXCEPT !.phase = "end"]
  <2>1. status = "running" /\ top.phase = "walk" /\ Goto(f) /\ to' = to /\ top \in Frame
    BY <1>20, TopFrame DEF Walked, Running
  <2>2. f \in Frame /\ f.pos = top.pos /\ f.phase = "end"
    BY <2>1 DEF Frame, Phase
  <2> HIDE DEF f
  <2>3. QED
    BY <1>5, <1>6, <2>1, <2>2 DEF FoundOK
<1>21. QED
  BY <1>1, <1>2, <1>4, <1>7, <1>8, <1>9, <1>10, <1>11, <1>12, <1>13, <1>14, <1>16,
     <1>18, <1>19, <1>20 DEF Next, Step, CallbackError, Refuse

-----------------------------------------------------------------------------
(***************************************************************************)
(* The invariant and what it gives.                                        *)
(***************************************************************************)
LEMMA BracketsStep ==
  ASSUME TypeOK, Shape, BracketsClosed, [Next]_vars
  PROVE  BracketsClosed'
<1>1. CASE UNCHANGED vars
  BY <1>1 DEF vars, BracketsClosed
<1>2. CASE EndEdit
  BY <1>2, EndEditShape DEF BracketsClosed
<1>3. CASE ~EndEdit /\ ~UNCHANGED vars
  <2>1. status' # "ok"
    BY <1>3 DEF Next, Step, CallbackError, Refuse, Fail, Call, DeleteHook, BeginEdit, RemoveData,
                Skip, Accept, ChooseError, Take, Clear, FindError, Cleared, SetLeaf, Descend,
                CreateChild, Walked, Walking, Clearing, Running
  <2>2. QED
    BY <2>1 DEF BracketsClosed
<1>4. QED
  BY <1>1, <1>2, <1>3

\* EditInv holds before the first call.
LEMMA EditInvInit == Init => EditInv
<1> SUFFICES ASSUME Init PROVE EditInv
  OBVIOUS
<1>1. TypeOK /\ stack = <<>> /\ status = "idle" /\ to \in Targets
  BY TypeInit DEF Init
<1>2. level = 0 /\ DOMAIN stack = {}
  BY <1>1 DEF level
<1>3. Rooted(to)
  BY <1>1, RequestAssumption
<1>4. QED
  BY <1>1, <1>2, <1>3 DEF EditInv, NoDanglingSelection, BracketsClosed, FrameInv, SpineInv,
                          OpenInv, FoundInv

\* EditInv is inductive.
LEMMA EditInvStep == EditInv /\ [Next]_vars => EditInv'
<1> SUFFICES ASSUME EditInv, [Next]_vars PROVE EditInv'
  OBVIOUS
<1>1. TypeOK /\ Shape /\ Live /\ BracketsClosed
  BY DEF EditInv, Shape, Live
<1>2. TypeOK' /\ Shape' /\ Live' /\ BracketsClosed'
  BY <1>1, TypeStep, ShapeStep, LiveStep, BracketsStep
<1>3. QED
  BY <1>2 DEF EditInv, Shape, Live

\* Whatever the schema, the data and the calls, the walk keeps the shape of its
\* stack, its brackets, its selections and what it found (edit.go 32-207).
THEOREM EditInvariance == Spec => []EditInv
  BY EditInvInit, EditInvStep, PTL DEF Spec

\* Whatever the schema, the data, the calls and the errors, the edit never
\* leaves data under a container that is gone and never goes on working on a
\* selection that has been deleted (edit.go 32-62, 113-134).
THEOREM SelectionsStayAlive == Spec => []NoDanglingSelection
<1>1. EditInv => NoDanglingSelection
  BY DEF EditInv
<1>2. QED
  BY <1>1, EditInvariance, PTL

\* Every edit that succeeds has closed each bracket it opened, at every level
\* and all the way up (selection.go 294-332).
THEOREM BracketsAreClosed == Spec => []BracketsClosed
<1>1. EditInv => BracketsClosed
  BY DEF EditInv
<1>2. QED
  BY <1>1, EditInvariance, PTL

-----------------------------------------------------------------------------
(***************************************************************************)
(* Every change happens inside the brackets of everything above it.        *)
(***************************************************************************)
LEMMA OpenBase ==
  ASSUME TypeOK, Shape, status = "running"
  PROVE  stack[1].pos = op.base
<1>1. level \in Nat \ {0} /\ 1 \in 1..level /\ op.base \in Pos
  BY TopShape, CeilingType DEF Inner
<1>2. op.base \in Below[op.base] /\ stack[1].pos \in Below[op.base]
  BY <1>1, TreeAssumption DEF Shape, SpineInv
<1>3. \E m \in 1..1 : stack[m].pos = op.base
  BY <1>1, <1>2 DEF Shape, SpineInv
<1>4. QED
  BY <1>3

\* While the top activation works, everything from its position up to where
\* the bubbling stops is between its BeginEdit and its EndEdit.
LEMMA OpenAbove ==
  ASSUME EditInv, status = "running",
         top.phase \in {"walk", "clear", "apply", "remove"},
         NEW a \in Inner, top.pos \in Below[a], a \in Below[Ceiling]
  PROVE  \E l \in 1..level : <<l, a>> \in open
<1>1. TypeOK /\ Shape /\ Live
  BY DEF EditInv, Shape, Live
<1>2. /\ level \in Nat \ {0} /\ top = stack[level] /\ top.pos \in Pos
      /\ op.base \in Pos /\ Ceiling \in Pos /\ a \in Pos
  BY <1>1, TopShape, CeilingType DEF Inner
<1>3. ASSUME NEW l \in 1..level, a \in Scope(stack[l], l, Ceiling)
      PROVE  <<l, a>> \in open
  <2>1. stack[l] \in Frame /\ stack[l].phase \in {"walk", "clear", "apply", "remove"}
    <3>1. stack[l] \in Frame
      BY <1>1, TopFrame
    <3>2. l = level \/ l < level
      BY <1>2
    <3>3. l < level => Waiting(l)
      BY <1>1 DEF Shape, FrameInv
    <3>4. QED
      BY <1>2, <3>1, <3>2, <3>3 DEF Waiting
  <2>2. a \in Held(stack[l], l, Ceiling)
    BY <1>3, <2>1, HeldAt
  <2>3. QED
    BY <1>1, <2>2 DEF Shape, OpenInv
<1>4. CASE a \in Below[op.base]
  <2>1. PICK m \in 1..level : stack[m].pos = a
    BY <1>1, <1>2, <1>4 DEF Shape, SpineInv
  <2>2. a \in Below[a]
    BY <1>2, TreeAssumption
  <2>3. a \in Scope(stack[m], m, Ceiling)
    BY <1>2, <2>1, <2>2 DEF Scope
  <2>4. QED
    BY <1>3, <2>1, <2>3
<1>5. CASE op.base \in Below[a]
  <2>1. stack[1].pos = op.base
    BY <1>1, OpenBase
  <2>2. a \in Scope(stack[1], 1, Ceiling)
    BY <1>2, <1>5, <2>1 DEF Scope
  <2>3. QED
    BY <1>2, <1>3, <2>2
<1>6. top.pos \in Below[op.base]
  BY <1>1, <1>2 DEF Shape, SpineInv
<1>7. QED
  BY <1>2, <1>4, <1>5, <1>6, TreeAssumption

\* One step: what it changes lies in open brackets (selection.go 294-332).
LEMMA BracketStep ==
  ASSUME WhenFree, EditInv, Next,
         NEW p \in Pos \ {Root}, NEW a \in Pos,
         to'[p] # to[p], to'[Parent[p]] = to[Parent[p]],
         Parent[p] \in Below[a], a \in Below[Ceiling]
  PROVE  \E l \in 1..level : <<l, a>> \in open
<1>1. TypeOK /\ Shape /\ Live
  BY DEF EditInv, Shape, Live
<1>2. a \in Inner /\ Parent[p] \in Pos /\ p \in Below[Parent[p]]
  BY ChildFacts, TreeAssumption DEF Inner
<1>3. ASSUME status = "running", top.phase \in {"clear", "apply"}, top.pos = Parent[p]
      PROVE  \E l \in 1..level : <<l, a>> \in open
  BY <1>2, <1>3, OpenAbove
<1>4. CASE Clear
  <2> DEFINE m == Kids[top.pos][top.j]
  <2>1. /\ status = "running" /\ top.phase = "clear" /\ top \in Frame /\ top.pos \in Pos
        /\ top.j <= Len(Kids[top.pos])
    BY <1>1, <1>4, TopShape DEF Clear, Clearing, Running
  <2>2. m \in Pos \ {Root} /\ Parent[m] = top.pos
    <3>1. top.j \in 1..Len(Kids[top.pos])
      BY <2>1 DEF Frame
    <3>2. QED
      BY <2>1, <3>1, KidFacts
  <2>3. m \in Leaves /\ to' = Erase(to, m)
    BY <1>4 DEF Clear, Member
  <2> HIDE DEF m
  <2>4. p = m
    BY <2>2, <2>3, TreeAssumption DEF Erase
  <2>5. QED
    BY <1>3, <2>1, <2>2, <2>4
<1>5. CASE SetLeaf
  <2>1. /\ status = "running" /\ top.phase = "apply"
        /\ to' = to \/ to' = Write(to, Kid, SourceValue(Kid))
    BY <1>5 DEF SetLeaf, Running
  <2>2. p = Kid
    BY <1>1, <2>1, LiveNow DEF Write, WellTyped, Tree
  <2>3. Parent[Kid] = top.pos
    BY <1>1, <2>1, KidType
  <2>4. QED
    BY <1>3, <2>1, <2>2, <2>3
<1>6. CASE CreateChild
  <2>1. /\ status = "running" /\ top.phase = "apply" /\ ~top.found /\ Kid \in Inner
        /\ to' = Create(to, Kid) /\ Kid \in Pos \ {Root} /\ Parent[Kid] = top.pos
    BY <1>1, <1>6, KidType, SMTT(60) DEF CreateChild, Running
  <2>2. to[Kid] = Absent /\ Rooted(to)
    BY <1>1, <2>1, LiveNow DEF FoundOK, Kid
  <2>3. p = Kid
    BY <2>1, <2>2 DEF Create, Rooted
  <2>4. QED
    BY <1>3, <2>1, <2>3
<1>7. CASE RemoveData
  <2>1. /\ status = "running" /\ top.phase = "remove" /\ to' = Erase(to, top.pos)
        /\ top.pos \in Pos /\ Rooted(to)
    BY <1>1, <1>7, TopShape, LiveNow DEF RemoveData, Running
  <2>2. p \in Below[top.pos] /\ to[p] # Absent
    BY <2>1 DEF Erase
  <2>3. p = top.pos
    <3>1. SUFFICES ASSUME p # top.pos PROVE FALSE
      OBVIOUS
    <3>2. Parent[p] \in Below[top.pos]
      BY <2>1, <2>2, <3>1, ChildFacts
    <3>3. to'[Parent[p]] = Absent
      BY <1>2, <2>1, <3>2 DEF Erase
    <3>4. to[Parent[p]] # Absent
      BY <1>2, <2>1, <2>2 DEF Rooted
    <3>5. QED
      BY <3>3, <3>4
  <2>4. top.pos \in Below[a]
    BY <2>3, ChildFacts
  <2>5. QED
    BY <1>2, <2>1, <2>4, OpenAbove
<1>8. CASE to' = to
  BY <1>8
<1>9. QED
  <2>1. \/ Clear \/ SetLeaf \/ CreateChild \/ RemoveData \/ to' = to
    BY DEF Next, Step, CallbackError, Refuse, Fail, Call, DeleteHook, BeginEdit, EndEdit,
           Skip, Accept, ChooseError, Take, FindError, Cleared, Descend, Walked
  <2>2. QED
    BY <1>4, <1>5, <1>6, <1>7, <1>8, <2>1

\* node.go 39-47, for every schema without a "when": whatever an edit changes, it
\* changes between the BeginEdit and the EndEdit of each node above the change, at
\* every depth of nested walks and of cases being cleared.
THEOREM ChangesBracketed ==
  ASSUME WhenFree
  PROVE  Spec => ChangesAreBracketed
<1>1. EditInv /\ [Next]_vars =>
        [ \A p \in Pos \ {Root}, a \in Pos :
            ( /\ to'[p] # to[p] /\ to'[Parent[p]] = to[Parent[p]]
              /\ Parent[p] \in Below[a] /\ a \in Below[Ceiling] )
            => \E l \in 1..level : <<l, a>> \in open ]_vars
  BY BracketStep
<1>2. QED
  BY <1>1, EditInvariance, PTL DEF Spec, ChangesAreBracketed
=============================================================================
