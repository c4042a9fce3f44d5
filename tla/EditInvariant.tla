---------------------------- MODULE EditInvariant ----------------------------
(***************************************************************************)
(* Why the walk of module Edit never holds a deleted selection and keeps   *)
(* its BeginEdit/EndEdit brackets: the shape of its call stack, and which  *)
(* brackets each activation holds open.  Together with TypeOK this is an   *)
(* inductive invariant.                                                    *)
(***************************************************************************)
EXTENDS Edit

\* The nodes whose brackets an activation f at level l opens, when the bubbling
\* stops at c.
Scope(f, l, c) ==
  IF l = 1 \/ f.fn = "delete" THEN {a \in Pos : f.pos \in Below[a] /\ a \in Below[c]}
  ELSE {f.pos}

\* Those it holds open now.
Held(f, l, c) ==
  {a \in Scope(f, l, c) :
     /\ f.phase # "hook"
     /\ f.phase = "begin" => a \in Below[f.at] /\ a # f.at
     /\ f.phase = "end" => f.at \in Below[a]}

EnterPhases  == {"begin", "walk", "clear", "apply", "end"}
DeletePhases == {"hook", "begin", "remove", "end"}

FrameOK(f, l, c) ==
  /\ f.phase \in IF f.fn = "enter" THEN EnterPhases ELSE DeletePhases
  /\ f.fn = "delete" => f.pos # Root
  /\ f.phase \in {"clear", "apply"} => f.i <= Len(Kids[f.pos])
  /\ f.phase = "clear" => f.case # Case[Kids[f.pos][f.i]]
  /\ f.phase \notin {"begin", "end"} => f.at = f.pos
  /\ f.at \in Scope(f, l, c)

\* What an activation does while another runs inside it: a deletion clears a
\* case for it, or it has gone down to a child.
Waiting(l) ==
  /\ stack[l].fn = "enter"
  /\ \/ stack[l].phase = "walk"
     \/ /\ stack[l].phase = "clear" /\ l = level - 1 /\ top.fn = "delete"
        /\ Parent[top.pos] = stack[l].pos /\ Case[top.pos] = stack[l].case

FrameInv ==
  \A l \in 1..level : FrameOK(stack[l], l, Ceiling) /\ (l < level => Waiting(l))

\* The activations are on the positions from the base down, none left out.
SpineInv ==
  \A l \in 1..level :
    /\ stack[l].pos \in Below[op.base]
    /\ \A m \in 1..level :
         l < m => stack[m].pos \in Below[stack[l].pos] /\ stack[m].pos # stack[l].pos
    /\ \A a \in Below[op.base] :
         stack[l].pos \in Below[a] => \E m \in 1..l : stack[m].pos = a

\* The open brackets are exactly those the activations hold.
OpenInv ==
  status = "running" =>
    /\ \A e \in open : e[1] \in 1..level
    /\ \A l \in 1..level, a \in Inner : 
         <<l, a>> \in open <=> a \in Held(stack[l], l, Ceiling)

WhenFree == \A p \in Pos : When[p] = NoWhen

\* What was found stays there until it is edited, however much of another case is
\* cleared meanwhile; what was not is not there when it is created, unless a
\* "when" hid it.
FoundOK(f, t) ==
  LET k == Kids[f.pos][f.i] IN
  f.phase \in {"clear", "apply"} /\ k \in Inner =>
    IF f.found THEN t[k] # Absent ELSE WhenFree => t[k] = Absent

FoundInv == \A l \in 1..level : FoundOK(stack[l], to)

\* The strengthening of NoDanglingSelection and BracketsClosed that every step
\* preserves (edit.go 32-62, selection.go 294-375).
EditInv ==
  TypeOK /\ NoDanglingSelection /\ BracketsClosed /\ FrameInv /\ SpineInv /\ OpenInv /\ FoundInv

-----------------------------------------------------------------------------
(***************************************************************************)
(* Why the walk makes the merge, where nothing has a "when": what of it is *)
(* done, read off the call stack.  With EditInv it is inductive.           *)
(***************************************************************************)
Gives(p) == Given(op, from, before, p)

\* Two definitions of different cases of one choice.
Rivals(p, q) ==
  /\ p \in Pos \ {Root} /\ q \in Pos \ {Root} /\ Parent[p] = Parent[q]
  /\ Case[p] # NoCase /\ Case[q] # NoCase /\ Case[p] # Case[q]
  /\ ChoiceOf[Case[p]] = ChoiceOf[Case[q]]

Displaces(k, p) ==
  Gives(k) # Absent /\ Rivals(k, p) /\ StrategyAt(op, Parent[k]) = "upsert"

\* What the source gives goes to another case, so p has to give way.
Yields(p) == \E k \in Pos : Displaces(k, p)

\* An activation of enter has not come to p yet.
Left(f, p) ==
  f.fn = "enter" /\ \E n \in DOMAIN Kids[f.pos] : n >= f.i /\ p \in Below[Kids[f.pos][n]]

Ahead(p) == \E l \in 1..level : Left(stack[l], p)

\* The insert or the update refuses the request when it comes to p.
ClashAt(p) ==
  /\ p \in Inner
  /\ \/ StrategyAt(op, Parent[p]) = "insert" /\ before[p] # Absent
     \/ StrategyAt(op, Parent[p]) = "update" /\ before[p] = Absent

\* An activation of enter is where the source leads, with the strategy of that
\* place, and what it works on now is given and does not clash.
EnterOK(f) ==
  LET k == Kids[f.pos][f.i] IN
  /\ f.strat = StrategyAt(op, f.pos)
  /\ Reached(op, from, f.pos)
  /\ f.new <=> f.pos # op.base /\ before[f.pos] = Absent
  /\ f.phase = "end" => f.i > Len(Kids[f.pos])
  /\ f.phase \in {"clear", "apply"} => Gives(k) # Absent /\ ~ClashAt(k)
  /\ f.phase = "clear" =>
       /\ f.strat = "upsert"
       /\ Case[k] # NoCase /\ f.case # NoCase /\ ChoiceOf[f.case] = ChoiceOf[Case[k]]

\* One of Delete takes away what gives way.
DeleteOK(f) == Yields(f.pos) /\ (f.phase = "end" => to[f.pos] = Absent)

\* An activation is in a child its outer one has just left behind.
LinkInv ==
  \A m \in 1..level : \A l \in 1..(m - 1) : stack[m].fn = "enter" => ~Left(stack[l], stack[m].pos)

WalkInv ==
  \A l \in 1..level : IF stack[l].fn = "enter" THEN EnterOK(stack[l]) ELSE DeleteOK(stack[l])

\* What is given is there once the walk has passed it, what is not has been left
\* alone or had to give way.
DataInv ==
  \A p \in Pos :
    IF Gives(p) # Absent
    THEN IF Ahead(p) THEN to[p] = before[p] ELSE to[p] = Gives(p) /\ ~ClashAt(p)
    ELSE to[p] = before[p] \/ (to[p] = Absent /\ \E a \in Through(op, p) : Yields(a))

\* Nothing is left of the other cases of what has been given.
CasesDone ==
  \A k, p \in Pos : Displaces(k, p) /\ ~Ahead(k) => to[p] = Absent

\* What is left of the other cases of what an activation is giving is of the case
\* it clears, and still to be looked at or just being deleted.
CasePending(l) ==
  stack[l].fn = "enter" /\ stack[l].phase \in {"clear", "apply"} =>
    \A n \in DOMAIN Kids[stack[l].pos] :
      LET p == Kids[stack[l].pos][n] IN
      Displaces(Kids[stack[l].pos][stack[l].i], p) /\ to[p] # Absent =>
        /\ stack[l].phase = "clear" /\ Case[p] = stack[l].case
        /\ n >= stack[l].j \/ \E m \in (l + 1)..level : stack[m].pos = p

CaseInv == OneCase(before) /\ ~dropped => CasesDone /\ \A l \in 1..level : CasePending(l)

\* A call of Delete makes no walk.
RemoveInv ==
  /\ level = 1 /\ top.fn = "delete"
  /\ to = IF top.phase = "end" THEN Erase(before, op.base) ELSE before

MergeInv ==
  /\ status = "running" =>
       IF op.kind = "delete" THEN RemoveInv ELSE WalkInv /\ LinkInv /\ DataInv /\ CaseInv
  /\ UpsertKeepsOneCase

\* What the attempts at one upsert have left so far is within the first one's merge.
RetryInv ==
  /\ op.kind = "upsert" /\ OneCase(first) =>
       /\ Rooted(first) /\ OneCase(before) /\ Between(op, from, first, before)
       /\ status = "failed" => Between(op, from, first, to)
  /\ RetryConverges
=============================================================================
