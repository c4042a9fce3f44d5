-------------------------------- MODULE Edit --------------------------------
(***************************************************************************)
(* node/edit.go and the edit half of node/selection.go: one call at a time *)
(* walks the source in schema order and copies it onto the destination     *)
(* through node callbacks, inside BeginEdit/EndEdit brackets.              *)
(*                                                                         *)
(* The call stack is explicit.  A frame is an activation of editor.enter   *)
(* together with the list, node or leaf call it is in, or of               *)
(* Selection.Delete.  Between two steps a callback or a trigger may return *)
(* an error, which unwinds the whole stack and undoes nothing; only where  *)
(* another case is cleared some errors are dropped and the edit goes on.   *)
(***************************************************************************)
EXTENDS Merge

VARIABLES
  op,     \* the call: a Request
  from,   \* the source's data, as its answers to Choose let the walk see it
  to,     \* the destination's data
  status, \* "idle" before the first call, then "running", "ok" or "failed"
  stack,  \* the activations, outermost first
  open,   \* <<level, p>>: the activation at level called p's BeginEdit and
          \* has not called its EndEdit
  before, \* the destination as the call found it
  first,  \* the destination as the first of a run of equal attempts found it
  dropped \* the call went on after an error that kept it from clearing a case

vars == <<op, from, to, status, stack, open, before, first, dropped>>

Phase == {"hook", "begin", "walk", "clear", "apply", "remove", "end"}

Frame ==
  [fn : {"enter", "delete"},
   pos : Inner,                \* the selection being edited
   new : BOOLEAN,              \* it was created by this edit
   strat : Strategy,
   phase : Phase,
   at : Inner,                 \* whose BeginEdit or EndEdit is next
   i : Nat \ {0},              \* Kids[pos][i] is being copied
   found : BOOLEAN,            \* the destination had it
   case : Cases \cup {NoCase}, \* the case being cleared to make room for it
   j : Nat \ {0}]              \* Kids[pos][j] is looked at for clearing

EnterFrame(p, new, strat) ==
  [fn |-> "enter", pos |-> p, new |-> new, strat |-> strat, phase |-> "begin",
   at |-> p, i |-> 1, found |-> FALSE, case |-> NoCase, j |-> 1]

DeleteFrame(p) == [EnterFrame(p, FALSE, "upsert") EXCEPT !.fn = "delete", !.phase = "hook"]

level == Len(stack)
top == stack[level]
Push(f, g) == Append([stack EXCEPT ![level] = f], g)
Goto(f) == stack' = [stack EXCEPT ![level] = f]

Running(phase) == status = "running" /\ top.phase = phase

-----------------------------------------------------------------------------
\* Split gives the destination of an ...Into call no parent to bubble to.
Ceiling == IF op.dir = "into" THEN op.base ELSE Root

Bubbles == level = 1 \/ top.fn = "delete"

\* Only the selection the caller holds carries the "when" constraint: Split
\* starts the other side with none.
VisibleTo(t, p) == op.dir = "into" \/ WhenMet(t, p)
VisibleFromAnyway(p) == TRUE  \* bug: the source's "when" is not looked at
VisibleFrom(p)  == op.dir = "from" \/ WhenMet(from, p)

Kid == Kids[top.pos][top.i]

\* Bug: what is not new gets its defaults too.
SourceValueOrDefault(k) == IF from[k] = Absent THEN Default[k] ELSE from[k]

\* What Selection.GetValueHnd reads for the leaf k of the source.
SourceValue(k) ==
  IF ~VisibleFrom(k) THEN Absent
  ELSE IF from[k] = Absent /\ (op.defaults \/ (top.strat # "update" /\ top.new))
       THEN Default[k]
  ELSE from[k]

Offered(k) ==
  /\ Selected(from, k)
  /\ IF k \in Leaves THEN SourceValue(k) # Absent
     ELSE from[k] # Absent /\ VisibleFrom(k)

\* Bug: the case wanted is cleared as well.
OtherCasesOrSame(k) ==
  LET there == Choosable(to, top.pos, ChoiceOf[Case[k]])
  IN  IF Case[k] = NoCase \/ there = {} THEN {NoCase} ELSE there

\* What there may be to clear: the case of k's choice that the destination
\* answers, if it answers another one than k's. It is asked anew for each k.
OtherCases(k) ==
  LET there == Choosable(to, top.pos, ChoiceOf[Case[k]])
  IN  IF Case[k] = NoCase \/ there = {} THEN {NoCase}
      ELSE {IF c = Case[k] THEN NoCase ELSE c : c \in there}

\* editor.list hands upsert down whatever its own strategy is.
Nested(k) == IF Kind[k] = "item" THEN "upsert" ELSE top.strat

-----------------------------------------------------------------------------
(***************************************************************************)
(* The calls.                                                              *)
(***************************************************************************)
Init ==
  /\ to \in Targets
  /\ before = to
  /\ first = to
  /\ op = CHOOSE r \in Requests : TRUE
  /\ from \in Seen
  /\ stack = <<>>
  /\ open = {}
  /\ status = "idle"
  /\ dropped = FALSE

\* Find located the base, so it is there and no "when" on the way hides it.
Reachable(t, p) ==
  t[p] # Absent /\ \A a \in Pos : p \in Below[a] => WhenMet(t, a)

Call(r, src) ==
  /\ status # "running"
  /\ to[r.base] # Absent /\ src[r.base] # Absent
  /\ Reachable(IF r.dir = "from" THEN to ELSE src, r.base)
  /\ op' = r /\ from' = src
  /\ first' = IF status = "failed" /\ ~dropped /\ r = op /\ src = from THEN first ELSE to
  /\ before' = to
  /\ stack' = << IF r.kind = "delete" THEN DeleteFrame(r.base)
                 ELSE EnterFrame(r.base, FALSE, r.kind) >>
  /\ open' = {}
  /\ status' = "running"
  /\ dropped' = FALSE
  /\ UNCHANGED to

\* Bug: an error leaves the call on the stack.
FailInPlace ==
  /\ status' = "failed"
  /\ UNCHANGED <<to, stack, open, first, op, from, before, dropped>>

\* What is looked at for clearing, and whether it is of the case and can be found.
Member == Kids[top.pos][top.j]
Clearing == Running("clear") /\ top.j <= Len(Kids[top.pos])
Hit == Case[Member] = top.case /\ VisibleTo(to, Member)

\* A callback or a trigger returned an error, or the code did.
Fail ==
  /\ status' = "failed"
  /\ stack' = <<>>
  /\ UNCHANGED <<to, open, first, op, from, before, dropped>>

\* Selection.Delete drops the error of Node.Delete. While another case is cleared
\* an error can come from the ClearField of a leaf, and from the deletions of
\* containers, which have frames of their own.
CallbackError ==
  /\ status = "running"
  /\ top.phase # "hook"
  /\ top.phase = "clear" => Clearing /\ Hit /\ Member \in Leaves
  /\ Fail

DeleteHook ==
  /\ Running("hook")
  /\ Goto([top EXCEPT !.phase = "begin"])
  /\ UNCHANGED <<to, open, first, op, from, status, before, dropped>>

\* Bug: only the node itself hears of the edit.
BeginEditHere ==
  /\ Running("begin")
  /\ open' = open \cup {<<level, top.at>>}
  /\ Goto([top EXCEPT !.phase = IF top.fn = "enter" THEN "walk" ELSE "remove"])
  /\ UNCHANGED <<to, first, op, from, status, before, dropped>>

\* Selection.beginEdit, one Node.BeginEdit at a time.
BeginEdit ==
  /\ Running("begin")
  /\ open' = open \cup {<<level, top.at>>}
  /\ IF Bubbles /\ top.at # Ceiling
     THEN Goto([top EXCEPT !.at = Parent[top.at]])
     ELSE Goto([top EXCEPT !.at = top.pos,
                           !.phase = IF top.fn = "enter" THEN "walk" ELSE "remove"])
  /\ UNCHANGED <<to, first, op, from, status, before, dropped>>

\* Bug: the parents do not hear that the edit is over.
EndEditHere ==
  /\ Running("end")
  /\ open' = open \ {<<level, top.at>>}
  /\ stack' = SubSeq(stack, 1, level - 1)
  /\ status' = IF level = 1 THEN "ok" ELSE status
  /\ UNCHANGED <<to, first, op, from, before, dropped>>

\* Selection.endEdit, after which the call returns.
EndEdit ==
  /\ Running("end")
  /\ open' = open \ {<<level, top.at>>}
  /\ IF Bubbles /\ top.at # Ceiling
     THEN Goto([top EXCEPT !.at = Parent[top.at]]) /\ UNCHANGED status
     ELSE /\ stack' = SubSeq(stack, 1, level - 1)
          /\ status' = IF level = 1 THEN "ok" ELSE status
  /\ UNCHANGED <<to, first, op, from, before, dropped>>

-----------------------------------------------------------------------------
(***************************************************************************)
(* editor.enter's loop over the definitions of a container or the items of *)
(* a list, and the leaf, node and list code it runs for each.              *)
(***************************************************************************)
Walking == Running("walk") /\ top.i <= Len(Kids[top.pos])

Skip ==
  /\ Walking
  /\ ~Offered(Kid)
  /\ Goto([top EXCEPT !.i = @ + 1])
  /\ UNCHANGED <<to, open, first, op, from, status, before, dropped>>

Found(k) == to[k] # Absent /\ VisibleTo(to, k)

\* Bug: update makes what it misses.
ClashesOnInsert(k) == k \in Inner /\ top.strat = "insert" /\ Found(k)

Clashes(k) ==
  /\ k \in Inner
  /\ \/ top.strat = "insert" /\ Found(k)
     \/ top.strat = "update" /\ ~Found(k)

Refuse ==
  /\ Walking
  /\ Offered(Kid) /\ Clashes(Kid)
  /\ Fail

\* The destination is looked up first, then another case is looked for.
Take(other) ==
  /\ Offered(Kid) /\ ~Clashes(Kid)
  /\ Goto([top EXCEPT !.found = Found(Kid), !.case = other, !.j = 1,
                       !.phase = IF other = NoCase THEN "apply" ELSE "clear"])
  /\ UNCHANGED <<to, open, first, op, from, status, before>>

Accept ==
  /\ Walking
  /\ \E other \in IF top.strat = "upsert" THEN OtherCases(Kid) ELSE {NoCase} : Take(other)
  /\ UNCHANGED dropped

\* "we're eating the error here because destination may not implement choose"
ChooseError ==
  /\ Walking
  /\ top.strat = "upsert" /\ Case[Kid] # NoCase
  /\ Take(NoCase)
  /\ dropped' = TRUE

\* Bug: the containers of the other case stay.
ClearLeaves ==
  /\ Clearing
  /\ to' = IF Hit /\ Member \in Leaves THEN Erase(to, Member) ELSE to
  /\ Goto([top EXCEPT !.j = @ + 1])
  /\ UNCHANGED <<open, first, op, from, status, before, dropped>>

\* editor.clearChoiceCase, one definition of the case at a time.
Clear ==
  /\ Clearing
  /\ LET next == [top EXCEPT !.j = @ + 1]
     IN  /\ to' = IF Hit /\ Member \in Leaves THEN Erase(to, Member) ELSE to
         /\ IF Hit /\ Member \in Inner /\ to[Member] # Absent
            THEN stack' = Push(next, DeleteFrame(Member))
            ELSE Goto(next)
  /\ UNCHANGED <<open, first, op, from, status, before, dropped>>

\* The error of Find leaves a selection without a node, which is passed over.
FindError ==
  /\ Clearing
  /\ Hit /\ Member \in Inner /\ to[Member] # Absent
  /\ Goto([top EXCEPT !.j = @ + 1])
  /\ dropped' = TRUE
  /\ UNCHANGED <<to, open, first, op, from, status, before>>

Cleared ==
  /\ Running("clear")
  /\ top.j > Len(Kids[top.pos])
  /\ Goto([top EXCEPT !.phase = "apply"])
  /\ UNCHANGED <<to, open, first, op, from, status, before, dropped>>

\* Bug: a value that is there is not overwritten.
SetLeafOnce ==
  /\ Running("apply")
  /\ Kid \in Leaves
  /\ to' = IF to[Kid] = Absent THEN Write(to, Kid, SourceValue(Kid)) ELSE to
  /\ Goto([top EXCEPT !.phase = "walk", !.i = @ + 1])
  /\ UNCHANGED <<open, first, op, from, status, before, dropped>>

\* A "when" that does not hold makes SetValueHnd skip the write silently.
SetLeaf ==
  /\ Running("apply")
  /\ Kid \in Leaves
  /\ to' = IF VisibleTo(to, Kid) THEN Write(to, Kid, SourceValue(Kid)) ELSE to
  /\ Goto([top EXCEPT !.phase = "walk", !.i = @ + 1])
  /\ UNCHANGED <<open, first, op, from, status, before, dropped>>

ReturnToSame == [top EXCEPT !.phase = "walk"]  \* bug: the loop does not move on
Return == [top EXCEPT !.phase = "walk", !.i = @ + 1]

Descend ==
  /\ Running("apply")
  /\ Kid \in Inner
  /\ top.found
  /\ stack' = Push(Return, EnterFrame(Kid, FALSE, Nested(Kid)))
  /\ UNCHANGED <<to, open, first, op, from, status, before, dropped>>

\* The new node is made before its "when" is tested.
CreateChild ==
  /\ Running("apply")
  /\ Kid \in Inner
  /\ ~top.found
  /\ to' = Create(to, Kid)
  /\ IF VisibleTo(to', Kid)
     THEN stack' = Push(Return, EnterFrame(Kid, TRUE, Nested(Kid))) /\ UNCHANGED status
     ELSE stack' = <<>> /\ status' = "failed"
  /\ UNCHANGED <<open, first, op, from, before, dropped>>

Walked ==
  /\ Running("walk")
  /\ top.i > Len(Kids[top.pos])
  /\ Goto([top EXCEPT !.phase = "end"])
  /\ UNCHANGED <<to, open, first, op, from, status, before, dropped>>

\* The parent's Child or Next with Delete.
RemoveData ==
  /\ Running("remove")
  /\ to' = Erase(to, top.pos)
  /\ Goto([top EXCEPT !.phase = "end"])
  /\ UNCHANGED <<open, first, op, from, status, before, dropped>>

-----------------------------------------------------------------------------
Step ==
  \/ DeleteHook \/ BeginEdit \/ EndEdit \/ RemoveData
  \/ Skip \/ Refuse \/ Accept \/ Clear \/ Cleared
  \/ SetLeaf \/ Descend \/ CreateChild \/ Walked

Next ==
  \/ Step \/ CallbackError \/ ChooseError \/ FindError
  \/ \E r \in Requests, src \in Seen : Call(r, src)

\* The walk runs on the caller's goroutine: once called it goes on.
Spec == Init /\ [][Next]_vars /\ WF_vars(Step)

-----------------------------------------------------------------------------
(***************************************************************************)
(* Properties.                                                             *)
(***************************************************************************)
\* Every variable has its type, and an edit runs exactly while it has frames.
TypeOK ==
  /\ op \in Requests /\ from \in Seen /\ dropped \in BOOLEAN
  /\ WellTyped(to) /\ WellTyped(before) /\ WellTyped(first)
  /\ status \in {"idle", "running", "ok", "failed"}
  /\ stack \in Seq(Frame)
  /\ status = "running" <=> stack # <<>>
  /\ open \subseteq (Nat \ {0}) \X Inner

\* The edit never leaves data under a container that is not there, and no
\* activation of the walk holds a selection whose data has been deleted, even
\* while the case of a choice is cleared under it (edit.go 115-134).
NoDanglingSelection ==
  /\ Rooted(to)
  /\ \A l \in DOMAIN stack :
       to[stack[l].pos] = Absent => l = level /\ top.fn = "delete" /\ top.phase = "end"

\* node.go 39-47: a node hears BeginEdit before it or anything under it is
\* edited and EndEdit afterwards, nested walks and clearings included.
ChangesAreBracketed ==
  [][ \A p \in Pos \ {Root}, a \in Pos :
        ( /\ to'[p] # to[p] /\ to'[Parent[p]] = to[Parent[p]]
          /\ Parent[p] \in Below[a] /\ a \in Below[Ceiling] )
        => \E l \in 1..level : <<l, a>> \in open ]_vars

\* An edit that succeeds has called EndEdit for every BeginEdit.
BracketsClosed == status = "ok" => open = {}

\* edit.go 81-87: an upsert keeps to one case per choice at every step, an
\* interrupted one included, unless it has gone on without clearing a case after
\* an error of the destination's Choose or Find (102-108, 124-125).
UpsertKeepsOneCase ==
  op.kind \in {"upsert", "delete"} /\ OneCase(before) /\ ~dropped => OneCase(to)

\* The walk implements the merge, all or nothing or interrupted.
Store == INSTANCE DataStore WITH
  store <- IF status = "running" THEN before ELSE to,
  dropped <- status # "running" /\ dropped

StoreSpec == Store!Spec

\* Repeating an upsert that failed half way gives what the first attempt would
\* have given, except for the defaults of what the failed attempts created:
\* those containers are no longer new (edit.go 73). This is for attempts that
\* choose alike in the source and dropped no error: where the source has data of
\* two cases, an attempt may copy another one than the one before it.
RetryConverges ==
  status = "ok" /\ op.kind = "upsert" /\ OneCase(first) /\ ~dropped =>
    LET m == Merge(op, from, first)
    IN  \A p \in Pos : to[p] # m[p] => p \in Leaves /\ from[p] = Absent /\ to[p] = Absent

\* Every call returns.
Returns == status = "running" ~> status # "running"

-----------------------------------------------------------------------------
(***************************************************************************)
(* Edits under a "when".                                                   *)
(***************************************************************************)
\* What is left of t when every container and leaf whose "when" does not hold
\* is taken out.
Shown(t) ==
  [p \in Pos |-> IF \E a \in Pos : p \in Below[a] /\ ~WhenMet(t, a) THEN Absent ELSE t[p]]

\* check_when.go: an Into call copies what a reader of the source would see: the
\* data whose "when" holds there, whatever is at the destination (for schemas
\* where a "when" is on no leaf with a default and on no member of a choice).
IntoCopiesShown ==
  status = "ok" /\ op.dir = "into" => to = Merge(op, Shown(from), before)
=============================================================================
