------------------------------ MODULE DataStore ------------------------------
(***************************************************************************)
(* What the edit calls of node.Selection promise about the data, without   *)
(* the walk, the node callbacks or the order in which they happen: an edit *)
(* either takes the store to the merge of what it held and what it was     *)
(* given, or fails and leaves every position as it was or as the merge     *)
(* would have it.  What should have given way may stay, and the edit still *)
(* succeed, when the node does not say which case it holds.                *)
(***************************************************************************)
EXTENDS Merge

VARIABLES
  store, op, from, status,
  dropped  \* the edit went on after an error that kept it from clearing a case

vars == <<store, op, from, status, dropped>>

Init ==
  /\ store \in Targets
  /\ op = CHOOSE r \in Requests : TRUE
  /\ from \in Seen
  /\ status = "idle"
  /\ dropped = FALSE

Call ==
  /\ status # "running"
  /\ op' \in {r \in Requests : store[r.base] # Absent}
  /\ from' \in {src \in Seen : src[op'.base] # Absent}
  /\ status' = "running"
  /\ dropped' = FALSE
  /\ UNCHANGED store

\* What the merge puts somewhere is there.  What the merge takes away may stay, if
\* an error was dropped or the store had two cases of one choice, as an insert or
\* an update may leave behind.
Commit ==
  /\ status = "running" /\ status' = "ok"
  /\ dropped' \in BOOLEAN
  /\ ~Refused(op, from, store)
  /\ store' \in Tree /\ Between(op, from, store, store')
  /\ LET m == Merge(op, from, store)
     IN  \A p \in Pos : (OneCase(store) /\ ~dropped') \/ m[p] # Absent => store'[p] = m[p]
  /\ UNCHANGED <<op, from>>

Abort ==
  /\ status = "running" /\ status' = "failed"
  /\ dropped' \in BOOLEAN
  /\ store' \in Tree /\ Between(op, from, store, store')
  /\ UNCHANGED <<op, from>>

Next == Call \/ Commit \/ Abort

Spec == Init /\ [][Next]_vars
=============================================================================
