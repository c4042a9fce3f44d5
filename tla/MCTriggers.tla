----------------------------- MODULE MCTriggers -----------------------------
(* Three listeners, one of which hears only the ends of edits.             *)
EXTENDS Triggers

CONSTANTS t1, t2, t3

MCHears == [t \in Trigger |-> IF t = t3 THEN {"end"} ELSE {"begin", "end"}]
=============================================================================
