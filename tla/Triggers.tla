------------------------------ MODULE Triggers ------------------------------
(***************************************************************************)
(* node/trigger.go: the listeners of a browser, called at the beginning    *)
(* and at the end of every edit of every node.  A listener runs in the     *)
(* middle of the loop that calls it and may itself install and remove      *)
(* listeners and edit, so that loops nest and the table changes under      *)
(* them.  All of it runs on one goroutine.                                 *)
(***************************************************************************)
EXTENDS Naturals, Sequences

CONSTANTS
  Trigger,       \* the listeners
  Hears,         \* Hears[t]: which of OnBegin and OnEnd t has
  Nil,           \* no list element
  MaxElements,   \* bound: how many times Install is called
  MaxDepth,      \* bound: how deep edits nest
  RemovesRunning \* a listener may be removed while it is being called

ASSUME TriggersAssumption ==
  /\ Hears \in [Trigger -> SUBSET {"begin", "end"}]
  /\ MaxElements \in Nat /\ MaxDepth \in Nat
  /\ RemovesRunning \in BOOLEAN
  /\ Nil \notin 1..MaxElements

VARIABLES
  table,     \* the elements of the list, each the number of its Install
  owner,     \* owner[e]: the listener installed as the element e
  hnd,       \* hnd[t]: the element t remembers, or Nil
  edits,     \* the edits in progress, outermost first
  installed  \* the listeners whose last Install or Remove was an Install

vars == <<table, owner, hnd, edits, installed>>

Element == 1..MaxElements

\* An edit: at is the element its loop is at, called says that its listener is
\* running; heard are the listeners this loop has called and stay those that
\* were installed when it began and have not been removed since.
Edit == [phase : {"begin", "walk", "end"}, at : Element \cup {Nil}, called : BOOLEAN,
         heard : Seq(Trigger), stay : SUBSET Trigger]

-----------------------------------------------------------------------------
Members == {table[n] : n \in DOMAIN table}
Place(e) == CHOOSE n \in DOMAIN table : table[n] = e

\* list.Front and Element.Next: an element that was removed has no next.
Front == IF table = <<>> THEN Nil ELSE table[1]
After(e) ==
  IF e \in Members /\ Place(e) < Len(table) THEN table[Place(e) + 1] ELSE Nil

\* list.Remove: an element that is out already is ignored.
RemoveAt(s, n) == SubSeq(s, 1, n - 1) \o SubSeq(s, n + 1, Len(s))
Without(e) == IF e \in Members THEN RemoveAt(table, Place(e)) ELSE table

depth == Len(edits)
last == edits[depth]

Round(phase) ==
  [phase |-> phase, at |-> Front, called |-> FALSE, heard |-> <<>>,
   stay |-> {owner[e] : e \in Members}]

\* Whose code runs: a listener's, or that of the application or of a node.
Free == depth > 0 => last.called \/ last.phase = "walk"

Init ==
  /\ table = <<>> /\ owner = <<>>
  /\ hnd = [t \in Trigger |-> Nil]
  /\ edits = <<>>
  /\ installed = {}

\* Bug: the element goes to the front.
InstallFirst(t) ==
  /\ Free
  /\ Len(owner) < MaxElements
  /\ t \notin installed
  /\ owner' = Append(owner, t)
  /\ table' = <<Len(owner')>> \o table
  /\ hnd' = [hnd EXCEPT ![t] = Len(owner')]
  /\ installed' = installed \cup {t}
  /\ UNCHANGED edits

\* Installing a listener twice would forget its first element: it is not done.
Install(t) ==
  /\ Free
  /\ Len(owner) < MaxElements
  /\ t \notin installed
  /\ owner' = Append(owner, t)
  /\ table' = Append(table, Len(owner'))
  /\ hnd' = [hnd EXCEPT ![t] = Len(owner')]
  /\ installed' = installed \cup {t}
  /\ UNCHANGED edits

Running(t) == \E n \in 1..depth : edits[n].called /\ owner[edits[n].at] = t

\* Bug: nothing is taken out of the list while a loop is on it.
RemoveLater(t) ==
  /\ Free
  /\ hnd[t] # Nil
  /\ Running(t) => RemovesRunning
  /\ table' = IF depth > 0 THEN table ELSE Without(hnd[t])
  /\ installed' = installed \ {t}
  /\ edits' = [n \in 1..depth |-> [edits[n] EXCEPT !.stay = @ \ {t}]]
  /\ UNCHANGED <<owner, hnd>>

\* hnd is left as it is.
Remove(t) ==
  /\ Free
  /\ hnd[t] # Nil
  /\ Running(t) => RemovesRunning
  /\ table' = Without(hnd[t])
  /\ installed' = installed \ {t}
  /\ edits' = [n \in 1..depth |-> [edits[n] EXCEPT !.stay = @ \ {t}]]
  /\ UNCHANGED <<owner, hnd>>

\* Selection.beginEdit
BeginEdit ==
  /\ Free
  /\ depth < MaxDepth
  /\ edits' = Append(edits, Round("begin"))
  /\ UNCHANGED <<table, owner, hnd, installed>>

Top(edit) == edits' = [edits EXCEPT ![depth] = edit]

AtElement == depth > 0 /\ ~last.called /\ last.at # Nil

\* The loop calls the listener of the element it is at,
CallListener ==
  /\ AtElement
  /\ last.phase \in Hears[owner[last.at]]
  /\ Top([last EXCEPT !.called = TRUE, !.heard = Append(@, owner[last.at])])
  /\ UNCHANGED <<table, owner, hnd, installed>>

\* Bug: a listener without the function ends the loop.
PassOverEnds ==
  /\ AtElement
  /\ last.phase \notin Hears[owner[last.at]]
  /\ Top([last EXCEPT !.at = Nil])
  /\ UNCHANGED <<table, owner, hnd, installed>>

\* passes over one that has no function for this,
PassOver ==
  /\ AtElement
  /\ last.phase \notin Hears[owner[last.at]]
  /\ Top([last EXCEPT !.at = After(last.at)])
  /\ UNCHANGED <<table, owner, hnd, installed>>

\* and goes on when the listener returns.
ListenerReturns ==
  /\ depth > 0 /\ last.called
  /\ Top([last EXCEPT !.called = FALSE, !.at = After(last.at)])
  /\ UNCHANGED <<table, owner, hnd, installed>>

\* Without an error the nodes are edited after the first loop, and the last
\* loop ends the edit.
LoopEnds ==
  /\ depth > 0 /\ ~last.called /\ last.at = Nil
  /\ last.phase # "walk"
  /\ IF last.phase = "begin" THEN Top([last EXCEPT !.phase = "walk"])
     ELSE edits' = SubSeq(edits, 1, depth - 1)
  /\ UNCHANGED <<table, owner, hnd, installed>>

\* Selection.endEdit
EndEdit ==
  /\ depth > 0 /\ last.phase = "walk"
  /\ Top(Round("end"))
  /\ UNCHANGED <<table, owner, hnd, installed>>

\* A listener or a node returned an error: the edit is over at once.  Whoever
\* made it, a listener or another edit, may or may not pass the error on.
EditFails ==
  /\ depth > 0 /\ (last.called \/ last.phase = "walk")
  /\ edits' = SubSeq(edits, 1, depth - 1)
  /\ UNCHANGED <<table, owner, hnd, installed>>

Step == CallListener \/ PassOver \/ ListenerReturns \/ LoopEnds \/ EndEdit

Next ==
  \/ Step \/ EditFails \/ BeginEdit
  \/ \E t \in Trigger : Install(t) \/ Remove(t)

Spec == Init /\ [][Next]_vars

-----------------------------------------------------------------------------
\* Every variable has its type; the list holds each element once.
TypeOK ==
  /\ owner \in Seq(Trigger) /\ Len(owner) <= MaxElements
  /\ table \in Seq(DOMAIN owner)
  /\ \A m, n \in DOMAIN table : m < n => table[m] < table[n]
  /\ hnd \in [Trigger -> DOMAIN owner \cup {Nil}]
  /\ \A t \in Trigger : hnd[t] # Nil => owner[hnd[t]] = t
  /\ edits \in Seq(Edit) /\ installed \subseteq Trigger

\* trigger.go 73-76, "OnBegin will be called on the start of any edit", "OnEnd will
\* be called at the end of any edit": a loop that ends without an error has called
\* every listener that was installed throughout it once, in the order in which
\* they were installed, whatever the listeners installed, removed and edited.
EveryoneHears ==
  \A n \in DOMAIN edits :
    LET round == edits[n]
        turns == {k \in DOMAIN round.heard : round.heard[k] \in round.stay}
    IN  round.at = Nil /\ round.phase # "walk" =>
          /\ {round.heard[k] : k \in turns} = {t \in round.stay : round.phase \in Hears[t]}
          /\ \A j, k \in turns : j < k => hnd[round.heard[j]] < hnd[round.heard[k]]

\* trigger.go 58, "Remove will no longer call trigger funcs": a listener is called
\* only while its last Install or Remove was an Install.
RemovedIsSilent ==
  [][ \A t \in Trigger :
        (\E n \in DOMAIN edits' :
           /\ edits'[n].called /\ owner'[edits'[n].at] = t
           /\ n > depth \/ ~edits[n].called) => t \in installed ]_vars
=============================================================================
