-------------------------------- MODULE Pipe --------------------------------
(***************************************************************************)
(* nodeutil/pipe.go: what one goroutine writes to the push node, another   *)
(* reads from the pull node, through an unbuffered channel and with one    *)
(* message of look-ahead.  The writer is an edit into push followed by     *)
(* Close; the reader is an edit out of pull.                               *)
(***************************************************************************)
EXTENDS Naturals, Sequences

CONSTANTS
  Def,      \* the schema's definitions
  Module,   \* the one at its root
  Kind,     \* "container", "list" or "leaf"
  Kids,     \* the definitions in a container or in the items of a list, in order
  Node,     \* what there may be to write: [tok, def, val, kids]
  Contents, \* what is written: sequences of nodes
  None      \* no message, and the value of what is no leaf

ASSUME PipeAssumption ==
  /\ Module \in Def
  /\ Kind \in [Def -> {"container", "list", "leaf"}] /\ Kind[Module] = "container"
  /\ Kids \in [Def -> Seq(Def)]

TokenOf(d) == IF Kind[d] = "leaf" THEN "leaf" ELSE "select"

\* An edit visits the definitions of d in their order, each at most once.
InOrder(d, nodes) ==
  /\ \A n \in DOMAIN nodes :
       /\ nodes[n].tok = TokenOf(nodes[n].def)
       /\ \E a \in DOMAIN Kids[d] : Kids[d][a] = nodes[n].def
  /\ \A n, o \in DOMAIN nodes : n < o =>
       \E a, b \in DOMAIN Kids[d] : a < b /\ Kids[d][a] = nodes[n].def /\ Kids[d][b] = nodes[o].def

ASSUME ContentsAssumption ==
  /\ \A n \in Node :
       /\ n.def \in Def /\ n.tok \in {TokenOf(n.def), "item"} /\ n.kids \in Seq(Node)
       /\ IF n.tok = "leaf" THEN n.kids = <<>>
          ELSE IF n.tok = "select" /\ Kind[n.def] = "list"
          THEN \A k \in DOMAIN n.kids : n.kids[k].tok = "item" /\ n.kids[k].def = n.def
          ELSE InOrder(n.def, n.kids)
  /\ \A nodes \in Contents : nodes \in Seq(Node) /\ InOrder(Module, nodes)

VARIABLES
  writer,   \* "writing", "closing" or "done"
  todo,     \* the nodes the writer has still to write: [node, depth]
  failed,   \* the edit into push failed, and Close was given its error
  position, \* the message the reader has received and not consumed, or None
  reader,   \* "reading", "ok" or "failed"
  frames,   \* the reader's activations: [def, items, i]
  sent, got \* what was written and what was read: [depth, tok, def, val]

vars == <<writer, todo, failed, position, reader, frames, sent, got>>

-----------------------------------------------------------------------------
\* items says that the activation is in the loop over the items of a list.
Frame == [def : Def, items : BOOLEAN, i : Nat \ {0}]
Inside(d, items) == [def |-> d, items |-> items, i |-> 1]

End(err) == [tok |-> "end", err |-> err]
Msg(node) == [tok |-> node.tok, def |-> node.def, val |-> node.val, err |-> FALSE]

ASSUME NoneAssumption ==
  None \notin {End(err) : err \in BOOLEAN} \cup {Msg(node) : node \in Node}

Logged(depth, def, msg) == [depth |-> depth, tok |-> msg.tok, def |-> def, val |-> msg.val]

At(depth, nodes) == [n \in DOMAIN nodes |-> [node |-> nodes[n], depth |-> depth]]

Init ==
  /\ writer = "writing" /\ failed = FALSE
  /\ \E nodes \in Contents : todo = At(1, nodes)
  /\ position = None
  /\ reader = "reading"
  /\ frames = <<Inside(Module, FALSE)>>
  /\ sent = <<>> /\ got = <<>>

-----------------------------------------------------------------------------
(***************************************************************************)
(* The channel: a send takes place when the reader receives.               *)
(***************************************************************************)
\* Pipe.peek waits for a message unless it holds one.
Receiving == reader = "reading" /\ position = None

\* push.OnChild, push.OnNext or push.OnField
Send ==
  /\ Receiving
  /\ writer = "writing" /\ todo # <<>>
  /\ LET w == Head(todo)
     IN  /\ position' = Msg(w.node)
         /\ sent' = Append(sent, Logged(w.depth, w.node.def, Msg(w.node)))
         /\ todo' = At(w.depth + 1, w.node.kids) \o Tail(todo)
  /\ UNCHANGED <<writer, failed, reader, frames, got>>

\* What was to be written has been, or could not be read or is refused.
EditDone ==
  /\ writer = "writing" /\ todo = <<>>
  /\ writer' = "closing"
  /\ UNCHANGED <<todo, failed, position, reader, frames, sent, got>>

EditFailsLate ==  \* bug: the walk goes on after the error
  /\ writer = "writing"
  /\ writer' = "closing" /\ failed' = TRUE
  /\ UNCHANGED <<todo, position, reader, frames, sent, got>>

EditFails ==
  /\ writer = "writing"
  /\ writer' = "closing" /\ failed' = TRUE /\ todo' = <<>>
  /\ UNCHANGED <<position, reader, frames, sent, got>>

\* Bug: Close does not pass the error on.
CloseQuietly ==
  /\ Receiving
  /\ writer = "closing"
  /\ position' = End(FALSE)
  /\ writer' = "done"
  /\ UNCHANGED <<todo, failed, reader, frames, sent, got>>

\* Pipe.Close; the reader closes the channel when it gets this.
Close ==
  /\ Receiving
  /\ writer = "closing"
  /\ position' = End(failed)
  /\ writer' = "done"
  /\ UNCHANGED <<todo, failed, reader, frames, sent, got>>

-----------------------------------------------------------------------------
(***************************************************************************)
(* The reader, which asks for one definition after another.                *)
(***************************************************************************)
frame == frames[Len(frames)]
Kid == Kids[frame.def][frame.i]
Reading == reader = "reading" /\ frames # <<>>
Asking == Reading /\ (frame.items \/ frame.i <= Len(Kids[frame.def]))

Pop == SubSeq(frames, 1, Len(frames) - 1)
Moved == [frames EXCEPT ![Len(frames)].i = @ + 1]

Asked == IF frame.items THEN "item" ELSE TokenOf(Kid)

\* Bug: nothing looks at the definition.
MatchesToken == position.tok = Asked

\* pull.OnNext does not look at the list the item is of.
Matches == position.tok = Asked /\ (frame.items \/ position.def = Kid)

\* The message is what was asked for.
Consume ==
  /\ Asking /\ position # None /\ Matches
  /\ position' = None
  /\ got' = Append(got, Logged(Len(frames), IF frame.items THEN frame.def ELSE Kid, position))
  /\ frames' = IF frame.items THEN Append(frames, Inside(frame.def, FALSE))
               ELSE IF Kind[Kid] = "leaf" THEN Moved
               ELSE Append(Moved, Inside(Kid, Kind[Kid] = "list"))
  /\ UNCHANGED <<writer, todo, failed, reader, sent>>

\* Bug: what is not there ends the container.
NotThereEnds ==
  /\ Asking /\ position # None /\ ~Matches
  /\ IF position.err THEN reader' = "failed" /\ UNCHANGED frames
     ELSE frames' = Pop /\ UNCHANGED reader
  /\ UNCHANGED <<writer, todo, failed, position, sent, got>>

\* Bug: the loop over the items waits for another one.
NotThereWaits ==
  /\ Asking /\ position # None /\ ~Matches
  /\ IF position.err THEN reader' = "failed" /\ UNCHANGED frames
     ELSE frames' = (IF frame.items THEN frames ELSE Moved) /\ UNCHANGED reader
  /\ UNCHANGED <<writer, todo, failed, position, sent, got>>

\* It is not, so there is none of it, or it is the end and carries an error.
NotThere ==
  /\ Asking /\ position # None /\ ~Matches
  /\ IF position.err THEN reader' = "failed" /\ UNCHANGED frames
     ELSE frames' = (IF frame.items THEN Pop ELSE Moved) /\ UNCHANGED reader
  /\ UNCHANGED <<writer, todo, failed, position, sent, got>>

\* All the definitions of a container or an item have been asked for.
Leave ==
  /\ Reading /\ ~frame.items /\ frame.i > Len(Kids[frame.def])
  /\ frames' = Pop
  /\ reader' = IF Len(frames) = 1 THEN "ok" ELSE reader
  /\ UNCHANGED <<writer, todo, failed, position, sent, got>>

\* The node that is read into returned an error.
ReaderFails ==
  /\ Reading
  /\ reader' = "failed"
  /\ UNCHANGED <<writer, todo, failed, position, frames, sent, got>>

-----------------------------------------------------------------------------
Write == Send \/ EditDone \/ Close
Read  == Consume \/ NotThere \/ Leave

Next == Write \/ EditFails \/ Read \/ ReaderFails

\* Each goroutine goes on while it can.
Spec == Init /\ [][Next]_vars /\ WF_vars(Write) /\ WF_vars(Read)

-----------------------------------------------------------------------------
(***************************************************************************)
(* Schemas the messages are enough for: they carry the name of a           *)
(* definition, not its place, and an item does not even say of which list. *)
(***************************************************************************)
NamedOnce ==
  /\ \A d \in Def : \A a \in DOMAIN Kids[d] : Kids[d][a] # Module
  /\ \A d, e \in Def : \A a \in DOMAIN Kids[d], b \in DOMAIN Kids[e] :
       Kids[d][a] = Kids[e][b] => d = e /\ a = b

\* under holds what is in a list, and no list.
ListsHold(under) ==
  /\ \A d \in Def : Kind[d] = "list" \/ d \in under =>
       \A a \in DOMAIN Kids[d] : Kids[d][a] \in under
  /\ \A d \in under : Kind[d] # "list"

FlatLists == \E under \in SUBSET Def : ListsHold(under)

\* The reader looks past the end of what there is to read.
EndsInList == Kids[Module] # <<>> /\ Kind[Kids[Module][Len(Kids[Module])]] = "list"

-----------------------------------------------------------------------------
\* Every variable has its type, and the reader is done when it has no frame.
TypeOK ==
  /\ writer \in {"writing", "closing", "done"} /\ failed \in BOOLEAN
  /\ reader \in {"reading", "ok", "failed"}
  /\ frames \in Seq(Frame) /\ (reader = "ok" <=> frames = <<>>)
  /\ writer # "writing" => todo = <<>>

\* pipe_test.go 102-103: what is read is what was written, in its place and no more
\* than was written so far, whoever is ahead.
Faithful == Len(got) <= Len(sent) /\ got = SubSeq(sent, 1, Len(got))

\* pipe_test.go 102-103, 127-129: a reader that succeeds has read all of an edit that
\* succeeded: it never takes a part for the whole, nor misses the error.
AllOrError == reader = "ok" => ~failed /\ writer = "done" /\ got = sent

\* The writer is never left blocked on the channel, unless the reader gave up.
WriterReturns == <>(writer = "done" \/ reader = "failed")

\* And the reader always comes to an end.
ReaderReturns == <>(reader # "reading")
=============================================================================
