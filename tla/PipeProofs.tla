------------------------------ MODULE PipeProofs ------------------------------
(***************************************************************************)
(* The pipe: for a schema that names a definition once and has no list in  *)
(* a list, the reader gets what was written and no more, whichever of the  *)
(* two is ahead; and if the module ends with a list, a reader that         *)
(* succeeds has read all of an edit that succeeded.                        *)
(***************************************************************************)
EXTENDS Pipe, SequenceTheorems, TLAPS

-----------------------------------------------------------------------------
(***************************************************************************)
(* The reader's activations.                                               *)
(***************************************************************************)
LEMMA InsideFrame ==
  ASSUME NEW d \in Def, NEW items \in BOOLEAN
  PROVE  /\ Inside(d, items) \in Frame
         /\ Inside(d, items).def = d /\ Inside(d, items).items = items /\ Inside(d, items).i = 1
  BY DEF Inside, Frame

LEMMA PopFacts ==
  ASSUME frames \in Seq(Frame), frames # <<>>
  PROVE  /\ Pop \in Seq(Frame) /\ Len(Pop) = Len(frames) - 1
         /\ Pop = <<>> <=> Len(frames) = 1
         /\ \A k \in 1..(Len(frames) - 1) : Pop[k] = frames[k]
<1> DEFINE n == Len(frames) - 1
<1>1. 1 \in Int /\ n \in Nat /\ n \in Int /\ \A i \in 1..n : frames[i] \in Frame
  OBVIOUS
<1>2. /\ Pop \in Seq(Frame)
      /\ Len(Pop) = IF 1 <= n THEN n - 1 + 1 ELSE 0
      /\ \A i \in 1..(n - 1 + 1) : Pop[i] = frames[1 + i - 1]
  BY <1>1, SubSeqProperties DEF Pop
<1> HIDE DEF n
<1>3. Len(Pop) = n
  BY <1>1, <1>2
<1>4. \A k \in 1..n : Pop[k] = frames[k]
  BY <1>1, <1>2
<1>5. Pop = <<>> <=> n = 0
  BY <1>1, <1>2, <1>3, EmptySeq
<1>6. QED
  BY <1>1, <1>2, <1>3, <1>4, <1>5 DEF n

LEMMA MovedFacts ==
  ASSUME frames \in Seq(Frame), frames # <<>>
  PROVE  /\ Moved \in Seq(Frame) /\ Moved # <<>> /\ Len(Moved) = Len(frames)
         /\ Moved[Len(frames)].def = frame.def /\ Moved[Len(frames)].items = frame.items
         /\ Moved[Len(frames)].i = frame.i + 1
         /\ \A k \in 1..(Len(frames) - 1) : Moved[k] = frames[k]
<1>1. Len(frames) \in Nat \ {0} /\ frame \in Frame
  BY DEF frame
<1>2. [frame EXCEPT !.i = @ + 1] \in Frame
  BY <1>1 DEF Frame
<1>3. Moved = [frames EXCEPT ![Len(frames)] = [frame EXCEPT !.i = @ + 1]]
  BY DEF Moved, frame
<1>4. Moved[Len(frames)] = [frame EXCEPT !.i = @ + 1]
  BY <1>1, <1>3
<1>5. /\ Moved \in Seq(Frame) /\ Moved # <<>> /\ Len(Moved) = Len(frames)
      /\ \A k \in 1..(Len(frames) - 1) : Moved[k] = frames[k]
  BY <1>1, <1>2, <1>3
<1>6. QED
  BY <1>1, <1>4, <1>5 DEF Frame

LEMMA PushFacts ==
  ASSUME NEW s \in Seq(Frame), NEW f \in Frame
  PROVE  /\ Append(s, f) \in Seq(Frame) /\ Append(s, f) # <<>> /\ Len(Append(s, f)) = Len(s) + 1
         /\ Append(s, f)[Len(s) + 1] = f
         /\ \A k \in 1..Len(s) : Append(s, f)[k] = s[k]
  OBVIOUS

LEMMA TopFacts ==
  ASSUME frames \in Seq(Frame), Asking
  PROVE  /\ frames # <<>> /\ Len(frames) \in Nat \ {0} /\ frame \in Frame /\ frame.def \in Def
         /\ frame.items \in BOOLEAN /\ frame.i \in Nat \ {0}
         /\ ~frame.items => /\ frame.i \in DOMAIN Kids[frame.def] /\ Kid \in Def
                            /\ Kid = Kids[frame.def][frame.i]
<1>1. frames # <<>> /\ frame \in Frame /\ Len(frames) \in Nat \ {0}
  BY DEF Asking, Reading, frame
<1>2. frame.def \in Def /\ frame.items \in BOOLEAN /\ frame.i \in Nat \ {0}
  BY <1>1 DEF Frame
<1>3. Kids[frame.def] \in Seq(Def)
  BY <1>2, PipeAssumption
<1>4. QED
  BY <1>1, <1>2, <1>3 DEF Asking, Kid

-----------------------------------------------------------------------------
(***************************************************************************)
(* Type correctness.                                                       *)
(***************************************************************************)
Entry == [node : Node, depth : Nat \ {0}]

TypeInv ==
  /\ TypeOK
  /\ todo \in Seq(Entry)
  /\ position \in {None} \cup {End(err) : err \in BOOLEAN} \cup {Msg(node) : node \in Node}

LEMMA EntryFacts ==
  ASSUME NEW depth \in Nat \ {0}, NEW nodes \in Seq(Node)
  PROVE  /\ At(depth, nodes) \in Seq(Entry) /\ Len(At(depth, nodes)) = Len(nodes)
         /\ \A n \in 1..Len(nodes) : /\ At(depth, nodes)[n].node = nodes[n]
                                     /\ At(depth, nodes)[n].depth = depth
<1>1. At(depth, nodes) = [n \in 1..Len(nodes) |-> [node |-> nodes[n], depth |-> depth]]
  BY DEF At
<1>2. \A n \in 1..Len(nodes) : [node |-> nodes[n], depth |-> depth] \in Entry
  BY DEF Entry
<1>3. Len(nodes) \in Nat
  OBVIOUS
<1>4. QED
  BY <1>1, <1>2, <1>3

\* What is left to write once the first of it has been sent.
Rest == At(Head(todo).depth + 1, Head(todo).node.kids) \o Tail(todo)

LEMMA RestFacts ==
  ASSUME todo \in Seq(Entry), todo # <<>>
  PROVE  LET w == todo[1]
             k == Len(w.node.kids)
         IN  /\ Head(todo) = w /\ w.node \in Node /\ w.depth \in Nat \ {0}
             /\ w.node.kids \in Seq(Node) /\ k \in Nat
             /\ Rest \in Seq(Entry) /\ Len(Rest) = k + Len(todo) - 1
             /\ \A n \in 1..k : Rest[n].node = w.node.kids[n] /\ Rest[n].depth = w.depth + 1
             /\ \A n \in (k + 1)..Len(Rest) : Rest[n] = todo[n - k + 1]
<1> DEFINE w == todo[1]
           kids == w.node.kids
           k == Len(kids)
           new == At(w.depth + 1, kids)
           tail == Tail(todo)
<1>1. Head(todo) = w /\ w \in Entry
  OBVIOUS
<1>2. w.node \in Node /\ w.depth \in Nat \ {0} /\ w.depth + 1 \in Nat \ {0}
  BY <1>1 DEF Entry
<1>3. kids \in Seq(Node) /\ k \in Nat
  BY <1>2, ContentsAssumption
<1>4. /\ new \in Seq(Entry) /\ Len(new) = k
      /\ \A n \in 1..k : new[n].node = kids[n] /\ new[n].depth = w.depth + 1
  BY <1>2, <1>3, EntryFacts
<1>5. /\ tail \in Seq(Entry) /\ Len(tail) = Len(todo) - 1
      /\ \A n \in 1..Len(tail) : tail[n] = todo[n + 1]
  OBVIOUS
<1>6. Rest = new \o tail /\ Len(todo) \in Nat \ {0}
  BY <1>1 DEF Rest
<1> HIDE DEF new, tail, kids, w, k
<1>7. /\ Rest \in Seq(Entry) /\ Len(Rest) = Len(new) + Len(tail)
      /\ \A n \in 1..Len(Rest) : Rest[n] = IF n <= Len(new) THEN new[n] ELSE tail[n - Len(new)]
  BY <1>4, <1>5, <1>6, ConcatProperties, SMTT(60)
<1>8. Len(Rest) = k + Len(todo) - 1
  BY <1>3, <1>4, <1>5, <1>6, <1>7
<1>9. \A n \in 1..k : Rest[n].node = kids[n] /\ Rest[n].depth = w.depth + 1
  <2>1. \A n \in 1..k : n \in 1..Len(Rest) /\ n <= Len(new)
    BY <1>3, <1>4, <1>6, <1>8
  <2>2. QED
    BY <2>1, <1>4, <1>7
<1>10. \A n \in (k + 1)..Len(Rest) : Rest[n] = todo[n - k + 1]
  <2>1. ASSUME NEW n \in (k + 1)..Len(Rest) PROVE Rest[n] = todo[n - k + 1]
    <3>1. n \in 1..Len(Rest) /\ ~(n <= Len(new)) /\ n - k \in 1..Len(tail)
      BY <1>3, <1>4, <1>5, <1>6, <1>8
    <3>2. Rest[n] = tail[n - k]
      BY <3>1, <1>4, <1>7
    <3>3. QED
      BY <3>1, <3>2, <1>5
  <2>2. QED
    BY <2>1
<1>11. QED
  BY <1>1, <1>2, <1>3, <1>7, <1>8, <1>9, <1>10 DEF w, kids, k
LEMMA FirstFrame ==
  ASSUME Init
  PROVE  /\ frames \in Seq(Frame) /\ frames # <<>> /\ Len(frames) = 1
         /\ frames[1].def = Module /\ ~frames[1].items /\ frames[1].i = 1
<1> DEFINE f == Inside(Module, FALSE)
<1>1. frames = <<f>>
  BY DEF Init
<1>2. f \in Frame /\ f.def = Module /\ f.items = FALSE /\ f.i = 1
  BY InsideFrame, PipeAssumption
<1> HIDE DEF f
<1>3. QED
  BY <1>1, <1>2

LEMMA TypeInit == Init => TypeInv
<1> SUFFICES ASSUME Init PROVE TypeInv
  OBVIOUS
<1>1. PICK nodes \in Contents : todo = At(1, nodes)
  BY DEF Init
<1>2. todo \in Seq(Entry)
  BY <1>1, EntryFacts, ContentsAssumption
<1>3. frames \in Seq(Frame) /\ frames # <<>>
  BY FirstFrame
<1>4. QED
  BY <1>2, <1>3 DEF Init, TypeInv, TypeOK

\* What the reader's next activations are.
LEMMA ConsumeFrames ==
  ASSUME frames \in Seq(Frame), Asking,
         frames' = IF frame.items THEN Append(frames, Inside(frame.def, FALSE))
                   ELSE IF Kind[Kid] = "leaf" THEN Moved
                   ELSE Append(Moved, Inside(Kid, Kind[Kid] = "list"))
  PROVE  frames' \in Seq(Frame) /\ frames' # <<>>
<1>1. CASE frame.items
  BY <1>1, TopFacts, InsideFrame, PushFacts
<1>2. CASE ~frame.items /\ Kind[Kid] = "leaf"
  BY <1>2, TopFacts, MovedFacts
<1>3. CASE ~frame.items /\ Kind[Kid] # "leaf"
  <2>1. Inside(Kid, Kind[Kid] = "list") \in Frame
    BY <1>3, TopFacts, InsideFrame
  <2>2. QED
    BY <1>3, <2>1, TopFacts, MovedFacts, PushFacts
<1>4. QED
  BY <1>1, <1>2, <1>3

\* The loop over the items of a list is never the outermost activation.
Rooted == frames # <<>> => ~frames[1].items

LEMMA TypeStep == TypeInv /\ Rooted /\ [Next]_vars => TypeInv'
<1> SUFFICES ASSUME TypeInv, Rooted, [Next]_vars PROVE TypeInv'
  OBVIOUS
<1>1. TypeOK /\ todo \in Seq(Entry)
      /\ position \in {None} \cup {End(err) : err \in BOOLEAN} \cup {Msg(node) : node \in Node}
  BY DEF TypeInv
<1> USE DEF TypeInv, TypeOK
<1>2. CASE Send
  <2>1. Head(todo).node \in Node /\ todo' = Rest /\ Rest \in Seq(Entry)
    BY <1>1, <1>2, RestFacts DEF Send, Rest
  <2>2. position' = Msg(Head(todo).node)
    BY <1>2 DEF Send
  <2>3. QED
    BY <1>1, <1>2, <2>1, <2>2 DEF Send
<1>3. CASE EditDone
  BY <1>1, <1>3 DEF EditDone
<1>4. CASE Close
  BY <1>1, <1>4 DEF Close
<1>5. CASE EditFails
  BY <1>1, <1>5 DEF EditFails
<1>6. CASE Consume
  <2>1. frames' \in Seq(Frame) /\ frames' # <<>>
    BY <1>1, <1>6, ConsumeFrames DEF Consume
  <2>2. reader = "reading"
    BY <1>6 DEF Consume, Asking, Reading
  <2>3. QED
    BY <1>1, <1>6, <2>1, <2>2 DEF Consume
<1>7. CASE NotThere
  <2>1. reader = "reading" /\ frames # <<>>
    BY <1>7 DEF NotThere, Asking, Reading
  <2>2. CASE position.err
    BY <1>1, <1>7, <2>1, <2>2 DEF NotThere
  <2>3. CASE ~position.err /\ frame.items
    <3>1. Len(frames) # 1 /\ frames' = Pop /\ reader' = "reading"
      BY <1>1, <1>7, <2>1, <2>3 DEF NotThere, Rooted, frame
    <3>2. frames' \in Seq(Frame) /\ frames' # <<>>
      BY <1>1, <2>1, <3>1, PopFacts
    <3>3. QED
      BY <1>1, <1>7, <3>1, <3>2 DEF NotThere
  <2>4. CASE ~position.err /\ ~frame.items
    <3>1. frames' \in Seq(Frame) /\ frames' # <<>> /\ reader' = "reading"
      BY <1>1, <1>7, <2>1, <2>4, MovedFacts DEF NotThere
    <3>2. QED
      BY <1>1, <1>7, <3>1 DEF NotThere
  <2>5. QED
    BY <2>2, <2>3, <2>4
<1>8. CASE Leave
  <2>1. reader = "reading" /\ frames # <<>> /\ frames' = Pop
    BY <1>8 DEF Leave, Reading
  <2>2. frames' \in Seq(Frame) /\ (frames' = <<>> <=> Len(frames) = 1)
    BY <1>1, <2>1, PopFacts
  <2>3. QED
    BY <1>1, <1>8, <2>1, <2>2 DEF Leave
<1>9. CASE ReaderFails
  BY <1>1, <1>9 DEF ReaderFails, Reading
<1>10. CASE UNCHANGED vars
  BY <1>1, <1>10 DEF vars
<1>11. QED
  BY <1>2, <1>3, <1>4, <1>5, <1>6, <1>7, <1>8, <1>9, <1>10 DEF Next, Write, Read

\* The first activation stays the first.
LEMMA RootStep == TypeInv /\ Rooted /\ [Next]_vars => Rooted'
<1> SUFFICES ASSUME TypeInv, Rooted, [Next]_vars, frames' # <<>> PROVE ~frames'[1].items
  BY DEF Rooted
<1>1. frames \in Seq(Frame)
  BY DEF TypeInv, TypeOK
<1>2. ASSUME frames # <<>>, frames' = Pop PROVE ~frames'[1].items
  <2>1. 1 \in 1..(Len(frames) - 1) /\ Pop[1] = frames[1]
    BY <1>1, <1>2, PopFacts
  <2>2. QED
    BY <1>2, <2>1 DEF Rooted
<1>3. ASSUME frames # <<>> PROVE Moved[1].items = frames[1].items /\ 1 \in 1..Len(Moved)
  <2>1. CASE Len(frames) = 1
    BY <1>1, <1>3, <2>1, MovedFacts DEF frame
  <2>2. CASE Len(frames) # 1
    BY <1>1, <1>3, <2>2, MovedFacts
  <2>3. QED
    BY <2>1, <2>2
<1>4. CASE Consume
  <2>1. Asking /\ frames # <<>>
    BY <1>4 DEF Consume, Asking, Reading
  <2>2. CASE frame.items
    <3>1. frames' = Append(frames, Inside(frame.def, FALSE))
      BY <1>4, <2>2 DEF Consume
    <3>2. 1 \in 1..Len(frames)
      BY <1>1, <2>1
    <3>3. frames'[1] = frames[1]
      BY <1>1, <2>1, <2>2, <3>1, <3>2, TopFacts, InsideFrame, PushFacts
    <3>4. QED
      BY <2>1, <3>3 DEF Rooted
  <2>3. CASE ~frame.items /\ Kind[Kid] = "leaf"
    BY <1>3, <1>4, <2>1, <2>3 DEF Consume, Rooted
  <2>4. CASE ~frame.items /\ Kind[Kid] # "leaf"
    <3>1. Inside(Kid, Kind[Kid] = "list") \in Frame /\ Moved \in Seq(Frame)
      BY <1>1, <2>1, <2>4, TopFacts, InsideFrame, MovedFacts
    <3>2. frames'[1] = Moved[1]
      BY <1>3, <1>4, <2>1, <2>4, <3>1, PushFacts DEF Consume
    <3>3. QED
      BY <1>3, <2>1, <3>2 DEF Rooted
  <2>5. QED
    BY <2>2, <2>3, <2>4
<1>5. CASE NotThere
  BY <1>2, <1>3, <1>5 DEF NotThere, Asking, Reading, Rooted
<1>6. CASE Leave
  BY <1>2, <1>6 DEF Leave, Reading
<1>7. CASE Send \/ EditDone \/ Close \/ EditFails \/ ReaderFails \/ UNCHANGED vars
  BY <1>7 DEF Send, EditDone, Close, EditFails, ReaderFails, vars, Rooted
<1>8. QED
  BY <1>4, <1>5, <1>6, <1>7 DEF Next, Write, Read

THEOREM PipeTypes == Spec => [](TypeInv /\ Rooted)
<1>1. Init => Rooted
  BY FirstFrame DEF Rooted
<1>2. QED
  BY <1>1, TypeInit, TypeStep, RootStep, PTL DEF Spec

\* TypeOK: the reader is done when it has no activation left, and no sooner, and an
\* edit that has ended has nothing left to write.
THEOREM TypeCorrect == Spec => []TypeOK
<1>1. TypeInv => TypeOK
  BY DEF TypeInv
<1>2. QED
  BY <1>1, PipeTypes, PTL
-----------------------------------------------------------------------------
(***************************************************************************)
(* How the reader's activations nest.                                      *)
(***************************************************************************)
InLists == CHOOSE under \in SUBSET Def : ListsHold(under)

\* g is in the definition that f has asked for last, or in an item of its list.
Under(f, g) ==
  IF f.items THEN g.def = f.def /\ ~g.items
  ELSE /\ f.i - 1 \in DOMAIN Kids[f.def] /\ g.def = Kids[f.def][f.i - 1]
       /\ (g.items <=> Kind[g.def] = "list")

\* No two activations are at work on one definition, and only one on a list.
Nested(fs) ==
  /\ fs # <<>> => fs[1].def = Module
  /\ \A k \in 1..Len(fs) : fs[k].items => Kind[fs[k].def] = "list"
  /\ \A k \in 1..(Len(fs) - 1) : Under(fs[k], fs[k + 1])
  /\ \A j, k \in 1..Len(fs) :
       j < k /\ ~fs[j].items /\ ~fs[k].items => fs[j].def # fs[k].def
  /\ \A j, k \in 1..Len(fs) :
       j < k /\ fs[j].items =>
         ~fs[k].items /\ \A a \in DOMAIN Kids[fs[k].def] : Kids[fs[k].def][a] \in InLists

LEMMA InListsFacts ==
  ASSUME FlatLists
  PROVE  /\ \A d \in Def : Kind[d] = "list" \/ d \in InLists =>
              \A a \in DOMAIN Kids[d] : Kids[d][a] \in InLists
         /\ \A d \in InLists : Kind[d] # "list"
<1>1. InLists \in SUBSET Def /\ ListsHold(InLists)
  BY DEF FlatLists, InLists
<1>2. QED
  BY <1>1 DEF ListsHold

\* Where two activations differ only in how far they are, so do their nestings.
LEMMA NestedPrefix ==
  ASSUME NEW fs \in Seq(Frame), NEW t \in Seq(Frame), Nested(fs), Len(t) <= Len(fs),
         \A k \in 1..Len(t) : t[k].def = fs[k].def /\ t[k].items = fs[k].items,
         \A k \in 1..(Len(t) - 1) : t[k].i = fs[k].i
  PROVE  Nested(t)
<1>1. Len(fs) \in Nat /\ Len(t) \in Nat
  OBVIOUS
<1>2. t # <<>> => 1 \in 1..Len(t) /\ fs # <<>>
  BY <1>1
<1>3. \A k \in 1..(Len(t) - 1) : Under(t[k], t[k + 1])
  <2>1. ASSUME NEW k \in 1..(Len(t) - 1) PROVE Under(t[k], t[k + 1])
    <3>1. k \in 1..Len(t) /\ k + 1 \in 1..Len(t) /\ k \in 1..(Len(fs) - 1)
      BY <1>1
    <3>2. Under(fs[k], fs[k + 1])
      BY <3>1 DEF Nested
    <3>3. /\ t[k].def = fs[k].def /\ t[k].items = fs[k].items /\ t[k].i = fs[k].i
          /\ t[k + 1].def = fs[k + 1].def /\ t[k + 1].items = fs[k + 1].items
      BY <3>1
    <3>4. QED
      BY <3>2, <3>3 DEF Under
  <2>2. QED
    BY <2>1
<1>4. \A k \in 1..Len(t) : k \in 1..Len(fs)
  BY <1>1
<1>5. \A k \in 1..Len(t) : t[k].items => Kind[t[k].def] = "list"
  BY <1>4 DEF Nested
<1>6. ASSUME NEW j \in 1..Len(t), NEW k \in 1..Len(t), j < k
      PROVE  /\ ~t[j].items /\ ~t[k].items => t[j].def # t[k].def
             /\ t[j].items => /\ ~t[k].items
                              /\ \A a \in DOMAIN Kids[t[k].def] : Kids[t[k].def][a] \in InLists
  <2>1. /\ j \in 1..Len(fs) /\ k \in 1..Len(fs)
        /\ t[j].def = fs[j].def /\ t[j].items = fs[j].items
        /\ t[k].def = fs[k].def /\ t[k].items = fs[k].items
    BY <1>4
  <2>2. QED
    BY <1>6, <2>1, ZenonT(60) DEF Nested
<1>7. t # <<>> => t[1].def = Module
  BY <1>2 DEF Nested
<1>8. QED
  BY <1>3, <1>5, <1>6, <1>7 DEF Nested

LEMMA NestedPush ==
  ASSUME NamedOnce, FlatLists,
         NEW fs \in Seq(Frame), NEW g \in Frame, NEW t, t = Append(fs, g), fs # <<>>,
         Nested(fs), Under(fs[Len(fs)], g), ~fs[1].items, Kind[g.def] # "leaf"
  PROVE  Nested(t)
<1> DEFINE L == Len(fs)
           f == fs[L]
<1>1. L \in Nat \ {0} /\ f \in Frame /\ f.def \in Def /\ g.def \in Def /\ 1 \in 1..L
      /\ \A k \in 1..L : fs[k] \in Frame /\ fs[k].def \in Def /\ fs[k].items \in BOOLEAN
  <2>1. L \in Nat \ {0} /\ \A k \in 1..L : fs[k] \in Frame
    OBVIOUS
  <2>2. 1 \in 1..L /\ L \in 1..L
    BY <2>1
  <2> HIDE DEF L
  <2>3. QED
    BY <2>1, <2>2 DEF Frame, f
<1>2. /\ Len(t) = L + 1 /\ t[L + 1] = g /\ \A k \in 1..L : t[k] = fs[k]
  BY PushFacts
<1>3. Under(f, g)
  OBVIOUS
<1> HIDE DEF L, f
<1>4. t[1].def = Module
  BY <1>1, <1>2 DEF Nested
<1>5. ASSUME NEW k \in 1..(L + 1), t[k].items PROVE Kind[t[k].def] = "list"
  <2>1. CASE k \in 1..L
    BY <1>2, <1>5, <2>1 DEF Nested, L
  <2>2. CASE k = L + 1
    BY <1>2, <1>3, <1>5, <2>2 DEF Under
  <2>3. k \in 1..L \/ k = L + 1
    BY <1>1
  <2>4. QED
    BY <2>1, <2>2, <2>3
<1>6. ASSUME NEW k \in 1..L PROVE Under(t[k], t[k + 1])
  <2>1. CASE k = L
    BY <1>2, <1>3, <2>1, <1>1 DEF f
  <2>2. CASE k # L
    <3>1. k \in 1..(Len(fs) - 1) /\ k \in 1..L /\ k + 1 \in 1..L
      BY <1>1, <2>2 DEF L
    <3>2. QED
      BY <1>2, <3>1 DEF Nested
  <2>3. QED
    BY <2>1, <2>2
\* What is directly under an activation that asks for definitions.
<1>7. ASSUME NEW k \in 1..(L - 1)
      PROVE  k \in 1..L /\ k + 1 \in 1..L /\ Under(fs[k], fs[k + 1])
  BY <1>1 DEF Nested, L
<1>8. ASSUME NEW j \in 1..L, ~fs[j].items, ~g.items PROVE fs[j].def # g.def
  <2> SUFFICES ASSUME fs[j].def = g.def PROVE FALSE
    OBVIOUS
  <2>1. PICK d \in Def : \E a \in DOMAIN Kids[d] : g.def = Kids[d][a] /\
                           \E k \in 1..L : ~fs[k].items /\ fs[k].def = d /\ (k = L \/ (k = L - 1 /\ f.items))
    <3>1. CASE f.items
      <4>1. L # 1 /\ L - 1 \in 1..(L - 1) /\ L - 1 \in 1..L /\ (L - 1) + 1 = L
        BY <1>1, <3>1 DEF f
      <4>2. Under(fs[L - 1], f)
        BY <1>7, <4>1 DEF f
      <4>3. ~fs[L - 1].items
        BY <3>1, <4>2 DEF Under
      <4>4. g.def = f.def
        BY <1>3, <3>1 DEF Under
      <4>5. /\ fs[L - 1].i - 1 \in DOMAIN Kids[fs[L - 1].def]
            /\ f.def = Kids[fs[L - 1].def][fs[L - 1].i - 1]
        BY <4>2, <4>3 DEF Under
      <4>6. QED
        BY <1>1, <3>1, <4>1, <4>3, <4>4, <4>5
    <3>2. CASE ~f.items
      BY <1>1, <1>3, <3>2 DEF Under, f
    <3>3. QED
      BY <3>1, <3>2
  <2>2. PICK a \in DOMAIN Kids[d], k \in 1..L :
          /\ g.def = Kids[d][a] /\ ~fs[k].items /\ fs[k].def = d
          /\ k = L \/ (k = L - 1 /\ f.items)
    BY <2>1
  <2>3. j # 1
    BY <2>2, <1>1 DEF NamedOnce, Nested
  <2>4. j - 1 \in 1..(L - 1) /\ j - 1 \in 1..L /\ (j - 1) + 1 = j /\ j - 1 < j
    BY <2>3, <1>1
  <2>5. Under(fs[j - 1], fs[j])
    BY <1>7, <2>4
  <2>6. CASE fs[j - 1].items
    <3>1. Kind[g.def] = "list"
      BY <1>1, <2>4, <2>5, <2>6 DEF Nested, Under, L
    <3>2. f.items
      <4>1. CASE ~f.items
        BY <1>3, <1>8, <3>1, <4>1 DEF Under
      <4>2. QED
        BY <4>1
    <3>3. j - 1 < L /\ L \in 1..L
      BY <1>1, <2>4
    <3>4. QED
      BY <2>4, <2>6, <3>2, <3>3 DEF Nested, L, f
  <2>7. CASE ~fs[j - 1].items
    <3>1. /\ fs[j - 1].i - 1 \in DOMAIN Kids[fs[j - 1].def]
          /\ g.def = Kids[fs[j - 1].def][fs[j - 1].i - 1]
          /\ Kind[g.def] # "list"
      BY <1>8, <2>5, <2>7 DEF Under
    <3>2. ~f.items
      <4>1. CASE f.items
        BY <1>1, <1>3, <3>1, <4>1, SMTT(40) DEF Under, Nested, L, f
      <4>2. QED
        BY <4>1
    <3>3. fs[j - 1].def = d
      <4> DEFINE e == fs[j - 1].def
                 b == fs[j - 1].i - 1
      <4>1. e \in Def /\ b \in DOMAIN Kids[e] /\ g.def = Kids[e][b]
        BY <1>1, <2>4, <3>1
      <4>2. Kids[e][b] = Kids[d][a]
        BY <4>1, <2>2
      <4> HIDE DEF e, b
      <4>3. e = d
        BY <4>1, <4>2 DEF NamedOnce
      <4>4. QED
        BY <4>3 DEF e
    <3>4. j - 1 < L
      BY <1>1, <2>4
    <3>5. QED
      BY <2>2, <2>4, <2>7, <3>2, <3>3, <3>4 DEF Nested, L
  <2>8. QED
    BY <2>6, <2>7
<1>9. ASSUME NEW j \in 1..L, fs[j].items
      PROVE  ~g.items /\ \A a \in DOMAIN Kids[g.def] : Kids[g.def][a] \in InLists
  <2>1. CASE j = L
    BY <1>1, <1>3, <1>9, <2>1, InListsFacts DEF Under, Nested, L, f
  <2>2. CASE j # L
    <3>1. j < L /\ L \in 1..L
      BY <1>1, <2>2
    <3>2. ~f.items /\ \A a \in DOMAIN Kids[f.def] : Kids[f.def][a] \in InLists
      BY <1>9, <3>1 DEF Nested, L, f
    <3>3. g.def \in InLists /\ (g.items <=> Kind[g.def] = "list")
      BY <1>3, <3>2 DEF Under
    <3>4. QED
      BY <1>1, <3>3, InListsFacts
  <2>3. QED
    BY <2>1, <2>2
<1>10. ASSUME NEW j \in 1..(L + 1), NEW k \in 1..(L + 1), j < k
       PROVE  /\ ~t[j].items /\ ~t[k].items => t[j].def # t[k].def
              /\ t[j].items => /\ ~t[k].items
                               /\ \A a \in DOMAIN Kids[t[k].def] : Kids[t[k].def][a] \in InLists
  <2>1. j \in 1..L /\ t[j] = fs[j]
    BY <1>1, <1>2, <1>10
  <2>2. CASE k = L + 1
    BY <1>2, <1>8, <1>9, <2>1, <2>2
  <2>3. CASE k # L + 1
    <3>1. k \in 1..L /\ t[k] = fs[k]
      BY <1>1, <1>2, <2>3
    <3>2. QED
      BY <1>10, <2>1, <3>1 DEF Nested, L
  <2>4. QED
    BY <2>2, <2>3
<1>11. (L + 1) - 1 = L
  BY <1>1
<1>12. Len(t) = L + 1 /\ Len(t) - 1 = L
  BY <1>2, <1>11
<1>13. \A k \in 1..(Len(t) - 1) : Under(t[k], t[k + 1])
  BY <1>6, <1>12
<1>14. \A k \in 1..Len(t) : t[k].items => Kind[t[k].def] = "list"
  BY <1>5, <1>12
<1>15. \A j, k \in 1..Len(t) : j < k =>
         /\ ~t[j].items /\ ~t[k].items => t[j].def # t[k].def
         /\ t[j].items => /\ ~t[k].items
                          /\ \A a \in DOMAIN Kids[t[k].def] : Kids[t[k].def][a] \in InLists
  BY <1>10, <1>12
<1>16. QED
  BY <1>4, <1>13, <1>14, <1>15 DEF Nested
LEMMA NestedPop ==
  ASSUME frames \in Seq(Frame), frames # <<>>, Nested(frames)
  PROVE  Nested(Pop)
<1>1. /\ Pop \in Seq(Frame) /\ Len(Pop) = Len(frames) - 1 /\ Len(frames) \in Nat
      /\ \A k \in 1..(Len(frames) - 1) : Pop[k] = frames[k]
  BY PopFacts
<1>2. /\ Len(Pop) <= Len(frames)
      /\ \A k \in 1..Len(Pop) : Pop[k] = frames[k]
      /\ \A k \in 1..(Len(Pop) - 1) : Pop[k] = frames[k]
  BY <1>1
<1>3. QED
  BY <1>1, <1>2, NestedPrefix

LEMMA NestedMoved ==
  ASSUME frames \in Seq(Frame), frames # <<>>, Nested(frames)
  PROVE  Nested(Moved) /\ Moved[1].items = frames[1].items
<1>1. /\ Moved \in Seq(Frame) /\ Len(Moved) = Len(frames) /\ Len(frames) \in Nat \ {0}
      /\ Moved[Len(frames)].def = frame.def /\ Moved[Len(frames)].items = frame.items
      /\ \A k \in 1..(Len(frames) - 1) : Moved[k] = frames[k]
  BY MovedFacts
<1>2. \A k \in 1..Len(frames) : k = Len(frames) \/ k \in 1..(Len(frames) - 1)
  BY <1>1
<1>3. \A k \in 1..Len(Moved) : Moved[k].def = frames[k].def /\ Moved[k].items = frames[k].items
  BY <1>1, <1>2 DEF frame
<1>4. Len(Moved) <= Len(frames) /\ 1 \in 1..Len(Moved)
      /\ \A k \in 1..(Len(Moved) - 1) : Moved[k].i = frames[k].i
  BY <1>1
<1>5. QED
  BY <1>1, <1>3, <1>4, NestedPrefix

LEMMA NestedStep ==
  ASSUME NamedOnce, FlatLists, TypeInv, Rooted, Nested(frames), [Next]_vars
  PROVE  Nested(frames')
<1>1. frames \in Seq(Frame)
  BY DEF TypeInv, TypeOK
<1>2. CASE Consume
  <2>1. Asking /\ frames # <<>> /\ Len(frames) \in Nat \ {0}
    BY <1>1, <1>2, TopFacts DEF Consume
  <2>2. CASE frame.items
    <3>1. /\ Inside(frame.def, FALSE) \in Frame /\ Inside(frame.def, FALSE).def = frame.def
          /\ ~Inside(frame.def, FALSE).items
      BY <1>1, <2>1, TopFacts, InsideFrame
    <3>2. Under(frames[Len(frames)], Inside(frame.def, FALSE))
      BY <2>2, <3>1 DEF Under, frame
    <3>3. Kind[frame.def] = "list"
      BY <2>1, <2>2 DEF Nested, frame
    <3>4. frames' = Append(frames, Inside(frame.def, FALSE))
      BY <1>2, <2>2 DEF Consume
    <3>5. QED
      BY <1>1, <2>1, <3>1, <3>2, <3>3, <3>4, NestedPush DEF Rooted
  <2>3. CASE ~frame.items /\ Kind[Kid] = "leaf"
    BY <1>1, <1>2, <2>1, <2>3, NestedMoved DEF Consume
  <2>4. CASE ~frame.items /\ Kind[Kid] # "leaf"
    <3> DEFINE g == Inside(Kid, Kind[Kid] = "list")
    <3>1. g \in Frame /\ g.def = Kid /\ (g.items <=> Kind[Kid] = "list")
      BY <1>1, <2>1, <2>4, TopFacts, InsideFrame
    <3>2. /\ Moved \in Seq(Frame) /\ Moved # <<>> /\ Len(Moved) = Len(frames)
          /\ Moved[Len(frames)].def = frame.def /\ Moved[Len(frames)].items = frame.items
          /\ Moved[Len(frames)].i = frame.i + 1
      BY <1>1, <2>1, MovedFacts
    <3>3. /\ frame.i \in Nat /\ frame.i \in DOMAIN Kids[frame.def]
          /\ Kid = Kids[frame.def][frame.i]
      BY <1>1, <2>1, <2>4, TopFacts
    <3>4. Nested(Moved) /\ ~Moved[1].items
      BY <1>1, <2>1, NestedMoved DEF Rooted
    <3>5. frames' = Append(Moved, g)
      BY <1>2, <2>4 DEF Consume
    <3> HIDE DEF g
    <3>6. Under(Moved[Len(Moved)], g)
      <4>1. Moved[Len(Moved)].i - 1 = frame.i
        BY <3>2, <3>3
      <4>2. QED
        BY <2>4, <3>1, <3>2, <3>3, <4>1 DEF Under
    <3>7. QED
      BY <2>4, <3>1, <3>2, <3>4, <3>5, <3>6, NestedPush
  <2>5. QED
    BY <2>2, <2>3, <2>4
<1>3. CASE NotThere
  BY <1>1, <1>3, NestedPop, NestedMoved DEF NotThere, Asking, Reading
<1>4. CASE Leave
  BY <1>1, <1>4, NestedPop DEF Leave, Reading
<1>5. CASE Send \/ EditDone \/ Close \/ EditFails \/ ReaderFails \/ UNCHANGED vars
  BY <1>5 DEF Send, EditDone, Close, EditFails, ReaderFails, vars
<1>6. QED
  BY <1>2, <1>3, <1>4, <1>5 DEF Next, Write, Read
-----------------------------------------------------------------------------
(***************************************************************************)
(* What has been sent and what is left to send.                            *)
(***************************************************************************)
Waiting == position # None /\ position.tok # "end"
Depth == sent[Len(sent)].depth

\* The definition y comes after x.
Before(x, y) ==
  \E d \in Def : \E a, b \in DOMAIN Kids[d] : a < b /\ Kids[d][a] = x /\ Kids[d][b] = y

\* What n is the activation f has still to ask for.
Fits(n, f) ==
  IF f.items THEN n.tok = "item" /\ n.def = f.def
  ELSE /\ n.tok = TokenOf(n.def)
       /\ \E a \in DOMAIN Kids[f.def] : a >= f.i /\ Kids[f.def][a] = n.def

\* What the reader will do first with what is in the message it holds.
Opened == Inside(position.def, position.tok = "select" /\ Kind[position.def] = "list")

\* All that was sent was read, but for the message the reader holds, which it is on
\* the way to ask for.
Logs ==
  IF Waiting
  THEN /\ sent = Append(got, Logged(Depth, position.def, position))
       /\ Depth \in 1..Len(frames) /\ Fits(position, frames[Depth])
  ELSE sent = got

\* So it is of all that is left to write, in what it holds or after it.
Due(e) ==
  IF Waiting /\ e.depth > Depth
  THEN e.depth = Depth + 1 /\ position.tok # "leaf" /\ Fits(e.node, Opened)
  ELSE /\ e.depth \in 1..Len(frames) /\ Fits(e.node, frames[e.depth])
       /\ Waiting /\ e.depth = Depth /\ ~frames[Depth].items => Before(position.def, e.node.def)

Follows(e, f) ==
  /\ e.depth >= f.depth
  /\ e.depth = f.depth /\ e.node.tok # "item" => Before(e.node.def, f.node.def)

Ended == position # None /\ position.tok = "end" => writer = "done" /\ position.err = failed

Log == [depth : Nat, tok : {"leaf", "select", "item"}, def : Def, val : {node.val : node \in Node}]

Stream ==
  /\ got \in Seq(Log) /\ sent \in Seq(Log)
  /\ Logs
  /\ \A n \in 1..Len(todo) : Due(todo[n])
  /\ \A n, o \in 1..Len(todo) : n < o => Follows(todo[n], todo[o])
  /\ Ended

LEMMA MsgFacts ==
  ASSUME NEW node \in Node
  PROVE  /\ Msg(node).tok = node.tok /\ Msg(node).def = node.def /\ Msg(node).val = node.val
         /\ ~Msg(node).err /\ Msg(node) # None /\ node.tok # "end" /\ node.def \in Def
         /\ node.tok \in {"leaf", "select", "item"}
  BY NoneAssumption, ContentsAssumption DEF Msg, TokenOf

LEMMA EndFacts ==
  ASSUME NEW err \in BOOLEAN
  PROVE  End(err) # None /\ End(err).tok = "end" /\ End(err).err = err
  BY NoneAssumption DEF End

\* The message the reader holds.
LEMMA PositionFacts ==
  ASSUME TypeInv, position # None
  PROVE  /\ Waiting => /\ ~position.err /\ position.def \in Def
                       /\ position.tok \in {"leaf", "select", "item"}
                       /\ position.val \in {node.val : node \in Node}
         /\ ~Waiting => position.tok = "end" /\ position.err \in BOOLEAN
                        /\ ~(position.tok \in {"leaf", "select", "item"})
<1>1. CASE \E err \in BOOLEAN : position = End(err)
  BY <1>1, EndFacts DEF Waiting
<1>2. CASE \E node \in Node : position = Msg(node)
  BY <1>2, MsgFacts DEF Waiting
<1>3. QED
  BY <1>1, <1>2 DEF TypeInv

LEMMA LoggedFacts ==
  ASSUME NEW depth \in Nat, NEW def \in Def, NEW msg, msg.tok \in {"leaf", "select", "item"},
         msg.val \in {node.val : node \in Node}
  PROVE  Logged(depth, def, msg) \in Log /\ Logged(depth, def, msg).depth = depth
  BY DEF Logged, Log

\* What is in a node is in its definition, in order.
LEMMA KidsFacts ==
  ASSUME NEW n \in Node
  PROVE  /\ \A k \in 1..Len(n.kids) :
              /\ n.tok # "leaf"
              /\ Fits(n.kids[k], Inside(n.def, n.tok = "select" /\ Kind[n.def] = "list"))
         /\ \A j, k \in 1..Len(n.kids) :
              j < k /\ n.kids[j].tok # "item" => Before(n.kids[j].def, n.kids[k].def)
<1>1. n.def \in Def /\ n.kids \in Seq(Node) /\ n.tok \in {TokenOf(n.def), "item"}
  BY ContentsAssumption
<1>2. DOMAIN n.kids = 1..Len(n.kids)
  BY <1>1
<1>3. n.tok = "leaf" => n.kids = <<>>
  BY ContentsAssumption
<1>4. CASE n.tok = "leaf"
  BY <1>3, <1>4
<1>5. CASE n.tok = "select" /\ Kind[n.def] = "list"
  <2>1. \A k \in 1..Len(n.kids) : n.kids[k].tok = "item" /\ n.kids[k].def = n.def
    BY <1>2, <1>5, ContentsAssumption
  <2>2. /\ Inside(n.def, TRUE).items /\ Inside(n.def, TRUE).def = n.def
    BY DEF Inside
  <2>3. QED
    BY <1>5, <2>1, <2>2 DEF Fits
<1>6. CASE n.tok # "leaf" /\ ~(n.tok = "select" /\ Kind[n.def] = "list")
  <2>1. InOrder(n.def, n.kids)
    BY <1>6, ContentsAssumption
  <2>2. /\ ~Inside(n.def, FALSE).items /\ Inside(n.def, FALSE).def = n.def
        /\ Inside(n.def, FALSE).i = 1
    BY DEF Inside
  <2>3. \A a \in DOMAIN Kids[n.def] : a >= 1
    BY <1>1, PipeAssumption
  <2>4. ASSUME NEW k \in 1..Len(n.kids) PROVE Fits(n.kids[k], Inside(n.def, FALSE))
    <3>1. /\ n.kids[k].tok = TokenOf(n.kids[k].def)
          /\ \E a \in DOMAIN Kids[n.def] : Kids[n.def][a] = n.kids[k].def
      BY <1>2, <2>1 DEF InOrder
    <3>2. QED
      BY <2>2, <2>3, <3>1 DEF Fits
  <2>5. \A j, k \in 1..Len(n.kids) : j < k => Before(n.kids[j].def, n.kids[k].def)
    BY <1>1, <1>2, <2>1 DEF InOrder, Before
  <2>6. QED
    BY <1>6, <2>4, <2>5
<1>7. QED
  BY <1>4, <1>5, <1>6

LEMMA StreamInit == Init => Stream
<1> SUFFICES ASSUME Init PROVE Stream
  OBVIOUS
<1>1. PICK nodes \in Contents : todo = At(1, nodes)
  BY DEF Init
<1>2. nodes \in Seq(Node) /\ InOrder(Module, nodes) /\ Module \in Def
  BY ContentsAssumption, PipeAssumption
<1>3. /\ Len(todo) = Len(nodes) /\ DOMAIN nodes = 1..Len(nodes)
      /\ \A n \in 1..Len(nodes) : todo[n].node = nodes[n] /\ todo[n].depth = 1
  BY <1>1, <1>2, EntryFacts
<1>4. /\ Len(frames) = 1 /\ frames[1].def = Module /\ ~frames[1].items /\ frames[1].i = 1
  BY FirstFrame
<1>5. ~Waiting /\ position = None /\ sent = <<>> /\ got = <<>>
  BY DEF Init, Waiting
<1>6. \A a \in DOMAIN Kids[Module] : a >= 1
  BY PipeAssumption
<1>7. \A n \in 1..Len(nodes) : Fits(nodes[n], frames[1])
  BY <1>2, <1>3, <1>4, <1>6 DEF InOrder, Fits
<1>8. \A n \in 1..Len(todo) : Due(todo[n])
  BY <1>3, <1>4, <1>5, <1>7 DEF Due
<1>9. \A n, o \in 1..Len(todo) : n < o => Follows(todo[n], todo[o])
  BY <1>2, <1>3 DEF InOrder, Follows, Before
<1>10. QED
  BY <1>5, <1>8, <1>9 DEF Stream, Logs, Ended
\* What is added last is what is there last.
LEMMA LastLogged ==
  ASSUME NEW s \in Seq(Log), NEW e \in Log
  PROVE  /\ Append(s, e) \in Seq(Log) /\ Append(s, e)[Len(Append(s, e))] = e
         /\ Append(s, e) # s
  OBVIOUS

LEMMA SendStream ==
  ASSUME TypeInv, Stream, Send
  PROVE  Stream'
<1> DEFINE w == todo[1]
           n == w.node
           k == Len(n.kids)
<1>1. /\ todo \in Seq(Entry) /\ todo # <<>> /\ position = None /\ ~Waiting
  BY DEF TypeInv, Send, Receiving, Waiting
<1>2. /\ Head(todo) = w /\ n \in Node /\ w.depth \in Nat \ {0} /\ k \in Nat
      /\ Rest \in Seq(Entry) /\ Len(Rest) = k + Len(todo) - 1
      /\ \A m \in 1..k : Rest[m].node = n.kids[m] /\ Rest[m].depth = w.depth + 1
      /\ \A m \in (k + 1)..Len(Rest) : Rest[m] = todo[m - k + 1]
  BY <1>1, RestFacts
<1>3. /\ position' = Msg(n) /\ todo' = Rest /\ UNCHANGED <<writer, failed, reader, frames, got>>
      /\ sent' = Append(sent, Logged(w.depth, n.def, Msg(n)))
  BY <1>2 DEF Send, Rest
<1>4. Len(todo) \in Nat \ {0} /\ 1 \in 1..Len(todo)
  BY <1>1
<1> HIDE DEF w, n, k
<1>5. /\ Msg(n).tok = n.tok /\ Msg(n).def = n.def /\ Msg(n).val = n.val
      /\ ~Msg(n).err /\ Msg(n) # None /\ n.tok # "end" /\ n.def \in Def
      /\ n.tok \in {"leaf", "select", "item"}
  BY <1>2, MsgFacts
<1>6. Waiting' /\ position'.tok = n.tok /\ position'.def = n.def
  BY <1>3, <1>5 DEF Waiting
<1>7. sent' \in Seq(Log) /\ Depth' = w.depth
  <2> DEFINE e == Logged(w.depth, n.def, Msg(n))
  <2>1. e \in Log /\ e.depth = w.depth
    <3>1. Msg(n).tok \in {"leaf", "select", "item"}
      BY <1>5
    <3>2. n.val \in {node.val : node \in Node}
      BY <1>2
    <3>3. w.depth \in Nat /\ Msg(n).val \in {node.val : node \in Node}
      BY <1>2, <1>5, <3>2
    <3>4. QED
      BY <1>5, <3>1, <3>3, LoggedFacts
  <2>2. sent \in Seq(Log) /\ sent' = Append(sent, e)
    BY <1>3 DEF Stream
  <2> HIDE DEF e
  <2>3. QED
    BY <2>1, <2>2, LastLogged DEF Depth
<1>8. \A m \in 1..Len(todo) : todo[m].depth \in 1..Len(frames) /\ Fits(todo[m].node, frames[todo[m].depth])
  BY <1>1 DEF Stream, Due
<1>9. w.depth \in 1..Len(frames) /\ Fits(n, frames[w.depth])
  BY <1>4, <1>8 DEF w, n
<1>10. Fits(position', frames[w.depth])
  BY <1>6, <1>9 DEF Fits
<1>11. Logs'
  <2>1. sent' = Append(got', Logged(Depth', position'.def, position'))
    BY <1>1, <1>3, <1>5, <1>7 DEF Stream, Logs
  <2>2. QED
    BY <1>3, <1>6, <1>7, <1>9, <1>10, <2>1 DEF Logs
<1>12. Opened' = Inside(n.def, n.tok = "select" /\ Kind[n.def] = "list")
  BY <1>6 DEF Opened
<1>13. ASSUME NEW m \in 1..k, NEW e, e = Rest[m] PROVE Due(e)'
  <2>1. n.tok # "leaf" /\ Fits(n.kids[m], Opened')
    BY <1>2, <1>12, KidsFacts DEF k
  <2>2. e.node = n.kids[m] /\ e.depth = w.depth + 1
    BY <1>2, <1>13
  <2>3. e.depth > Depth'
    BY <1>2, <1>7, <2>2
  <2>4. QED
    BY <1>3, <1>6, <1>7, <2>1, <2>2, <2>3 DEF Due
\* What was left before, after the first.
<1>14. ASSUME NEW m \in (k + 1)..Len(Rest)
       PROVE  /\ m - k + 1 \in 1..Len(todo) /\ m - k + 1 > 1 /\ Rest[m] = todo[m - k + 1]
              /\ Follows(w, todo[m - k + 1])
  <2>1. m - k + 1 \in 1..Len(todo) /\ 1 < m - k + 1
    BY <1>2, <1>4
  <2>2. Follows(todo[1], todo[m - k + 1])
    BY <1>4, <2>1 DEF Stream
  <2>3. QED
    BY <1>2, <2>1, <2>2 DEF w
<1>15. ASSUME NEW m \in (k + 1)..Len(Rest), NEW e, e = Rest[m] PROVE Due(e)'
  <2>1. e.depth \in 1..Len(frames) /\ Fits(e.node, frames[e.depth]) /\ Follows(w, e)
    BY <1>8, <1>14, <1>15
  <2>2. e.depth <= Depth'
    BY <1>2, <1>7, <2>1 DEF Follows
  <2>3. ASSUME e.depth = Depth', ~frames[Depth'].items PROVE Before(n.def, e.node.def)
    <3>1. n.tok # "item"
      BY <1>7, <1>9, <2>3, <1>5 DEF Fits, TokenOf
    <3>2. QED
      BY <1>7, <2>1, <2>3, <3>1 DEF Follows, n
  <2>4. ~(e.depth > Depth')
    BY <1>2, <1>7, <2>1, <2>2
  <2>5. QED
    BY <1>3, <1>6, <2>1, <2>3, <2>4 DEF Due
<1>16. (\A m \in 1..Len(todo) : Due(todo[m]))'
  <2>1. \A m \in 1..Len(Rest) : m \in 1..k \/ m \in (k + 1)..Len(Rest)
    BY <1>2, <1>4
  <2>2. QED
    BY <1>3, <1>13, <1>15, <2>1
<1>17. ASSUME NEW l \in 1..Len(Rest), NEW m \in 1..Len(Rest), l < m
       PROVE  Follows(Rest[l], Rest[m])
  <2>1. CASE m \in 1..k
    <3>1. l \in 1..k
      BY <1>2, <1>17, <2>1
    <3>2. /\ Rest[l].node = n.kids[l] /\ Rest[l].depth = w.depth + 1
          /\ Rest[m].node = n.kids[m] /\ Rest[m].depth = w.depth + 1
      BY <1>2, <2>1, <3>1
    <3>3. n.kids[l].tok # "item" => Before(n.kids[l].def, n.kids[m].def)
      BY <1>2, <1>17, <2>1, <3>1, KidsFacts DEF k
    <3>4. QED
      BY <1>2, <3>2, <3>3 DEF Follows
  <2>2. CASE m \in (k + 1)..Len(Rest) /\ l \in 1..k
    <3>1. Rest[l].depth = w.depth + 1 /\ Follows(w, Rest[m]) /\ Rest[m] \in Entry
      BY <1>2, <1>14, <2>2
    <3>2. QED
      BY <1>2, <3>1, SMTT(60) DEF Follows, Entry
  <2>3. CASE m \in (k + 1)..Len(Rest) /\ l \in (k + 1)..Len(Rest)
    <3>1. l - k + 1 < m - k + 1
      BY <1>2, <1>17, <2>3
    <3>2. QED
      BY <1>14, <2>3, <3>1 DEF Stream
  <2>4. QED
    <3>1. \A j \in 1..Len(Rest) : j \in 1..k \/ j \in (k + 1)..Len(Rest)
      BY <1>2, <1>4
    <3>2. QED
      BY <2>1, <2>2, <2>3, <3>1
<1>18. \A l, m \in 1..Len(todo') : l < m => Follows(todo'[l], todo'[m])
  BY <1>3, <1>17
<1>19. Ended'
  BY <1>6 DEF Waiting, Ended
<1>20. QED
  BY <1>3, <1>7, <1>11, <1>16, <1>18, <1>19 DEF Stream, Follows, Before

\* Nothing of what the reader does alone or the writer without a message to it.
LEMMA QuietStream ==
  ASSUME TypeInv, Stream, EditDone \/ EditFails \/ Close \/ ReaderFails \/ UNCHANGED vars
  PROVE  Stream'
<1>1. got' = got /\ sent' = sent /\ frames' = frames
  BY DEF EditDone, EditFails, Close, ReaderFails, vars
<1>2. CASE EditDone \/ EditFails \/ ReaderFails \/ UNCHANGED vars
  <2>1. /\ position' = position
        /\ todo' = todo \/ todo' = <<>>
        /\ writer = "done" => writer' = "done" /\ failed' = failed
    BY <1>2 DEF EditDone, EditFails, ReaderFails, vars
  <2>2. (Waiting' <=> Waiting) /\ Depth' = Depth /\ Opened' = Opened
    BY <1>1, <2>1 DEF Waiting, Depth, Opened
  <2>3. Logs'
    BY <1>1, <2>1, <2>2 DEF Stream, Logs
  <2>4. ASSUME NEW e, Due(e) PROVE Due(e)'
    BY <1>1, <2>1, <2>2, <2>4 DEF Due, Before
  <2>5. (\A n \in 1..Len(todo) : Due(todo[n]))'
    BY <2>1, <2>4 DEF Stream
  <2>6. \A n, o \in 1..Len(todo') : n < o => Follows(todo'[n], todo'[o])
    BY <2>1 DEF Stream
  <2>7. Ended'
    BY <2>1 DEF Stream, Ended
  <2>8. QED
    BY <1>1, <2>3, <2>5, <2>6, <2>7 DEF Stream, Follows, Before
<1>3. CASE Close
  <2>1. /\ position = None /\ position' = End(failed) /\ writer' = "done" /\ failed' = failed
        /\ todo' = <<>> /\ failed \in BOOLEAN
    BY <1>3 DEF Close, Receiving, TypeInv, TypeOK
  <2>2. ~Waiting' /\ ~Waiting
    BY <2>1, EndFacts DEF Waiting
  <2>3. Logs'
    BY <1>1, <2>2 DEF Stream, Logs
  <2>4. Ended'
    BY <2>1, EndFacts DEF Ended
  <2>5. QED
    BY <1>1, <2>1, <2>3, <2>4 DEF Stream
<1>4. QED
  BY <1>2, <1>3
-----------------------------------------------------------------------------
(***************************************************************************)
(* What the reader asks for and what it holds.                             *)
(***************************************************************************)
PipeInv == TypeInv /\ Rooted /\ Nested(frames) /\ Stream

\* What matches was sent for the activation that asks; what does not is for one that
\* asks for something else first.
LEMMA TopDue ==
  ASSUME NamedOnce, PipeInv, Asking, Waiting
  PROVE  /\ Depth \in 1..Len(frames) /\ Len(frames) \in Nat
         /\ Matches => /\ Depth = Len(frames)
                       /\ position.def = IF frame.items THEN frame.def ELSE Kid
         /\ ~Matches /\ Depth = Len(frames) =>
              /\ ~frame.items /\ position.tok = TokenOf(position.def)
              /\ \E a \in DOMAIN Kids[frame.def] : a >= frame.i + 1 /\ Kids[frame.def][a] = position.def
<1> DEFINE L == Len(frames)
           g == frames[Depth]
<1>1. frames \in Seq(Frame) /\ position # None
  BY DEF PipeInv, TypeInv, TypeOK, Waiting
<1>2. /\ L \in Nat \ {0} /\ frame \in Frame /\ frame.def \in Def
      /\ frame.items \in BOOLEAN /\ frame.i \in Nat \ {0} /\ frame = frames[L]
      /\ ~frame.items => /\ frame.i \in DOMAIN Kids[frame.def] /\ Kid \in Def
                         /\ Kid = Kids[frame.def][frame.i]
  BY <1>1, TopFacts DEF frame
<1>3. Depth \in 1..L /\ Fits(position, g) /\ L \in 1..L
  BY <1>2 DEF PipeInv, Stream, Logs
<1>4. g \in Frame /\ g.def \in Def /\ g.items \in BOOLEAN
  <2>1. g \in Frame
    BY <1>1, <1>3
  <2> HIDE DEF g
  <2>2. QED
    BY <2>1 DEF Frame
<1>5. \A d \in Def : DOMAIN Kids[d] \subseteq Nat
  BY PipeAssumption
<1>6. Depth # L => Depth < L
  BY <1>2, <1>3
<1> HIDE DEF L, g
<1>7. ASSUME Matches
      PROVE  Depth = L /\ position.def = IF frame.items THEN frame.def ELSE Kid
  <2>1. CASE frame.items
    <3>1. position.tok = "item"
      BY <1>7, <2>1 DEF Matches, Asked
    <3>2. g.items
      BY <1>3, <3>1 DEF Fits, TokenOf
    <3>3. Depth = L
      BY <1>2, <1>3, <1>6, <2>1, <3>2 DEF PipeInv, Nested, L, g
    <3>4. QED
      BY <1>2, <1>3, <2>1, <3>3 DEF Fits, g
  <2>2. CASE ~frame.items
    <3>1. position.tok = TokenOf(Kid) /\ position.def = Kid
      BY <1>7, <2>2 DEF Matches, Asked, TokenOf
    <3>2. ~g.items
      BY <1>3, <3>1 DEF Fits, TokenOf
    <3>3. PICK a \in DOMAIN Kids[g.def] : Kids[g.def][a] = position.def
      BY <1>3, <3>2 DEF Fits
    <3>4. g.def = frame.def
      <4>1. Kids[g.def][a] = Kids[frame.def][frame.i] /\ frame.i \in DOMAIN Kids[frame.def]
        BY <1>2, <2>2, <3>1, <3>3
      <4>2. QED
        BY <1>2, <1>4, <4>1 DEF NamedOnce
    <3>5. Depth = L
      BY <1>2, <1>3, <1>6, <2>2, <3>2, <3>4 DEF PipeInv, Nested, L, g
    <3>6. QED
      BY <2>2, <3>1, <3>5
  <2>3. QED
    BY <2>1, <2>2
<1>8. ASSUME ~Matches, Depth = L
      PROVE  /\ ~frame.items /\ position.tok = TokenOf(position.def)
             /\ \E a \in DOMAIN Kids[frame.def] : a >= frame.i + 1 /\ Kids[frame.def][a] = position.def
  <2>1. Fits(position, frame)
    BY <1>2, <1>3, <1>8 DEF g
  <2>2. ~frame.items
    BY <1>8, <2>1 DEF Fits, Matches, Asked
  <2>3. position.tok = TokenOf(position.def)
    BY <2>1, <2>2 DEF Fits
  <2>4. PICK a \in DOMAIN Kids[frame.def] : a >= frame.i /\ Kids[frame.def][a] = position.def
    BY <2>1, <2>2 DEF Fits
  <2>5. a # frame.i
    <3>1. CASE a = frame.i
      <4>1. position.def = Kid
        BY <1>2, <2>2, <2>4, <3>1
      <4>2. QED
        BY <1>8, <2>2, <2>3, <4>1 DEF Matches, Asked, TokenOf
    <3>2. QED
      BY <3>1
  <2>6. a >= frame.i + 1
    BY <1>2, <1>5, <2>4, <2>5
  <2>7. QED
    BY <2>2, <2>3, <2>4, <2>6
<1>9. QED
  BY <1>2, <1>3, <1>7, <1>8 DEF L

\* The definition after one that has a place is not before or at that place.
LEMMA AfterPlace ==
  ASSUME NamedOnce, NEW d \in Def, NEW a \in DOMAIN Kids[d], NEW y, Before(Kids[d][a], y)
  PROVE  \E b \in DOMAIN Kids[d] : b >= a + 1 /\ Kids[d][b] = y
<1>1. PICK e \in Def :
        \E c, b \in DOMAIN Kids[e] : c < b /\ Kids[e][c] = Kids[d][a] /\ Kids[e][b] = y
  BY DEF Before
<1>2. PICK c \in DOMAIN Kids[e], b \in DOMAIN Kids[e] :
        c < b /\ Kids[e][c] = Kids[d][a] /\ Kids[e][b] = y
  BY <1>1
<1>3. e = d /\ c = a
  BY <1>2 DEF NamedOnce
<1>4. DOMAIN Kids[d] \subseteq Int
  BY PipeAssumption
<1>5. QED
  BY <1>2, <1>3, <1>4

\* An activation that has asked for x has still to ask for what comes after x.
LEMMA StillFits ==
  ASSUME NamedOnce, NEW d \in Def, NEW i \in Nat, NEW x, NEW y, NEW f,
         ~f.items, f.def = d, f.i = i + 1, \E a \in DOMAIN Kids[d] : a >= i /\ Kids[d][a] = x,
         Before(x, y.def), y.tok = TokenOf(y.def)
  PROVE  Fits(y, f)
<1>1. PICK a \in DOMAIN Kids[d] : a >= i /\ Kids[d][a] = x
  OBVIOUS
<1>2. Before(Kids[d][a], y.def)
  BY <1>1
<1>3. PICK b \in DOMAIN Kids[d] : b >= a + 1 /\ Kids[d][b] = y.def
  BY <1>2, AfterPlace
<1>4. DOMAIN Kids[d] \subseteq Int
  BY PipeAssumption
<1>5. b >= f.i
  BY <1>1, <1>3, <1>4
<1>6. QED
  BY <1>3, <1>5 DEF Fits

\* Nothing that is left to write is for an activation that has asked for all.
LEMMA TopPassed ==
  ASSUME PipeInv, Reading, ~frame.items, frame.i > Len(Kids[frame.def]), NEW e, Fits(e, frame)
  PROVE  FALSE
<1>1. frame \in Frame
  BY DEF PipeInv, TypeInv, TypeOK, Reading, frame
<1>2. Kids[frame.def] \in Seq(Def) /\ frame.i \in Nat
  BY <1>1, PipeAssumption DEF Frame
<1>3. QED
  BY <1>2 DEF Fits
\* The reader's next activations are as good for what it has not read.
LEMMA ShiftStream ==
  ASSUME Stream, UNCHANGED <<writer, todo, failed, position, sent, got>>,
         Waiting => /\ Depth \in 1..Len(frames') /\ Fits(position, frames'[Depth])
                    /\ frames'[Depth].items = frames[Depth].items,
         \A n \in 1..Len(todo) :
           ~(Waiting /\ todo[n].depth > Depth) =>
             todo[n].depth \in 1..Len(frames') /\ Fits(todo[n].node, frames'[todo[n].depth])
  PROVE  Stream'
<1>1. (Waiting' <=> Waiting) /\ Depth' = Depth /\ Opened' = Opened
  BY DEF Waiting, Depth, Opened
<1>2. Logs'
  BY <1>1 DEF Stream, Logs
<1>3. ASSUME NEW n \in 1..Len(todo), NEW e, e = todo[n] PROVE Due(e)'
  <2>1. Due(e)
    BY <1>3 DEF Stream
  <2>2. CASE Waiting /\ e.depth > Depth
    BY <1>1, <2>1, <2>2 DEF Due
  <2>3. CASE ~(Waiting /\ e.depth > Depth)
    BY <1>1, <1>3, <2>1, <2>3 DEF Due
  <2>4. QED
    BY <2>2, <2>3
<1>4. (\A n \in 1..Len(todo) : Due(todo[n]))'
  BY <1>3
<1>5. Ended'
  BY DEF Stream, Ended
<1>6. QED
  BY <1>2, <1>4, <1>5 DEF Stream, Follows, Before

LEMMA NotThereStream ==
  ASSUME NamedOnce, PipeInv, NotThere
  PROVE  Stream'
<1> DEFINE L == Len(frames)
<1>1. /\ Asking /\ position # None /\ ~Matches /\ frames \in Seq(Frame) /\ todo \in Seq(Entry)
      /\ Stream /\ TypeInv /\ UNCHANGED <<writer, todo, failed, position, sent, got>>
  BY DEF NotThere, PipeInv, TypeInv, TypeOK
<1>2. /\ L \in Nat \ {0} /\ frames # <<>> /\ frame = frames[L] /\ L \in 1..L
      /\ frame.items \in BOOLEAN /\ frame.i \in Nat \ {0} /\ frame.def \in Def
      /\ ~frame.items => frame.i \in DOMAIN Kids[frame.def]
  <2>1. /\ Len(frames) \in Nat \ {0} /\ frames # <<>>
        /\ frame.items \in BOOLEAN /\ frame.i \in Nat \ {0} /\ frame.def \in Def
        /\ ~frame.items => frame.i \in DOMAIN Kids[frame.def]
    BY <1>1, TopFacts
  <2>2. frame = frames[L]
    BY DEF frame
  <2>3. L \in Nat \ {0}
    BY <2>1
  <2> HIDE DEF L
  <2>4. L \in 1..L
    BY <2>3
  <2>5. QED
    BY <2>1, <2>2, <2>3, <2>4
<1>3. \A n \in 1..Len(todo) : todo[n] \in Entry /\ todo[n].depth \in Nat /\ Due(todo[n])
  <2>1. \A n \in 1..Len(todo) : todo[n] \in Entry
    BY <1>1
  <2>2. \A e \in Entry : e.depth \in Nat
    BY DEF Entry
  <2>3. \A n \in 1..Len(todo) : Due(todo[n])
    BY <1>1 DEF Stream
  <2>4. QED
    BY <2>1, <2>2, <2>3
<1> HIDE DEF L
<1>4. CASE ~Waiting
  <2>1. todo = <<>>
    BY <1>1, <1>4, PositionFacts DEF Stream, Ended, TypeInv, TypeOK
  <2>2. QED
    BY <1>1, <1>4, <2>1, ShiftStream
<1>5. CASE Waiting
  <2>1. /\ Depth \in 1..L /\ ~position.err /\ Fits(position, frames[Depth])
        /\ Depth = L => /\ ~frame.items /\ position.tok = TokenOf(position.def)
                        /\ \E a \in DOMAIN Kids[frame.def] :
                             a >= frame.i + 1 /\ Kids[frame.def][a] = position.def
    BY <1>1, <1>5, TopDue, PositionFacts DEF L, Stream, Logs
  <2>2. \A n \in 1..Len(todo) : ~(Waiting /\ todo[n].depth > Depth) =>
          /\ todo[n].depth \in 1..L /\ todo[n].depth <= Depth
          /\ Fits(todo[n].node, frames[todo[n].depth])
          /\ todo[n].depth = Depth /\ ~frames[Depth].items => Before(position.def, todo[n].node.def)
    BY <1>2, <1>3, <1>5, <2>1 DEF Due, L
  <2>3. CASE frame.items
    <3>1. frames' = Pop
      BY <2>1, <2>3 DEF NotThere
    <3>2. Len(frames') = L - 1 /\ \A k \in 1..(L - 1) : frames'[k] = frames[k]
      BY <1>1, <1>2, <3>1, PopFacts DEF L
    <3>3. Depth \in 1..(L - 1)
      BY <1>2, <2>1, <2>3
    <3>4. \A n \in 1..Len(todo) : ~(Waiting /\ todo[n].depth > Depth) => todo[n].depth \in 1..(L - 1)
      BY <1>2, <2>2, <3>3
    <3>5. QED
      BY <1>1, <2>1, <2>2, <3>2, <3>3, <3>4, ShiftStream
  <2>4. CASE ~frame.items
    <3>1. frames' = Moved
      BY <2>1, <2>4 DEF NotThere
    <3>2. /\ Len(frames') = L /\ \A k \in 1..(L - 1) : frames'[k] = frames[k]
          /\ frames'[L].def = frame.def /\ ~frames'[L].items /\ frames'[L].i = frame.i + 1
      BY <1>1, <1>2, <2>4, <3>1, MovedFacts DEF L
    <3>3. \A k \in 1..L : k = L \/ k \in 1..(L - 1)
      BY <1>2
    <3>4. Fits(position, frames'[Depth]) /\ frames'[Depth].items = frames[Depth].items
      <4>1. CASE Depth = L
        <5>1. PICK a \in DOMAIN Kids[frame.def] :
                a >= frame.i + 1 /\ Kids[frame.def][a] = position.def
          BY <2>1, <4>1
        <5>2. Fits(position, frames'[L])
          BY <2>1, <3>2, <4>1, <5>1 DEF Fits
        <5>3. frames'[L].items = frames[L].items
          <6> frame.items = FALSE /\ frames[L].items = FALSE
            BY <1>2, <2>4
          <6> frames'[L].items = FALSE
            BY <1>1, <1>2, <2>4, <3>1, MovedFacts DEF L
          <6> QED
            OBVIOUS
        <5>4. QED
          BY <4>1, <5>2, <5>3
      <4>2. CASE Depth # L
        BY <2>1, <3>2, <3>3, <4>2
      <4>3. QED
        BY <4>1, <4>2
    <3>5. ASSUME NEW n \in 1..Len(todo), ~(Waiting /\ todo[n].depth > Depth)
          PROVE  todo[n].depth \in 1..L /\ Fits(todo[n].node, frames'[todo[n].depth])
      <4> DEFINE e == todo[n]
      <4>1. /\ e.depth \in 1..L /\ e.depth <= Depth /\ Fits(e.node, frames[e.depth])
            /\ e.depth = Depth /\ ~frames[Depth].items => Before(position.def, e.node.def)
        BY <2>2, <3>5
      <4> HIDE DEF e
      <4>2. CASE e.depth = L
        <5>1. Depth = L
          BY <1>2, <2>1, <4>1, <4>2
        <5>2. \E a \in DOMAIN Kids[frame.def] : a >= frame.i /\ Kids[frame.def][a] = position.def
          <6>1. DOMAIN Kids[frame.def] \subseteq Int
            BY <1>2, PipeAssumption
          <6>2. QED
            BY <1>2, <2>1, <5>1, <6>1
        <5>3. ~frames[Depth].items /\ e.depth = Depth
          BY <1>2, <2>4, <4>2, <5>1
        <5>4. Before(position.def, e.node.def)
          BY <4>1, <5>3
        <5>5. e.node.tok = TokenOf(e.node.def)
          BY <1>2, <2>4, <4>1, <4>2 DEF Fits
        <5>6. frame.i \in Nat /\ frame.def \in Def
          BY <1>2
        <5>7. Fits(e.node, frames'[L])
          BY <3>2, <5>2, <5>4, <5>5, <5>6, StillFits
        <5>8. QED
          BY <4>1, <4>2, <5>7 DEF e
      <4>3. CASE e.depth # L
        BY <3>2, <3>3, <4>1, <4>3 DEF e
      <4>4. QED
        BY <4>2, <4>3
    <3>6. QED
      BY <1>1, <2>1, <3>2, <3>4, <3>5, ShiftStream
  <2>5. QED
    BY <2>3, <2>4
<1>6. QED
  BY <1>4, <1>5

LEMMA LeaveStream ==
  ASSUME PipeInv, Leave
  PROVE  Stream'
<1> DEFINE L == Len(frames)
<1>1. /\ Reading /\ ~frame.items /\ frame.i > Len(Kids[frame.def]) /\ frames' = Pop
      /\ frames \in Seq(Frame) /\ frames # <<>> /\ todo \in Seq(Entry) /\ Stream
      /\ UNCHANGED <<writer, todo, failed, position, sent, got>>
  BY DEF Leave, Reading, PipeInv, TypeInv, TypeOK
<1>2. /\ L \in Nat \ {0} /\ frame = frames[L] /\ Len(frames') = L - 1
      /\ \A k \in 1..(L - 1) : frames'[k] = frames[k]
  BY <1>1, PopFacts DEF frame
<1> HIDE DEF L
<1>3. \A e : ~Fits(e, frames[L])
  BY <1>1, <1>2, TopPassed
<1>4. \A k \in 1..L : k = L \/ k \in 1..(L - 1)
  BY <1>2
<1>5. Waiting => /\ Depth \in 1..(L - 1) /\ Fits(position, frames'[Depth])
                 /\ frames'[Depth].items = frames[Depth].items
  <2>1. Waiting => Depth \in 1..L /\ Fits(position, frames[Depth])
    BY <1>1 DEF Stream, Logs, L
  <2>2. QED
    BY <2>1, <1>2, <1>3, <1>4
<1>6. ASSUME NEW n \in 1..Len(todo), ~(Waiting /\ todo[n].depth > Depth)
      PROVE  todo[n].depth \in 1..(L - 1) /\ Fits(todo[n].node, frames'[todo[n].depth])
  <2>1. todo[n].depth \in 1..L /\ Fits(todo[n].node, frames[todo[n].depth])
    BY <1>1, <1>6 DEF Stream, Due, L
  <2>2. QED
    BY <2>1, <1>2, <1>3, <1>4
<1>7. QED
  BY <1>1, <1>2, <1>5, <1>6, ShiftStream

LEMMA ConsumeStream ==
  ASSUME NamedOnce, PipeInv, Consume
  PROVE  Stream'
<1> DEFINE L == Len(frames)
<1>1. /\ Asking /\ position # None /\ Matches /\ frames \in Seq(Frame) /\ todo \in Seq(Entry)
      /\ Stream /\ TypeInv /\ position' = None
      /\ UNCHANGED <<writer, todo, failed, reader, sent>>
  BY DEF Consume, PipeInv, TypeInv, TypeOK
<1>2. /\ L \in Nat \ {0} /\ frames # <<>> /\ frame = frames[L]
      /\ frame.items \in BOOLEAN /\ frame.i \in Nat \ {0} /\ frame.def \in Def
      /\ ~frame.items => /\ frame.i \in DOMAIN Kids[frame.def] /\ Kid \in Def
                         /\ Kid = Kids[frame.def][frame.i]
  <2>1. frame = frames[L]
    BY DEF frame
  <2>2. QED
    BY <1>1, <2>1, TopFacts
<1>3. Waiting /\ ~Waiting'
  <2>1. position.tok \in {"leaf", "select", "item"}
    BY <1>1 DEF Matches, Asked, TokenOf
  <2>2. QED
    BY <1>1, <2>1, PositionFacts DEF Waiting
<1>4. /\ Depth = L /\ Fits(position, frame)
      /\ position.def = IF frame.items THEN frame.def ELSE Kid
  BY <1>1, <1>2, <1>3, TopDue DEF Stream, Logs
<1>5. got' = sent
  <2>1. got' = Append(got, Logged(L, position.def, position))
    BY <1>4 DEF Consume
  <2>2. sent = Append(got, Logged(L, position.def, position))
    BY <1>1, <1>3, <1>4 DEF Stream, Logs
  <2>3. QED
    BY <2>1, <2>2
<1>6. /\ Len(frames') \in Nat /\ Len(frames') >= L
      /\ \A k \in 1..(L - 1) : frames'[k] = frames[k]
      /\ frame.items => frames'[L] = frame
      /\ ~frame.items => /\ frames'[L].def = frame.def /\ ~frames'[L].items
                         /\ frames'[L].i = frame.i + 1
      /\ position.tok # "leaf" => Len(frames') = L + 1 /\ frames'[L + 1] = Opened
  <2> HIDE DEF L
  <2>1. CASE frame.items
    <3>1. frames' = Append(frames, Inside(frame.def, FALSE)) /\ Inside(frame.def, FALSE) \in Frame
      BY <1>2, <2>1, InsideFrame DEF Consume
    <3>2. /\ Len(frames') = L + 1 /\ frames'[L + 1] = Inside(frame.def, FALSE)
          /\ \A k \in 1..L : frames'[k] = frames[k]
      BY <1>1, <3>1, PushFacts DEF L
    <3>3. position.tok = "item" /\ position.def = frame.def
      BY <1>1, <1>4, <2>1 DEF Matches, Asked
    <3>4. Opened = Inside(frame.def, FALSE)
      BY <3>3 DEF Opened
    <3>5. L \in 1..L /\ 1..(L - 1) \subseteq 1..L
      BY <1>2
    <3>6. QED
      BY <1>2, <2>1, <3>2, <3>4, <3>5
  <2>2. CASE ~frame.items
    <3>1. position.tok = TokenOf(Kid) /\ position.def = Kid
      BY <1>1, <1>4, <2>2 DEF Matches, Asked
    <3>2. /\ Moved \in Seq(Frame) /\ Len(Moved) = L
          /\ Moved[L].def = frame.def /\ Moved[L].i = frame.i + 1
          /\ \A k \in 1..(L - 1) : Moved[k] = frames[k]
      BY <1>1, <1>2, MovedFacts DEF L
    <3>3. ~Moved[L].items
      <4>1. Moved[L].items = FALSE
        BY <1>1, <1>2, <2>2, MovedFacts DEF L
      <4>2. QED
        BY <4>1
    <3>4. CASE Kind[Kid] = "leaf"
      <4>1. frames' = Moved /\ position.tok = "leaf"
        BY <2>2, <3>1, <3>4 DEF Consume, TokenOf
      <4>2. QED
        BY <1>2, <2>2, <3>2, <3>3, <4>1
    <3>5. CASE Kind[Kid] # "leaf"
      <4> DEFINE g == Inside(Kid, Kind[Kid] = "list")
      <4>1. g \in Frame /\ frames' = Append(Moved, g)
        BY <1>2, <2>2, <3>5, InsideFrame DEF Consume
      <4>2. Opened = g
        BY <3>1, <3>5 DEF Opened, TokenOf
      <4> HIDE DEF g
      <4>3. /\ Len(frames') = L + 1 /\ frames'[L + 1] = g
            /\ \A k \in 1..L : frames'[k] = Moved[k]
        BY <3>2, <4>1, PushFacts
      <4>4. L \in 1..L /\ 1..(L - 1) \subseteq 1..L
        BY <1>2
      <4>5. QED
        BY <1>2, <2>2, <3>2, <3>3, <4>2, <4>3, <4>4
    <3>6. QED
      BY <3>4, <3>5
  <2>3. QED
    BY <2>1, <2>2, <1>2
<1>7. \A n \in 1..Len(todo) : todo[n].depth \in Nat /\ Due(todo[n])
  <2>1. \A n \in 1..Len(todo) : todo[n] \in Entry
    BY <1>1
  <2>2. \A e \in Entry : e.depth \in Nat
    BY DEF Entry
  <2>3. QED
    BY <1>1, <2>1, <2>2 DEF Stream
<1> HIDE DEF L
<1>8. ASSUME NEW n \in 1..Len(todo), NEW e, e = todo[n] PROVE Due(e)'
  <2>1. e.depth \in Nat /\ Due(e)
    BY <1>7, <1>8
  <2>2. e.depth \in 1..Len(frames') /\ Fits(e.node, frames'[e.depth])
    <3>1. CASE e.depth > Depth
      <4>1. e.depth = L + 1 /\ position.tok # "leaf" /\ Fits(e.node, Opened)
        BY <1>3, <1>4, <2>1, <3>1 DEF Due
      <4>2. QED
        BY <1>2, <1>6, <4>1
    <3>2. CASE ~(e.depth > Depth)
      <4>1. /\ e.depth \in 1..L /\ Fits(e.node, frames[e.depth])
            /\ e.depth = L /\ ~frame.items => Before(position.def, e.node.def)
        BY <1>2, <1>3, <1>4, <2>1, <3>2 DEF Due, L
      <4>2. CASE e.depth # L
        BY <1>2, <1>6, <4>1, <4>2
      <4>3. CASE e.depth = L /\ frame.items
        BY <1>2, <1>6, <4>1, <4>3
      <4>4. CASE e.depth = L /\ ~frame.items
        <5>1. \E a \in DOMAIN Kids[frame.def] : a >= frame.i /\ Kids[frame.def][a] = position.def
          BY <1>4, <4>4 DEF Fits
        <5>2. Before(position.def, e.node.def)
          BY <4>1, <4>4
        <5>3. e.node.tok = TokenOf(e.node.def)
          BY <1>2, <4>1, <4>4 DEF Fits
        <5>4. frame.i \in Nat /\ frame.def \in Def
          BY <1>2
        <5>5. Fits(e.node, frames'[L])
          BY <1>6, <4>4, <5>1, <5>2, <5>3, <5>4, StillFits
        <5>6. QED
          BY <1>2, <1>6, <4>4, <5>5
      <4>5. QED
        BY <4>2, <4>3, <4>4
    <3>3. QED
      BY <3>1, <3>2
  <2>3. QED
    BY <1>3, <2>2 DEF Due
<1>9. (\A n \in 1..Len(todo) : Due(todo[n]))'
  BY <1>1, <1>8
<1>10. Logs' /\ Ended'
  BY <1>1, <1>3, <1>5 DEF Logs, Ended
<1>11. got' \in Seq(Log) /\ sent' \in Seq(Log)
  BY <1>1, <1>5 DEF Stream
<1>12. \A n, o \in 1..Len(todo') : n < o => Follows(todo'[n], todo'[o])
  BY <1>1 DEF Stream
<1>13. QED
  BY <1>9, <1>10, <1>11, <1>12 DEF Stream, Follows, Before

-----------------------------------------------------------------------------
LEMMA StreamStep ==
  ASSUME NamedOnce, PipeInv, [Next]_vars
  PROVE  Stream'
<1>1. CASE Send
  BY <1>1, SendStream DEF PipeInv
<1>2. CASE EditDone \/ EditFails \/ Close \/ ReaderFails \/ UNCHANGED vars
  BY <1>2, QuietStream DEF PipeInv
<1>3. CASE Consume
  BY <1>3, ConsumeStream
<1>4. CASE NotThere
  BY <1>4, NotThereStream
<1>5. CASE Leave
  BY <1>5, LeaveStream
<1>6. QED
  BY <1>1, <1>2, <1>3, <1>4, <1>5 DEF Next, Write, Read

LEMMA PipeStep ==
  ASSUME NamedOnce, FlatLists, PipeInv, [Next]_vars
  PROVE  PipeInv'
<1>1. TypeInv'
  BY TypeStep DEF PipeInv
<1>2. Rooted'
  BY RootStep DEF PipeInv
<1>3. Nested(frames')
  BY NestedStep DEF PipeInv
<1>4. Stream'
  BY StreamStep
<1>5. QED
  BY <1>1, <1>2, <1>3, <1>4 DEF PipeInv, Nested, Under

LEMMA PipeInit ==
  ASSUME Init
  PROVE  PipeInv
<1>1. TypeInv
  BY TypeInit
<1>2. Rooted
  BY FirstFrame DEF Rooted
<1>3. Nested(frames)
  <2>1. /\ Len(frames) = 1 /\ frames[1].def = Module /\ ~frames[1].items
    BY FirstFrame
  <2>2. \A k \in 1..Len(frames) : k = 1
    BY <2>1
  <2>3. 1..(Len(frames) - 1) = {}
    BY <2>1
  <2>4. \A j, k \in 1..Len(frames) : ~(j < k)
    BY <2>2
  <2>5. QED
    BY <2>1, <2>2, <2>3, <2>4 DEF Nested
<1>4. Stream
  BY StreamInit
<1>5. QED
  BY <1>1, <1>2, <1>3, <1>4 DEF PipeInv

\* For a schema the messages are enough for, what is read is what was sent but for the
\* message the reader holds, and that and all there is to write is on the way of the
\* reader, in its order (pipe.go 55-145).
THEOREM PipeInvariance ==
  ASSUME NamedOnce, FlatLists
  PROVE  Spec => []PipeInv
<1>1. Init => PipeInv
  BY PipeInit
<1>2. PipeInv /\ [Next]_vars => PipeInv'
  BY PipeStep
<1>3. QED
  BY <1>1, <1>2, PTL DEF Spec

\* pipe_test.go 102-103: what is read is what was written, in its place and no more
\* than was written so far, whoever is ahead (pipe.go 55-145).
THEOREM WhatIsReadWasWritten ==
  ASSUME NamedOnce, FlatLists
  PROVE  Spec => []Faithful
<1>1. ASSUME PipeInv PROVE Faithful
  <2>1. /\ got \in Seq(Log) /\ sent \in Seq(Log)
        /\ sent = got \/ \E e : sent = Append(got, e)
    BY <1>1 DEF PipeInv, Stream, Logs
  <2>2. CASE sent = got
    BY <2>1, <2>2 DEF Faithful
  <2>3. CASE \E e : sent = Append(got, e)
    <3>1. PICK e : sent = Append(got, e)
      BY <2>3
    <3>2. e \in Log
      <4>1. Len(sent) = Len(got) + 1 /\ sent[Len(got) + 1] = e
        BY <2>1, <3>1
      <4>2. QED
        BY <2>1, <4>1
    <3>3. QED
      BY <2>1, <3>1, <3>2 DEF Faithful
  <2>4. QED
    BY <2>1, <2>2, <2>3
<1>2. QED
  BY <1>1, PipeInvariance, PTL

-----------------------------------------------------------------------------
(***************************************************************************)
(* What a reader that succeeds has seen.                                   *)
(***************************************************************************)
\* The module's last definition is a list, and what ends its loop is a message that is
\* no item of it: the reader comes out of the module holding one, and it is the end.
AllAskedFor == Len(frames) = 1 /\ frames[1].i > Len(Kids[Module])

SeenEnd ==
  /\ AllAskedFor => position # None /\ ~position.err
  /\ reader = "ok" => position # None /\ position.tok = "end" /\ ~position.err

LEMMA SeenEndInit ==
  ASSUME EndsInList, Init
  PROVE  SeenEnd
<1>1. Kids[Module] \in Seq(Def) /\ Kids[Module] # <<>>
  BY PipeAssumption DEF EndsInList
<1>2. ~(1 > Len(Kids[Module]))
  BY <1>1
<1>3. frames[1].i = 1 /\ reader = "reading"
  BY FirstFrame DEF Init
<1>4. QED
  BY <1>2, <1>3 DEF SeenEnd, AllAskedFor

LEMMA SeenEndStep ==
  ASSUME EndsInList, PipeInv, SeenEnd, [Next]_vars
  PROVE  SeenEnd'
<1> DEFINE L == Len(frames)
           last == Len(Kids[Module])
<1>1. /\ frames \in Seq(Frame) /\ L \in Nat /\ TypeInv
      /\ Kids[Module] \in Seq(Def) /\ last \in Nat \ {0} /\ Kind[Kids[Module][last]] = "list"
  BY PipeAssumption DEF PipeInv, TypeInv, TypeOK, EndsInList
<1>2. frames # <<>> => frames[1].def = Module /\ ~frames[1].items
  BY DEF PipeInv, Nested, Rooted
<1>0. L \in Nat
  BY <1>1
<1> HIDE DEF last
<1>3. CASE Send \/ Close
  BY <1>3 DEF Send, Close, Receiving, SeenEnd, AllAskedFor
<1>4. CASE EditDone \/ EditFails \/ ReaderFails \/ UNCHANGED vars
  BY <1>4 DEF EditDone, EditFails, ReaderFails, vars, SeenEnd, AllAskedFor
<1>5. CASE Consume
  <2>1. Asking /\ reader' = "reading" /\ frames # <<>>
    BY <1>5 DEF Consume, Asking, Reading
  <2>2. SUFFICES ASSUME AllAskedFor' PROVE FALSE
    BY <2>1 DEF SeenEnd
  <2> Len(frames') = 1
    BY <2>2 DEF AllAskedFor
  <2> HIDE DEF L
  <2>3. CASE frame.items
    <3>1. frames' = Append(frames, Inside(frame.def, FALSE)) /\ Inside(frame.def, FALSE) \in Frame
      BY <1>1, <1>5, <2>1, <2>3, TopFacts, InsideFrame DEF Consume
    <3>2. Len(frames') = L + 1 /\ L # 0
      BY <1>1, <2>1, <3>1, PushFacts DEF L
    <3>3. QED
      BY <1>0, <3>2
  <2>4. CASE ~frame.items /\ Kind[Kid] # "leaf"
    <3>1. Moved \in Seq(Frame) /\ Len(Moved) = L /\ L # 0
      BY <1>1, <2>1, MovedFacts DEF L
    <3>2. /\ frames' = Append(Moved, Inside(Kid, Kind[Kid] = "list"))
          /\ Inside(Kid, Kind[Kid] = "list") \in Frame
      BY <1>1, <1>5, <2>1, <2>4, TopFacts, InsideFrame DEF Consume
    <3>3. Len(frames') = L + 1
      BY <3>1, <3>2, PushFacts
    <3>4. QED
      <4>1. Len(frames') = L + 1 /\ L # 0
        BY <3>1, <3>3
      <4>2. QED
        BY <1>0, <4>1
  <2>5. CASE ~frame.items /\ Kind[Kid] = "leaf"
    <3>1. frames' = Moved
      BY <1>5, <2>5 DEF Consume
    <3>2. L = 1 /\ Moved[1].i = frame.i + 1 /\ frame = frames[1]
      BY <1>1, <2>1, <3>1, MovedFacts DEF frame, L
    <3>3. frame.def = Module
      BY <1>2, <2>1, <3>2
    <3>4. frame.i \in Nat /\ frame.i \in DOMAIN Kids[Module] /\ Kid = Kids[Module][frame.i]
      BY <1>1, <2>1, <2>5, <3>3, TopFacts
    <3>5. frame.i <= last
      BY <1>1, <3>4 DEF last
    <3>6. frame.i + 1 > last
      BY <2>2, <3>1, <3>2 DEF AllAskedFor, last
    <3>7. frame.i = last
      BY <1>1, <3>4, <3>5, <3>6
    <3>8. QED
      BY <1>1, <2>5, <3>4, <3>7
  <2>6. QED
    BY <2>3, <2>4, <2>5
<1>6. CASE NotThere
  <2>1. /\ Asking /\ reader = "reading" /\ frames # <<>> /\ position # None
        /\ position' = position
    BY <1>6 DEF NotThere, Asking, Reading
  <2>2. CASE position.err
    <3>1. frames' = frames /\ reader' = "failed"
      BY <1>6, <2>2 DEF NotThere
    <3>2. ~AllAskedFor
      BY <2>2 DEF SeenEnd
    <3>3. QED
      BY <3>1, <3>2 DEF SeenEnd, AllAskedFor
  <2>3. CASE ~position.err
    <3>1. reader' = "reading"
      BY <1>6, <2>1, <2>3 DEF NotThere
    <3>2. QED
      BY <2>1, <2>3, <3>1 DEF SeenEnd
  <2>4. QED
    BY <2>2, <2>3
<1>7. CASE Leave
  <2>1. /\ Reading /\ reader = "reading" /\ frames # <<>> /\ ~frame.items
        /\ frame.i > Len(Kids[frame.def]) /\ frames' = Pop /\ position' = position
        /\ reader' = IF L = 1 THEN "ok" ELSE reader
    BY <1>7 DEF Leave, Reading
  <2>2. /\ Len(frames') = L - 1 /\ \A k \in 1..(L - 1) : frames'[k] = frames[k]
    BY <1>1, <2>1, PopFacts
  <2>3. CASE L = 1
    <3>1. frame = frames[1] /\ frame.def = Module
      BY <1>2, <2>1, <2>3 DEF frame
    <3>2. position # None /\ ~position.err
      BY <2>1, <2>3, <3>1 DEF SeenEnd, AllAskedFor
    <3>3. ~Waiting
      <4>1. SUFFICES ASSUME Waiting PROVE FALSE
        OBVIOUS
      <4>2. Depth \in 1..1 /\ Fits(position, frames[Depth])
        BY <2>3, <4>1 DEF PipeInv, Stream, Logs
      <4>3. Depth = 1
        BY <4>2
      <4>4. Fits(position, frame)
        BY <3>1, <4>2, <4>3
      <4>5. QED
        BY <2>1, <4>4, TopPassed
    <3>4. position.tok = "end"
      BY <3>2, <3>3 DEF Waiting
    <3>5. ~AllAskedFor'
      BY <2>2, <2>3 DEF AllAskedFor
    <3>6. QED
      BY <2>1, <3>2, <3>4, <3>5 DEF SeenEnd
  <2>4. CASE L # 1
    <3>1. reader' = "reading"
      BY <2>1, <2>4
    <3>2. SUFFICES ASSUME AllAskedFor' PROVE FALSE
      BY <3>1 DEF SeenEnd
    <3>3. L = 2 /\ frames[1].i > last
      <4>1. Len(frames') = 1 /\ frames'[1].i > last
        BY <3>2 DEF AllAskedFor, last
      <4> HIDE DEF L
      <4>2. L = 2
        BY <1>0, <2>2, <4>1
      <4>3. frames'[1] = frames[1]
        BY <2>2, <4>2
      <4>4. QED
        BY <4>1, <4>2, <4>3
    <3>4. Under(frames[1], frames[2])
      BY <3>3 DEF PipeInv, Nested
    <3>5. /\ frames[1].i - 1 \in DOMAIN Kids[Module]
          /\ frames[2].items <=> Kind[Kids[Module][frames[1].i - 1]] = "list"
      BY <1>2, <2>1, <3>4 DEF Under
    <3>6. frames[1].i \in Nat
      <4>1. frames[1] \in Frame
        <5>1. Len(frames) = 2 /\ frames \in Seq(Frame)
          BY <1>1, <3>3
        <5>2. QED
          BY <5>1
      <4>2. QED
        BY <4>1 DEF Frame
    <3>7. frames[1].i - 1 = last
      BY <1>1, <3>3, <3>5, <3>6 DEF last
    <3>8. frame = frames[2]
      BY <3>3 DEF frame
    <3>9. QED
      BY <1>1, <2>1, <3>5, <3>7, <3>8
  <2>5. QED
    BY <2>3, <2>4
<1>8. QED
  BY <1>3, <1>4, <1>5, <1>6, <1>7 DEF Next, Write, Read

\* pipe_test.go 102-103, 127-129: where the module ends with a list, a reader that
\* succeeds has read all of an edit that succeeded (pipe.go 43-54, 132-145).
THEOREM SuccessMeansAll ==
  ASSUME NamedOnce, FlatLists, EndsInList
  PROVE  Spec => []AllOrError
<1>1. Init => SeenEnd
  BY SeenEndInit
<1>2. PipeInv /\ SeenEnd /\ [Next]_vars => SeenEnd'
  BY SeenEndStep
<1>3. PipeInv /\ SeenEnd => AllOrError
  <2>1. SUFFICES ASSUME PipeInv, SeenEnd, reader = "ok" PROVE ~failed /\ writer = "done" /\ got = sent
    BY DEF AllOrError
  <2>2. position # None /\ position.tok = "end" /\ ~position.err /\ ~Waiting
    BY <2>1 DEF SeenEnd, Waiting
  <2>3. writer = "done" /\ position.err = failed /\ sent = got
    BY <2>1, <2>2 DEF PipeInv, Stream, Ended, Logs
  <2>4. QED
    BY <2>2, <2>3
<1>4. QED
  BY <1>1, <1>2, <1>3, PipeInvariance, PTL DEF Spec
=============================================================================
