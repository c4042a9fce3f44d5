----------------------------- MODULE Selections -----------------------------
(***************************************************************************)
(* Selections that are found, constrained and read: node/find.go, the      *)
(* first half of node/selection.go, and the walk of node/edit.go when it   *)
(* copies a constrained selection into an empty node, as the JSON writer   *)
(* does.                                                                   *)
(*                                                                         *)
(* The caller holds one selection, with the selections above it, and makes *)
(* one call at a time.                                                     *)
(***************************************************************************)
EXTENDS Constraints

CONSTANTS
  Sources,   \* the data nodes
  Queries,   \* the URL parameters of a call
  MaxAsked   \* calls with parameters on the way to one selection

NoQuery == <<>>

ASSUME SourcesAssumption == \A s \in Sources : WellTyped(s) /\ Rooted(s)

ASSUME QueriesAssumption ==
  /\ \A q \in Queries \ {NoQuery} :
       /\ DOMAIN q \subseteq Parameters
       /\ \A id \in DOMAIN q : q[id] = Bad \/ IsSetting(id, q[id])
  /\ MaxAsked \in Nat

VARIABLES
  data,   \* what the browser's root node holds
  view,   \* what of it the read sees: one case of each choice
  chain,  \* the selection, after those it was found from
  status, \* how the last call went, or "reading"
  fills,  \* the read sets defaults at its base too
  stack,  \* the activations of editor.enter, outermost first
  out     \* what has been copied

vars == <<data, view, chain, status, fills, stack, out>>

here == chain[Len(chain)]
level == Len(stack)
top == stack[level]

Link(p, c, asked) == [pos |-> p, with |-> c, asked |-> asked]
Frame(p, new) == [pos |-> p, new |-> new, first |-> TRUE, i |-> 0]

Copied(ps) == [p \in Pos |-> IF p \in ps THEN Obj ELSE Absent]

\* Nothing has been read from the selection the call returns.
Unread == fills' = FALSE /\ stack' = <<>> /\ out' = Copied({}) /\ UNCHANGED view

-----------------------------------------------------------------------------
(***************************************************************************)
(* Finding and constraining.                                               *)
(***************************************************************************)
Init ==
  /\ data \in Sources
  /\ view \in Views(data)
  /\ chain = <<Link(Root, BaseConstraints, <<>>)>>
  /\ status = "idle"
  /\ fills = FALSE
  /\ stack = <<>>
  /\ out = Copied({})

Returned == status \notin {"reading", "panic"}

\* The constraints of a selection that is given the query, with the queries
\* that made them.
Given(link, query) ==
  IF query = NoQuery THEN {link}
  ELSE {Link(link.pos, c, Append(link.asked, query)) :
          c \in BuildConstraints(link.with, query)}

May(query) == query = NoQuery \/ Len(here.asked) < MaxAsked

\* The positions FindSlice selects between the selection and dest.
Way(dest) ==
  Sorted({p \in Below[here.pos] \ {here.pos} : dest \in Below[p]}, Level)

\* Variant: what is hidden is found.
AnswerAnyway(c, p) == IF data[p] = Absent THEN "stop" ELSE "more"

\* Select of p when navigating, which of the constraints only "when" minds.
Answer(c, p) == IF data[p] = Absent THEN "stop" ELSE CheckWhen(c, data, p)

\* Find with a path down; an error in the parameters is dropped by FindUrl.
Find(dest, query) ==
  /\ Returned /\ May(query)
  /\ dest \in Below[here.pos] \cap {p \in Pos : Kind[p] # "leaf"}
  /\ Kind[here.pos] = "list" => dest = here.pos
  /\ \E link \in IF Rejected(query) THEN {here} ELSE Given(here, query) :
       LET way     == Way(dest)
           stopped == {n \in DOMAIN way : Answer(link.with, way[n]) # "more"}
           missed  == CHOOSE n \in stopped : \A m \in stopped : n <= m
       IN  IF Rejected(query)
           THEN status' = "nothing" /\ UNCHANGED chain
           ELSE IF stopped # {}
           THEN IF Answer(link.with, way[missed]) = "panic"
                THEN status' = "panic" /\ chain' = Append(Front(chain), link)
                ELSE status' = "nothing" /\ UNCHANGED chain
           ELSE /\ chain' = Front(chain) \o <<link>> \o
                              [n \in DOMAIN way |-> Link(way[n], link.with, link.asked)]
                /\ status' = "idle"
  /\ Unread
  /\ UNCHANGED data

\* Find("../"): the parent has the constraints it was found with.
FindParent ==
  /\ Returned
  /\ Len(chain) > 1
  /\ chain' = Front(chain)
  /\ status' = "idle"
  /\ Unread
  /\ UNCHANGED data

\* A selection with an error answers every call with it.
Constrain(query) ==
  /\ Returned /\ May(query)
  /\ query # NoQuery
  /\ IF Rejected(query) THEN status' = "refused" /\ UNCHANGED chain
     ELSE /\ \E link \in Given(here, query) : chain' = Append(Front(chain), link)
          /\ status' = "idle"
  /\ Unread
  /\ UNCHANGED data

-----------------------------------------------------------------------------
(***************************************************************************)
(* Reading: InsertInto or UpsertInto an empty node.                        *)
(***************************************************************************)
\* containerMetaList asks the node for the case of a choice when it comes to it,
\* once in a read: of two that have data the node may give either.
Read(defaults) ==
  /\ Returned
  /\ view' \in {t \in Views(data) : t[here.pos] # Absent}
  /\ stack' = <<Frame(here.pos, FALSE)>>
  /\ out' = Copied({here.pos})
  /\ fills' = defaults
  /\ status' = "reading"
  /\ UNCHANGED <<data, chain>>

base == here.pos
InList == Kind[top.pos] = "list"
Walking == status = "reading"
AtKid == Walking /\ ~InList /\ top.i < Len(Kids[top.pos])
Kid == Kids[top.pos][top.i + 1]

Went(n) == [top EXCEPT !.first = FALSE, !.i = n + 1]
Goto(f) == stack' = [stack EXCEPT ![level] = f]
Enter(f, p) == stack' = Append([stack EXCEPT ![level] = f], Frame(p, TRUE))

\* Selection.Select of a container or list.
Select(k) ==
  LET pre == CheckContainer(here.with, base, top.pos, k)
  IN  IF pre # "more" THEN pre ELSE Answer(here.with, k)

\* The choice's case, then the constraints of a leaf or of a container.
Offered(k) ==
  IF ~Selected(view, k) THEN "stop"
  ELSE IF k \in Leaves THEN CheckField(here.with, Under(base, k), k, CheckWhen(here.with, data, k))
  ELSE Select(k)

\* GetValueHnd, with the defaults of what is new.
ValueOf(k) ==
  Trim(here.with, k, IF data[k] = Absent /\ (fills \/ top.new) THEN Default[k] ELSE data[k])

PassOver ==
  /\ AtKid
  /\ Offered(Kid) = "stop"
  /\ Goto(Went(top.i))
  /\ UNCHANGED <<data, view, chain, status, fills, out>>

CopyLeaf ==
  /\ AtKid
  /\ Kid \in Leaves
  /\ Offered(Kid) = "more"
  /\ out' = [out EXCEPT ![Kid] = ValueOf(Kid)]
  /\ Goto(Went(top.i))
  /\ UNCHANGED <<data, view, chain, status, fills>>

EnterKid ==
  /\ AtKid
  /\ Kid \in Inner
  /\ Offered(Kid) = "more"
  /\ out' = [out EXCEPT ![Kid] = Obj]
  /\ Enter(Went(top.i), Kid)
  /\ UNCHANGED <<data, view, chain, status, fills>>

Place == [k \in Pos \ {Root} |-> CHOOSE n \in DOMAIN Kids[Parent[k]] : Kids[Parent[k]][n] = k]
Rows(list) == Sorted({k \in ToSet(Kids[list]) : data[k] # Absent}, Place)

row == RowAsked(here.with, base, top.pos, top.first, top.i)
ListGoesOn == CheckList(here.with, base, top.pos, top.first, top.i)

\* Node.Next of the row, copied as a new item.
EnterItem ==
  /\ Walking /\ InList
  /\ ListGoesOn = "more"
  /\ row < Len(Rows(top.pos))
  /\ LET item == Rows(top.pos)[row + 1]
     IN  /\ out' = [out EXCEPT ![item] = Obj]
         /\ Enter(Went(row), item)
  /\ UNCHANGED <<data, view, chain, status, fills>>

\* The end of the definitions, of the list or of its range.
Leave ==
  /\ Walking
  /\ IF InList
     THEN \/ ListGoesOn = "stop"
          \/ ListGoesOn = "more" /\ row >= Len(Rows(top.pos))
     ELSE top.i = Len(Kids[top.pos])
  /\ stack' = Front(stack)
  /\ status' = IF level = 1 THEN "ok" ELSE status
  /\ UNCHANGED <<data, view, chain, fills, out>>

Coming == IF InList THEN ListGoesOn ELSE IF AtKid THEN Offered(Kid) ELSE "more"

\* Variant: an error leaves the walk where it was.
BreakInPlace ==
  /\ Walking
  /\ Coming \in {"fail", "panic"}
  /\ status' = IF Coming = "fail" THEN "failed" ELSE "panic"
  /\ UNCHANGED <<data, view, chain, fills, stack, out>>

\* A constraint returns an error, or panics.
Break ==
  /\ Walking
  /\ LET verdict == Coming
     IN  /\ verdict \in {"fail", "panic"}
         /\ status' = IF verdict = "fail" THEN "failed" ELSE "panic"
  /\ stack' = <<>>
  /\ UNCHANGED <<data, view, chain, fills, out>>

Step == PassOver \/ CopyLeaf \/ EnterKid \/ EnterItem \/ Leave \/ Break

Next ==
  \/ Step
  \/ \E dest \in Pos, query \in Queries : Find(dest, query)
  \/ FindParent
  \/ \E query \in Queries : Constrain(query)
  \/ \E defaults \in BOOLEAN : Read(defaults)

\* A panic ends the program.
Panicked == status = "panic" /\ UNCHANGED vars

Spec == Init /\ [][Next \/ Panicked]_vars

-----------------------------------------------------------------------------
(***************************************************************************)
(* Properties.                                                             *)
(***************************************************************************)
\* Every variable has its type; the activations are on positions that have been
\* copied, each under the one before it.
TypeOK ==
  /\ data \in Sources /\ view \in Views(data)
  /\ \A n \in DOMAIN chain :
       /\ chain[n].pos \in Inner
       /\ n > 1 => chain[n].pos \in Below[chain[n - 1].pos]
       /\ DOMAIN chain[n].with.entries = ToSet(chain[n].with.order)
       /\ DOMAIN chain[n].with.entries \subseteq Parameters \cup {"~when"}
  /\ status \in {"idle", "nothing", "refused", "reading", "ok", "failed", "panic"}
  /\ fills \in BOOLEAN
  /\ status = "reading" <=> stack # <<>>
  /\ \A l \in DOMAIN stack :
       /\ out[stack[l].pos] = Obj
       /\ IF l = 1 THEN stack[l].pos = base ELSE Parent[stack[l].pos] = stack[l - 1].pos
  /\ WellTyped(out)

Above(p) == {a \in Below[base] \ {base} : p \in Below[a]}

Held(p) == IF data[p] = Absent /\ (fills \/ Parent[p] # base) THEN Default[p] ELSE data[p]

\* What is there to be read from the selection, without any constraint, by a read
\* that sees the same case of every choice.
Whole(p) ==
  IF p = base THEN Obj
  ELSE IF \/ p \notin Below[base]
          \/ data[Parent[p]] = Absent
          \/ \E a \in Above(p) : ~Selected(view, a) \/ ~WhenMet(data, a)
  THEN Absent
  ELSE Held(p)

\* fields_matcher.go, max_depth.go, content_param.go, list_range.go,
\* with_defaults_param.go: at every moment, an interrupted read included, what
\* has been copied is part of what a read without constraints copies, and
\* nothing is copied under what is not.
PartOfWhole ==
  \A p \in Pos : out[p] # Absent =>
    /\ out[p] = Whole(p)
    /\ p = base \/ out[Parent[p]] = Obj

With(id) == id \in DOMAIN here.with.entries
Param(id) == here.with.entries[id]

Names(selector, p) ==
  selector = <<>> \/ \E n \in DOMAIN selector : IsPrefix(selector[n], Under(base, p))

\* A "when" counts the leaf it reads as not there when the parameters hide it.
Seen(p) ==
  When[p] # NoWhen =>
    /\ WhenMet(data, p)
    /\ With("content") /\ Param("content") # "all" =>
         (When[p].leaf \in Config) = (Param("content") = "config")
    /\ With("with-defaults") /\ Param("with-defaults") = "trim" =>
         When[p].val # Default[When[p].leaf]

\* A range has its first row, and then those up to its end, which is not one of
\* them; it is for the lists it names and for those below.
Ranged(item) ==
  LET list == Parent[item]
      r    == Param("fc.range")
  IN  With("fc.range") /\ Names(r.selector, list) =>
        \E n \in DOMAIN Rows(list) :
          /\ Rows(list)[n] = item
          /\ n - 1 >= r.start
          /\ r.end = -1 \/ n - 1 < r.end \/ n - 1 = r.start

Asked(p) ==
  /\ Seen(p)
  /\ IF Kind[p] = "item" THEN Ranged(p)
     ELSE /\ With("fields") => Names(Param("fields"), p)
          /\ With("fc.xfields") => ~Names(Param("fc.xfields"), p)
          /\ With("depth") /\ p \in Inner => Len(Under(base, p)) <= Param("depth")
          /\ With("content") /\ Param("content") = "config" => p \in Config
          /\ With("content") /\ Param("content") = "nonconfig" => p \in Inner \/ p \notin Config

\* A read that succeeds has copied what its parameters ask for: what is on
\* positions all of which pass, and what is not trimmed; in whatever order the
\* constraints were asked.
AsAsked ==
  status = "ok" =>
    \A p \in Below[base] \ {base} :
      out[p] = IF \A a \in Above(p) : Asked(a) THEN Trim(here.with, p, Whole(p)) ELSE Absent

\* find.go:36: constraints are added to those there are. Whatever was asked for
\* on the way to a selection is in force, in its last form, and nothing else;
\* but the depth goes back to 64 and the node count to 10000 with each call that
\* has parameters.
AddedToExisting ==
  \A l \in DOMAIN chain :
    LET asked == chain[l].asked
        now   == chain[l].with.entries
        Said(id) == {n \in DOMAIN asked : id \in DOMAIN asked[n] /\ asked[n][id] # Bad}
    IN  \A id \in Parameters \ {"depth", "fc.max-node-count"} :
          /\ id \in DOMAIN now <=> Said(id) # {}
          /\ \A n \in Said(id) :
               (\A m \in Said(id) : m <= n) => now[id] = asked[n][id]

OneName(selector) == \A n \in DOMAIN selector : Len(selector[n]) = 1

\* path_matcher.go:203: a selector is looked for in the path between the base and a
\* position. As long as its slices are single names that is safe, in whatever
\* order the constraints come, unless a "when" is read through the selector or
\* a range names the list that is read.
PlainSelectorsAreSafe ==
  status = "panic" =>
    \/ \E id \in {"fields", "fc.xfields"} :
         /\ With(id)
         /\ \/ ~OneName(Param(id))
            \/ Param(id) # <<>> /\ \E p \in Below[base] : When[p] # NoWhen
    \/ /\ With("fc.range")
       /\ \/ ~OneName(Param("fc.range").selector)
          \/ Param("fc.range").selector # <<>> /\ Kind[base] = "list"
=============================================================================
