------------------------------- MODULE GoList -------------------------------
(***************************************************************************)
(* A list over a Go slice or a Go map, and the leaf of its items:          *)
(* listSlice, listMap, childMap and the fields of structs in               *)
(* nodeutil/reflect.go, over package val.                                  *)
(*                                                                         *)
(* "items" is the slice, or what the map holds; each item is a map or a    *)
(* pointer to a struct and has one leaf, which is the list's key when the  *)
(* case says so.  The node reads the keys of a slice once, sorts them and  *)
(* searches among them ("entries") until it changes the slice itself.  It  *)
(* sorts those of a map when it is asked for a row, and keeps them.        *)
(*                                                                         *)
(* A case is what the list is over, a type of leaf, the Go type of the     *)
(* field that stores it ("map" in a map[string]interface{}), whether the   *)
(* leaf is the key, and the Go values that come in for it.  The field is   *)
(* one that can hold the type, and a map has one key, a string or an int:  *)
(* reflect and the node panic otherwise.                                   *)
(***************************************************************************)
EXTENDS Values, FiniteSets, SequencesExt

CONSTANTS Cases,
          MaxItems  \* how long the list grows

ASSUME MaxItemsAssumption == MaxItems \in Nat

ASSUME CasesAssumption ==
    Cases \subseteq
        [list : {"slice", "map"}, field : STRING, keyed : BOOLEAN,
         type : [format : [name : DOMAIN Held \union {"union"}, list : BOOLEAN],
                 enums : Seq([id : Int, label : STRING]),
                 derived : SUBSET STRING,
                 formats : Seq([name : DOMAIN Held, list : BOOLEAN])],
         inputs : SUBSET (GoScalars \union GoSlices)]

(* The leaves that read back: no lists of enums or of identities and none  *)
(* in a union; enums that differ in their ids and in their labels, and no  *)
(* label a numeral; no empty text in a struct; in a union, nothing that an *)
(* earlier format refuses becomes what it takes.                           *)
ASSUME LeavesAssumption ==
    \A c \in Cases :
        LET t == c.type
        IN  /\ t.format.name \in {"enumeration", "identityref"} => ~t.format.list
            /\ \A i \in DOMAIN t.formats :
                  t.formats[i].name \notin {"enumeration", "identityref"}
            /\ \A i, j \in DOMAIN t.enums :
                  \/ i = j
                  \/ t.enums[i].id # t.enums[j].id /\ t.enums[i].label # t.enums[j].label
            /\ \A i \in DOMAIN t.enums :
                  CanHold("int", t.enums[i].id) /\ Numeral(t.enums[i].label) = {}
            /\ c.field # "map" /\ t.format = Format("string", FALSE) =>
                  \A x \in c.inputs : Printed(x) # ""
            /\ t.format.name = "union" =>
                  \A x \in c.inputs, i \in DOMAIN t.formats :
                  \A v \in Conv(t.formats[i], x), j \in 1..(i - 1) :
                      Conv(t.formats[j], x) = {} => Conv(t.formats[j], v.v) = {}

(* The keys that can be sorted: the difference of two is a number of their *)
(* type, so that none of them is unsigned, and their texts have an order.  *)
ASSUME KeysAssumption ==
    \A c \in Cases :
        /\ c.list = "map" => c.keyed /\ c.type.format.name \in {"string", "int32"}
        /\ c.keyed =>
             /\ ~c.type.format.list /\ c.type.format.name # "union"
             /\ \A x, y \in c.inputs :
                \A v \in NewValue(c.type, x), w \in NewValue(c.type, y) :
                   /\ v.v.type \in Integral => CanHold(v.v.type, v.v.n - w.v.n)
                   /\ v.v.type \in {"string", "IdentRef"} => v.v.text \in ToSet(Ordered)

VARIABLES case, items, entries, answer,
          walk  \* history: the rows that were asked for in turn

vars == <<case, items, entries, answer, walk>>

(* The entries are nil, or the sorted keys.                                *)
Unread == {}

(***************************************************************************)
(* The leaf: childMap's and strukt's OnField.                              *)
(***************************************************************************)
WriteField(field, v) ==
    CASE field = "string" /\ v.format.name \in {"identityref", "enumeration"} ->
            GoText("string", 0, v.v.text)
      [] field = "int" /\ v.format.name = "enumeration" -> Go("int", v.v.n)
      [] OTHER -> v.v

(* A struct's empty string is no value.                                    *)
ReadField(c, stored) ==
    IF c.field # "map" /\ c.type.format = Format("string", FALSE)
    THEN {Value(c.type.format, v) : v \in {stored} \ {GoText("string", 0, "")}}
    ELSE NewValue(c.type, stored)

Item(x, v) == [said |-> x, written |-> v, stored |-> WriteField(case.field, v)]

KeyOf(item) == <<CHOOSE v \in ReadField(case, item.stored) : TRUE>>

(***************************************************************************)
(* sliceSorter: sort.Sort is an insertion sort below a dozen items; no two *)
(* items have one key, so that any other sort has the same result.         *)
(***************************************************************************)
Less(a, b) == CompareVals(a.key, b.key) < 0

SortIn(sorted, e) ==
    LET stays == {i \in DOMAIN sorted : ~Less(e, sorted[i])}
    IN  InsertAt(sorted,
                 1 + (IF stays = {} THEN 0
                      ELSE CHOOSE i \in stays : \A j \in stays : j <= i), e)

Sort(es) ==
    LET sorted[n \in 0..Len(es)] ==
            IF n = 0 THEN <<>> ELSE SortIn(sorted[n - 1], es[n])
    IN  sorted[Len(es)]

BuildKeys ==
    Sort([i \in DOMAIN items |->
            [key |-> KeyOf(items[i]), item |-> items[i], pos |-> i]])

Current == IF entries = Unread THEN BuildKeys ELSE CHOOSE es \in entries : TRUE

(* One turn of sort.Search's loop: half of what is left of the entries.    *)
Halved(es, key, left) ==
    LET h == (left.i + left.j) \div 2
    IN  IF left.i >= left.j THEN left
        ELSE IF CompareVals(es[h + 1].key, key) >= 0
             THEN [left EXCEPT !.j = h] ELSE [left EXCEPT !.i = h + 1]

(* sort.Search: the first entry that is not below the key, as far as       *)
(* halving can tell.                                                       *)
Search(es, key) ==
    LET left[n \in 0..Len(es)] ==
            IF n = 0 THEN [i |-> 0, j |-> Len(es)]
            ELSE Halved(es, key, left[n - 1])
    IN  left[Len(es)].i

(* Variant: whatever the search stops at.                                 *)
FoundNearest(es, key) == {es[i] : i \in {Search(es, key) + 1} \cap DOMAIN es}

(* sliceSorter.find: the entry of the key, or none.                        *)
Found(es, key) ==
    LET at == Search(es, key) + 1
    IN  {es[i] : i \in {j \in {at} \cap DOMAIN es : EqualVals(es[j].key, key)}}

(***************************************************************************)
(* listMap: the map itself is asked for a key, and its keys for a row.     *)
(***************************************************************************)
IsMap == case.list = "map"

SortedKeys == Sort([i \in DOMAIN items |-> [key |-> <<items[i].written>>]])

Keys == IF entries = Unread THEN SortedKeys ELSE CHOOSE ks \in entries : TRUE

MapIndex(v) ==
    {[item |-> items[i], pos |-> i] : i \in {j \in DOMAIN items : items[j].written.v = v.v}}

(* The item of a key, and what the node has read after looking for it.     *)
ItemOf(v) == IF IsMap THEN MapIndex(v) ELSE Found(Current, <<v>>)
Looked == IF IsMap THEN entries ELSE {Current}

(* Variant: the keys of a map are read again.                              *)
ChangedAlike == Unread

(* What is left of that when the node changes the list.                    *)
Changed == IF IsMap THEN entries ELSE Unread

(***************************************************************************)
(* OnNext.  Every request's key goes through NewValue first.               *)
(***************************************************************************)
(* What was asked, and the key of the item it was answered with.           *)
Answer(is, key, item) == [is |-> is, key |-> key, item |-> item]

NoWalk == [seen |-> <<>>, due |-> {}, ended |-> TRUE]

Init ==
    /\ case \in Cases
    /\ items = <<>>
    /\ entries = Unread
    /\ answer = Answer("none", <<>>, <<>>)
    /\ walk = NoWalk

(* The node of a list is made anew each time the list is selected.         *)
Open ==
    /\ entries # Unread
    /\ entries' = Unread
    /\ walk' = NoWalk
    /\ UNCHANGED <<case, items, answer>>

Refuse(x) ==
    /\ NewValue(case.type, x) = {}
    /\ answer' = Answer("refused", <<>>, <<>>)
    /\ UNCHANGED <<case, items, entries, walk>>

Find(v) ==
    /\ entries' = Looked
    /\ answer' \in IF ItemOf(v) = {} THEN {Answer("missing", <<v>>, <<>>)}
                   ELSE {Answer("found", <<v>>, <<e.item.written>>) : e \in ItemOf(v)}
    /\ UNCHANGED <<case, items, walk>>

(* A new item, and the edit's write of its leaf.                           *)
New(x, v) ==
    /\ items' = Append(items, Item(x, v))
    /\ entries' = Changed
    /\ answer' = Answer(IF case.keyed THEN "made" ELSE "appended", <<v>>, <<v>>)
    /\ UNCHANGED <<case, walk>>

(* The edit of an item of a keyed list looks for it first.                 *)
Insert(x, v) ==
    IF ItemOf(v) # {} THEN Find(v) ELSE New(x, v)

(* Variant: the entries survive.                                           *)
DeleteFoundKeeping(v, e) ==
    /\ items' = RemoveAt(items, e.pos)
    /\ entries' = IF IsMap THEN entries ELSE {SelectSeq(Current, LAMBDA f : f # e)}
    /\ answer' = Answer("deleted", <<v>>, <<e.item.written>>)
    /\ walk' = NoWalk
    /\ UNCHANGED case

DeleteFound(v, e) ==
    /\ items' = RemoveAt(items, e.pos)
    /\ entries' = Changed
    /\ answer' = Answer("deleted", <<v>>, <<e.item.written>>)
    /\ walk' = NoWalk
    /\ UNCHANGED case

Delete(v) ==
    IF ItemOf(v) # {}
    THEN \E e \in ItemOf(v) : DeleteFound(v, e)
    ELSE Find(v)

SliceRow(r) ==
    /\ answer' = IF r > Len(items) THEN Answer("end", <<>>, <<>>)
                 ELSE Answer("row", <<>>, KeyOf(items[r]))
    /\ UNCHANGED entries

(* A key that is no longer in the map is the end, too.                     *)
MapRow(r) ==
    LET left == {k \in {Keys[i].key[1] : i \in {r} \cap DOMAIN Keys} : MapIndex(k) # {}}
    IN  /\ entries' = {Keys}
        /\ answer' \in IF left = {} THEN {Answer("end", <<>>, <<>>)}
                       ELSE {Answer("row", <<>>, <<v>>) :
                               v \in UNION {NewValue(case.type, k.v) : k \in left}}

Walked(r, due) ==
    LET on(seen, all) == [seen |-> seen \o answer'.item, due |-> all,
                          ended |-> answer'.is = "end"]
    IN  walk' = IF case.keyed /\ r = 1 THEN on(<<>>, due)
                ELSE IF ~walk.ended /\ r = Len(walk.seen) + 1 THEN on(walk.seen, walk.due)
                ELSE NoWalk

(* The next row, by its number.                                            *)
Row(r) ==
    /\ IF IsMap THEN MapRow(r) /\ Walked(r, {e.key[1] : e \in ToSet(Keys)})
       ELSE SliceRow(r) /\ Walked(r, {items[i].written : i \in DOMAIN items})
    /\ UNCHANGED <<case, items>>

Next ==
    \/ Open
    \/ \E x \in case.inputs :
          \/ Refuse(x)
          \/ \E v \in NewValue(case.type, x) :
                \/ case.keyed /\ Find(v)
                \/ case.keyed /\ Len(items) < MaxItems /\ Insert(x, v)
                \/ case.keyed /\ Delete(v)
                \/ ~case.keyed /\ Len(items) < MaxItems /\ New(x, v)
    \/ \E r \in 1..(Len(items) + 1) : Row(r)

Spec == Init /\ [][Next]_vars

-----------------------------------------------------------------------------
(* The keys that were read are those of the items, each at its place, so   *)
(* that a delete takes the item that was found (listSlice's entries).      *)
TypeOK ==
    /\ case \in Cases
    /\ Len(items) <= MaxItems
    /\ walk.ended \in BOOLEAN
    /\ ~IsMap => \A es \in entries :
          /\ Len(es) = Len(items)
          /\ \A i \in DOMAIN items : \E e \in ToSet(es) :
                e = [key |-> KeyOf(items[i]), item |-> items[i], pos |-> i]

(* What was written to a leaf, in a map or in a struct, is what is read    *)
(* back from it, for every type (childMap, WriteField, ReadField).         *)
ReadsBack ==
    \A i \in DOMAIN items :
        ReadField(case, items[i].stored) = {items[i].written}

(* The numbers that a Go value stands for.                                 *)
Said(x) ==
    CASE x.type \in Integral \union {"named", "Time"} -> {x.n}
      [] x.type = "float64" -> {n \in {Truncated(x.n)} : x.n = 2 * n}
      [] x.type = "string" -> Numeral(x.text)
      [] OTHER -> {}

Alike(name, x, v) ==
    \A n \in Said(x) :
        (CanHold(Held[name], n) \/
            (x.type = "string" /\ name \notin {"int8", "uint64"}))
        => v.n = IF name = "decimal64" THEN 2 * n ELSE n

(* A number the type can hold is never written as another one, and a text  *)
(* whose number it cannot hold is refused, but for int8 and uint64 (Conv). *)
AsSaid ==
    LET name == case.type.format.name
    IN  name \in (DOMAIN Held \ {"boolean", "string", "enumeration",
                                 "identityref", "decimal64"}) =>
            \A i \in DOMAIN items :
                LET x == items[i].said
                    v == items[i].written.v
                IN  IF x.items = <<>> THEN v.items = <<>> => Alike(name, x, v)
                    ELSE /\ Len(v.items) = Len(x.items)
                         /\ \A j \in DOMAIN x.items :
                               Alike(name, x.items[j], v.items[j])

(* A walk over the rows of a list meets no item twice, whatever is added   *)
(* under it; and when it ends without a deletion on the way it has met     *)
(* all the items the node knew of when it began, unless one of them had    *)
(* been deleted since the node read the keys (listSlice.OnNext,            *)
(* listMap.OnNext, which keeps the keys for that).                         *)
EveryRow ==
    /\ IsInjective(walk.seen)
    /\ LET there == {items[i].written : i \in DOMAIN items}
       IN  answer.is = "end" /\ walk.ended /\ walk.due \subseteq there =>
               walk.due \subseteq ToSet(walk.seen)

Set == INSTANCE KeySet
            WITH keys <- {<<items[i].written>> : i \in DOMAIN items}

(* A list over a slice or a map is a set of keys: what is in it is found,  *)
(* and what is made, found or deleted is what was asked for                *)
(* (listSlice.OnNext, listMap.OnNext).                                     *)
KeySpec == Set!Spec
=============================================================================
