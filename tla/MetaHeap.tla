------------------------------ MODULE MetaHeap ------------------------------
(***************************************************************************)
(* The objects of package meta and the methods the generator writes for    *)
(* them (meta/core_gen.go), over a heap: a sequence of objects, a pointer  *)
(* being an index into it and 0 the nil pointer.                           *)
(*                                                                         *)
(* An object has its Go type, its identifier, the pointers parent and orig *)
(* (originalParent) and, in "at", every field that is set: a sequence of   *)
(* pointers for a Go slice (defs is dataDefs), a function from identifiers *)
(* to pointers for a Go map (index is dataDefsIndex), a pointer or a plain *)
(* value.  A field out of "at" is the Go zero value, so IsConfigSet and    *)
(* its like are membership in DOMAIN at.                                   *)
(***************************************************************************)
EXTENDS MetaTypes, TLC
LOCAL INSTANCE SequencesExt

Nil == 0
Panic == -1
NoFields == [f \in {} |-> Nil]

New(kind, ident, parent, orig) ==
    [kind |-> kind, ident |-> ident, parent |-> parent, orig |-> orig, at |-> NoFields]

IsSet(h, i, f) == f \in DOMAIN h[i].at
Get(h, i, f, zero) == IF IsSet(h, i, f) THEN h[i].at[f] ELSE zero
Kids(h, i, f) == Get(h, i, f, <<>>)
Pointer(h, i, f) == Get(h, i, f, Nil)
Is(h, i, kinds) == i > Nil /\ h[i].kind \in kinds

Put(h, i, f, v) == [h EXCEPT ![i].at = (f :> v) @@ @]
Unset(h, i, f) == [h EXCEPT ![i].at = [g \in DOMAIN @ \ {f} |-> @[g]]]
Push(h, i, f, d) == Put(h, i, f, Append(Kids(h, i, f), d))
PutKey(h, i, f, key, d) == Put(h, i, f, (key :> d) @@ Kids(h, i, f))
Values(f) == {f[x] : x \in DOMAIN f}

\* Ident(): a uses is named after its grouping, prefix and all; its prefix
\* and name are kept apart here.
Written(id) == IF id[1] = "" THEN id[2] ELSE id[1] \o ":" \o id[2]
Ident(h, i) == IF h[i].kind = "uses" THEN Written(h[i].ident) ELSE h[i].ident

\* addAction, addNotification, addGrouping, addTypedef: into the map, under a
\* new parent; what was there under that name is overwritten.
AddTo(h, i, f, d) == PutKey([h EXCEPT ![d].parent = i], i, f, h[d].ident, d)


(***************************************************************************)
(* addDataDefinition: a choice is indexed by what its cases hold.  The     *)
(* index refuses a name it already has with a panic.                       *)
(***************************************************************************)
Indexed(h, d) ==
    IF h[d].kind = "choice"
    THEN UNION {Values(Kids(h, k, "defs")) : k \in Values(Kids(h, d, "cases"))}
    ELSE {d}

Conflict(h, p, d) ==
    \E x \in Indexed(h, d) :
       \/ Ident(h, x) \in DOMAIN Kids(h, p, "index")
       \/ \E y \in Indexed(h, d) \ {x} : Ident(h, y) = Ident(h, x)

AddDef(h, p, d) ==
    LET named == [n \in {Ident(h, x) : x \in Indexed(h, d)} |->
                    CHOOSE x \in Indexed(h, d) : Ident(h, x) = n]
    IN  Push(Put(h, p, "index", named @@ Kids(h, p, "index")), p, "defs", d)

PopDefs(h, p) == Put(Put(h, p, "index", <<>>), p, "defs", <<>>)

\* Definition(ident): a notification hides an action hides a data definition.
Definition(h, p, ident) ==
    LET in == [f \in {"notifs", "actions", "index"} |-> Kids(h, p, f)]
    IN  CASE ident \in DOMAIN in["notifs"] -> in["notifs"][ident]
          [] ident \in DOMAIN in["actions"] -> in["actions"][ident]
          [] ident \in DOMAIN in["index"] -> in["index"][ident]
          [] OTHER -> Nil

(***************************************************************************)
(* The generated clone: the object is copied field by field under its new  *)
(* parent, what DeepFields names is cloned under the copy, and the index   *)
(* is made again from the data definitions, a choice under its own name.   *)
(***************************************************************************)
Reindex(h, i) ==
    LET defs == Values(Kids(h, i, "defs"))
    IN  IF ~IsSet(h, i, "defs") THEN h
        ELSE Put(h, i, "index",
                 [n \in {Ident(h, d) : d \in defs} |-> CHOOSE d \in defs : Ident(h, d) = n])

RECURSIVE Clone(_, _, _), CloneKids(_, _, _)
Clone(h, i, parent) ==
    LET id == Len(h) + 1
        deep == SetToSeq({f \in DeepFields(h[i].kind) : IsSet(h, i, f)})
        copied == FoldLeft(LAMBDA g, f : LET c == CloneKids(g, h[i].at[f], id)
                                         IN  Put(c.h, id, f, c.kids),
                           Append(h, [h[i] EXCEPT !.parent = parent]), deep)
    IN  [h |-> Reindex(copied, id), id |-> id]

CloneKids(h, kids, parent) ==
    FoldLeft(LAMBDA acc, k : LET c == Clone(acc.h, kids[k], parent)
                             IN  [h |-> c.h, kids |-> [acc.kids EXCEPT ![k] = c.id]],
             [h |-> h, kids |-> kids], SetToSeq(DOMAIN kids))

(***************************************************************************)
(* Navigation: RootModule follows the parents, originalModule the original *)
(* parents (where a definition was written, not where it ended up).        *)
(***************************************************************************)
RECURSIVE RootModule(_, _), OriginalModule(_, _)
RootModule(h, i) == IF h[i].parent = Nil THEN i ELSE RootModule(h, h[i].parent)
OriginalModule(h, i) == IF h[i].kind = "module" THEN i ELSE OriginalModule(h, h[i].orig)

\* The module a prefix stands for where i was written: Nil when unknown.
ModuleOf(h, i, prefix) ==
    LET m == OriginalModule(h, i)
        imports == Kids(h, m, "imports")
    IN  CASE prefix = "" \/ Get(h, m, "prefix", "") = prefix -> m
          [] prefix \in DOMAIN imports -> Pointer(h, imports[prefix], "module")
          [] OTHER -> Nil

\* The nearest typedef or grouping of that name, from i outwards along the
\* original parents; only objects of the given kinds are asked.
RECURSIVE InScope(_, _, _, _, _)
InScope(h, i, kinds, f, ident) ==
    CASE i = Nil -> Nil
      [] i # Nil /\ h[i].kind \in kinds /\ ident \in DOMAIN Kids(h, i, f) -> h[i].at[f][ident]
      [] OTHER -> InScope(h, h[i].orig, kinds, f, ident)

\* A path is a sequence of names: "/" leads an absolute one, ".." goes up;
\* a prefix is ignored.
RECURSIVE Find(_, _, _)
Find(h, p, path) ==
    CASE p = Nil -> Panic
      [] p # Nil /\ Head(path) = ".." -> Find(h, h[p].parent, Tail(path))
      [] p # Nil /\ Head(path) = "/" -> Find(h, RootModule(h, p), Tail(path))
      [] OTHER ->
         IF h[p].kind \notin Kinds("defs") THEN Panic
         ELSE LET child == Definition(h, p, Head(path))
              IN  IF child = Nil \/ Len(path) = 1 THEN child ELSE Find(h, child, Tail(path))
=============================================================================
