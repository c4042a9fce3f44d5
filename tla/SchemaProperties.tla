-------------------------- MODULE SchemaProperties --------------------------
(***************************************************************************)
(* What makes a loaded schema correct.                                     *)
(***************************************************************************)
EXTENDS Schema
LOCAL INSTANCE SequencesExt

CONSTANT MaxDepth   \* how deep two trees are compared
Meaning == INSTANCE SchemaReference

-----------------------------------------------------------------------------
\* The tree under an object, as SchemaReference has it.
ChildrenOf(h, i) ==
    ToSet(Kids(h, i, "defs"))
      \cup UNION {Values(Kids(h, i, f)) : f \in {"cases", "actions", "notifs", "io"}}

TypeSaid(h, t) ==
    LET format(y) == IF y = Nil THEN <<"", FALSE>> ELSE Format(h, y)
    IN  [base |-> format(t)[1], list |-> format(t)[2],
         union |-> {format(u)[1] : u \in ToSet(Kids(h, t, "unions"))}, enum |-> Kids(h, t, "enumIds")]

SaidOf(h, i) ==
    LET at == h[i].at
        plain == DOMAIN at \cap {"desc", "config", "mandatory", "default", "max", "min", "units", "key",
                                 "presence"}
        rest == [musts |-> {h[m].ident : m \in ToSet(Kids(h, i, "musts"))},
                 when |-> {h[w].ident : w \in {Pointer(h, i, "when")} \ {Nil}}]
    IN  [f \in plain |-> at[f]] @@ rest
          @@ (IF IsSet(h, i, "type") /\ h[i].kind # "any" THEN [type |-> TypeSaid(h, at["type"])] ELSE NoFields)

RECURSIVE TreeOf(_, _, _)
TreeOf(h, i, d) ==
    [k |-> h[i].kind, at |-> SaidOf(h, i),
     kids |-> [n \in {Ident(h, c) : c \in IF d = 0 THEN {} ELSE ChildrenOf(h, i)} |->
                 TreeOf(h, CHOOSE c \in ChildrenOf(h, i) : Ident(h, c) = n, d - 1)]]

\* All definitions of the main module, as the program can walk to them.
RECURSIVE Reach(_, _, _)
Reach(h, found, new) ==
    LET next == UNION {ChildrenOf(h, i) : i \in new} \ (found \cup new)
    IN  IF new = {} THEN found ELSE Reach(h, found \cup new, next)
Reachable(h) == Reach(h, {}, {Root})

-----------------------------------------------------------------------------
\* The state is well formed: every pointer is nil or to an object.
TypeOK ==
    /\ status \in {"loading", "ok", "error", "panic"}
    /\ phase \in {"parse", "resolve", "compile", "loaded"}
    /\ \A i \in DOMAIN heap :
          /\ heap[i].kind \in DOMAIN GoType
          /\ heap[i].parent \in 0..Len(heap) /\ heap[i].orig \in 0..Len(heap)
    /\ parse.module \in 0..Len(heap)
    /\ \A s \in DOMAIN inProgress : Is(heap, inProgress[s], {"list", "container", "module"})
    /\ \A e \in ToSet(recursives) : Is(heap, e[1], HasGroupings) /\ Is(heap, e[2], HasGroupings)

(***************************************************************************)
(* A schema that loads is the one that was written: every uses expanded,   *)
(* refined and augmented, every typedef, config, if-feature and deviation  *)
(* where the text has it, whatever order the maps are walked in            *)
(* (resolver.go, compile.go).                                              *)
(***************************************************************************)
AsWritten ==
    status = "ok" => TreeOf(heap, Root, MaxDepth).kids = Meaning!Meant(project, MaxDepth)

\* A text that says something wrong, or that the grammar does not read, is refused
\* with an error, any other is loaded, and none panics.
Judged ==
    status # "loading" => status = (IF project.legal THEN "ok" ELSE "error")

(***************************************************************************)
(* In a loaded schema every data definition is found under its name in the *)
(* nearest definition above it that is not a choice or a case, and its     *)
(* parents lead there; only what a recursive definition holds belongs to   *)
(* another one (addDataDefinition, clone, popDataDefinitions).  What is    *)
(* never found there is what a uses brings into a case: the choice is      *)
(* indexed by what its cases hold before they are resolved (resolver.go    *)
(* 419, 434-438).                                                          *)
(***************************************************************************)
RECURSIVE Above(_, _), Brought(_, _)
Above(h, i) == IF h[i].kind \in {"choice", "case"} THEN Above(h, h[i].parent) ELSE i

\* A uses has brought c, or a choice that c is in, into a case.
Brought(h, c) ==
    LET p == h[c].parent
    IN  /\ h[p].kind \in {"choice", "case"}
        /\ \/ h[p].kind = "case" /\ h[h[c].orig].kind = "grouping"
           \/ Brought(h, p)

(***************************************************************************)
(* Every leaf of a loaded schema has a type that says how its values are   *)
(* read: a builtin format, and for a leafref the format of the leaf it     *)
(* points to, from where it ended up (compileType).                        *)
(***************************************************************************)
TypesResolved ==
    status = "ok" =>
      \A i \in Reachable(heap) : Is(heap, i, HasType) =>
        LET y == Pointer(heap, i, "type")
        IN  /\ Format(heap, y)[1] \in Builtin
            /\ Pointer(heap, y, "delegate") # Nil
            /\ Format(heap, y)[1] = "leafref"
                 => LET t == Find(heap, i, heap[y].at["path"])
                    IN  t # Nil => Format(heap, heap[y].at["delegate"]) = Format(heap, heap[t].at["type"])

\* The resolver changes no grouping: what a uses refines, augments and
\* deviates is a copy (clone).
Groupings(h) == {i \in DOMAIN h : h[i].kind = "grouping"}
GroupingsKept ==
    [][phase = "resolve" /\ ~Parsing =>
         \A g \in Groupings(heap) : TreeOf(heap', g, MaxDepth) = TreeOf(heap, g, MaxDepth)]_vars

\* Every load returns: an error, or a module (LoadModule).
Returns == <>(status # "loading")
=============================================================================
