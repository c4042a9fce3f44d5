------------------------------ MODULE Compiler ------------------------------
(***************************************************************************)
(* The compiler (meta/compile.go): it walks the resolved module, gives     *)
(* every type its format, its delegate and what its typedef adds, every    *)
(* definition its config, every list its keys, every identity its bases    *)
(* and every extension its definition.                                     *)
(*                                                                         *)
(* What is still to be done is the stack tasks, the first being next.  A   *)
(* task is a call of one of the compiler's functions, or the rest of one   *)
(* after a call it makes.  A Go map is walked in any order.                *)
(***************************************************************************)
EXTENDS Resolver
LOCAL INSTANCE SequencesExt

VARIABLE tasks

Root == 1   \* the main module is the first object made
NoName == <<"", "">>
Do(task, o) == [do |-> task, o |-> o, p |-> Nil, t |-> Nil, name |-> NoName]
DoAll(task, seq) == [i \in DOMAIN seq |-> Do(task, seq[i])]
TypeTask(task, y, p, t) == [Do(task, y) EXCEPT !.p = p, !.t = t]

Task == Head(tasks)
Then(h, more) == heap' = h /\ tasks' = more \o Tail(tasks) /\ UNCHANGED status
Stops(how) == status' = how /\ UNCHANGED <<heap, tasks>>
compilerKeeps == <<parse, calls, inProgress, recursives, features>>

HasType == Kinds("type") \cap Leafable
Meta == Kinds("parent")

-----------------------------------------------------------------------------
\* module: features, identities, revisions, what the imports need, then the
\* module itself.
CompileModule ==
    /\ Task.do = "module"
    /\ features' = Initialize(features, DOMAIN Kids(heap, Root, "features"))
    /\ \E ids \in Orders(Values(Kids(heap, Root, "identities"))),
          imps \in Orders(Values(Kids(heap, Root, "imports"))) :
          Then(heap, DoAll("compile", ids) \o DoAll("compile", Kids(heap, Root, "revs"))
                       \o DoAll("import", [i \in DOMAIN imps |-> heap[imps[i]].at["module"]])
                       \o <<Do("compile", Root)>>)
    /\ UNCHANGED <<parse, calls, inProgress, recursives>>

CompileImport ==
    /\ Task.do = "import"
    /\ \E ids \in Orders(Values(Kids(heap, Task.o, "identities"))),
          imps \in Orders(Values(Kids(heap, Task.o, "imports"))) :
          Then(heap, DoAll("compile", ids)
                       \o DoAll("import", [i \in DOMAIN imps |-> heap[imps[i]].at["module"]]))
    /\ UNCHANGED compilerKeeps

\* compile(o): typedefs, type, config, what is particular to its Go type,
\* definitions (not those of a recursive one), actions, notifications,
\* extensions.  A type is no Meta: compiling it does nothing.
Particular(o) ==
    CASE heap[o].kind \in {"extension", "typedef", "identity", "list"} -> {<<Do(heap[o].kind, o)>>}
      [] heap[o].kind = "rpc" -> {DoAll("compile", InputOutput(heap, o))}
      [] heap[o].kind = "choice" ->
            {DoAll("compile", order) : order \in Orders(Values(Kids(heap, o, "cases")))}
      [] OTHER -> {<<>>}

\* Variant: the definitions a recursive one shares are compiled again.
AllDefinitions(h, o) == IF Is(h, o, Kinds("defs")) THEN Kids(h, o, "defs") ELSE <<>>
OwnDefinitions(h, o) ==
    IF Is(h, o, Kinds("defs")) /\ ~IsSet(h, o, "recursive") THEN Kids(h, o, "defs") ELSE <<>>

CompileObject ==
    /\ Task.do = "compile"
    /\ LET o == Task.o
           map(f, kinds) == IF Is(heap, o, kinds) THEN Orders(Values(Kids(heap, o, f))) ELSE {<<>>}
           type == IF Is(heap, o, HasType)
                   THEN <<TypeTask("type", Pointer(heap, o, "type"), o, Nil)>> ELSE <<>>
           config == IF Is(heap, o, Kinds("config")) THEN <<Do("config", o)>> ELSE <<>>
           exts == IF Is(heap, o, Meta) THEN Kids(heap, o, "exts") ELSE <<>>
       IN  \E typedefs \in map("typedefs", Kinds("typedefs")), own \in Particular(o),
              acts \in map("actions", HasActions), nots \in map("notifs", HasNotifications) :
              Then(heap, DoAll("compile", typedefs) \o type \o config \o own
                           \o DoAll("compile", OwnDefinitions(heap, o) \o acts \o nots \o exts))
    /\ UNCHANGED compilerKeeps

-----------------------------------------------------------------------------
\* inheritConfig: outwards to the first definition that says, or past the
\* last that could; all on the way get the answer.
RECURSIVE Inherit(_, _)
Inherit(h, p) ==
    CASE ~Is(h, p, HasDetails) -> [h |-> h, config |-> TRUE]
      [] Is(h, p, HasDetails) /\ IsSet(h, p, "config") -> [h |-> h, config |-> h[p].at["config"]]
      [] OTHER -> LET up == Inherit(h, h[p].parent)
                  IN  [h |-> Put(up.h, p, "config", up.config), config |-> up.config]

Config ==
    /\ Task.do = "config"
    /\ LET up == Inherit(heap, heap[Task.o].parent)
       IN  Then(IF IsSet(heap, Task.o, "config") THEN heap ELSE Put(up.h, Task.o, "config", up.config), <<>>)
    /\ UNCHANGED compilerKeeps

\* list: its keys are leaves of its own.
List ==
    /\ Task.do = "list"
    /\ LET index == Kids(heap, Task.o, "index")
           key == Kids(heap, Task.o, "key")
       IN  IF \E i \in DOMAIN key : key[i] \notin DOMAIN index \/ ~Is(heap, index[key[i]], Leafable)
           THEN Stops("error")
           ELSE Then(Put(heap, Task.o, "keyMeta", [i \in DOMAIN key |-> index[key[i]]]), <<>>)
    /\ UNCHANGED compilerKeeps

\* extension: its prefix is one of the root module, wherever it was written.
Extension ==
    /\ Task.do = "extension"
    /\ LET prefix == heap[Task.o].ident[1]
           imports == Kids(heap, Root, "imports")
           m == CASE Get(heap, Root, "prefix", "") = prefix -> Root
                  [] prefix \in DOMAIN imports -> Pointer(heap, imports[prefix], "module")
                  [] OTHER -> Nil
           named == Kids(heap, m, "extensionDefs")
       IN  IF m = Nil THEN Stops("error")
           ELSE IF heap[Task.o].ident[2] \notin DOMAIN named THEN Stops("error")
           ELSE Then(Put(heap, Task.o, "def", named[heap[Task.o].ident[2]]), <<>>)
    /\ UNCHANGED compilerKeeps

Typedef ==
    /\ Task.do = "typedef"
    /\ IF IsSet(heap, Task.o, "type") THEN Then(heap, <<>>) ELSE Stops("error")
    /\ UNCHANGED compilerKeeps

\* identity: its bases, once; each learns that this one derives from it and
\* is compiled before the next.
IdentityNamed(h, y, id) ==
    LET m == ModuleOf(h, y, id[1])
        named == Kids(h, m, "identities")
    IN  IF m = Nil THEN Nil ELSE IF id[2] \in DOMAIN named THEN named[id[2]] ELSE Nil

Identity ==
    /\ Task.do = "identity"
    /\ IF IsSet(heap, Task.o, "bases") THEN Then(heap, <<>>)
       ELSE LET ids == Kids(heap, Task.o, "baseIds")
            IN  Then(Put(heap, Task.o, "bases", <<>>),
                     [i \in DOMAIN ids |-> [Do("base", Task.o) EXCEPT !.name = ids[i]]])
    /\ UNCHANGED compilerKeeps

BaseOf ==
    /\ Task.do = "base"
    /\ LET base == IdentityNamed(heap, heap[Task.o].parent, Task.name)
       IN  IF base = Nil THEN Stops("error")
           ELSE Then(Push(Push(heap, Task.o, "bases", base), base, "derived", Task.o),
                     <<Do("compile", base)>>)
    /\ UNCHANGED compilerKeeps

-----------------------------------------------------------------------------
(***************************************************************************)
(* compileType(y, p): a type of the leaf, leaf-list or typedef p.  A       *)
(* format is a builtin name, TRUE beside it for the format of a list.      *)
(***************************************************************************)
Builtin ==
    {"binary", "bits", "boolean", "decimal64", "enumeration", "identityref",
     "instance-identifier", "int8", "int16", "int32", "int64", "leafref", "string", "uint8",
     "uint16", "uint32", "uint64", "union", "any"}
Format(h, y) == Get(h, y, "format", <<"", FALSE>>)

FindTypedef(h, p, ident) ==
    LET m == ModuleOf(h, p, ident[1])
        named == Kids(h, m, "typedefs")
    IN  CASE m = Nil -> Nil
          [] m # Nil /\ m = OriginalModule(h, p) -> InScope(h, p, Kinds("typedefs"), "typedefs", ident[2])
          [] OTHER -> IF ident[2] \in DOMAIN named THEN named[ident[2]] ELSE Nil

\* A type is compiled once, for the first definition that comes with it.
CompileType ==
    /\ Task.do = "type"
    /\ LET y == Task.o
           ident == heap[y].ident
           t == FindTypedef(heap, Task.p, ident)
           next(task, found) == TypeTask(task, y, Task.p, found)
       IN  CASE y = Nil -> Stops("error")
             [] y # Nil /\ IsSet(heap, y, "format") -> Then(heap, <<>>)
             [] y # Nil /\ ~IsSet(heap, y, "format") /\ ident[1] = "" /\ ident[2] \in Builtin ->
                   Then(Put(heap, y, "format", <<ident[2], FALSE>>), <<next("typed", Nil)>>)
             [] OTHER -> IF t = Nil THEN Stops("error")
                         ELSE Then(heap, <<Do("compile", t), next("mixin", t), next("typed", Nil)>>)
    /\ UNCHANGED compilerKeeps

\* mixin: what the type does not say is taken from the typedef's type, whose
\* ranges and lengths come on top of its own; the definition takes the
\* typedef's default and units when it has none.
Taken == {"patterns", "path", "enums", "base", "unions", "identity"}
Joined == {"ranges", "lengths"}
MixIn(h, base, y) ==
    LET taken == {f \in Taken : IsSet(h, base, f) /\ ~IsSet(h, y, f)}
        joined == {f \in Joined : IsSet(h, base, f)}
    IN  [h EXCEPT ![y].at = [f \in taken \cup {"format"} |-> h[base].at[f]]
                              @@ [f \in joined |-> Kids(h, y, f) \o h[base].at[f]] @@ @]

Mixin ==
    /\ Task.do = "mixin"
    /\ LET mixed == MixIn(heap, heap[Task.t].at["type"], Task.o)
           gives == {f \in {"default", "units"} : IsSet(heap, Task.t, f) /\ ~IsSet(heap, Task.p, f)}
       IN  IF heap[Task.p].kind = "any" THEN Stops("panic")
           ELSE Then([mixed EXCEPT ![Task.p].at = @ @@ [f \in gives |-> heap[Task.t].at[f]]], <<>>)
    /\ UNCHANGED compilerKeeps

\* Variant: a leafref stands for itself.
DelegateSelf(h, y, p) == y

\* A leafref stands for the type of the leaf it points to; one that points
\* nowhere is left as it is.
Delegate(h, y, p) ==
    LET t == Find(h, p, Kids(h, y, "path"))
    IN  CASE Format(h, y)[1] # "leafref" \/ t = Nil -> y
          [] OTHER -> IF Is(h, t, HasType) THEN Pointer(h, t, "type") ELSE Panic

\* An enum without a value above 0 takes the number after the one before it,
\* so does the position of a bit.
Numbered(h, items, f) ==
    FoldLeft(LAMBDA r, i : LET n == IF Get(r.h, i, f, 0) > 0 THEN r.h[i].at[f] ELSE r.next
                           IN  [h |-> Put(r.h, i, f, n), next |-> n + 1, ids |-> Append(r.ids, n)],
             [h |-> h, next |-> 0, ids |-> <<>>], items)

\* The format of a leaf-list is made a list's before the members of a union
\* are looked at.
Typed ==
    /\ Task.do = "typed"
    /\ LET y == Task.o
           base == Format(heap, y)[1]
           format == <<base, heap[Task.p].kind = "leafList" \/ Format(heap, y)[2]>>
           delegate == IF base = "leafref" /\ ~IsSet(heap, y, "path") THEN Nil ELSE Delegate(heap, y, Task.p)
           identity == IF base # "identityref" THEN Nil
                       ELSE IF IsSet(heap, y, "identity") THEN heap[y].at["identity"]
                       ELSE IdentityNamed(heap, Task.p, Get(heap, y, "base", NoName))
           unions == Kids(heap, y, "unions")
           isUnion == format = <<"union", FALSE>>
           h == Put(Put(heap, y, "format", format), y, "delegate", delegate)
           withId == IF identity = Nil THEN h ELSE Put(h, y, "identity", identity)
           enums == Numbered(withId, Kids(heap, y, "enums"), "value")
           bits == Numbered(withId, Kids(heap, y, "bits"), "position")
       IN  IF base = "leafref" /\ ~IsSet(heap, y, "path") THEN Stops("error")
           ELSE IF delegate = Panic THEN Stops("panic")
           ELSE IF \/ base = "identityref" /\ identity = Nil
                   \/ isUnion /\ unions = <<>>
                   \/ ~isUnion /\ unions # <<>> THEN Stops("error")
           ELSE Then(CASE base = "enumeration" -> Put(enums.h, y, "enumIds", enums.ids)
                       [] base = "bits" -> bits.h
                       [] OTHER -> withId,
                     [i \in DOMAIN unions |-> TypeTask("type", unions[i], Task.p, Nil)])
    /\ UNCHANGED compilerKeeps

CompilerNext ==
    /\ tasks # <<>>
    /\ \/ CompileModule \/ CompileImport \/ CompileObject \/ Config \/ List \/ Extension \/ Typedef
       \/ Identity \/ BaseOf \/ CompileType \/ Mixin \/ Typed
=============================================================================
