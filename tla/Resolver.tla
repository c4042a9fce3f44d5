------------------------------ MODULE Resolver ------------------------------
(***************************************************************************)
(* The resolver (meta/resolver.go): every uses is replaced by a clone of   *)
(* its grouping, refined and augmented; imports and includes are loaded;   *)
(* augments and deviations are applied.  The Go call stack is the variable *)
(* calls, one frame per call under way:                                    *)
(*                                                                         *)
(*   module   r.module(x), in its steps                                    *)
(*   dataDef  r.dataDef(x, todo): what is left of its loop                 *)
(*   uses     the rest of addDataDef for the uses u in x, once the clones  *)
(*            of the grouping g have been processed                        *)
(*   each     a loop calling r.dataDef(y, y.popDataDefinitions()) for its  *)
(*            elements: inputs and outputs of actions, notifications, cases *)
(*                                                                         *)
(* A Go map is walked in any order.  files are the texts the opener finds. *)
(***************************************************************************)
EXTENDS YangParser, Features, Deviations
LOCAL INSTANCE SequencesExt

VARIABLES
    files,       \* module name -> its text
    calls,       \* the frames
    inProgress,  \* inProgressUses: schemaId -> the parent the uses stands in
    recursives,  \* <<master, duplicate>>, to be filled in at the end
    features     \* the feature set, shared by all modules

resolverVars == <<calls, inProgress, recursives, features>>

Call == Last(calls)
Become(c) == Append(Front(calls), c)
Returned == Front(calls)
DataDef(x, todo) == [fn |-> "dataDef", x |-> x, todo |-> todo]
Each(todo) == [fn |-> "each", todo |-> todo]
Orders(S) == SetToSeqs(S)

Fails(how) == status' = how /\ UNCHANGED <<heap, calls, inProgress, recursives>>

-----------------------------------------------------------------------------
(* r.module *)

ModuleCall(m) == [fn |-> "module", x |-> m, step |-> "features", todo |-> <<>>]

InitFeatures ==
    /\ Call.fn = "module" /\ Call.step = "features"
    /\ features' = Initialize(features, DOMAIN Kids(heap, Call.x, "features"))
    /\ calls' = Become([Call EXCEPT !.step = "includes", !.todo = Kids(heap, Call.x, "includes")])
    /\ UNCHANGED <<heap, parse, status, inProgress, recursives>>

\* The submodule is parsed into its module; the loop runs over the includes
\* there were when it began.
LoadInclude ==
    /\ Call.fn = "module" /\ Call.step = "includes" /\ Call.todo # <<>>
    /\ LET name == heap[Head(Call.todo)].ident
       IN  IF name \notin DOMAIN files THEN Fails("error") /\ UNCHANGED parse
           ELSE /\ parse' = Reading(files[name], Call.x)
                /\ calls' = Become([Call EXCEPT !.todo = Tail(@)])
                /\ UNCHANGED <<heap, status, inProgress, recursives>>
    /\ UNCHANGED features

StartImports ==
    /\ Call.fn = "module" /\ Call.step = "includes" /\ Call.todo = <<>>
    /\ \E order \in Orders(Values(Kids(heap, Call.x, "imports"))) :
          calls' = Become([Call EXCEPT !.step = "imports", !.todo = order])
    /\ heap' = Put(heap, Call.x, "imports", <<>>)
    /\ UNCHANGED <<parse, status, inProgress, recursives, features>>

LoadImport ==
    /\ Call.fn = "module" /\ Call.step = "imports" /\ Call.todo # <<>>
    /\ LET i == Head(Call.todo)
       IN  IF ~IsSet(heap, i, "prefix") \/ heap[i].ident \notin DOMAIN files
           THEN Fails("error") /\ UNCHANGED parse
           ELSE /\ parse' = Reading(files[heap[i].ident], Nil)
                /\ calls' = Become([Call EXCEPT !.step = "loaded"])
                /\ UNCHANGED <<heap, status, inProgress, recursives>>
    /\ UNCHANGED features

\* recurse: the imported module goes through the same resolver.
ResolveImport ==
    /\ Call.fn = "module" /\ Call.step = "loaded"
    /\ heap' = Put(heap, Head(Call.todo), "module", parse.module)
    /\ calls' = Append(Become([Call EXCEPT !.step = "import"]), ModuleCall(parse.module))
    /\ UNCHANGED <<parse, status, inProgress, recursives, features>>

\* The import is indexed again, by its prefix.
ImportDone ==
    /\ Call.fn = "module" /\ Call.step = "import"
    /\ LET i == Head(Call.todo)
       IN  heap' = PutKey(heap, Call.x, "imports", Get(heap, i, "prefix", ""), i)
    /\ calls' = Become([Call EXCEPT !.step = "imports", !.todo = Tail(@)])
    /\ UNCHANGED <<parse, status, inProgress, recursives, features>>

ModuleDefs ==
    /\ Call.fn = "module" /\ Call.step = "imports" /\ Call.todo = <<>>
    /\ calls' = Append(Become([Call EXCEPT !.step = "augments", !.todo = Kids(heap, Call.x, "augments")]),
                       DataDef(Call.x, Kids(heap, Call.x, "defs")))
    /\ heap' = PopDefs(heap, Call.x)
    /\ UNCHANGED <<parse, status, inProgress, recursives, features>>

-----------------------------------------------------------------------------
(* expandAugment(a, p), shared by module and uses *)

\* r = [h, err]: clones of what the augment holds go into its target; a
\* target that cannot hold them fails the type assertion.
PutOps(r, t, f, ops) ==
    FoldLeft(LAMBDA s, x : LET c == Clone(s.h, x, t) IN [s EXCEPT !.h = AddTo(c.h, t, f, c.id)],
             r, ops)
InsertDef(r, t, c) ==
    CASE r.err # "" -> r
      [] r.err = "" /\ Conflict(c.h, t, c.id) -> [r EXCEPT !.err = "panic"]
      [] OTHER -> [r EXCEPT !.h = AddDef(c.h, t, c.id)]
PutDefs(r, t, defs) == FoldLeft(LAMBDA s, x : InsertDef(s, t, Clone(s.h, x, t)), r, defs)

AugmentInto(h, a, t) ==
    LET ops(f) == SetToSeq(Values(Kids(h, a, f)))
        defs == Kids(h, a, "defs")
    IN  CASE t = Nil -> [h |-> h, err |-> "error"]
          [] \/ t = Panic
             \/ ops("actions") # <<>> /\ ~Is(h, t, HasActions)
             \/ ops("notifs") # <<>> /\ ~Is(h, t, HasNotifications)
             \/ defs # <<>> /\ ~Is(h, t, Kinds("defs")) -> [h |-> h, err |-> "panic"]
          [] OTHER -> PutDefs(PutOps(PutOps([h |-> h, err |-> ""], t, "actions", ops("actions")),
                                     t, "notifs", ops("notifs")), t, defs)

Augmented(h, a, p) == AugmentInto(h, a, Find(h, p, h[a].ident))

\* The loop goes on to what is left of it, or ends with an error.
GoOn(r, left) ==
    IF r.err # "" THEN Fails(r.err)
    ELSE /\ heap' = r.h
         /\ calls' = Become([Call EXCEPT !.todo = left])
         /\ UNCHANGED <<status, inProgress, recursives>>

\* With its if-feature off an augment does nothing.
AugmentIf(on, a, p) ==
    /\ features' = on.fs
    /\ UNCHANGED parse
    /\ GoOn(CASE on.err -> [h |-> heap, err |-> "error"]
              [] on.on -> Augmented(heap, a, p)
              [] OTHER -> [h |-> heap, err |-> ""], Tail(Call.todo))

Augment(a, p) == AugmentIf(CheckFeature(heap, features, a), a, p)

ModuleAugment ==
    /\ Call.fn = "module" /\ Call.step = "augments" /\ Call.todo # <<>>
    /\ Augment(Head(Call.todo), Call.x)

StartDeviations ==
    /\ Call.fn = "module" /\ Call.step = "augments" /\ Call.todo = <<>>
    /\ calls' = Become([Call EXCEPT !.step = "deviations", !.todo = Kids(heap, Call.x, "deviations")])
    /\ UNCHANGED <<heap, parse, status, inProgress, recursives, features>>

Deviate ==
    /\ Call.fn = "module" /\ Call.step = "deviations" /\ Call.todo # <<>>
    /\ GoOn(Deviated(heap, Head(Call.todo), Call.x), Tail(Call.todo))
    /\ UNCHANGED <<parse, features>>

ModuleDone ==
    /\ Call.fn = "module" /\ Call.step = "deviations" /\ Call.todo = <<>>
    /\ calls' = Returned
    /\ UNCHANGED <<heap, parse, status, inProgress, recursives, features>>

-----------------------------------------------------------------------------
(* r.dataDef and r.addDataDef *)

InDefs == Call.fn = "dataDef" /\ Call.todo # <<>>
Def == Head(Call.todo)
Feature == CheckFeature(heap, features, Def)
NextDef == [Call EXCEPT !.todo = Tail(@)]

\* A definition whose if-feature is off is left out.
SkipDef ==
    /\ InDefs /\ ~Feature.on
    /\ features' = Feature.fs
    /\ UNCHANGED parse
    /\ IF Feature.err THEN Fails("error")
       ELSE calls' = Become(NextDef) /\ UNCHANGED <<heap, status, inProgress, recursives>>

\* The definition goes back into its parent before what it holds is
\* processed; the cases of a choice one after the other.
KeepDef ==
    /\ InDefs /\ Feature.on /\ heap[Def].kind # "uses"
    /\ features' = Feature.fs
    /\ UNCHANGED parse
    /\ IF Conflict(heap, Call.x, Def) THEN Fails("panic")
       ELSE LET h == AddDef(heap, Call.x, Def)
            IN  /\ UNCHANGED <<status, inProgress, recursives>>
                /\ CASE h[Def].kind \in Kinds("defs") ->
                           /\ heap' = PopDefs(h, Def)
                           /\ calls' = Append(Become(NextDef), DataDef(Def, Kids(h, Def, "defs")))
                     [] h[Def].kind = "choice" ->
                           /\ heap' = h
                           /\ \E order \in Orders(Values(Kids(h, Def, "cases"))) :
                                 calls' = Append(Become(NextDef), Each(order))
                     [] OTHER -> heap' = h /\ calls' = Become(NextDef)

\* findGrouping: outwards from where the uses was written, or in the module
\* its prefix stands for.
FindGrouping(h, u) ==
    LET prefix == h[u].ident[1]
        m == ModuleOf(h, u, prefix)
        named == Kids(h, m, "groupings")
    IN  CASE m = Nil -> Nil
          [] m = OriginalModule(h, u) -> InScope(h, u, HasGroupings, "groupings", h[u].ident[2])
          [] OTHER -> IF h[u].ident[2] \in DOMAIN named THEN named[h[u].ident[2]] ELSE Nil

\* Variant: the when of the uses is forgotten.
CloneDefsBare(h, p, defs, when) ==
    FoldLeft(LAMBDA r, d : LET c == Clone(r.h, d, p) IN [h |-> c.h, ids |-> Append(r.ids, c.id)],
             [h |-> h, ids |-> <<>>], defs)

\* cloneDefs: the when of the uses becomes the when of every clone.
CloneDefs(h, p, defs, when) ==
    FoldLeft(LAMBDA r, d :
               LET c == Clone(r.h, d, p)
               IN  [h |-> IF when = Nil THEN c.h
                          ELSE Put([c.h EXCEPT ![when].parent = c.id], c.id, "when", when),
                    ids |-> Append(r.ids, c.id)],
             [h |-> h, ids |-> <<>>], defs)

Uses == InDefs /\ Feature.on /\ heap[Def].kind = "uses"
\* Variant: every parent is remembered, inputs and outputs too.
HoldsAny(p) == heap[p].kind \in Kinds("defs")
Holds(p) == heap[p].kind \in {"list", "container", "module"}
Seen(u) == heap[u].at["schemaId"] \in DOMAIN inProgress

\* A uses met again, in a list or container, is taken for a recursive one:
\* its parent is filled in at the end, and the call returns at once.
UsesAgain ==
    /\ Uses /\ Holds(Call.x) /\ Seen(Def) /\ FindGrouping(heap, Def) # Nil
    /\ features' = Feature.fs
    /\ recursives' = Append(recursives, <<inProgress[heap[Def].at["schemaId"]], Call.x>>)
    /\ calls' = Returned
    /\ UNCHANGED <<heap, parse, status, inProgress>>

\* Otherwise the definitions of the grouping are cloned into the parent and
\* processed there.
Expand(g, c) ==
    /\ heap' = c.h
    /\ calls' = Become(NextDef)
                  \o <<[fn |-> "uses", x |-> Call.x, u |-> Def, g |-> g, step |-> "refines",
                        todo |-> Kids(heap, Def, "refines")],
                      DataDef(Call.x, c.ids)>>

UsesFirst ==
    /\ Uses /\ FindGrouping(heap, Def) # Nil /\ ~(Holds(Call.x) /\ Seen(Def))
    /\ LET g == FindGrouping(heap, Def)
       IN  Expand(g, CloneDefs(heap, Call.x, Kids(heap, g, "defs"), Pointer(heap, Def, "when")))
    /\ inProgress' = IF Holds(Call.x) THEN (heap[Def].at["schemaId"] :> Call.x) @@ inProgress
                     ELSE inProgress
    /\ features' = Feature.fs
    /\ UNCHANGED <<parse, status, recursives>>

UsesUnknown ==
    /\ Uses /\ FindGrouping(heap, Def) = Nil
    /\ features' = Feature.fs
    /\ Fails("error") /\ UNCHANGED parse

InputOutput(h, a) ==
    LET io == Kids(h, a, "io")
        in(m) == IF m \in DOMAIN io THEN <<io[m]>> ELSE <<>>
    IN  in("input") \o in("output")

\* After the loop: the inputs and outputs of the actions, the notifications.
OperationLoops ==
    /\ Call.fn = "dataDef" /\ Call.todo = <<>>
    /\ LET of(f, kinds) == IF Is(heap, Call.x, kinds) THEN Values(Kids(heap, Call.x, f)) ELSE {}
       IN  \E acts \in Orders(of("actions", HasActions)), nots \in Orders(of("notifs", HasNotifications)) :
             calls' = Become(Each(FlattenSeq([i \in DOMAIN acts |-> InputOutput(heap, acts[i])]) \o nots))
    /\ UNCHANGED <<heap, parse, status, inProgress, recursives, features>>

EachNext ==
    /\ Call.fn = "each"
    /\ IF Call.todo = <<>> THEN calls' = Returned /\ UNCHANGED heap
       ELSE /\ calls' = Append(Become([Call EXCEPT !.todo = Tail(@)]),
                               DataDef(Head(Call.todo), Kids(heap, Head(Call.todo), "defs")))
            /\ heap' = PopDefs(heap, Head(Call.todo))
    /\ UNCHANGED <<parse, status, inProgress, recursives, features>>
-----------------------------------------------------------------------------
(* The rest of addDataDef for a uses, once its clones have been processed *)

InUses(step) == Call.fn = "uses" /\ Call.step = step

\* refine: what the refinement y has is set on the target t through the
\* builder of the resolver, whose error ends the call.
RefineFields ==
    <<<<"description", "desc">>, <<"reference", "ref">>, <<"default", "default">>,
      <<"config", "config">>, <<"mandatory", "mandatory">>, <<"maxElements", "max">>,
      <<"minElements", "min">>, <<"unbounded", "unbounded">>>>

RefineMust(b, m, t) ==
    LET c == Clone(b.h, m, t)
    IN  IF b.h[t].kind \in Kinds("musts") THEN [b EXCEPT !.h = Push(c.h, t, "musts", c.id)]
        ELSE Refuse(b)

Refined(b, y, t) ==
    LET set == SelectSeq(RefineFields, LAMBDA f : IsSet(b.h, y, f[2]))
    IN  FoldLeft(LAMBDA r, m : RefineMust(r, m, t),
                 FoldLeft(LAMBDA r, f : Set(r, f[1], t, b.h[y].at[f[2]]), b, set),
                 Kids(b.h, y, "musts"))

RefineTarget(h, y, t) ==
    CASE t = Nil -> [h |-> h, err |-> "error"]
      [] t = Panic -> [h |-> h, err |-> "panic"]
      [] OTHER -> Refined([h |-> h, uid |-> 0, err |-> "", id |-> Nil], y, t)

\* applyRefinements: a refinement whose if-feature is off ends the loop.
RefineIf(on, y) ==
    /\ features' = on.fs
    /\ UNCHANGED parse
    /\ CASE on.err -> Fails("error")
         [] on.on -> GoOn(RefineTarget(heap, y, Find(heap, Call.x, heap[y].ident)), Tail(Call.todo))
         [] OTHER -> GoOn([h |-> heap, err |-> ""], <<>>)

ApplyRefinement ==
    /\ InUses("refines") /\ Call.todo # <<>>
    /\ RefineIf(CheckFeature(heap, features, Head(Call.todo)), Head(Call.todo))

StartAugments ==
    /\ InUses("refines") /\ Call.todo = <<>>
    /\ calls' = Become([Call EXCEPT !.step = "augments", !.todo = Kids(heap, Call.u, "augments")])
    /\ UNCHANGED <<heap, parse, status, inProgress, recursives, features>>

UsesAugment ==
    /\ InUses("augments") /\ Call.todo # <<>>
    /\ Augment(Head(Call.todo), Call.x)

\* The actions and notifications of the grouping are cloned unresolved: the
\* loop of dataDef over the parent's comes to them.
CopyOperations ==
    /\ InUses("augments") /\ Call.todo = <<>>
    /\ LET of(f) == SetToSeq(Values(Kids(heap, Call.g, f)))
       IN  IF \/ of("actions") # <<>> /\ ~Is(heap, Call.x, HasActions)
              \/ of("notifs") # <<>> /\ ~Is(heap, Call.x, HasNotifications)
           THEN Fails("error")
           ELSE /\ heap' = PutOps(PutOps([h |-> heap, err |-> ""], Call.x, "actions", of("actions")),
                                  Call.x, "notifs", of("notifs")).h
                /\ calls' = Returned
                /\ UNCHANGED <<status, inProgress, recursives>>
    /\ UNCHANGED <<parse, features>>

-----------------------------------------------------------------------------
\* fillInRecursiveDefs: the duplicate gets the very definitions of its
\* master; a module cannot be marked recursive.
FillIn(r, e) ==
    LET master == e[1]
        duplicate == e[2]
        popped == Put(PopDefs(r.h, duplicate), duplicate, "recursive", TRUE)
        put(s, d) == IF s.err # "" THEN s
                     ELSE IF Conflict(s.h, duplicate, d) THEN [s EXCEPT !.err = "panic"]
                     ELSE [s EXCEPT !.h = AddDef(s.h, duplicate, d)]
    IN  CASE r.err # "" -> r
          [] r.err = "" /\ r.h[duplicate].kind = "module" -> [r EXCEPT !.err = "panic"]
          [] OTHER -> FoldLeft(put, [r EXCEPT !.h = popped], Kids(popped, master, "defs"))

FillInRecursiveDefs ==
    LET r == FoldLeft(FillIn, [h |-> heap, err |-> ""], recursives)
    IN  /\ calls = <<>>
        /\ IF r.err # "" THEN status' = r.err /\ UNCHANGED heap
           ELSE heap' = r.h /\ UNCHANGED status
        /\ UNCHANGED <<parse, calls, inProgress, recursives, features>>

ResolverInit ==
    /\ calls = <<>> /\ inProgress = NoFields /\ recursives = <<>>

ResolverNext ==
    /\ calls # <<>>
    /\ \/ InitFeatures \/ LoadInclude \/ StartImports \/ LoadImport \/ ResolveImport
       \/ ImportDone \/ ModuleDefs \/ ModuleAugment \/ StartDeviations \/ Deviate \/ ModuleDone
       \/ SkipDef \/ KeepDef \/ UsesAgain \/ UsesFirst \/ UsesUnknown \/ OperationLoops
       \/ EachNext \/ ApplyRefinement \/ StartAugments \/ UsesAugment \/ CopyOperations
=============================================================================
