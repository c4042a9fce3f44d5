-------------------------- MODULE SchemaReference --------------------------
(***************************************************************************)
(* What a schema text means, said without the parser, the resolver or the  *)
(* compiler: the tree of its definitions, read off the statements.  A uses *)
(* stands for the definitions of its grouping, in the scope the grouping   *)
(* was written in, refined and augmented; a typedef for its type; config   *)
(* goes down the tree; what an if-feature turns off is not there.          *)
(*                                                                         *)
(* A tree is [k, at, kids]: the kind of a definition, what is said of it   *)
(* and its children by name; below depth d it is cut off, so that a        *)
(* grouping that uses itself has a finite one.                             *)
(***************************************************************************)
EXTENDS Integers, Sequences, FiniteSets, TLC
LOCAL INSTANCE SequencesExt

Nothing == [n \in {} |-> 0]
Named(stmts, k) == SelectSeq(stmts, LAMBDA s : s.k = k)
Says(stmts, k) == Named(stmts, k) # <<>>
What(stmts, k, otherwise) == IF Says(stmts, k) THEN Last(Named(stmts, k)).a ELSE otherwise

\* A module with its submodules; the module an import stands for.
Text(p, m) ==
    FlattenSeq(<<p.files[m].b>> \o [i \in DOMAIN Named(p.files[m].b, "include") |->
                                      p.files[Named(p.files[m].b, "include")[i].a].b])
Prefix(p, m) == What(p.files[m].b, "prefix", "")
Imported(p, m, prefix) ==
    (CHOOSE i \in ToSet(Named(Text(p, m), "import")) : What(i.b, "prefix", "") = prefix).a

\* An environment: the module, and the statements around, innermost first.
Env(p, m) == [mod |-> m, scopes |-> <<Text(p, m)>>]
Inside(env, stmts) == [env EXCEPT !.scopes = <<stmts>> \o @]

\* The grouping or typedef of that name in scope, and its own environment.
RECURSIVE LookUp(_, _, _, _)
LookUp(p, env, k, id) ==
    LET here == SelectSeq(Head(env.scopes), LAMBDA s : s.k = k /\ s.a = id[2])
    IN  IF id[1] \notin {"", Prefix(p, env.mod)}
        THEN LookUp(p, Env(p, Imported(p, env.mod, id[1])), k, <<"", id[2]>>)
        ELSE IF here # <<>> THEN [s |-> Head(here), env |-> Inside(env, Head(here).b)]
        ELSE LookUp(p, [env EXCEPT !.scopes = Tail(@)], k, id)

-----------------------------------------------------------------------------
\* if-feature: "or" binds weakest, then "and", then "not".
Depth(expr, i) ==
    Cardinality({j \in 1..i : expr[j] = "("}) - Cardinality({j \in 1..i : expr[j] = ")"})
Splits(expr, op) == {i \in DOMAIN expr : expr[i] = op /\ Depth(expr, i) = 0}
Halves(expr, op) ==
    LET i == CHOOSE j \in Splits(expr, op) : TRUE
    IN  {SubSeq(expr, 1, i - 1), SubSeq(expr, i + 1, Len(expr))}
RECURSIVE Holds(_, _)
Holds(expr, on) ==
    CASE Splits(expr, "or") # {} -> \E half \in Halves(expr, "or") : Holds(half, on)
      [] Splits(expr, "or") = {} /\ Splits(expr, "and") # {} ->
            \A half \in Halves(expr, "and") : Holds(half, on)
      [] OTHER -> CASE Head(expr) = "not" -> ~Holds(Tail(expr), on)
                    [] Head(expr) = "(" -> Holds(SubSeq(expr, 2, Len(expr) - 1), on)
                    [] OTHER -> Head(expr) \in on

\* The features of the project that are supported.
Features(p) ==
    LET declared == UNION {{s.a : s \in ToSet(Named(p.files[m].b, "feature"))} : m \in DOMAIN p.files}
    IN  IF p.otherwiseOn THEN declared \ p.features ELSE declared \cap p.features
Supported(p, s) == \A f \in ToSet(Named(s.b, "ifFeature")) : Holds(f.a, Features(p))

-----------------------------------------------------------------------------
\* A type: its builtin type, the members of a union, the numbers of an
\* enumeration, and what its typedefs give the definition that has it.
Numbers(items, k) ==
    LET n[i \in 0..Len(items)] == IF i = 0 THEN -1 ELSE What(items[i].b, k, n[i - 1] + 1)
    IN  [i \in DOMAIN items |-> n[i]]
Gives(stmts) == {<<s.k, s.a>> : s \in {t \in ToSet(stmts) : t.k \in {"default", "units"}}}

\* What a typedef gives counts before what the typedefs under it give.
GivenBy(own, means) ==
    [means EXCEPT !.gives = own \cup {g \in @ : ~\E o \in own : o[1] = g[1]}]

RECURSIVE Meaning(_, _, _)
Meaning(p, env, t) ==
    LET members == Named(t.b, "type")
        builtin == t.a[1] = "" /\ ~\E i \in DOMAIN env.scopes :
                                     \E s \in ToSet(env.scopes[i]) : s.k = "typedef" /\ s.a = t.a[2]
        named == LookUp(p, env, "typedef", t.a)
    IN  IF builtin
        THEN [type |-> t.a[2], gives |-> {},
              union |-> {Meaning(p, env, members[i]).type : i \in DOMAIN members},
              enum |-> Numbers(Named(t.b, "enum"), "value")]
        ELSE GivenBy(Gives(named.s.b), Meaning(p, named.env, Head(Named(named.s.b, "type"))))

-----------------------------------------------------------------------------
Stated ==
    [description |-> "desc", config |-> "config", mandatory |-> "mandatory", default |-> "default",
     maxElements |-> "max", minElements |-> "min", units |-> "units", key |-> "key", presence |-> "presence"]
Said(stmts) ==
    LET said == {s \in ToSet(stmts) : s.k \in DOMAIN Stated}
    IN  [f \in {Stated[s.k] : s \in said} |-> (CHOOSE s \in said : Stated[s.k] = f).a]
Musts(stmts) == {m.a : m \in ToSet(Named(stmts, "must"))}

\* All that is said of a definition: its statements, then its typedef's.
TypeTold(means, list) ==
    [f \in {g[1] : g \in means.gives} |-> (CHOOSE g \in means.gives : g[1] = f)[2]]
      @@ [type |-> [base |-> means.type, union |-> means.union, enum |-> means.enum, list |-> list]]

About(p, env, s) ==
    LET type == Named(s.b, "type")
        said == Said(s.b)
                  @@ [musts |-> Musts(s.b), when |-> {w.a : w \in ToSet(Named(s.b, "when"))}]
    IN  IF type = <<>> THEN said
        ELSE said @@ TypeTold(Meaning(p, env, Head(type)), s.k = "leafList")

Nodes == {"container", "list", "leaf", "leafList", "any", "choice"}
Ops == {"rpc", "action", "notification"}
Kind(k) == IF k = "action" THEN "rpc" ELSE k
Tree(k, at, kids) == [k |-> Kind(k), at |-> at, kids |-> kids]

\* Change the tree at a path below kids.
RECURSIVE At(_, _, _)
At(kids, path, change) ==
    IF Head(path) \notin DOMAIN kids THEN kids
    ELSE [kids EXCEPT ![Head(path)] =
            IF Len(path) = 1
            THEN [@ EXCEPT !.at = [change.at @@ @ EXCEPT !.musts = @ \cup change.musts],
                           !.kids = change.kids @@ @]
            ELSE [@ EXCEPT !.kids = At(@, Tail(path), change)]]

\* In a choice, a definition that is not a case is a case of its own.
Shorthand(s) ==
    IF s.k # "choice" THEN s.b
    ELSE [i \in DOMAIN s.b |-> IF s.b[i].k \notin Nodes THEN s.b[i]
                              ELSE [k |-> "case", a |-> s.b[i].a, b |-> <<s.b[i]>>]]

RECURSIVE Below(_, _, _, _)
\* The definition s, and those of all the statements in stmts, down to d.
Definition1(p, env, s, d) ==
    LET in == Inside(env, s.b)
        below == CASE d = 0 -> Nothing
                   [] s.k \in {"rpc", "action"} /\ d > 0 ->
                         [io \in {x.k : x \in ToSet(s.b)} \cap {"input", "output"} |->
                            LET x == Head(Named(s.b, io))
                            IN  Tree(io, About(p, env, x), Below(p, Inside(in, x.b), x.b, d - 1))]
                   [] OTHER -> Below(p, in, Shorthand(s), d - 1)
    IN  Tree(s.k, About(p, env, s), below)

Guarded(kids, when) == [n \in DOMAIN kids |-> [kids[n] EXCEPT !.at.when = @ \cup when]]

Used(p, env, u, d) ==
    LET g == LookUp(p, env, "grouping", u.a)
        whens == Guarded(Below(p, g.env, g.s.b, d), {w.a : w \in ToSet(Named(u.b, "when"))})
        patch(k) == SelectSeq(u.b, LAMBDA s : s.k = k /\ Supported(p, s))
        refine(kids, r) == At(kids, r.a, [at |-> Said(r.b), musts |-> Musts(r.b), kids |-> Nothing])
        augment(kids, a) ==
            At(kids, a.a, [at |-> Nothing, musts |-> {},
                           kids |-> IF d < Len(a.a) THEN Nothing
                                    ELSE Below(p, Inside(Inside(env, u.b), a.b), a.b, d - Len(a.a))])
    IN  FoldLeft(augment, FoldLeft(refine, whens, patch("refine")), patch("augment"))

ByName(defined) ==
    [n \in {s.a : s \in DOMAIN defined} |-> defined[CHOOSE s \in DOMAIN defined : s.a = n]]

Below(p, env, stmts, d) ==
    LET here == {s \in ToSet(stmts) : Supported(p, s)}
        defined == [s \in {x \in here : x.k \in Nodes \cup Ops \cup {"case"}} |->
                      Definition1(p, env, s, d)]
        used == {Used(p, env, u, d) : u \in {x \in here : x.k = "uses"}}
    IN  FoldSet(LAMBDA f, all : f @@ all, ByName(defined), used)

-----------------------------------------------------------------------------
\* A deviation: a definition that is not supported is left out, otherwise
\* what it adds or replaces is said, what it deletes is not said any more.
RECURSIVE Deviate1(_, _, _)
Deviate1(kids, path, b) ==
    LET changed == Said(FlattenSeq([i \in DOMAIN b |-> IF b[i].k # "deleteDeviate" THEN b[i].b ELSE <<>>]))
        gone == DOMAIN Said(FlattenSeq([i \in DOMAIN b |-> IF b[i].k = "deleteDeviate" THEN b[i].b ELSE <<>>]))
        n == Head(path)
        more == Musts(FlattenSeq([i \in DOMAIN b |-> IF b[i].k = "addDeviate" THEN b[i].b ELSE <<>>]))
        less == Musts(FlattenSeq([i \in DOMAIN b |-> IF b[i].k = "deleteDeviate" THEN b[i].b ELSE <<>>]))
        said(at) == [changed @@ [f \in DOMAIN at \ gone |-> at[f]] EXCEPT !.musts = (@ \cup more) \ less]
    IN  CASE Len(path) > 1 -> [kids EXCEPT ![n].kids = Deviate1(@, Tail(path), b)]
          [] Len(path) = 1 /\ Says(b, "notSupported") -> [m \in DOMAIN kids \ {n} |-> kids[m]]
          [] OTHER -> [kids EXCEPT ![n].at = said(@)]

\* config: true unless said, or false above; an operation starts over.
Configured == {"container", "list", "leaf", "leafList", "any", "choice"}
RECURSIVE Inherited(_, _)
Inherited(tree, config) ==
    LET own == IF "config" \in DOMAIN tree.at THEN tree.at.config ELSE config
        down == CASE tree.k \in Configured -> own
                  [] tree.k = "case" -> config
                  [] OTHER -> TRUE
    IN  [tree EXCEPT !.at = IF tree.k \in Configured THEN ("config" :> own) @@ @ ELSE @,
                     !.kids = [n \in DOMAIN @ |-> Inherited(@[n], down)]]

ConfiguredAll(kids) == [n \in DOMAIN kids |-> Inherited(kids[n], TRUE)]

Path(a) == IF Head(a) = "/" THEN Tail(a) ELSE a

\* The tree of the main module, down to depth d.
Meant(p, d) ==
    LET text == Text(p, "main")
        env == Env(p, "main")
        plain == Below(p, env, text, d - 1)
        augments == SelectSeq(text, LAMBDA s : s.k = "augment" /\ Supported(p, s))
        add(kids, a) == At(kids, Path(a.a),
                           [at |-> Nothing, musts |-> {}, kids |-> Below(p, env, a.b, d - 1 - Len(Path(a.a)))])
        deviate(kids, s) == Deviate1(kids, Path(s.a), s.b)
    IN  ConfiguredAll(FoldLeft(deviate, FoldLeft(add, plain, augments), Named(text, "deviation")))
=============================================================================
