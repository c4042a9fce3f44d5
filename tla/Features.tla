------------------------------ MODULE Features ------------------------------
(***************************************************************************)
(* if-feature: the set of supported features (meta/feature_set.go) and the *)
(* evaluator of if-feature expressions (ifFeatureEval in meta/core.go).    *)
(* An expression is the sequence of its tokens.                            *)
(***************************************************************************)
EXTENDS MetaHeap
LOCAL INSTANCE SequencesExt

\* FeaturesOn(names) and FeaturesOff(names); AllFeaturesOn is FeaturesOff({}).
Supported(names, otherwiseOn) ==
    [specified |-> names, otherwiseOn |-> otherwiseOn, enabled |-> {}, cache |-> NoFields]

\* Initialize: the module's own features are added to those enabled before,
\* and every answer remembered is forgotten.
Initialize(fs, own) ==
    [fs EXCEPT !.enabled = @ \cup (IF fs.otherwiseOn THEN own \ fs.specified ELSE own \cap fs.specified),
               !.cache = NoFields]

(***************************************************************************)
(* The evaluator: a stack of truth values; "greedy" returns after one      *)
(* operand.  An open parenthesis starts a nested evaluation, which ends at *)
(* the next closing one wherever that stands.                              *)
(***************************************************************************)
PushBool(e, b) == [e EXCEPT !.stack = Append(@, b)]
PopBool(e) ==
    IF e.stack = <<>> THEN [e EXCEPT !.err = TRUE] ELSE [e EXCEPT !.stack = Front(@)]
TopBool(e) == e.stack # <<>> /\ Last(e.stack)

RECURSIVE Eval(_, _, _, _)
Eval(e, expr, enabled, greedy) ==
    IF e.pos > Len(expr) THEN e
    ELSE LET tok == expr[e.pos]
             at == [e EXCEPT !.pos = @ + 1]
             one == Eval(at, expr, enabled, TRUE)
             all == Eval(at, expr, enabled, FALSE)
             two(x) == PopBool(PopBool(x))
             next == CASE tok = "(" -> all
                       [] tok = "and" -> PushBool(two(one), TopBool(one) /\ TopBool(PopBool(one)))
                       [] tok = "or" -> PushBool(two(all), TopBool(all) \/ TopBool(PopBool(all)))
                       [] tok = "not" -> PushBool(PopBool(one), ~TopBool(one))
                       [] OTHER -> PushBool(at, tok \in enabled)
         IN  CASE tok = ")" -> at
               [] tok # ")" /\ greedy -> next
               [] OTHER -> Eval(next, expr, enabled, greedy)

Evaluate(expr, enabled) ==
    LET e == Eval([pos |-> 1, stack |-> <<>>, err |-> FALSE], expr, enabled, FALSE)
        rest == PopBool(e)
    IN  [on |-> TopBool(e), err |-> rest.err \/ rest.stack # <<>>]

\* Variant: an expression that cannot be read is taken for what it left.
ResolveAnyway(fs, expr) ==
    LET e == Evaluate(expr, fs.enabled)
    IN  [fs |-> [fs EXCEPT !.cache = (expr :> e.on) @@ @], on |-> e.on, err |-> FALSE]

\* Resolve: the answer for an expression is remembered until Initialize.
Resolve(fs, expr) ==
    IF expr \in DOMAIN fs.cache THEN [fs |-> fs, on |-> fs.cache[expr], err |-> FALSE]
    ELSE LET e == Evaluate(expr, fs.enabled)
         IN  [fs |-> IF e.err THEN fs ELSE [fs EXCEPT !.cache = (expr :> e.on) @@ @],
              on |-> e.on /\ ~e.err, err |-> e.err]

\* checkFeature: all the if-features of a definition, up to the first that
\* is off.
CheckFeature(h, fs, i) ==
    FoldLeft(LAMBDA r, f : IF r.on THEN Resolve(r.fs, h[f].ident) ELSE r,
             [fs |-> fs, on |-> TRUE, err |-> FALSE], Kids(h, i, "ifs"))
=============================================================================
