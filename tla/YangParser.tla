----------------------------- MODULE YangParser -----------------------------
(***************************************************************************)
(* The YANG parser (parser/parser.y and the code goyacc makes of it): a    *)
(* file is read statement by statement.  The semantic action of a          *)
(* statement calls one method of the builder on the object on top of the   *)
(* lexer's stack; a statement with an object of its own is pushed and is   *)
(* popped at its end.                                                      *)
(*                                                                         *)
(* A statement is [k, a, b]: its keyword, its argument and its body.  The  *)
(* stack keeps with every object the statements still to be read.          *)
(***************************************************************************)
EXTENDS Builder
LOCAL INSTANCE SequencesExt

VARIABLES
    heap,    \* the objects made so far
    parse,   \* the parser at work: its stack, its builder, the module it made
    status   \* "loading", "ok", "error" (an error is returned) or "panic"

Opens(m) == [call |-> m, push |-> TRUE]
Calls(m) == [call |-> m, push |-> FALSE]

-----------------------------------------------------------------------------
\* The semantic actions, in the order of the grammar.
ModuleRules ==
    [namespace |-> Calls("namespace"), revision |-> Opens("revision"),
     import |-> Opens("import"), prefix |-> Calls("prefix"), include |-> Opens("include")]
ExtensionRules ==
    [extensionDef |-> Opens("extensionDef"), argument |-> Opens("argument"),
     yinElement |-> Calls("yinElement")]
DeviationRules ==
    [deviation |-> Opens("deviation"), notSupported |-> Calls("notSupported"),
     replaceDeviate |-> Opens("replaceDeviate"), deleteDeviate |-> Opens("deleteDeviate"),
     addDeviate |-> Opens("addDeviate")]
ConditionRules ==
    [feature |-> Opens("feature"), must |-> Opens("must"),
     errorMessage |-> Calls("errorMessage"), errorAppTag |-> Calls("errorAppTag"),
     ifFeature |-> Calls("ifFeature"), when |-> Opens("when")]
IdentityRules == [identity |-> Opens("identity"), base |-> Calls("base")]
ChoiceRules == [choice |-> Opens("choice"), case |-> Opens("case")]
TypeRules ==
    [typedef |-> Opens("typedef"), default |-> Calls("default"), type |-> Opens("type"),
     path |-> Calls("path"), range |-> Opens("range"), length |-> Opens("length"),
     pattern |-> Opens("pattern"), requireInstance |-> Calls("requireInstance"),
     fractionDigits |-> Calls("fractionDigits")]
ContainerRules == [container |-> Opens("container"), presence |-> Calls("presence")]
UsesRules ==
    [augment |-> Opens("augment"), uses |-> Opens("uses"), refine |-> Opens("refine")]
OperationRules ==
    [rpc |-> Opens("rpc"), input |-> Opens("input"), output |-> Opens("output"),
     action |-> Opens("action"), notification |-> Opens("notification"),
     grouping |-> Opens("grouping")]
ListRules ==
    [list |-> Opens("list"), maxElements |-> Calls("maxElements"),
     unbounded |-> Calls("unbounded"), minElements |-> Calls("minElements"),
     orderedBy |-> Calls("orderedBy"), key |-> Calls("key"), any |-> Opens("any")]
LeafRules ==
    [leaf |-> Opens("leaf"), mandatory |-> Calls("mandatory"), config |-> Calls("config"),
     leafList |-> Opens("leafList")]
EnumRules ==
    [bit |-> Opens("bit"), position |-> Calls("position"),
     enum |-> Opens("enum"), value |-> Calls("value")]
DocRules ==
    [description |-> Calls("description"), reference |-> Calls("reference"),
     contact |-> Calls("contact"), organization |-> Calls("organization"),
     yangVersion |-> Calls("yangVersion"), units |-> Calls("units"),
     extension |-> Calls("extension")]
Rules == ModuleRules @@ ExtensionRules @@ DeviationRules @@ ConditionRules @@ IdentityRules
           @@ ChoiceRules @@ TypeRules @@ ContainerRules @@ UsesRules @@ OperationRules
           @@ ListRules @@ LeafRules @@ EnumRules @@ DocRules

-----------------------------------------------------------------------------
\* What the grammar lets stand in the body of a statement.
Docs == {"description", "status", "reference"}
BodyStmts ==
    {"typedef", "grouping", "list", "container", "leaf", "leafList", "any", "uses", "must",
     "choice", "action", "notification", "augment", "identity", "feature", "extension"}
ModuleBody ==
    Docs \cup BodyStmts
      \cup {"namespace", "revision", "contact", "organization", "import", "include", "prefix",
            "yangVersion", "rpc", "extensionDef", "deviation"}
HeaderBody ==
    [file |-> {"module", "submodule"}, module |-> ModuleBody, submodule |-> ModuleBody,
     revision |-> Docs \cup {"extension"}, import |-> Docs \cup {"prefix", "revision", "extension"},
     include |-> Docs \cup {"revision", "extension"},
     extensionDef |-> Docs \cup {"argument"}, argument |-> Docs \cup {"yinElement"},
     deviation |-> {"description", "reference", "notSupported", "replaceDeviate",
                    "deleteDeviate", "addDeviate", "extension"},
     feature |-> Docs \cup {"ifFeature", "extension"},
     identity |-> Docs \cup {"base", "ifFeature", "extension"}]
DeviateBody ==
    {"units", "must", "unique", "default", "config", "mandatory", "maxElements", "unbounded",
     "minElements", "type"}
ErrorBody == {"description", "reference", "errorMessage", "errorAppTag", "extension"}
ContainerBody ==
    Docs \cup BodyStmts \cup {"ifFeature", "when", "config", "mandatory", "presence"}
LeafBody ==
    Docs \cup {"type", "ifFeature", "must", "when", "units", "config", "orderedBy", "maxElements",
               "unbounded", "minElements", "mandatory", "default", "extension"}
DefinitionBody ==
    [container |-> ContainerBody, case |-> ContainerBody,
     choice |-> Docs \cup BodyStmts \cup {"case", "ifFeature", "when"},
     list |-> Docs \cup BodyStmts
                \cup {"ifFeature", "when", "maxElements", "unbounded", "minElements", "config",
                      "mandatory", "key", "unique", "orderedBy"},
     leaf |-> LeafBody, leafList |-> LeafBody,
     any |-> Docs \cup {"ifFeature", "must", "when", "config", "mandatory", "extension"},
     anyEnd |-> {},
     grouping |-> Docs \cup BodyStmts, notification |-> Docs \cup BodyStmts \cup {"ifFeature"},
     input |-> BodyStmts, output |-> BodyStmts,
     rpc |-> Docs \cup {"ifFeature", "input", "output", "extension"},
     action |-> Docs \cup {"ifFeature", "input", "output", "extension"}]
PatchBody ==
    [uses |-> Docs \cup {"ifFeature", "when", "refine", "augment", "extension"},
     refine |-> Docs \cup {"ifFeature", "default", "config", "mandatory", "must", "maxElements",
                           "unbounded", "minElements", "extension"},
     augment |-> Docs \cup {"ifFeature", "when", "list", "container", "leaf", "leafList", "any",
                            "uses", "choice", "case", "action", "notification", "extension"},
     addDeviate |-> DeviateBody, replaceDeviate |-> DeviateBody, deleteDeviate |-> DeviateBody]
TypeBody ==
    [typedef |-> Docs \cup {"type", "units", "default", "extension"},
     type |-> {"range", "length", "pattern", "path", "enum", "bit", "base", "fractionDigits",
               "type", "requireInstance", "extension"},
     range |-> ErrorBody, length |-> ErrorBody, pattern |-> ErrorBody, must |-> ErrorBody,
     when |-> Docs \cup {"extension"}, bit |-> Docs \cup {"position", "extension"},
     enum |-> Docs \cup {"value", "extension"}]
Body == HeaderBody @@ DefinitionBody @@ PatchBody @@ TypeBody

\* Read and forgotten: the grammar has no action for these.
Dropped(in, k) == k \in {"status", "unique"} \/ (k = "revision" /\ in \in {"import", "include"})

-----------------------------------------------------------------------------
Idle == [stack |-> <<>>, uid |-> 0, err |-> "", parent |-> Nil, module |-> Nil]
Block(k, o, stmts) == [k |-> k, o |-> o, rest |-> stmts]

\* loadAndParseModule: a parser of its own, with a builder of its own.
Reading(stmt, parent) ==
    [Idle EXCEPT !.stack = <<Block("file", Nil, <<stmt>>)>>, !.parent = parent]

Parsing == parse.stack # <<>>
Top == Last(parse.stack)

\* The body of an anydata is one statement; the second is a syntax error.
After(k) == IF k = "any" THEN "anyEnd" ELSE k
Rest(stack) == Front(stack) \o <<[Last(stack) EXCEPT !.rest = Tail(@), !.k = After(@)]>>

Init == heap = <<>> /\ parse = Idle

\* module makes the module object; submodule stacks the module that includes
\* it, so that everything it holds is added there.
ModuleDef(s) ==
    /\ s.k \in {"module", "submodule"}
    /\ (s.k = "module") <=> (parse.parent = Nil)
    /\ LET m == IF s.k = "module" THEN Len(heap) + 1 ELSE parse.parent
       IN  /\ heap' = IF s.k = "module" THEN Append(heap, New("module", s.a, Nil, Nil)) ELSE heap
           /\ parse' = [parse EXCEPT !.stack = Append(Rest(@), Block(s.k, m, s.b)), !.module = m]
    /\ UNCHANGED status

Refused(s) ==
    \/ s.k \notin Body[Top.k]
    \/ s.k = "module" /\ parse.parent # Nil
    \/ s.k = "submodule" /\ parse.parent = Nil

Ignore(s) ==
    /\ Dropped(Top.k, s.k)
    /\ parse' = [parse EXCEPT !.stack = Rest(@)]
    /\ UNCHANGED <<heap, status>>

\* The builder's first error stops the parser; only after an extension it is
\* not asked for (chkErr), and the next statement's action finds it.
Built(s, push, b) ==
    IF b.err # "" /\ (s.k # "extension" \/ b.err = "panic")
    THEN status' = b.err /\ UNCHANGED <<heap, parse>>
    ELSE /\ heap' = b.h
         /\ parse' = [parse EXCEPT !.uid = b.uid, !.err = b.err,
                        !.stack = IF push THEN Append(Rest(@), Block(s.k, b.id, s.b)) ELSE Rest(@)]
         /\ UNCHANGED status

Act(s) ==
    /\ s.k \in DOMAIN Rules /\ ~Dropped(Top.k, s.k)
    /\ Built(s, Rules[s.k].push,
             Build([h |-> heap, uid |-> parse.uid, err |-> parse.err, id |-> Nil],
                   Rules[s.k].call, Top.o, s.a))

Statement ==
    /\ Parsing /\ Top.rest # <<>>
    /\ LET s == Head(Top.rest)
       IN  IF Refused(s) THEN status' = "error" /\ UNCHANGED <<heap, parse>>
           ELSE ModuleDef(s) \/ Ignore(s) \/ Act(s)

\* The end of a body pops its object; the module stays for parseModule.
EndOfBody ==
    /\ Parsing /\ Top.rest = <<>>
    /\ IF Len(parse.stack) = 1 /\ parse.err # ""
       THEN status' = "error" /\ UNCHANGED <<heap, parse>>
       ELSE parse' = [parse EXCEPT !.stack = Front(@)] /\ UNCHANGED <<heap, status>>

ParserNext == Statement \/ EndOfBody
=============================================================================
