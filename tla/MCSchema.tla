------------------------------ MODULE MCSchema ------------------------------
(***************************************************************************)
(* Small projects to load: each puts together statements whose handling in *)
(* the parser, the resolver and the compiler meets.                        *)
(***************************************************************************)
EXTENDS SchemaProperties
LOCAL INSTANCE SequencesExt

\* Statements: with a body, without one, and the common ones by name.
In(k, a, b) == [k |-> k, a |-> a, b |-> b]
It(k, a) == In(k, a, <<>>)
Own(k, n, b) == In(k, <<"", n>>, b)
T(t) == Own("type", t, <<>>)
Leaf(n, t) == In("leaf", n, <<T(t)>>)
Box(n, b) == In("container", n, b)
Rows(n, b) == In("list", n, <<It("key", <<"k">>), Leaf("k", "int32")>> \o b)
Group(n, b) == In("grouping", n, b)
Use(g, b) == Own("uses", g, b)
If(f) == It("ifFeature", <<f>>)

Module(n, prefix, b) == In("module", n, <<It("prefix", prefix)>> \o b)
Project(texts) == [files |-> texts, features |-> {}, otherwiseOn |-> TRUE, legal |-> TRUE]
Main(b) == Project([main |-> Module("main", "m", b)])
MainWith(b, others) == Project(("main" :> Module("main", "m", b)) @@ others)
Bad(p) == [p EXCEPT !.legal = FALSE]
With(p, names, otherwiseOn) == [p EXCEPT !.features = names, !.otherwiseOn = otherwiseOn]

-----------------------------------------------------------------------------
\* Every kind of data definition, with what can be said of it.
Plain == Main(<<
    It("namespace", "urn:m"), It("organization", "o"), It("contact", "c"), It("yangVersion", "1"),
    It("description", "d"), It("reference", "r"), In("revision", "2020", <<It("description", "d")>>),
    Box("a", <<It("presence", "p"), It("status", "current"), It("must", "x"), Leaf("x", "string"),
               Rows("l", <<It("maxElements", 3), It("minElements", 1), It("orderedBy", "user"),
                           It("unique", <<"x">>), Leaf("x", "string")>>)>>),
    In("choice", "c", <<In("case", "c1", <<Leaf("p", "string"), Leaf("q", "string")>>),
                        Box("r", <<Leaf("s", "string")>>)>>),
    In("leafList", "ll", <<T("string"), It("units", "u"), It("unbounded", TRUE), It("default", "v")>>),
    In("any", "y", <<It("mandatory", TRUE)>>), In("any", "z", <<It("when", "w")>>)>>)

\* A grouping used twice: what one uses refines and augments is its own.
Patched == Main(<<
    Group("g", <<Leaf("x", "string"), Rows("l", <<Leaf("z", "string")>>),
                 Box("i", <<Leaf("y", "int32"), In("choice", "c", <<Leaf("c1", "string")>>)>>)>>),
    Box("a", <<Use("g", <<
        In("refine", <<"x">>, <<It("default", "d"), It("description", "d"), It("mandatory", TRUE),
                                It("must", "m"), It("config", FALSE)>>),
        In("refine", <<"l">>, <<It("minElements", 1), It("maxElements", 2)>>),
        In("refine", <<"i", "y">>, <<It("default", "e")>>),
        In("augment", <<"i">>, <<Leaf("more", "string"), Box("box", <<Leaf("in", "string")>>)>>)>>)>>),
    Box("b", <<Use("g", <<It("when", "w")>>), Leaf("own", "string")>>)>>)

\* Groupings in groupings, found outwards from where they were written.
Nested == Main(<<
    Group("g", <<Box("i", <<Use("h", <<In("refine", <<"x">>, <<It("default", "d")>>)>>)>>), Leaf("y", "t")>>),
    Group("h", <<Leaf("x", "string")>>),
    In("typedef", "t", <<T("int32"), It("default", "1"), It("units", "u")>>),
    Box("a", <<Group("h", <<Leaf("wrong", "string")>>), In("typedef", "t", <<T("string")>>),
               Use("g", <<>>), Leaf("own", "t")>>)>>)

\* A grouping that uses itself below a list.
Recursive == Main(<<
    Group("g", <<Leaf("x", "string"), Rows("l", <<Use("g", <<>>)>>)>>),
    Box("a", <<Use("g", <<>>)>>)>>)

\* Operations of a grouping, of a module, and their inputs and outputs.
Operations1 == Main(<<
    Group("g", <<Leaf("x", "string"),
                 In("action", "do", <<In("input", "", <<Use("h", <<>>)>>), In("output", "", <<Leaf("out", "string")>>)>>),
                 In("notification", "told", <<Use("h", <<>>)>>)>>),
    Group("h", <<Leaf("y", "string"), Leaf("z", "int32")>>),
    Box("a", <<Use("g", <<>>)>>), Box("b", <<Use("g", <<>>)>>),
    In("rpc", "run", <<In("input", "", <<Use("h", <<>>), Leaf("w", "string")>>), In("output", "", <<Use("h", <<>>)>>)>>)>>)

\* A grouping used in a case, with a choice of its own, and what is written there.
InCase == Main(<<
    Group("g", <<Leaf("x", "string"), In("choice", "d", <<Leaf("y", "string"), Box("z", <<Leaf("v", "string")>>)>>)>>),
    Box("a", <<In("choice", "c", <<In("case", "c1", <<Use("g", <<>>), Leaf("p", "string")>>),
                                   In("case", "c2", <<Leaf("q", "string")>>)>>)>>)>>)

\* Augments of a module, into definitions that come from a grouping.
Augmented1 == Main(<<
    Group("g", <<Box("i", <<Leaf("x", "string")>>)>>),
    Box("a", <<Use("g", <<>>)>>), In("feature", "f", <<>>),
    In("augment", <<"/", "a", "i">>, <<Box("j", <<Leaf("y", "string")>>), In("notification", "n", <<Leaf("v", "string")>>),
                                       In("action", "do", <<In("input", "", <<Leaf("p", "string")>>)>>)>>),
    In("augment", <<"/", "a", "i", "j">>, <<In("choice", "c", <<Leaf("z", "string")>>)>>),
    In("augment", <<"/", "a">>, <<If("f"), Leaf("w", "string")>>)>>)

\* What another module defines means what it means there.
Lib == [lib |-> Module("lib", "l", <<
    In("typedef", "t", <<T("int32"), It("default", "7")>>), In("identity", "base", <<>>),
    In("feature", "lf", <<>>),
    Group("g", <<Leaf("x", "t"), Box("i", <<Leaf("y", "string"), In("leaf", "w", <<T("string"), If("lf")>>)>>)>>)>>)]
Importing == MainWith(<<
    In("import", "lib", <<It("prefix", "l"), It("revision", "2020")>>),
    In("typedef", "t", <<T("string")>>), In("identity", "mine", <<It("base", <<"l", "base">>)>>),
    Box("a", <<In("uses", <<"l", "g">>, <<In("refine", <<"i", "y">>, <<It("default", "d")>>)>>),
               In("leaf", "z", <<In("type", <<"l", "t">>, <<>>)>>), Leaf("v", "t"),
               In("leaf", "id", <<Own("type", "identityref", <<It("base", <<"l", "base">>)>>)>>)>>)>>, Lib)

\* A submodule's definitions belong to the module that includes it.
Including == MainWith(<<
    In("include", "sub", <<>>), Box("a", <<Use("g", <<>>), Leaf("z", "t")>>)>>,
    [sub |-> In("submodule", "sub", <<In("typedef", "t", <<T("int32")>>),
                                      Group("g", <<Leaf("x", "t")>>), Box("b", <<Leaf("w", "t")>>)>>)])

\* if-feature, on definitions and on what changes them.
Optional == Main(<<
    In("feature", "f", <<>>), In("feature", "g", <<>>), In("feature", "h", <<>>),
    Group("gr", <<In("leaf", "x", <<T("string"), If("f")>>), Leaf("y", "string"), Box("b", <<Leaf("v", "string")>>)>>),
    In("leaf", "p", <<T("string"), It("ifFeature", <<"f", "and", "not", "g">>)>>),
    In("leaf", "q", <<T("string"), It("ifFeature", <<"f", "or", "(", "g", "and", "h", ")">>)>>),
    In("leaf", "r", <<T("string"), If("f"), If("g")>>),
    Box("a", <<Use("gr", <<If("h"), In("augment", <<"b">>, <<If("g"), Leaf("w", "string")>>)>>)>>),
    Box("c", <<Use("gr", <<In("refine", <<"y">>, <<If("f"), It("default", "d")>>)>>)>>)>>)

\* Every way to a type: typedefs of typedefs, unions, enumerations, bits,
\* leafrefs, identities.
Types == Main(<<
    In("typedef", "t1", <<T("t2"), It("default", "1")>>),
    In("typedef", "t2", <<Own("type", "int32", <<In("range", "1..9", <<>>)>>), It("default", "2"), It("units", "u")>>),
    In("typedef", "e", <<Own("type", "enumeration", <<In("enum", "one", <<>>), In("enum", "five", <<It("value", 5)>>),
                                                      In("enum", "six", <<>>)>>)>>),
    In("typedef", "far", <<Own("type", "leafref", <<It("path", <<"..", "a">>)>>)>>),
    In("identity", "i2", <<It("base", <<"", "i1">>)>>), In("identity", "i1", <<>>),
    Leaf("a", "t1"), In("leaf", "b", <<T("t1"), It("default", "3")>>), In("leafList", "c", <<T("e")>>),
    In("leaf", "d", <<Own("type", "union", <<T("e"), T("int8"), Own("type", "enumeration", <<In("enum", "x", <<>>)>>)>>)>>),
    In("leaf", "f", <<Own("type", "bits", <<In("bit", "b0", <<>>), In("bit", "b3", <<It("position", 3)>>)>>)>>),
    Leaf("g", "far"), In("leafList", "h", <<Own("type", "leafref", <<It("path", <<"..", "o", "k">>)>>)>>),
    Rows("o", <<In("leaf", "v", <<Own("type", "leafref", <<It("path", <<"..", "k">>)>>)>>)>>),
    In("leaf", "j", <<Own("type", "identityref", <<It("base", <<"", "i1">>)>>)>>),
    In("leaf", "s", <<Own("type", "string", <<In("length", "1..4", <<>>), In("pattern", "[a-z]*", <<It("errorMessage", "no"),
                                                                             It("errorAppTag", "tag")>>)>>)>>),
    In("leaf", "n", <<Own("type", "decimal64", <<It("fractionDigits", 2)>>)>>),
    In("leaf", "ii", <<Own("type", "instance-identifier", <<It("requireInstance", FALSE)>>)>>)>>)

\* config goes down, through lists and containers, until it is said again.
Configuration == Main(<<
    Box("a", <<It("config", FALSE), Box("b", <<Leaf("x", "string"), Rows("l", <<Leaf("y", "string")>>)>>)>>),
    Box("c", <<In("leaf", "z", <<T("string"), It("config", FALSE)>>),
               In("choice", "ch", <<Leaf("p", "string"), Leaf("q", "string")>>)>>),
    In("notification", "n", <<Leaf("v", "string")>>)>>)

\* Deviations: each kind, of each kind of target.
Deviate1(path, b) == In("deviation", <<"/">> \o path, b)
Deviating == Main(<<
    Box("a", <<In("leaf", "x", <<T("string"), It("units", "u"), It("must", "m1")>>), Leaf("y", "string"),
               In("notification", "n", <<Leaf("v", "string")>>), Rows("l", <<It("maxElements", 5)>>)>>),
    In("rpc", "run", <<>>),
    Deviate1(<<"a", "y">>, <<It("notSupported", "")>>), Deviate1(<<"a", "n">>, <<It("notSupported", "")>>),
    Deviate1(<<"run">>, <<It("notSupported", "")>>),
    Deviate1(<<"a", "x">>, <<In("addDeviate", "", <<It("default", "d"), It("config", FALSE), It("must", "m2")>>),
                             In("replaceDeviate", "", <<It("units", "v")>>),
                             In("deleteDeviate", "", <<It("must", "m1")>>)>>),
    Deviate1(<<"a", "l">>, <<In("addDeviate", "", <<It("minElements", 1)>>),
                             In("replaceDeviate", "", <<It("maxElements", 2)>>)>>)>>)

\* Extensions, where they are defined and used.
Extended == Main(<<
    In("extensionDef", "e", <<It("description", "d"), In("argument", "arg", <<It("yinElement", TRUE)>>)>>),
    Box("a", <<In("leaf", "x", <<T("string"), It("extension", <<"m", "e">>)>>)>>)>>)

Accepted ==
    {Plain, Patched, Nested, Recursive, Operations1, InCase, Augmented1, Importing, Including, Types,
     Configuration, Deviating, Extended, With(Augmented1, {"f"}, TRUE), With(Importing, {"lf"}, TRUE)}
      \cup {With(Optional, names, on) : names \in SUBSET {"f", "g", "h"}, on \in BOOLEAN}

-----------------------------------------------------------------------------
\* What is wrong with these is found by the parser, the builder, the
\* resolver or the compiler.
Wrong ==
    {<<Box("a", <<It("key", <<"k">>)>>)>>,
     <<In("leaf", "x", <<T("string"), It("prefix", "p")>>)>>,
     <<In("leaf", "x", <<T("string"), It("minElements", 1)>>)>>,
     <<In("uses", <<"", "none">>, <<>>)>>,
     <<In("uses", <<"x", "none">>, <<>>)>>,
     <<Group("g", <<Leaf("x", "string")>>), Use("g", <<In("refine", <<"y">>, <<It("default", "d")>>)>>)>>,
     <<Group("g", <<Box("i", <<>>)>>), Use("g", <<In("refine", <<"i">>, <<It("default", "d")>>)>>)>>,
     <<Group("g", <<Leaf("x", "string")>>), Use("g", <<In("augment", <<"y">>, <<Leaf("z", "string")>>)>>)>>,
     <<Group("g", <<In("action", "do", <<>>)>>),
       In("rpc", "run", <<In("input", "", <<Use("g", <<>>)>>)>>)>>,
     <<In("augment", <<"/", "none">>, <<Leaf("x", "string")>>)>>,
     <<In("deviation", <<"/", "none">>, <<It("notSupported", "")>>)>>,
     <<Leaf("x", "string"), In("deviation", <<"/", "x">>, <<In("replaceDeviate", "", <<It("units", "u")>>)>>)>>,
     <<In("import", "none", <<It("prefix", "n")>>)>>,
     <<In("import", "main", <<>>)>>,
     <<In("include", "none", <<>>)>>,
     <<In("leaf", "x", <<>>)>>,
     <<Leaf("x", "none")>>,
     <<In("typedef", "t", <<>>)>>,
     <<In("list", "l", <<It("key", <<"k">>), Leaf("x", "string")>>)>>,
     <<In("list", "l", <<It("key", <<"k">>), Box("k", <<>>)>>)>>,
     <<Leaf("x", "leafref")>>,
     <<Leaf("x", "identityref")>>,
     <<In("identity", "i", <<It("base", <<"", "none">>)>>)>>,
     <<Leaf("x", "union")>>,
     <<In("leaf", "x", <<Own("type", "string", <<T("string")>>)>>)>>,
     <<In("leaf", "x", <<T("string"), It("extension", <<"m", "none">>)>>)>>,
     <<In("leaf", "x", <<T("string"), It("extension", <<"x", "none">>)>>)>>,
     <<In("leaf", "x", <<T("string"), It("ifFeature", <<"f", "g">>)>>)>>}

\* Legal YANG that the grammar does not read: more than one statement in an anydata.
Unread == {<<In("any", "y", <<It("mandatory", TRUE), It("when", "w")>>)>>}

MCProjects == Accepted \cup {Bad(Main(b)) : b \in Wrong \cup Unread}

\* A grouping that uses another one, used in two containers.
UsedTwice == Main(<<
    Group("inner", <<Leaf("x", "string")>>), Group("outer", <<Use("inner", <<>>), Leaf("y", "string")>>),
    Box("a", <<Use("outer", <<>>), Leaf("p", "string")>>),
    Box("b", <<Use("outer", <<>>), Leaf("q", "string")>>)>>)
MCUsedTwice == {UsedTwice}
=============================================================================
