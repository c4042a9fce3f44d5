------------------------------ MODULE Builder ------------------------------
(***************************************************************************)
(* meta.Builder: the methods the parser calls, one per statement.  Each    *)
(* takes the object the statement stands in and asks it for an interface;  *)
(* without it the error is kept (the first one) and nothing is added.      *)
(*                                                                         *)
(* The methods are tables, by what they do to the enclosing object: set a  *)
(* field (Setters), add an object to a slice (Adders), a map (Namers) or a *)
(* field (Holders), or add a data definition (DataDefs).                   *)
(***************************************************************************)
EXTENDS MetaHeap

Sets(on, f) == [on |-> on, f |-> f]
Adds(on, f, kind) == [on |-> on, f |-> f, kind |-> kind]

ModuleSetters ==
    [description |-> Sets(Kinds("desc"), "desc"),
     presence |-> Sets({"container"}, "presence"),
     reference |-> Sets(Kinds("desc"), "ref"),
     namespace |-> Sets({"module"}, "namespace"),
     prefix |-> Sets({"module", "import"}, "prefix"),
     yinElement |-> Sets({"argument"}, "yinElement")]
DocSetters ==
    [yangVersion |-> Sets({"module"}, "ver"),
     organization |-> Sets({"module"}, "org"),
     contact |-> Sets({"module"}, "contact"),
     units |-> Sets(Kinds("units"), "units")]
DetailSetters ==
    [config |-> Sets(Kinds("config"), "config"),
     mandatory |-> Sets(Kinds("mandatory"), "mandatory"),
     minElements |-> Sets(Kinds("minmax"), "min"),
     orderedBy |-> Sets(Kinds("orderedBy"), "orderedBy"),
     maxElements |-> Sets(Kinds("minmax"), "max"),
     unbounded |-> Sets(Kinds("unbounded"), "unbounded"),
     default |-> Sets(Kinds("default"), "default")]
TypeSetters ==
    [requireInstance |-> Sets({"type"}, "requireInstance"),
     path |-> Sets({"type"}, "path"),
     position |-> Sets({"bit"}, "position"),
     errorMessage |-> Sets(Kinds("error"), "errorMessage"),
     errorAppTag |-> Sets(Kinds("error"), "errorAppTag"),
     value |-> Sets({"enum"}, "value"),
     fractionDigits |-> Sets({"type"}, "fractionDigits")]
\* The key names come apart at the blanks; a deviate's flag is its own field.
KeySetter == [key |-> Sets({"list"}, "key")]
DeviateSetter == [notSupported |-> Sets({"deviation"}, "notSupported")]
Setters == ModuleSetters @@ DocSetters @@ DetailSetters @@ TypeSetters @@ KeySetter @@ DeviateSetter

ModuleAdders ==
    [revision |-> Adds({"module", "import", "include"}, "revs", "revision"),
     include |-> Adds({"module"}, "includes", "include")]
SubAdders ==
    [argument |-> Adds({"extensionDef"}, "args", "argument"),
     must |-> Adds(Kinds("musts"), "musts", "must"),
     ifFeature |-> Adds(Kinds("ifs"), "ifs", "ifFeature")]
PatchAdders ==
    [augment |-> Adds(Kinds("augments"), "augments", "augment"),
     refine |-> Adds({"uses"}, "refines", "refine"),
     deviation |-> Adds({"module"}, "deviations", "deviation")]
TypeAdders ==
    [pattern |-> Adds({"type"}, "patterns", "pattern"),
     enum |-> Adds({"type"}, "enums", "enum"),
     bit |-> Adds({"type"}, "bits", "bit"),
     length |-> Adds({"type"}, "lengths", "range"),
     range |-> Adds({"type"}, "ranges", "range")]
Adders == ModuleAdders @@ SubAdders @@ PatchAdders @@ TypeAdders

Namers ==
    [import |-> Adds({"module"}, "imports", "import"),
     grouping |-> Adds(HasGroupings, "groupings", "grouping"),
     extensionDef |-> Adds({"module"}, "extensionDefs", "extensionDef"),
     feature |-> Adds({"module"}, "features", "feature"),
     identity |-> Adds({"module"}, "identities", "identity"),
     typedef |-> Adds(Kinds("typedefs"), "typedefs", "typedef"),
     case |-> Adds({"choice"}, "cases", "case"),
     rpc |-> Adds(HasActions, "actions", "rpc"),
     action |-> Adds(HasActions, "actions", "rpc"),
     notification |-> Adds(HasNotifications, "notifs", "notification")]

WhenHolder == [when |-> Adds(Kinds("when"), "when", "when")]
DeviateHolders ==
    [addDeviate |-> Adds({"deviation"}, "add", "addDeviate"),
     replaceDeviate |-> Adds({"deviation"}, "replace", "replaceDeviate"),
     deleteDeviate |-> Adds({"deviation"}, "delete", "deleteDeviate")]
Holders == WhenHolder @@ DeviateHolders

DataDefs == {"uses", "container", "list", "leaf", "leafList", "any", "choice"}

-----------------------------------------------------------------------------
(***************************************************************************)
(* A call returns [h, uid, err, id]: the heap, the builder's counter and   *)
(* its first error ("panic" when the call panics), and the new object.     *)
(***************************************************************************)
Refuse(b) == [b EXCEPT !.err = IF @ = "" THEN "error" ELSE @]

\* A setter of an anydata's leaf methods panics (meta/core.go).
Set(b, m, o, v) ==
    CASE b.h[o].kind \notin Setters[m].on -> Refuse(b)
      [] b.h[o].kind = "any" /\ m \in {"units", "default"} -> [b EXCEPT !.err = "panic"]
      [] OTHER -> [b EXCEPT !.h = Put(@, o, Setters[m].f, v)]

\* base is a list on an identity, a field on a type.
Base(b, o, v) ==
    CASE b.h[o].kind = "identity" -> [b EXCEPT !.h = Push(@, o, "baseIds", v)]
      [] b.h[o].kind = "type" -> [b EXCEPT !.h = Put(@, o, "base", v)]
      [] OTHER -> Refuse(b)

Create(b, kind, ident, parent) ==
    [b EXCEPT !.h = Append(@, New(kind, ident, parent, parent)), !.id = Len(b.h) + 1]

Attach(c, row, o, h) ==
    IF c.h[o].kind \in row.on THEN [c EXCEPT !.h = h] ELSE Refuse(c)

Add(b, m, o, ident) ==
    LET c == Create(b, Adders[m].kind, ident, o)
    IN  Attach(c, Adders[m], o, Push(c.h, o, Adders[m].f, c.id))
Name(b, m, o, ident) ==
    LET c == Create(b, Namers[m].kind, ident, o)
    IN  Attach(c, Namers[m], o, AddTo(c.h, o, Namers[m].f, c.id))
Hold(b, m, o, ident) ==
    LET c == Create(b, Holders[m].kind, ident, o)
    IN  Attach(c, Holders[m], o, Put(c.h, o, Holders[m].f, c.id))
InOut(b, m, o) ==
    LET c == Create(b, m, m, o)
    IN  Attach(c, [on |-> {"rpc"}], o, PutKey(c.h, o, "io", m, c.id))

\* type: of a leaf or typedef; inside a type, a member of its union.
Type(b, o, ident) ==
    LET c == Create(b, "type", ident, Nil)
    IN  CASE b.h[o].kind = "any" -> [c EXCEPT !.err = "panic"]
          [] b.h[o].kind \in Kinds("type") -> [c EXCEPT !.h = Put(@, o, "type", c.id)]
          [] b.h[o].kind = "type" -> [c EXCEPT !.h = Push(@, o, "unions", c.id)]
          [] OTHER -> Refuse(c)

anyType == New("type", <<"", "any">>, Nil, Nil)

(***************************************************************************)
(* A data definition goes into anything that holds data definitions; in a  *)
(* choice a case of its own name is put around it first                    *)
(* (parentDataDefinition).  A uses takes the builder's next number, which  *)
(* starts at 0 in every parsed file; an any gets its type.                 *)
(***************************************************************************)
Enclosing(b, m, o, ident) ==
    IF b.h[o].kind = "choice" THEN Name(b, "case", o, IF m = "uses" THEN Written(ident) ELSE ident)
    ELSE [b EXCEPT !.id = o]

Furnish(c, m) ==
    CASE m = "uses" -> [c EXCEPT !.h = Put(@, c.id, "schemaId", c.uid), !.uid = @ + 1]
      [] m = "any" -> [c EXCEPT !.h = Put(Append(@, anyType), c.id, "type", c.id + 1)]
      [] OTHER -> c

Insert(c, p) ==
    IF Conflict(c.h, p, c.id) THEN [c EXCEPT !.err = "panic"]
    ELSE [c EXCEPT !.h = AddDef(@, p, c.id)]

DefineIn(in, m, ident) == Insert(Furnish(Create(in, m, ident, in.id), m), in.id)

Define(b, m, o, ident) ==
    IF b.h[o].kind \notin Kinds("defs") \cup {"choice"} THEN Refuse(Create(b, m, ident, o))
    ELSE DefineIn(Enclosing(b, m, o, ident), m, ident)

AddExtension(b, o, ident) ==
    LET c == Create(b, "extension", ident, o)
    IN  IF b.h[o].kind \in Kinds("ext") THEN [c EXCEPT !.h = Push(@, o, "exts", c.id)] ELSE Refuse(c)

Build(b, m, o, a) ==
    CASE m \in DOMAIN Setters -> Set(b, m, o, a)
      [] m \in DOMAIN Adders -> Add(b, m, o, a)
      [] m \in DOMAIN Namers -> Name(b, m, o, a)
      [] m \in DOMAIN Holders -> Hold(b, m, o, a)
      [] m \in DataDefs -> Define(b, m, o, a)
      [] m \in {"input", "output"} -> InOut(b, m, o)
      [] m = "type" -> Type(b, o, a)
      [] m = "base" -> Base(b, o, a)
      [] m = "extension" -> AddExtension(b, o, a)
=============================================================================
