----------------------------- MODULE MetaTypes -----------------------------
(***************************************************************************)
(* The Go types of package meta and the interfaces the methods generated   *)
(* for each of them satisfy (meta/core_gen.go, with the few methods that   *)
(* meta/core.go writes by hand).  The parser's builder, the resolver and   *)
(* the compiler never ask what a statement is: they ask whether its object *)
(* satisfies an interface, so these tables decide what each of them does.  *)
(*                                                                         *)
(* A type is the set of its interfaces.  "defs" is HasDataDefinitions,     *)
(* "orig" getOriginalParent, "minmax" HasMinMax, "error" HasErrorMessage;  *)
(* the other names are the interface's own.                                *)
(***************************************************************************)
EXTENDS Integers, Sequences, FiniteSets

Describes == {"desc", "ext", "parent"}
Details == {"config", "mandatory"}
LeafDetails == {"type", "units", "default"}
ListDetails == {"minmax", "unbounded", "orderedBy"}
Scope == {"groupings", "typedefs"}
Operations == {"actions", "notifs"}
Conditions == {"ifs", "when"}

ModuleType == Describes \cup Scope \cup Operations \cup {"defs", "orig", "augments"}
ImportType == Describes
IncludeType == Describes
ChoiceType == Describes \cup Details \cup Conditions \cup {"orig", "status", "default", "clone"}
ChoiceCaseType == Describes \cup Conditions \cup {"orig", "defs", "recursable", "clone"}
RevisionType == Describes
ContainerScope == Describes \cup Scope \cup {"status", "defs", "recursable", "musts"}
ContainerType ==
    ContainerScope \cup Conditions \cup Operations \cup Details \cup {"presence", "orig", "clone"}
ListScope == Describes \cup Scope \cup {"defs", "recursable", "musts"}
ListType ==
    ListScope \cup Conditions \cup Operations \cup Details \cup ListDetails
      \cup {"unique", "orig", "clone"}
LeafType ==
    Describes \cup Details \cup Conditions \cup LeafDetails \cup {"orig", "musts", "clone"}
LeafListType ==
    Describes \cup Details \cup Conditions \cup LeafDetails \cup ListDetails
      \cup {"orig", "musts", "clone"}
\* An anydata has the methods of a leaf; those that set one of them panic.
AnyType ==
    Describes \cup Details \cup Conditions \cup {"orig", "musts", "clone"}
AnyLeafMethods == LeafDetails
GroupingType == Describes \cup Scope \cup Operations \cup {"orig", "defs", "clone"}
UsesType == Describes \cup Conditions \cup {"orig", "augments", "clone"}
RefineType ==
    Describes \cup Details
      \cup {"minmax", "unbounded", "ifs", "musts", "presence", "default"}
RpcInputType == Describes \cup Scope \cup {"orig", "defs", "musts", "ifs", "clone"}
RpcOutputType == Describes \cup Scope \cup {"orig", "defs", "musts", "ifs", "clone"}
RpcType == Describes \cup Scope \cup {"orig", "ifs", "clone"}
NotificationType == Describes \cup Scope \cup {"orig", "defs", "ifs", "clone"}
TypedefType == Describes \cup LeafDetails \cup {"orig"}
AugmentType == Describes \cup Conditions \cup Operations \cup {"orig", "defs", "clone"}
AddDeviateType == {"ext", "parent"} \cup Details \cup {"minmax", "musts", "unique", "units", "default"}
ReplaceDeviateType == {"ext", "parent"} \cup Details \cup LeafDetails \cup {"minmax"}
DeleteDeviateType == {"ext", "parent", "musts", "unique", "units", "default"}
DeviationType == Describes
TypeType == {"desc", "ext"}
IdentityType == Describes \cup {"ifs"}
FeatureType == Describes \cup {"ifs"}
IfFeatureType == {"ext", "parent"}
WhenType == Describes
MustType == Describes \cup {"error", "clone"}
ExtensionDefType == Describes \cup {"status"}
ExtensionDefArgType == Describes
ExtensionType == {"ext", "parent"}
BitType == {"desc", "ext"}
EnumType == {"desc", "ext"}
RangeType == {"desc", "ext", "error"}
PatternType == {"desc", "ext", "error"}

GoType ==
    [module |-> ModuleType, import |-> ImportType, include |-> IncludeType,
     choice |-> ChoiceType, case |-> ChoiceCaseType, revision |-> RevisionType,
     container |-> ContainerType, list |-> ListType, leaf |-> LeafType,
     leafList |-> LeafListType, any |-> AnyType \cup AnyLeafMethods,
     grouping |-> GroupingType, uses |-> UsesType, refine |-> RefineType,
     input |-> RpcInputType, output |-> RpcOutputType, rpc |-> RpcType,
     notification |-> NotificationType, typedef |-> TypedefType,
     augment |-> AugmentType, addDeviate |-> AddDeviateType,
     replaceDeviate |-> ReplaceDeviateType, deleteDeviate |-> DeleteDeviateType,
     deviation |-> DeviationType, type |-> TypeType, identity |-> IdentityType,
     feature |-> FeatureType, ifFeature |-> IfFeatureType, when |-> WhenType,
     must |-> MustType, extensionDef |-> ExtensionDefType,
     argument |-> ExtensionDefArgType, extension |-> ExtensionType,
     bit |-> BitType, enum |-> EnumType, range |-> RangeType, pattern |-> PatternType]

Kinds(interface) == {k \in DOMAIN GoType : interface \in GoType[k]}

\* The composed interfaces of meta/meta.go.
HasGroupings == Kinds("groupings") \cap Kinds("defs")
HasActions == Kinds("actions") \cap Kinds("defs")
HasNotifications == Kinds("notifs") \cap Kinds("defs")
HasDetails == Kinds("orig") \cap Kinds("mandatory") \cap Kinds("config")
HasListDetails == Kinds("orig") \cap Kinds("minmax") \cap Kinds("unbounded") \cap Kinds("orderedBy")
Leafable == Kinds("orig") \cap Kinds("default") \cap Kinds("units") \cap Kinds("type")

\* Variant: a clone shares the definitions below it with the original.
ShallowFields(k) == GoType[k] \cap {"musts"}

\* What the generated clone copies deeply; every other field is shared with
\* the original (types, if-features, when, typedefs, groupings, unique).
DeepFields(k) ==
    (GoType[k] \cap {"notifs", "actions", "defs", "musts"})
      \cup (IF k = "choice" THEN {"cases"} ELSE {})
      \cup (IF k = "rpc" THEN {"io"} ELSE {})
=============================================================================
