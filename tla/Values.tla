------------------------------- MODULE Values -------------------------------
(***************************************************************************)
(* Leaf values: package val and node/value.go.  A Go value comes in (from  *)
(* JSON, from a path, from a struct) and is converted to the format of the *)
(* leaf's type; a val.Value goes out as the Go value that Value() returns. *)
(*                                                                         *)
(* A Go value is a record: its Go type, its number (a float64's in halves, *)
(* a bool's 0 or 1), its text and, for a slice, its items.  A conversion   *)
(* is the set of its results: one, or none when it returns an error.       *)
(* Texts are strings, and a numeral is the text of one of Numbers.  Floats *)
(* are half-integers within the range of int.                              *)
(***************************************************************************)
EXTENDS Integers, Sequences, TLC

CONSTANTS Span,     \* how many values an integer of 8, 16, 32 and 64 bits has
          Numbers,  \* the integers that texts are written for
          Ordered   \* texts in the order of strings.Compare

ASSUME SpanAssumption ==
    /\ Span[8] = 2 ^ 8 /\ Span[16] = 2 ^ 16
    /\ Span[32] \in Nat /\ Span[32] > 2 ^ 16
    /\ Span[64] \in Nat /\ Span[64] >= 2 * Span[32] /\ Span[64] % 2 = 0

(* A text is the numeral of one number.                                    *)
ASSUME NumbersAssumption ==
    /\ Numbers \subseteq Int
    /\ \A m, n \in Numbers : ToString(m) = ToString(n) => m = n

ASSUME OrderedAssumption == Ordered \in Seq(STRING)

Go(type, n) == [type |-> type, n |-> n, text |-> "", items |-> <<>>]
GoText(type, n, text) == [Go(type, n) EXCEPT !.text = text]
GoSlice(type, items) == [Go(type, 0) EXCEPT !.items = items]

(* Go's integer types.                                                     *)
Size == [int8 |-> 8, uint8 |-> 8, int16 |-> 16, uint16 |-> 16, int32 |-> 32,
         uint32 |-> 32, int64 |-> 64, uint64 |-> 64, int |-> 64, uint |-> 64]
Integral == DOMAIN Size
Signed == {"int8", "int16", "int32", "int64", "int"}

(* A Go integer conversion keeps the low bits.                             *)
Wrap(type, n) ==
    LET span == Span[Size[type]]
        low == n % span
    IN  IF type \in Signed /\ low >= span \div 2 THEN low - span ELSE low

CanHold(type, n) == Wrap(type, n) = n

Truncated(halves) == IF halves >= 0 THEN halves \div 2 ELSE -((-halves) \div 2)

(* strconv rounds to the nearest whole number, and a half to the even one. *)
Rounded(halves) ==
    LET low == halves \div 2
    IN  IF halves % 2 = 1 /\ low % 2 = 1 THEN low + 1 ELSE low

Numeral(text) == {n \in Numbers : ToString(n) = text}

(***************************************************************************)
(* Formats: the built-in type and whether it is a leaf-list's.             *)
(***************************************************************************)
Format(name, list) == [name |-> name, list |-> list]

(* What each val.Value is a Go type of, and what its Value() returns.      *)
Held == [boolean |-> "bool", string |-> "string", decimal64 |-> "float64",
         int8 |-> "int8", uint8 |-> "uint8", int16 |-> "int16",
         uint16 |-> "uint16", int32 |-> "int", uint32 |-> "uint",
         int64 |-> "int64", uint64 |-> "uint64", enumeration |-> "Enum",
         identityref |-> "IdentRef"]

SliceOf == [bool |-> "[]bool", string |-> "[]string", float64 |-> "[]float64",
            int8 |-> "[]int8", uint8 |-> "[]uint8", int16 |-> "[]int16",
            uint16 |-> "[]uint16", int |-> "[]int", uint |-> "[]uint",
            int64 |-> "[]int64", uint64 |-> "[]uint64", int32 |-> "[]int32",
            uint32 |-> "[]uint32", Time |-> "[]Time", any |-> "[]interface{}",
            Enum |-> "EnumList", IdentRef |-> "IdentRefList"]

Value(format, v) == [format |-> format, v |-> v]

(* The Go values there are: a number is one its type holds, and the items  *)
(* of a slice are of its type, but for an []interface{}.                   *)
Fits(x) ==
    CASE x.type \in Integral -> CanHold(x.type, x.n)
      [] x.type = "float64" -> CanHold("int", Truncated(x.n))
      [] x.type \in {"named", "Time"} -> CanHold("int64", x.n)
      [] OTHER -> TRUE

GoScalars ==
    {x \in [type : Integral \union {"bool", "string", "float64", "named", "Time",
                                    "Enum", "IdentRef"},
            n : Int, text : STRING, items : {<<>>}] : Fits(x)}

GoSlices ==
    {x \in [type : {SliceOf[t] : t \in DOMAIN SliceOf}, n : {0}, text : {""},
            items : Seq(GoScalars)] :
       \A t \in DOMAIN SliceOf \ {"any"} :
           x.type = SliceOf[t] => \A i \in DOMAIN x.items : x.items[i].type = t}

(***************************************************************************)
(* Numbers.                                                                *)
(***************************************************************************)
(* toInt32 and toInt64: to "int" and to "int64".  A named integer type     *)
(* goes the way of reflection, which a uint64 cannot.                      *)
ToInteger(type, x) ==
    CASE x.type \in Integral /\ (type = "int" => x.type # "uint64") ->
            {Wrap(type, x.n)}
      [] x.type = "float64" -> {Truncated(x.n)}
      [] x.type = "string" -> {n \in Numeral(x.text) : CanHold(type, n)}
      [] x.type = "named" \/ (x.type = "Time" /\ type = "int64") -> {x.n}
      [] OTHER -> {}

(* The types each of the narrow formats casts without a look at the value, *)
(* and the window it wants everything else in.                             *)
Casts == [int8   |-> {"uint8", "int8"},
          uint8  |-> {"int8", "uint8"},
          int16  |-> {"int8", "uint8", "uint16", "int16"},
          uint16 |-> {"int8", "uint8", "int16", "uint16"},
          uint32 |-> {"int8", "uint8", "int16", "uint16", "int32", "uint32",
                      "int", "uint"}]
(* Variant: uint8 taken to end one higher.                                 *)
WindowOneMore == [int8 |-> (-143)..143, uint8 |-> 0..Span[8], int16 |-> (-143)..143,
                  uint16 |-> 0..(Span[16] - 1), uint32 |-> 0..(Span[32] - 1)]

Window == [int8 |-> (-143)..143, uint8 |-> 0..(Span[8] - 1), int16 |-> (-143)..143,
           uint16 |-> 0..(Span[16] - 1), uint32 |-> 0..(Span[32] - 1)]

ToNarrow(name, x) ==
    {Wrap(Held[name], n) :
       n \in IF x.type \in Casts[name] THEN {x.n}
             ELSE Window[name] \cap
                    ToInteger(IF name = "uint32" THEN "int64" ELSE "int", x)}

ToUInt64(x) ==
    IF x.type = "named" THEN {}
    ELSE {Wrap("uint64", n) : n \in ToInteger("int64", x)}

ToDecimal64(x) ==
    CASE x.type \in Integral -> {2 * x.n}
      [] x.type = "float64" -> {x.n}
      [] x.type = "string" -> {2 * n : n \in Numeral(x.text)}
      [] OTHER -> {}

ToBool(x) ==
    CASE x.type = "bool" -> {x.n}
      [] x.type = "string" /\ x.text \in {"1", "true", "yes"} -> {1}
      [] x.type = "string" /\ x.text \in {"0", "false", "np"} -> {0}
      [] OTHER -> {}

(* What fmt prints of a Go value.                                          *)
Printed(x) ==
    CASE x.type \in Integral \union {"named"} -> ToString(x.n)
      [] x.type = "float64" -> ToString(Rounded(x.n))
      [] x.type = "bool" -> IF x.n = 1 THEN "true" ELSE "false"
      [] x.type \in {"string", "Enum", "IdentRef"} -> x.text
      [] OTHER -> "[]"

(***************************************************************************)
(* Conv.                                                                   *)
(***************************************************************************)
Convert(name, x) ==
    LET type == Held[name]
    IN  CASE name \in DOMAIN Casts -> {Go(type, n) : n \in ToNarrow(name, x)}
          [] name = "int32" -> {Go(type, n) : n \in ToInteger("int", x)}
          [] name = "int64" -> {Go(type, n) : n \in ToInteger("int64", x)}
          [] name = "uint64" -> {Go(type, n) : n \in ToUInt64(x)}
          [] name = "decimal64" -> {Go(type, n) : n \in ToDecimal64(x)}
          [] name = "boolean" -> {Go(type, n) : n \in ToBool(x)}
          [] name = "string" -> {GoText(type, 0, Printed(x))}
          [] OTHER -> {}

(* Every item must convert: the list of what each one becomes.             *)
Each(results) ==
    IF \E i \in DOMAIN results : results[i] = {} THEN {}
    ELSE {[i \in DOMAIN results |-> CHOOSE v \in results[i] : TRUE]}

(* The slices whose items are converted one by one.                        *)
ItemTypes(name) ==
    {"any"} \union (IF name = "string" THEN {} ELSE {"string"})
            \union (IF name \in {"boolean", "decimal64"} THEN {} ELSE {"float64"})
            \union (CASE name = "int32" -> {"int32"}
                      [] name = "uint32" -> {"uint32"}
                      [] name \in {"int64", "uint64"} -> {"int", "Time"}
                      [] OTHER -> {})

(* One value alone becomes a list of one, but for strings.                 *)
ConvertList(name, x) ==
    LET To(y) == Convert(name, y)
        type == SliceOf[Held[name]]
    IN  {GoSlice(type, items) :
           items \in IF x.type = type THEN {x.items}
                     ELSE IF x.type \in {SliceOf[t] : t \in ItemTypes(name)}
                     THEN Each([i \in DOMAIN x.items |-> To(x.items[i])])
                     ELSE {<<v>> : v \in IF name = "string" THEN {} ELSE To(x)}}

Conv(format, x) ==
    {Value(format, v) : v \in IF format.list THEN ConvertList(format.name, x)
                                             ELSE Convert(format.name, x)}

(* The first of a union's formats that takes it.                           *)
ConvOneOf(formats, x) ==
    LET Takes(i) == Conv(formats[i], x) # {}
    IN  IF \E i \in DOMAIN formats : Takes(i)
        THEN Conv(formats[CHOOSE i \in DOMAIN formats :
                            Takes(i) /\ \A j \in 1..(i - 1) : ~Takes(j)], x)
        ELSE {}

(***************************************************************************)
(* NewValue: a type is its format, the enums of an enumeration (id and     *)
(* label), the identities derived from the base of an identityref, and the *)
(* formats of a union.                                                     *)
(***************************************************************************)
Type(format, enums, derived, formats) ==
    [format |-> format, enums |-> enums, derived |-> derived,
     formats |-> formats]

First(enums, at) ==
    {GoText("Enum", enums[i].id, enums[i].label) :
       i \in {j \in at : \A k \in at : j <= k}}

ById(enums, ids) == First(enums, {i \in DOMAIN enums : enums[i].id \in ids})

ByLabel(enums, label) ==
    First(enums, {i \in DOMAIN enums : enums[i].label = label})

(* Variant: labels only.                                                   *)
ToEnumByLabel(enums, x) == ByLabel(enums, Printed(x))

(* What can be a number is looked up as an id, and only as an id.          *)
ToEnum(enums, x) ==
    LET id == ToInteger("int", x)
    IN  IF id # {} THEN ById(enums, id) ELSE ByLabel(enums, Printed(x))

(* The condition of the last branch is the wrong way round: one enum alone *)
(* is refused, and what is no enum becomes a list of the empty one.        *)
ToEnumList(enums, x) ==
    IF x.type \in {"[]string", "[]interface{}", "[]int"}
    THEN Each([i \in DOMAIN x.items |-> ToEnum(enums, x.items[i])])
    ELSE IF ToEnum(enums, x) = {} THEN {<<Go("Enum", 0)>>} ELSE {}

ToIdentRef(derived, x) ==
    {GoText("IdentRef", 0, d) : d \in {e \in derived : e = Printed(x)}}

ToIdentRefList(derived, x) ==
    CASE x.type = "string" -> Each(<<ToIdentRef(derived, x)>>)
      [] x.type = "[]string" ->
           Each([i \in DOMAIN x.items |-> ToIdentRef(derived, x.items[i])])
      [] OTHER -> {}

NewValue(typ, x) ==
    LET f == typ.format
        Lists(type, s) == {Value(f, GoSlice(type, items)) : items \in s}
        Singles(s) == {Value(f, v) : v \in s}
    IN  CASE f.name = "identityref" ->
               IF f.list THEN Lists("IdentRefList", ToIdentRefList(typ.derived, x))
                         ELSE Singles(ToIdentRef(typ.derived, x))
          [] f.name = "enumeration" ->
               IF f.list THEN Lists("EnumList", ToEnumList(typ.enums, x))
                         ELSE Singles(ToEnum(typ.enums, x))
          [] f.name = "union" -> ConvOneOf(typ.formats, x)
          [] OTHER -> Conv(f, x)

(***************************************************************************)
(* Comparing: negative, zero or positive.                                  *)
(***************************************************************************)
Place(text) == CHOOSE i \in DOMAIN Ordered : Ordered[i] = text

(* The difference in the type that holds the values: signed ones of eight  *)
(* and sixteen bits may run over, and unsigned ones are never negative.    *)
Compare(a, b) ==
    CASE a.type \in {"string", "IdentRef"} -> Place(a.text) - Place(b.text)
      [] a.type \in Integral -> Wrap(a.type, a.n - b.n)
      [] OTHER -> a.n - b.n

(* Keys are one or more values: the first that differs decides.            *)
CompareVals(a, b) ==
    LET differ == {i \in DOMAIN a : Compare(a[i].v, b[i].v) # 0}
    IN  IF differ = {} THEN 0
        ELSE LET i == CHOOSE j \in differ : \A k \in differ : j <= k
             IN  Compare(a[i].v, b[i].v)

Equal(a, b) ==
    /\ a.format = b.format
    /\ IF a.format.list THEN a.v = b.v ELSE Compare(a.v, b.v) = 0

EqualVals(a, b) ==
    Len(a) = Len(b) /\ \A i \in DOMAIN a : Equal(a[i], b[i])
=============================================================================
