---------------------------- MODULE GoListProofs ----------------------------
(***************************************************************************)
(* Proofs about modules Values and GoList: what is written to a leaf is    *)
(* what was said and is read back, and a list over a slice or a map is a   *)
(* set of keys, for every case, every Go value and every length.           *)
(***************************************************************************)
EXTENDS GoList, SequenceTheorems, WellFoundedInduction, TLAPS

-----------------------------------------------------------------------------
(***************************************************************************)
(* Integers.                                                               *)
(***************************************************************************)
\* A set of naturals that is not empty has a least element.
LEMMA LeastIn ==
  ASSUME NEW T, T \subseteq Nat, T # {}
  PROVE  \E n \in T : \A m \in T : n <= m
<1>1. \E n \in T : \A m \in T : ~(<<m, n>> \in OpToRel(<, Nat))
  BY NatLessThanWellFounded, WFMin
<1>2. \A m, n \in T : ~(<<m, n>> \in OpToRel(<, Nat)) => n <= m
  BY DEF OpToRel
<1>3. QED
  BY <1>1, <1>2

\* Each element of a sequence is of its set.
LEMMA ElementOf ==
  ASSUME NEW S, NEW s \in Seq(S), NEW i \in DOMAIN s
  PROVE  s[i] \in S
  OBVIOUS

\* What the remainder is of a number within one span of zero.
LEMMA Modulo ==
  ASSUME NEW s \in Nat, s > 0, NEW n \in Int
  PROVE  /\ n % s \in Int /\ 0 <= n % s /\ n % s < s
         /\ 0 <= n /\ n < s => n % s = n
         /\ 0 - s <= n /\ n < 0 => n % s = n + s
  OBVIOUS

\* The number of values of each integer type, and how the widths compare.
LEMMA Spans ==
  /\ \A type \in Integral : Span[Size[type]] \in Nat /\ Span[Size[type]] > 0
  /\ Span[8] = 256 /\ Span[16] \in Nat /\ Span[16] >= 512 /\ Span[32] \in Nat
  /\ Span[32] > Span[16] /\ Span[64] \in Nat /\ Span[64] >= 2 * Span[32]
  BY SpanAssumption DEF Integral, Size

\* The numbers a type can hold.
Lowest(type) ==
    IF type \in Signed THEN Span[Size[type]] \div 2 - Span[Size[type]] ELSE 0
Above(type) ==
    IF type \in Signed THEN Span[Size[type]] \div 2 ELSE Span[Size[type]]

\* A Go integer conversion gives a number of the type, and keeps one that is.
LEMMA WrapFacts ==
  ASSUME NEW type \in Integral, NEW n \in Int
  PROVE  /\ Wrap(type, n) \in Int
         /\ CanHold(type, n) <=> Lowest(type) <= n /\ n < Above(type)
         /\ CanHold(type, Wrap(type, n))
<1> DEFINE s == Span[Size[type]]
           h == s \div 2
<1>1. s \in Nat /\ s > 0 /\ h \in Nat /\ h <= s
  BY Spans
<1> DEFINE low == n % s
<1>2. low \in Int /\ 0 <= low /\ low < s
  BY <1>1, Modulo
<1>3. CASE type \in Signed
  <2> DEFINE w == IF low >= h THEN low - s ELSE low
  <2>1. \A m : Wrap(type, m) = IF m % s >= h THEN (m % s) - s ELSE m % s
    BY <1>3 DEF Wrap
  <2>2. Wrap(type, n) = w /\ w \in Int /\ h - s <= w /\ w < h
    BY <2>1, <1>1, <1>2
  <2>3. ASSUME NEW m \in Int PROVE CanHold(type, m) <=> h - s <= m /\ m < h
    <3>1. /\ m % s \in Int /\ 0 <= m % s /\ m % s < s
          /\ 0 <= m /\ m < s => m % s = m
          /\ 0 - s <= m /\ m < 0 => m % s = m + s
      BY <1>1, Modulo
    <3>2. CanHold(type, m) <=> m = IF m % s >= h THEN (m % s) - s ELSE m % s
      BY <2>1 DEF CanHold
    <3> HIDE DEF s, h
    <3>3. QED
      BY <3>1, <3>2, <1>1
  <2>4. Lowest(type) = h - s /\ Above(type) = h
    BY <1>3 DEF Lowest, Above
  <2>5. QED
    BY <2>2, <2>3, <2>4
<1>4. CASE type \notin Signed
  <2>1. \A m : Wrap(type, m) = m % s
    BY <1>4 DEF Wrap
  <2>2. \A m \in Int : CanHold(type, m) <=> 0 <= m /\ m < s
    BY <2>1, <1>1, Modulo DEF CanHold
  <2>3. Lowest(type) = 0 /\ Above(type) = s
    BY <1>4 DEF Lowest, Above
  <2>4. QED
    BY <2>1, <2>2, <2>3, <1>2
<1>5. QED
  BY <1>3, <1>4

\* The bounds of the types that values are held in.
LEMMA Bounds ==
  /\ \A t \in {"int", "int64"} :
        /\ Lowest(t) = Span[64] \div 2 - Span[64] /\ Above(t) = Span[64] \div 2
        /\ Lowest(t) \in Int /\ Above(t) \in Int
        /\ Lowest(t) <= 0 - Span[16] /\ Span[16] <= Above(t)
  /\ \A t \in {"uint", "uint64"} : Lowest(t) = 0 /\ Above(t) = Span[64]
  /\ Lowest("int8") = -128 /\ Above("int8") = 128
  /\ Lowest("uint8") = 0 /\ Above("uint8") = 256
  /\ Lowest("int16") = Span[16] \div 2 - Span[16] /\ Above("int16") = Span[16] \div 2
  /\ Lowest("uint16") = 0 /\ Above("uint16") = Span[16]
<1>1. Span[64] \div 2 >= Span[16] /\ Span[64] \div 2 - Span[64] <= 0 - Span[16]
      /\ Span[64] \div 2 \in Int
  BY Spans
<1>2. QED
  BY <1>1, Spans DEF Lowest, Above, Signed, Size

\* The bits of a uint64 come through an int64.
LEMMA ThroughInt64 ==
  ASSUME NEW n \in Int
  PROVE  /\ Wrap("uint64", Wrap("int64", n)) = Wrap("uint64", n)
         /\ Wrap("int", n) = Wrap("int64", n)
<1> DEFINE s == Span[64]
           low == n % s
<1>1. s \in Nat /\ s > 0
  BY Spans
<1>2. low \in Int /\ 0 <= low /\ low < s
  BY <1>1, Modulo
<1>3. /\ \A m : Wrap("uint64", m) = m % s
      /\ \A t \in {"int", "int64"} :
            Wrap(t, n) = IF low >= s \div 2 THEN low - s ELSE low
  BY DEF Wrap, Size, Signed
<1>4. low % s = low /\ (low - s) % s = low
  BY <1>1, <1>2, Modulo
<1>5. QED
  BY <1>3, <1>4

-----------------------------------------------------------------------------
(***************************************************************************)
(* Conversions.                                                            *)
(***************************************************************************)
GoValues == GoScalars \union GoSlices
Wholes == DOMAIN Casts \union {"int32", "int64", "uint64"}

\* The fields of a Go number.
LEMMA GoFields ==
  ASSUME NEW t, NEW n, NEW v, v = Go(t, n)
  PROVE  v.type = t /\ v.n = n /\ v.text = "" /\ v.items = <<>>
  BY DEF Go

\* The fields of a Go text.
LEMMA GoTextFields ==
  ASSUME NEW t, NEW n, NEW s, NEW v, v = GoText(t, n, s)
  PROVE  v.type = t /\ v.n = n /\ v.text = s /\ v.items = <<>>
  BY DEF Go, GoText

\* The fields of a Go slice.
LEMMA GoSliceFields ==
  ASSUME NEW t, NEW l, NEW v, v = GoSlice(t, l)
  PROVE  v.type = t /\ v.n = 0 /\ v.items = l
  BY DEF Go, GoSlice

\* A text is the numeral of at most one number.
LEMMA OneNumeral ==
  ASSUME NEW text, NEW m \in Numeral(text), NEW n \in Numeral(text)
  PROVE  m = n /\ m \in Int
  BY NumbersAssumption DEF Numeral

\* What a Go value that is no slice is.
LEMMA ScalarFacts ==
  ASSUME NEW x \in GoScalars
  PROVE  /\ x.n \in Int /\ x.items = <<>> /\ x.text \in STRING
         /\ x.type \in Integral \union {"bool", "string", "float64", "named",
                                        "Time", "Enum", "IdentRef"}
         /\ x.type \in Integral => CanHold(x.type, x.n)
         /\ x.type = "float64" => CanHold("int", Truncated(x.n))
         /\ x.type \in {"named", "Time"} => CanHold("int64", x.n)
<1>1. Fits(x) /\ x \in [type : Integral \union {"bool", "string", "float64", "named",
                                                "Time", "Enum", "IdentRef"},
                        n : Int, text : STRING, items : {<<>>}]
  BY DEF GoScalars
<1>2. Integral \cap {"float64", "named", "Time"} = {}
  BY DEF Integral, Size
<1>3. QED
  BY <1>1, <1>2 DEF Fits

\* The slice types by name, so that the provers can tell them apart.
LEMMA SliceOfFacts ==
  /\ DOMAIN SliceOf = {"bool", "string", "float64", "int8", "uint8", "int16",
                       "uint16", "int", "uint", "int64", "uint64", "int32",
                       "uint32", "Time", "any", "Enum", "IdentRef"}
  /\ SliceOf["bool"] = "[]bool" /\ SliceOf["string"] = "[]string"
  /\ SliceOf["float64"] = "[]float64" /\ SliceOf["int8"] = "[]int8"
  /\ SliceOf["uint8"] = "[]uint8" /\ SliceOf["int16"] = "[]int16"
  /\ SliceOf["uint16"] = "[]uint16" /\ SliceOf["int"] = "[]int"
  /\ SliceOf["uint"] = "[]uint" /\ SliceOf["int64"] = "[]int64"
  /\ SliceOf["uint64"] = "[]uint64" /\ SliceOf["int32"] = "[]int32"
  /\ SliceOf["uint32"] = "[]uint32" /\ SliceOf["Time"] = "[]Time"
  /\ SliceOf["any"] = "[]interface{}" /\ SliceOf["Enum"] = "EnumList"
  /\ SliceOf["IdentRef"] = "IdentRefList"
  BY DEF SliceOf

\* Scalars and slices are told apart by their types.
LEMMA SliceNames ==
  {SliceOf[t] : t \in DOMAIN SliceOf}
    \cap (Integral \union {"bool", "string", "float64", "named", "Time", "Enum",
                           "IdentRef"}) = {}
<1>1. \A t \in DOMAIN SliceOf : SliceOf[t] \in
         {"[]bool", "[]string", "[]float64", "[]int8", "[]uint8", "[]int16",
          "[]uint16", "[]int", "[]uint", "[]int64", "[]uint64", "[]int32",
          "[]uint32", "[]Time", "[]interface{}", "EnumList", "IdentRefList"}
  <2>1. SUFFICES ASSUME NEW t \in DOMAIN SliceOf
                 PROVE  SliceOf[t] \in
         {"[]bool", "[]string", "[]float64", "[]int8", "[]uint8", "[]int16",
          "[]uint16", "[]int", "[]uint", "[]int64", "[]uint64", "[]int32",
          "[]uint32", "[]Time", "[]interface{}", "EnumList", "IdentRefList"}
    OBVIOUS
  <2>2. QED
    BY SliceOfFacts, ZenonT(40)
<1>2. Integral = {"int8", "uint8", "int16", "uint16", "int32", "uint32", "int64",
                  "uint64", "int", "uint"}
  BY DEF Integral, Size
<1>3. QED
  BY <1>1, <1>2

\* What a Go slice is.
LEMMA SliceFacts ==
  ASSUME NEW x \in GoSlices
  PROVE  /\ x.items \in Seq(GoScalars)
         /\ x.type \in {SliceOf[t] : t \in DOMAIN SliceOf}
         /\ x.type \notin Integral \union {"bool", "string", "float64", "named",
                                           "Time", "Enum", "IdentRef"}
         /\ \A t \in DOMAIN SliceOf \ {"any"} :
               x.type = SliceOf[t] => \A i \in DOMAIN x.items : x.items[i].type = t
<1>1. /\ x \in [type : {SliceOf[t] : t \in DOMAIN SliceOf}, n : {0}, text : {""},
                items : Seq(GoScalars)]
      /\ \A t \in DOMAIN SliceOf \ {"any"} :
               x.type = SliceOf[t] => \A i \in DOMAIN x.items : x.items[i].type = t
  BY DEF GoSlices
<1>2. QED
  BY <1>1, SliceNames

\* toInt32 and toInt64 give one number, that of the value when it is whole
\* and fits, and none for a slice.
LEMMA ToIntegerFacts ==
  ASSUME NEW type \in {"int", "int64"}, NEW x \in GoValues,
         NEW n \in ToInteger(type, x)
  PROVE  /\ x \in GoScalars /\ n \in Int /\ CanHold(type, n)
         /\ ToInteger(type, x) = {n}
         /\ \A m \in Said(x) : m \in Int /\ (x.type = "string" \/ CanHold(type, m) => m = n)
<1>1. x \in GoScalars
  <2>1. CASE x \in GoSlices
    BY <2>1, SliceFacts DEF ToInteger
  <2>2. QED
    BY <2>1 DEF GoValues
<1>2. /\ x.n \in Int
      /\ x.type = "float64" => CanHold("int", Truncated(x.n))
      /\ x.type \in {"named", "Time"} => CanHold("int64", x.n)
  BY <1>1, ScalarFacts
<1>3. Integral \cap {"bool", "string", "float64", "named", "Time", "Enum", "IdentRef"} = {}
      /\ type \in Integral
  BY DEF Integral, Size
<1>4. \A m \in Int : CanHold("int", m) <=> CanHold("int64", m)
  BY ThroughInt64 DEF CanHold
<1>5. CASE x.type \in Integral /\ (type = "int" => x.type # "uint64")
  <2>1. ToInteger(type, x) = {Wrap(type, x.n)} /\ Said(x) = {x.n}
    BY <1>5, <1>3 DEF ToInteger, Said
  <2>2. Wrap(type, x.n) \in Int /\ CanHold(type, Wrap(type, x.n)) /\ x.type # "string"
    BY <1>2, <1>3, <1>5, WrapFacts
  <2>3. \A m : CanHold(type, m) => m = Wrap(type, m)
    BY DEF CanHold
  <2>4. QED
    BY <2>1, <2>2, <2>3, <1>1, <1>2
<1>6. CASE x.type = "float64"
  <2>1. /\ ToInteger(type, x) = {Truncated(x.n)}
        /\ Said(x) = {m \in {Truncated(x.n)} : x.n = 2 * m}
    BY <1>6, <1>3 DEF ToInteger, Said
  <2>2. Truncated(x.n) \in Int
    BY <1>2 DEF Truncated
  <2>3. QED
    BY <2>1, <2>2, <1>1, <1>2, <1>4, <1>6
<1>7. CASE x.type = "string"
  <2>1. /\ ToInteger(type, x) = {m \in Numeral(x.text) : CanHold(type, m)}
        /\ Said(x) = Numeral(x.text)
    BY <1>7, <1>3 DEF ToInteger, Said
  <2>2. n \in Numeral(x.text) /\ \A m \in Numeral(x.text) : m \in Int /\ m = n
    BY <2>1, OneNumeral
  <2>3. QED
    BY <2>1, <2>2, <1>1
<1>8. CASE x.type = "named" \/ (x.type = "Time" /\ type = "int64")
  <2>1. ToInteger(type, x) = {x.n} /\ Said(x) = {x.n}
    BY <1>8, <1>3 DEF ToInteger, Said
  <2>2. QED
    BY <2>1, <1>1, <1>2, <1>4, <1>8
<1>9. QED
  BY <1>5, <1>6, <1>7, <1>8 DEF ToInteger

\* What comes through an int64 as a uint64 is the number that was said.
LEMMA SaidThroughInt64 ==
  ASSUME NEW x \in GoValues, NEW n \in ToInteger("int64", x), NEW m \in Said(x),
         CanHold("uint64", m)
  PROVE  Wrap("uint64", n) = m /\ Wrap("uint", n) = m
<1>1. x \in GoScalars /\ n \in Int /\ m \in Int
  BY ToIntegerFacts
<1>2. Wrap("uint", n) = Wrap("uint64", n)
  BY DEF Wrap, Size, Signed
<1>3. Integral \cap {"bool", "string", "float64", "named", "Time", "Enum", "IdentRef"} = {}
  BY DEF Integral, Size
<1>4. CASE x.type \in Integral
  <2>1. n = Wrap("int64", x.n) /\ m = x.n
    BY <1>3, <1>4 DEF ToInteger, Said
  <2>2. QED
    BY <2>1, <1>1, <1>2, ThroughInt64 DEF CanHold
<1>5. CASE x.type = "float64"
  <2>1. n = Truncated(x.n) /\ m = Truncated(x.n)
    BY <1>3, <1>5 DEF ToInteger, Said
  <2>2. QED
    BY <2>1, <1>2 DEF CanHold
<1>6. CASE x.type = "string"
  <2>1. n \in Numeral(x.text) /\ m \in Numeral(x.text)
    BY <1>3, <1>6 DEF ToInteger, Said
  <2>2. QED
    BY <2>1, <1>2, OneNumeral DEF CanHold
<1>7. CASE x.type \in {"named", "Time"}
  <2>1. n = x.n /\ m = x.n
    BY <1>3, <1>7 DEF ToInteger, Said
  <2>2. QED
    BY <2>1, <1>2 DEF CanHold
<1>8. QED
  BY <1>4, <1>5, <1>6, <1>7 DEF ToInteger

\* The Go types that values are held in.
LEMMA HeldFacts ==
  /\ DOMAIN Held = {"boolean", "string", "decimal64", "int8", "uint8", "int16",
                    "uint16", "int32", "uint32", "int64", "uint64",
                    "enumeration", "identityref"}
  /\ Held["boolean"] = "bool" /\ Held["string"] = "string"
  /\ Held["decimal64"] = "float64" /\ Held["int8"] = "int8"
  /\ Held["uint8"] = "uint8" /\ Held["int16"] = "int16"
  /\ Held["uint16"] = "uint16" /\ Held["int32"] = "int"
  /\ Held["uint32"] = "uint" /\ Held["int64"] = "int64"
  /\ Held["uint64"] = "uint64" /\ Held["enumeration"] = "Enum"
  /\ Held["identityref"] = "IdentRef"
  /\ DOMAIN Casts = {"int8", "uint8", "int16", "uint16", "uint32"}
  BY DEF Held, Casts

\* The narrow formats: what they cast is an integer of theirs among others,
\* and what is in the window of the unsigned ones and of int16 fits.
LEMMA NarrowFacts ==
  ASSUME NEW name \in DOMAIN Casts
  PROVE  /\ Held[name] \in Integral /\ Held[name] \in Casts[name]
         /\ Casts[name] \subseteq Integral
         /\ \A m \in Int : m \in Window[name] /\ name # "int8" => CanHold(Held[name], m)
         /\ \A m \in Int : name # "uint32" /\ CanHold(Held[name], m) => CanHold("int", m)
<1>1. {"int8", "int16", "int", "uint8", "uint16", "uint32", "uint"} \subseteq Integral
      /\ "int32" \in Integral
  BY DEF Integral, Size
<1>2. \A t \in Integral : \A m \in Int : CanHold(t, m) <=> Lowest(t) <= m /\ m < Above(t)
  BY WrapFacts
<1>3. Lowest("int") <= 0 - Span[16] /\ Above("int") >= Span[16]
      /\ Lowest("int") \in Int /\ Above("int") \in Int
  BY Bounds
<1>4. \A m \in Int : 0 - Span[16] <= m /\ m < Span[16] => CanHold("int", m)
  <2>1. \A m \in Int : CanHold("int", m) <=> Lowest("int") <= m /\ m < Above("int")
    BY <1>1, <1>2
  <2>2. QED
    BY <1>3, <2>1, Spans
<1>5. CASE name = "int8"
  <2>1. Held[name] = "int8"
    BY <1>5, HeldFacts
  <2>2. Casts[name] = {"uint8", "int8"}
    BY <1>5 DEF Casts
  <2>3. name = "int8"
    BY <1>5
  <2>4. Lowest("int8") = -128 /\ Above("int8") = 128
    BY Bounds
  <2>5. \A m \in Int : CanHold("int8", m) <=> -128 <= m /\ m < 128
    BY <1>1, <1>2, <2>4
  <2>6. Held[name] \in Integral /\ Held[name] \in Casts[name]
    BY <1>1, <2>1, <2>2
  <2>7. Casts[name] \subseteq Integral
    BY <1>1, <2>2
  <2>8. \A m \in Int : CanHold("int8", m) => CanHold("int", m)
    BY <1>4, <2>5, Spans
  <2>9. QED
    BY <2>1, <2>3, <2>6, <2>7, <2>8
<1>6. CASE name = "uint8"
  <2>1. Held[name] = "uint8"
    BY <1>6, HeldFacts
  <2>2. Casts[name] = {"int8", "uint8"}
    BY <1>6 DEF Casts
  <2>3. Window[name] = 0..(Span[8] - 1)
    BY <1>6 DEF Window
  <2>4. Lowest("uint8") = 0 /\ Above("uint8") = 256
    BY Bounds
  <2>5. \A m \in Int : CanHold("uint8", m) <=> 0 <= m /\ m < 256
    BY <1>1, <1>2, <2>4
  <2>6. Held[name] \in Integral /\ Held[name] \in Casts[name]
    BY <1>1, <2>1, <2>2
  <2>7. Casts[name] \subseteq Integral
    BY <1>1, <2>2
  <2>8. \A m \in Int : CanHold("uint8", m) => CanHold("int", m)
    BY <1>4, <2>5, Spans
  <2>9. \A m \in Int : m \in Window[name] => CanHold("uint8", m)
    BY <2>3, <2>5, Spans
  <2>10. QED
    BY <2>1, <2>6, <2>7, <2>8, <2>9
<1>7. CASE name = "int16"
  <2>1. Held[name] = "int16"
    BY <1>7, HeldFacts
  <2>2. Casts[name] = {"int8", "uint8", "uint16", "int16"}
    BY <1>7 DEF Casts
  <2>3. Window[name] = (-143)..143
    BY <1>7 DEF Window
  <2>4. Lowest("int16") = Span[16] \div 2 - Span[16] /\ Above("int16") = Span[16] \div 2
    BY Bounds
  <2>5. \A m \in Int : CanHold("int16", m) <=> Span[16] \div 2 - Span[16] <= m /\ m < Span[16] \div 2
    BY <1>1, <1>2, <2>4
  <2>6. Held[name] \in Integral /\ Held[name] \in Casts[name]
    BY <1>1, <2>1, <2>2
  <2>7. Casts[name] \subseteq Integral
    BY <1>1, <2>2
  <2>8. \A m \in Int : CanHold("int16", m) => CanHold("int", m)
    BY <1>4, <2>5, Spans
  <2>9. \A m \in Int : m \in Window[name] => CanHold("int16", m)
    BY <2>3, <2>5, Spans
  <2>10. QED
    BY <2>1, <2>6, <2>7, <2>8, <2>9
<1>8. CASE name = "uint16"
  <2>1. Held[name] = "uint16"
    BY <1>8, HeldFacts
  <2>2. Casts[name] = {"int8", "uint8", "int16", "uint16"}
    BY <1>8 DEF Casts
  <2>3. Window[name] = 0..(Span[16] - 1)
    BY <1>8 DEF Window
  <2>4. Lowest("uint16") = 0 /\ Above("uint16") = Span[16]
    BY Bounds
  <2>5. \A m \in Int : CanHold("uint16", m) <=> 0 <= m /\ m < Span[16]
    BY <1>1, <1>2, <2>4
  <2>6. Held[name] \in Integral /\ Held[name] \in Casts[name]
    BY <1>1, <2>1, <2>2
  <2>7. Casts[name] \subseteq Integral
    BY <1>1, <2>2
  <2>8. \A m \in Int : CanHold("uint16", m) => CanHold("int", m)
    BY <1>4, <2>5, Spans
  <2>9. \A m \in Int : m \in Window[name] => CanHold("uint16", m)
    BY <2>3, <2>5, Spans
  <2>10. QED
    BY <2>1, <2>6, <2>7, <2>8, <2>9
<1>9. CASE name = "uint32"
  <2>1. Held[name] = "uint"
    BY <1>9, HeldFacts
  <2>2. Casts[name] = {"int8", "uint8", "int16", "uint16", "int32", "uint32", "int", "uint"}
    BY <1>9 DEF Casts
  <2>3. Window[name] = 0..(Span[32] - 1)
    BY <1>9 DEF Window
  <2>4. Lowest("uint") = 0 /\ Above("uint") = Span[64]
    BY Bounds
  <2>5. \A m \in Int : CanHold("uint", m) <=> 0 <= m /\ m < Span[64]
    BY <1>1, <1>2, <2>4
  <2>6. Held[name] \in Integral /\ Held[name] \in Casts[name]
    BY <1>1, <2>1, <2>2
  <2>7. Casts[name] \subseteq Integral
    BY <1>1, <2>2
  <2>8. \A m \in Int : m \in Window[name] => CanHold("uint", m)
    BY <2>3, <2>5, Spans
  <2>9. QED
    BY <1>9, <2>1, <2>6, <2>7, <2>8
<1>10. QED
  BY <1>5, <1>6, <1>7, <1>8, <1>9, HeldFacts

\* What the integer formats are held in.
LEMMA WholesHeld ==
  ASSUME NEW name \in Wholes
  PROVE  /\ Held[name] \in Integral /\ name \in DOMAIN Held
         /\ name \notin {"decimal64", "boolean", "string", "enumeration", "identityref", "union"}
         /\ name \notin DOMAIN Casts =>
               \/ name = "int32" /\ Held[name] = "int"
               \/ name \in {"int64", "uint64"} /\ Held[name] = name
<1>1. {"int", "int64", "uint64"} \subseteq Integral
  BY DEF Integral, Size
<1>2. QED
  BY <1>1, HeldFacts, NarrowFacts DEF Wholes

\* The branches of Conv that whole numbers take.
LEMMA ConvertWhole ==
  ASSUME NEW name \in Wholes, NEW x
  PROVE  /\ name \in DOMAIN Casts =>
               Convert(name, x) = {Go(Held[name], n) : n \in ToNarrow(name, x)}
         /\ name = "int32" =>
               Convert(name, x) = {Go("int", n) : n \in ToInteger("int", x)}
         /\ name = "int64" =>
               Convert(name, x) = {Go("int64", n) : n \in ToInteger("int64", x)}
         /\ name = "uint64" =>
               Convert(name, x) = {Go("uint64", n) : n \in ToUInt64(x)}
<1>1. {"int32", "int64", "uint64"} \cap DOMAIN Casts = {}
  BY HeldFacts
<1>2. QED
  BY <1>1, HeldFacts DEF Convert

\* A whole number that is written is one that its type holds and, when the
\* type can hold it, the one that was said.
LEMMA WholeFacts ==
  ASSUME NEW name \in Wholes, NEW x \in GoValues, NEW v \in Convert(name, x)
  PROVE  /\ x \in GoScalars
         /\ v = Go(Held[name], v.n) /\ v.n \in Int /\ CanHold(Held[name], v.n)
         /\ Alike(name, x, v)
<1> DEFINE type == Held[name]
<1>1. type \in Integral /\ name # "decimal64"
  BY WholesHeld
<1>2. \A n \in Int : Wrap(type, n) \in Int /\ CanHold(type, Wrap(type, n))
  BY <1>1, WrapFacts
<1>3. \A n : Go(type, n).n = n
  BY DEF Go
<1>4. SUFFICES
        \E n \in Int : /\ x \in GoScalars /\ v = Go(type, n) /\ CanHold(type, n)
                       /\ \A m \in Said(x) :
                             /\ CanHold(type, m) => n = m
                             /\ x.type = "string" /\ name \notin {"int8", "uint64"} => n = m
  BY <1>1, <1>3 DEF Alike
<1>5. CASE name \in DOMAIN Casts
  <2>1. PICK n : v = Go(type, Wrap(type, n))
                 /\ n \in IF x.type \in Casts[name] THEN {x.n}
                          ELSE Window[name] \cap
                                 ToInteger(IF name = "uint32" THEN "int64" ELSE "int", x)
    BY <1>5, ConvertWhole DEF ToNarrow
  <2>2. CASE x.type \in Casts[name]
    <3>1. x.type \in Integral /\ n = x.n
      BY <1>5, <2>1, <2>2, NarrowFacts
    <3>2. x \in GoScalars /\ n \in Int
      BY <3>1, ScalarFacts, SliceFacts DEF GoValues
    <3>3. Said(x) = {n} /\ x.type # "string"
      <4>1. x.type \notin {"string", "float64"}
        BY <3>1 DEF Integral, Size
      <4>2. QED
        BY <3>1, <4>1 DEF Said
    <3>4. QED
      BY <1>2, <2>1, <3>2, <3>3 DEF CanHold
  <2>3. CASE x.type \notin Casts[name] /\ name = "uint32"
    <3>1. n \in Window[name] /\ n \in ToInteger("int64", x) /\ type = "uint"
      BY <2>1, <2>3, HeldFacts
    <3>2. /\ x \in GoScalars /\ n \in Int
          /\ \A m \in Said(x) : m \in Int /\ (x.type = "string" => m = n)
      BY <3>1, ToIntegerFacts
    <3>3. CanHold(type, n)
      BY <1>5, <2>3, <3>1, <3>2, NarrowFacts
    <3>4. \A m \in Int : CanHold("uint", m) <=> CanHold("uint64", m)
      BY DEF CanHold, Wrap, Size, Signed
    <3>5. \A m \in Said(x) : CanHold(type, m) => Wrap(type, n) = m
      BY <3>1, <3>2, <3>4, SaidThroughInt64
    <3>6. QED
      BY <1>2, <2>1, <3>2, <3>3, <3>5 DEF CanHold
  <2>4. CASE x.type \notin Casts[name] /\ name # "uint32"
    <3>1. n \in Window[name] /\ n \in ToInteger("int", x)
      BY <2>1, <2>4
    <3>2. /\ x \in GoScalars /\ n \in Int
          /\ \A m \in Said(x) : m \in Int /\ (x.type = "string" \/ CanHold("int", m) => m = n)
      BY <3>1, ToIntegerFacts
    <3>3. \A m \in Int : CanHold(type, m) => CanHold("int", m)
      BY <1>5, <2>4, NarrowFacts
    <3>4. name # "int8" => CanHold(type, n)
      BY <1>5, <3>1, <3>2, NarrowFacts
    <3>5. QED
      BY <1>2, <2>1, <3>2, <3>3, <3>4 DEF CanHold
  <2>5. QED
    BY <2>2, <2>3, <2>4
<1>6. CASE name = "int32"
  <2>1. PICK n \in ToInteger("int", x) : v = Go("int", n)
    BY <1>6, ConvertWhole
  <2>2. QED
    BY <1>6, <2>1, ToIntegerFacts, HeldFacts
<1>7. CASE name = "int64"
  <2>1. PICK n \in ToInteger("int64", x) : v = Go("int64", n)
    BY <1>7, ConvertWhole
  <2>2. QED
    BY <1>7, <2>1, ToIntegerFacts, HeldFacts
<1>8. CASE name = "uint64"
  <2>1. PICK n \in ToInteger("int64", x) : v = Go("uint64", Wrap("uint64", n))
    BY <1>8, ConvertWhole DEF ToUInt64
  <2>2. /\ x \in GoScalars /\ n \in Int /\ type = "uint64"
        /\ \A m \in Said(x) : CanHold("uint64", m) => Wrap("uint64", n) = m
    BY <1>8, <2>1, ToIntegerFacts, SaidThroughInt64, HeldFacts
  <2>3. QED
    BY <1>2, <1>8, <2>1, <2>2
<1>9. QED
  BY <1>5, <1>6, <1>7, <1>8 DEF Wholes

\* A whole number that its type holds is converted to itself.
LEMMA WholeAgain ==
  ASSUME NEW name \in Wholes, NEW n \in Int, CanHold(Held[name], n)
  PROVE  Convert(name, Go(Held[name], n)) = {Go(Held[name], n)}
<1> DEFINE type == Held[name]
           x == Go(type, n)
<1>1. type \in Integral /\ x.type = type /\ x.n = n
  BY WholesHeld DEF Go
<1>2. type \notin {"named", "float64", "string", "Time"}
  BY <1>1 DEF Integral, Size
<1>3. CASE name \in DOMAIN Casts
  <2>1. ToNarrow(name, x) = {Wrap(type, n)}
    BY <1>1, <1>3, NarrowFacts DEF ToNarrow
  <2>2. QED
    BY <2>1, <1>3, ConvertWhole DEF CanHold
<1>4. CASE name = "int32"
  <2>1. type = "int" /\ ToInteger("int", x) = {Wrap("int", n)}
    BY <1>1, <1>4, HeldFacts DEF ToInteger
  <2>2. QED
    BY <2>1, <1>4, ConvertWhole DEF CanHold
<1>5. CASE name = "int64"
  <2>1. type = "int64" /\ ToInteger("int64", x) = {Wrap("int64", n)}
    BY <1>1, <1>2, <1>5, HeldFacts DEF ToInteger
  <2>2. QED
    BY <2>1, <1>5, ConvertWhole DEF CanHold
<1>6. CASE name = "uint64"
  <2>1. type = "uint64" /\ ToInteger("int64", x) = {Wrap("int64", n)}
    BY <1>1, <1>2, <1>6, HeldFacts DEF ToInteger
  <2>2. ToUInt64(x) = {Wrap("uint64", n)}
    BY <2>1, <1>1, <1>2, ThroughInt64 DEF ToUInt64
  <2>3. QED
    BY <2>1, <2>2, <1>6, ConvertWhole DEF CanHold
<1>7. QED
  BY <1>3, <1>4, <1>5, <1>6 DEF Wholes

\* A value is of the type that holds it, and is converted to itself.
LEMMA ConvertAgain ==
  ASSUME NEW name \in DOMAIN Held, NEW x \in GoValues, NEW v \in Convert(name, x)
  PROVE  v.type = Held[name] /\ v.items = <<>> /\ Convert(name, v) = {v}
<1>1. CASE name \in Wholes
  <2>1. v = Go(Held[name], v.n) /\ v.n \in Int /\ CanHold(Held[name], v.n)
    BY <1>1, WholeFacts
  <2>2. Convert(name, v) = {v}
    BY <1>1, <2>1, WholeAgain
  <2>3. v.type = Held[name] /\ v.items = <<>>
    <3>1. PICK n : v = Go(Held[name], n)
      BY <2>1
    <3>2. QED
      BY <3>1 DEF Go
  <2>4. QED
    BY <2>2, <2>3
<1>2. CASE name = "decimal64"
  <2>1. \A y : Convert(name, y) = {Go("float64", n) : n \in ToDecimal64(y)}
    BY <1>2, HeldFacts DEF Convert
  <2>2. PICK n : v = Go("float64", n)
    BY <2>1
  <2>3. v.type = "float64" /\ v.n = n /\ v.items = <<>>
    BY <2>2 DEF Go
  <2>4. ToDecimal64(v) = {n}
    BY <2>3 DEF ToDecimal64, Integral, Size
  <2>5. QED
    BY <1>2, <2>1, <2>2, <2>3, <2>4, HeldFacts
<1>3. CASE name = "boolean"
  <2>1. \A y : Convert(name, y) = {Go("bool", n) : n \in ToBool(y)}
    BY <1>3, HeldFacts DEF Convert
  <2>2. PICK n : v = Go("bool", n)
    BY <2>1
  <2>3. v.type = "bool" /\ v.n = n /\ v.items = <<>>
    BY <2>2 DEF Go
  <2>4. ToBool(v) = {n}
    BY <2>3 DEF ToBool
  <2>5. QED
    BY <1>3, <2>1, <2>2, <2>3, <2>4, HeldFacts
<1>4. CASE name = "string"
  <2>1. \A y : Convert(name, y) = {GoText("string", 0, Printed(y))}
    BY <1>4, HeldFacts DEF Convert
  <2>2. v.type = "string" /\ v.text = Printed(x) /\ v.items = <<>>
    BY <2>1, GoTextFields
  <2>3. Printed(v) = Printed(x)
    BY <2>2 DEF Printed, Integral, Size
  <2>4. QED
    BY <1>4, <2>1, <2>2, <2>3, HeldFacts
<1>5. CASE name \in {"enumeration", "identityref"}
  BY <1>5, HeldFacts DEF Convert
<1>6. QED
  BY <1>1, <1>2, <1>3, <1>4, <1>5, HeldFacts DEF Wholes

\* What Conv has made of a value it makes of itself (Conv, toInt8 ... toStringList).
LEMMA ConvAgain ==
  ASSUME NEW format \in [name : DOMAIN Held, list : BOOLEAN],
         NEW x \in GoValues, NEW u \in Conv(format, x)
  PROVE  /\ u = Value(format, u.v) /\ u.format = format
         /\ Conv(format, u.v) = {u}
         /\ ~format.list => u.v \in Convert(format.name, x)
<1>1. u.format = format /\ u = Value(format, u.v)
      /\ u.v \in IF format.list THEN ConvertList(format.name, x)
                 ELSE Convert(format.name, x)
  BY DEF Conv, Value
<1>2. CASE ~format.list
  <2>1. u.v \in Convert(format.name, x)
    BY <1>1, <1>2
  <2>2. Convert(format.name, u.v) = {u.v}
    BY <2>1, ConvertAgain
  <2>3. QED
    BY <1>1, <1>2, <2>1, <2>2 DEF Conv
<1>3. CASE format.list
  <2> DEFINE type == SliceOf[Held[format.name]]
  <2>1. PICK items_ : u.v = GoSlice(type, items_)
    BY <1>1, <1>3 DEF ConvertList
  <2>2. u.v.type = type /\ u.v.items = items_
    BY <2>1, GoSliceFields
  <2>3. ConvertList(format.name, u.v) = {GoSlice(type, u.v.items)}
    BY <2>2 DEF ConvertList
  <2>4. QED
    BY <1>1, <1>3, <2>1, <2>2, <2>3 DEF Conv
<1>4. QED
  BY <1>2, <1>3

-----------------------------------------------------------------------------
(***************************************************************************)
(* What is written is what was said.                                       *)
(***************************************************************************)

\* The numbers of a value, or of the items of a list of them.
SaysAlike(name, x, v) ==
    IF x.items = <<>> THEN v.items = <<>> => Alike(name, x, v)
    ELSE /\ Len(v.items) = Len(x.items)
         /\ \A j \in DOMAIN x.items : Alike(name, x.items[j], v.items[j])

\* A slice is no number.
LEMMA SlicesSayNothing ==
  ASSUME NEW x \in GoSlices
  PROVE  Said(x) = {}
  BY SliceFacts DEF Said

\* A number that is taken for a leaf is written as it was said.
LEMMA SingleSaysAlike ==
  ASSUME NEW name \in Wholes, NEW x \in GoValues, NEW v \in Convert(name, x)
  PROVE  SaysAlike(name, x, v)
  BY WholeFacts, ScalarFacts DEF SaysAlike

\* And so is each one of a leaf-list, and one that is taken for a list of one.
LEMMA ListSaysAlike ==
  ASSUME NEW name \in Wholes, NEW x \in GoValues, NEW v \in ConvertList(name, x)
  PROVE  SaysAlike(name, x, v)
<1> DEFINE type == SliceOf[Held[name]]
           To(y) == Convert(name, y)
<1>1. Held[name] \in DOMAIN SliceOf \ {"any"} /\ name # "string"
  BY WholesHeld DEF Integral, Size, SliceOf
<1>2. \A y \in GoScalars : y.type \notin {SliceOf[t] : t \in DOMAIN SliceOf}
  BY ScalarFacts, SliceNames
<1>3. PICK list :
        /\ v = GoSlice(type, list)
        /\ list \in IF x.type = type THEN {x.items}
                    ELSE IF x.type \in {SliceOf[t] : t \in ItemTypes(name)}
                    THEN Each([i \in DOMAIN x.items |-> To(x.items[i])])
                    ELSE {<<w>> : w \in IF name = "string" THEN {} ELSE To(x)}
  BY DEF ConvertList
<1>4. v.items = list
  BY <1>3, GoSliceFields
<1>5. CASE x.type = type
  <2>1. x \in GoSlices /\ list = x.items
    <3>1. x.type \in {SliceOf[t] : t \in DOMAIN SliceOf}
      BY <1>1, <1>5
    <3>2. QED
      BY <3>1, <1>2, <1>3, <1>5 DEF GoValues
  <2>2. \A j \in DOMAIN x.items : x.items[j].type = Held[name]
    BY <1>1, <1>5, <2>1, SliceFacts
  <2>3. ASSUME NEW j \in DOMAIN x.items PROVE Said(x.items[j]) = {x.items[j].n}
    <3>1. x.items[j].type \in Integral
      BY <2>2, WholesHeld
    <3>2. x.items[j].type \notin {"string", "float64"}
      BY <3>1 DEF Integral, Size
    <3>3. QED
      BY <3>1, <3>2 DEF Said
  <2>4. Said(x) = {}
    BY <2>1, SlicesSayNothing
  <2>5. name # "decimal64"
    BY WholesHeld
  <2>6. QED
    BY <1>4, <2>1, <2>3, <2>4, <2>5 DEF SaysAlike, Alike
<1>6. CASE x.type # type /\ x.type \in {SliceOf[t] : t \in ItemTypes(name)}
  <2>1. ItemTypes(name) \subseteq DOMAIN SliceOf
    BY DEF ItemTypes, SliceOf
  <2>2. x \in GoSlices
    BY <1>2, <1>6, <2>1 DEF GoValues
  <2>3. x.items \in Seq(GoScalars)
    BY <2>2, SliceFacts
  <2>4. /\ \A i \in DOMAIN x.items : To(x.items[i]) # {}
        /\ list = [i \in DOMAIN x.items |-> CHOOSE w \in To(x.items[i]) : TRUE]
    <3> HIDE DEF To
    <3>1. list \in Each([i \in DOMAIN x.items |-> To(x.items[i])])
      BY <1>3, <1>6
    <3>2. QED
      BY <3>1 DEF Each
  <2>5. \A i \in DOMAIN x.items : list[i] \in To(x.items[i])
    BY <2>4
  <2>6. Len(list) = Len(x.items)
    BY <2>3, <2>4
  <2>7. \A j \in DOMAIN x.items : Alike(name, x.items[j], list[j])
    BY <2>3, <2>5, WholeFacts DEF GoValues
  <2>8. Said(x) = {}
    BY <2>2, SlicesSayNothing
  <2>9. QED
    BY <1>4, <2>6, <2>7, <2>8 DEF SaysAlike, Alike
<1>7. CASE x.type # type /\ x.type \notin {SliceOf[t] : t \in ItemTypes(name)}
  <2>1. PICK w \in To(x) : list = <<w>>
    BY <1>1, <1>3, <1>7
  <2>2. x.items = <<>>
    BY <2>1, WholeFacts, ScalarFacts
  <2>3. QED
    BY <1>4, <2>1, <2>2 DEF SaysAlike
<1>8. QED
  BY <1>5, <1>6, <1>7

-----------------------------------------------------------------------------
(***************************************************************************)
(* What is written is what is read back.                                   *)
(***************************************************************************)
LEMMA CaseFacts ==
  ASSUME NEW c \in Cases
  PROVE  /\ c.list \in {"slice", "map"} /\ c.keyed \in BOOLEAN
         /\ c.inputs \subseteq GoValues
         /\ c.type.format \in [name : DOMAIN Held \union {"union"}, list : BOOLEAN]
         /\ c.type.enums \in Seq([id : Int, label : STRING])
         /\ c.type.formats \in Seq([name : DOMAIN Held, list : BOOLEAN])
  BY CasesAssumption DEF GoValues

Plain == DOMAIN Held \ {"enumeration", "identityref"}

\* For a type of a single format NewValue is Conv.
LEMMA NewPlain ==
  ASSUME NEW c \in Cases, c.type.format.name \in Plain, NEW x
  PROVE  /\ c.type.format \in [name : DOMAIN Held, list : BOOLEAN]
         /\ NewValue(c.type, x) = Conv(c.type.format, x)
<1>1. c.type.format.name \notin {"identityref", "enumeration", "union"}
  BY HeldFacts DEF Plain
<1>2. c.type.format \in [name : DOMAIN Held, list : BOOLEAN]
  BY CaseFacts DEF Plain
<1>3. QED
  BY <1>1, <1>2 DEF NewValue

\* So what it made it makes of itself.
LEMMA PlainAgain ==
  ASSUME NEW c \in Cases, c.type.format.name \in Plain,
         NEW x \in c.inputs, NEW u \in NewValue(c.type, x)
  PROVE  /\ u = Value(c.type.format, u.v) /\ u.format = c.type.format
         /\ NewValue(c.type, u.v) = {u}
         /\ ~c.type.format.list => u.v \in Convert(c.type.format.name, x)
<1>1. c.type.format \in [name : DOMAIN Held, list : BOOLEAN] /\ x \in GoValues
      /\ \A y : NewValue(c.type, y) = Conv(c.type.format, y)
  BY NewPlain, CaseFacts
<1>2. u \in Conv(c.type.format, x)
  BY <1>1
<1>3. QED
  BY <1>1, <1>2, ConvAgain, SMTT(60)

\* A leaf of a plain type reads back, from a map and from a struct.
LEMMA PlainReadsBack ==
  ASSUME NEW c \in Cases, c.type.format.name \in Plain,
         NEW x \in c.inputs, NEW u \in NewValue(c.type, x)
  PROVE  ReadField(c, WriteField(c.field, u)) = {u}
<1> DEFINE f == c.type.format
<1>1. /\ u = Value(f, u.v) /\ u.format = f /\ NewValue(c.type, u.v) = {u}
      /\ ~f.list => u.v \in Convert(f.name, x)
  BY PlainAgain
<1>2. WriteField(c.field, u) = u.v
  BY <1>1 DEF WriteField, Plain
<1>3. CASE c.field # "map" /\ f = Format("string", FALSE)
  <2>1. f.name = "string" /\ ~f.list
    BY <1>3 DEF Format
  <2>2. u.v = GoText("string", 0, Printed(x)) /\ Printed(x) # ""
    <3>1. Convert("string", x) = {GoText("string", 0, Printed(x))}
      BY HeldFacts DEF Convert
    <3>2. Printed(x) # ""
      BY <1>3, LeavesAssumption
    <3>3. QED
      BY <1>1, <2>1, <3>1, <3>2
  <2>3. u.v # GoText("string", 0, "")
    BY <2>2 DEF GoText, Go
  <2>4. ReadField(c, u.v) = {Value(f, v) : v \in {u.v} \ {GoText("string", 0, "")}}
    BY <1>3 DEF ReadField
  <2>5. QED
    BY <1>1, <1>2, <2>3, <2>4
<1>4. CASE ~(c.field # "map" /\ f = Format("string", FALSE))
  BY <1>1, <1>2, <1>4 DEF ReadField
<1>5. QED
  BY <1>3, <1>4

Takes(formats, y, i) == Conv(formats[i], y) # {}
Taker(formats, y, i) ==
    Takes(formats, y, i) /\ \A j \in 1..(i - 1) : ~Takes(formats, y, j)

\* ConvOneOf gives what the first format that takes the value makes of it.
LEMMA OneTaker ==
  ASSUME NEW formats \in Seq([name : DOMAIN Held, list : BOOLEAN]), NEW y,
         NEW at \in DOMAIN formats, Taker(formats, y, at)
  PROVE  ConvOneOf(formats, y) = Conv(formats[at], y)
<1>1. \A i \in DOMAIN formats : i \in Nat /\ i >= 1
  OBVIOUS
<1>2. ASSUME NEW i \in DOMAIN formats, Taker(formats, y, i), i # at PROVE FALSE
  <2>1. i < at \/ at < i
    BY <1>1, <1>2
  <2>2. i \in 1..(at - 1) \/ at \in 1..(i - 1)
    BY <1>1, <2>1
  <2>3. QED
    BY <1>2, <2>2 DEF Taker
<1>3. (CHOOSE i \in DOMAIN formats : Taker(formats, y, i)) = at
  BY <1>2
<1>4. \E i \in DOMAIN formats : Takes(formats, y, i)
  BY DEF Taker
<1>5. ConvOneOf(formats, y) =
        IF \E i \in DOMAIN formats : Takes(formats, y, i)
        THEN Conv(formats[CHOOSE i \in DOMAIN formats : Taker(formats, y, i)], y)
        ELSE {}
  BY DEF ConvOneOf, Takes, Taker
<1>6. QED
  BY <1>3, <1>4, <1>5

\* And when it gives something one of the formats is the first.
LEMMA SomeTaker ==
  ASSUME NEW formats \in Seq([name : DOMAIN Held, list : BOOLEAN]), NEW y,
         ConvOneOf(formats, y) # {}
  PROVE  \E at \in DOMAIN formats : Taker(formats, y, at)
<1> DEFINE T == {i \in DOMAIN formats : Takes(formats, y, i)}
<1>1. T # {}
  BY DEF ConvOneOf, Takes
<1>2. T \subseteq Nat
  OBVIOUS
<1>3. PICK at \in T : \A j \in T : at <= j
  BY <1>1, <1>2, LeastIn
<1>4. \A j \in 1..(at - 1) : j \in DOMAIN formats /\ j \notin T
  BY <1>2, <1>3
<1>5. QED
  BY <1>3, <1>4 DEF Taker

\* A leaf of a union reads back: the format that took the value takes it again.
LEMMA UnionReadsBack ==
  ASSUME NEW c \in Cases, c.type.format.name = "union",
         NEW x \in c.inputs, NEW u \in NewValue(c.type, x)
  PROVE  ReadField(c, WriteField(c.field, u)) = {u}
<1>1. PICK formats : formats = c.type.formats
  OBVIOUS
<1>2. x \in GoValues /\ formats \in Seq([name : DOMAIN Held, list : BOOLEAN])
  BY <1>1, CaseFacts
<1>3. \A y : NewValue(c.type, y) = ConvOneOf(formats, y)
  BY <1>1 DEF NewValue
<1>4. PICK at \in DOMAIN formats : Taker(formats, x, at)
  BY <1>2, <1>3, SomeTaker
<1>5. u \in Conv(formats[at], x)
  BY <1>2, <1>3, <1>4, OneTaker
<1>6. formats[at] \in [name : DOMAIN Held, list : BOOLEAN]
  BY <1>2, ElementOf
<1>7. u.format = formats[at] /\ Conv(formats[at], u.v) = {u}
  BY <1>2, <1>5, <1>6, ConvAgain
<1>8. WriteField(c.field, u) = u.v
  <2>1. u.format.name \notin {"enumeration", "identityref"}
    BY <1>1, <1>7, LeavesAssumption
  <2>2. QED
    BY <2>1 DEF WriteField
<1>9. Taker(formats, u.v, at)
  <2>1. \A j \in 1..(at - 1) : Conv(formats[j], x) = {}
    BY <1>4 DEF Taker, Takes
  <2>2. \A j \in 1..(at - 1) : Conv(formats[j], u.v) = {}
    BY <1>1, <1>5, <2>1, LeavesAssumption
  <2>3. QED
    BY <1>7, <2>2 DEF Taker, Takes
<1>10. NewValue(c.type, u.v) = {u}
  BY <1>2, <1>3, <1>7, <1>9, OneTaker
<1>11. c.type.format # Format("string", FALSE)
  BY DEF Format
<1>12. QED
  BY <1>8, <1>10, <1>11 DEF ReadField

\* What looking an enum up by some of their places gives.
LEMMA EnumIn ==
  ASSUME NEW enums, NEW at \in SUBSET DOMAIN enums, NEW v \in First(enums, at)
  PROVE  \E i \in at : v = GoText("Enum", enums[i].id, enums[i].label)
  BY DEF First

\* The enum at a place.
LEMMA OneEnum ==
  ASSUME NEW enums \in Seq([id : Int, label : STRING]), NEW i \in DOMAIN enums
  PROVE  First(enums, {i}) = {GoText("Enum", enums[i].id, enums[i].label)}
  BY DEF First

\* A leaf that is an enum reads back, by its id, its label or as it is.
LEMMA EnumReadsBack ==
  ASSUME NEW c \in Cases, c.type.format.name = "enumeration",
         NEW x \in c.inputs, NEW u \in NewValue(c.type, x)
  PROVE  ReadField(c, WriteField(c.field, u)) = {u}
<1> DEFINE enums == c.type.enums
           f == c.type.format
<1>1. /\ enums \in Seq([id : Int, label : STRING]) /\ ~f.list
      /\ \A i, j \in DOMAIN enums :
            i = j \/ (enums[i].id # enums[j].id /\ enums[i].label # enums[j].label)
      /\ \A i \in DOMAIN enums :
            CanHold("int", enums[i].id) /\ Numeral(enums[i].label) = {}
  BY CaseFacts, LeavesAssumption
<1>2. \A y : NewValue(c.type, y) = {Value(f, v) : v \in ToEnum(enums, y)}
  BY <1>1 DEF NewValue
<1>3. PICK v \in ToEnum(enums, x) : u = Value(f, v)
  BY <1>2
<1>4. PICK i \in DOMAIN enums : v = GoText("Enum", enums[i].id, enums[i].label)
  BY <1>3, EnumIn DEF ToEnum, ById, ByLabel
<1>5. /\ u.v = v /\ u.format = f
      /\ v.type = "Enum" /\ v.n = enums[i].id /\ v.text = enums[i].label
  BY <1>3, <1>4, GoTextFields DEF Value
<1>6. ByLabel(enums, enums[i].label) = {v}
  <2>1. {j \in DOMAIN enums : enums[j].label = enums[i].label} = {i}
    BY <1>1
  <2>2. QED
    BY <1>1, <1>4, <2>1, OneEnum DEF ByLabel
<1>7. ById(enums, {enums[i].id}) = {v}
  <2>1. {j \in DOMAIN enums : enums[j].id \in {enums[i].id}} = {i}
    BY <1>1
  <2>2. QED
    BY <1>1, <1>4, <2>1, OneEnum DEF ById
<1>8. ToEnum(enums, WriteField(c.field, u)) = {v}
  <2> DEFINE y == WriteField(c.field, u)
  <2>1. CASE c.field = "string"
    <3>1. y = GoText("string", 0, enums[i].label)
      BY <1>5, <2>1 DEF WriteField
    <3>2. y.type = "string" /\ y.text = enums[i].label
      BY <3>1, GoTextFields
    <3>3. ToInteger("int", y) = {}
      BY <1>1, <3>2 DEF ToInteger, Integral, Size
    <3>4. Printed(y) = enums[i].label
      BY <3>2 DEF Printed, Integral, Size
    <3>5. QED
      BY <1>6, <3>3, <3>4 DEF ToEnum
  <2>2. CASE c.field = "int"
    <3>1. y = Go("int", enums[i].id)
      BY <1>5, <2>2 DEF WriteField
    <3>2. ASSUME NEW z, z = Go("int", enums[i].id)
          PROVE  z.type = "int" /\ z.n = enums[i].id
      BY <3>2, Zenon DEF Go
    <3>3. ASSUME NEW z, z = Go("int", enums[i].id)
          PROVE  ToInteger("int", z) = {enums[i].id}
      BY <1>1, <3>2, <3>3 DEF ToInteger, Integral, Size, CanHold
    <3>4. QED
      BY <1>7, <3>1, <3>3 DEF ToEnum
  <2>3. CASE c.field \notin {"string", "int"}
    <3>1. y = v
      BY <1>5, <2>3 DEF WriteField
    <3>2. ToInteger("int", y) = {} /\ Printed(y) = enums[i].label
      BY <1>5, <3>1 DEF ToInteger, Printed, Integral, Size
    <3>3. QED
      BY <1>6, <3>2 DEF ToEnum
  <2>4. QED
    BY <2>1, <2>2, <2>3
<1>9. f # Format("string", FALSE)
  BY DEF Format
<1>10. QED
  BY <1>2, <1>3, <1>8, <1>9 DEF ReadField

\* A leaf that is an identity reads back, by its name or as it is.
LEMMA IdentityReadsBack ==
  ASSUME NEW c \in Cases, c.type.format.name = "identityref",
         NEW x \in c.inputs, NEW u \in NewValue(c.type, x)
  PROVE  ReadField(c, WriteField(c.field, u)) = {u}
<1> DEFINE derived == c.type.derived
           f == c.type.format
<1>1. ~f.list
  BY LeavesAssumption
<1>2. \A y : NewValue(c.type, y) = {Value(f, v) : v \in ToIdentRef(derived, y)}
  BY <1>1 DEF NewValue
<1>3. PICK d \in derived : u = Value(f, GoText("IdentRef", 0, d))
  BY <1>2 DEF ToIdentRef
<1>4. u.v = GoText("IdentRef", 0, d) /\ u.format = f
  BY <1>3 DEF Value
<1>5. u.v.type = "IdentRef" /\ u.v.text = d
  BY <1>4, GoTextFields
<1>6. PICK y : y = WriteField(c.field, u)
  OBVIOUS
<1>7. y.type \in {"string", "IdentRef"} /\ y.text = d
  <2>1. CASE c.field = "string"
    <3>1. y = GoText("string", 0, d)
      BY <1>4, <1>5, <1>6, <2>1 DEF WriteField
    <3>2. QED
      BY <3>1, GoTextFields
  <2>2. CASE c.field # "string"
    BY <1>4, <1>5, <1>6, <2>2 DEF WriteField
  <2>3. QED
    BY <2>1, <2>2
<1>8. Printed(y) = d
  BY <1>7 DEF Printed, Integral, Size
<1>9. f # Format("string", FALSE)
  BY DEF Format
<1>10. QED
  BY <1>2, <1>3, <1>6, <1>8, <1>9 DEF ReadField, ToIdentRef

\* What is written to a leaf is what is read from it.
LEMMA WrittenReadsBack ==
  ASSUME NEW c \in Cases, NEW x \in c.inputs, NEW u \in NewValue(c.type, x)
  PROVE  ReadField(c, WriteField(c.field, u)) = {u}
<1>1. c.type.format.name \in Plain \union {"union", "enumeration", "identityref"}
  BY CaseFacts DEF Plain
<1>2. QED
  BY <1>1, PlainReadsBack, UnionReadsBack, EnumReadsBack, IdentityReadsBack

-----------------------------------------------------------------------------
(***************************************************************************)
(* Sequences, and functions defined turn by turn.                          *)
(***************************************************************************)
LEMMA Slicing ==
  ASSUME NEW S, NEW s \in Seq(S), NEW m \in Int, NEW n \in Int,
         1 <= m, n <= Len(s), m <= n + 1
  PROVE  /\ SubSeq(s, m, n) \in Seq(S) /\ Len(SubSeq(s, m, n)) = n - m + 1
         /\ \A i \in 1..(n - m + 1) : SubSeq(s, m, n)[i] = s[m + i - 1]
<1>1. \A i \in m..n : i \in DOMAIN s /\ s[i] \in S
  OBVIOUS
<1>2. /\ SubSeq(s, m, n) \in Seq(S)
      /\ Len(SubSeq(s, m, n)) = IF m <= n THEN n - m + 1 ELSE 0
      /\ \A i \in 1..(n - m + 1) : SubSeq(s, m, n)[i] = s[m + i - 1]
  BY <1>1, SubSeqProperties
<1>3. QED
  BY <1>2

\* Two sequences one after the other.
LEMMA Joined ==
  ASSUME NEW S, NEW a \in Seq(S), NEW b \in Seq(S), NEW t, t = a \o b
  PROVE  /\ t \in Seq(S) /\ Len(t) = Len(a) + Len(b)
         /\ \A i \in 1..(Len(a) + Len(b)) :
               t[i] = IF i <= Len(a) THEN a[i] ELSE b[i - Len(a)]
  BY ConcatProperties

\* t is s without what is at place p.
Removal(S, s, p, t) ==
    /\ t \in Seq(S) /\ Len(t) = Len(s) - 1
    /\ \A i \in DOMAIN t : t[i] = IF i < p THEN s[i] ELSE s[i + 1]

\* A sequence without its element p: the others close up.
LEMMA Removed ==
  ASSUME NEW S, NEW s \in Seq(S), NEW p \in DOMAIN s, NEW t, t = RemoveAt(s, p)
  PROVE  Removal(S, s, p, t)
<1> DEFINE a == SubSeq(s, 1, p - 1)
           b == SubSeq(s, p + 1, Len(s))
<1>1. p \in Int /\ 1 <= p /\ p <= Len(s) /\ Len(s) \in Int
  OBVIOUS
<1>2. /\ a \in Seq(S) /\ Len(a) = p - 1
      /\ \A i \in 1..(p - 1) : a[i] = s[i]
  <2>1. /\ a \in Seq(S) /\ Len(a) = p - 1 - 1 + 1
        /\ \A i \in 1..(p - 1 - 1 + 1) : a[i] = s[1 + i - 1]
    BY <1>1, Slicing
  <2> HIDE DEF a
  <2>2. QED
    BY <1>1, <2>1
<1>3. /\ b \in Seq(S) /\ Len(b) = Len(s) - p
      /\ \A i \in 1..(Len(s) - p) : b[i] = s[p + i]
  <2>1. /\ b \in Seq(S) /\ Len(b) = Len(s) - (p + 1) + 1
        /\ \A i \in 1..(Len(s) - (p + 1) + 1) : b[i] = s[p + 1 + i - 1]
    BY <1>1, Slicing
  <2> HIDE DEF b
  <2>2. QED
    BY <1>1, <2>1
<1>4. t = a \o b
  BY DEF RemoveAt
<1> HIDE DEF a, b
<1>5. /\ t \in Seq(S) /\ Len(t) = Len(a) + Len(b)
      /\ \A i \in 1..(Len(a) + Len(b)) : t[i] = IF i <= Len(a) THEN a[i] ELSE b[i - Len(a)]
  <2>1. a \in Seq(S) /\ b \in Seq(S)
    BY <1>2, <1>3
  <2>2. QED
    BY <1>4, <2>1, Joined
<1>6. Len(t) = Len(s) - 1
  BY <1>1, <1>2, <1>3, <1>5
<1>7. ASSUME NEW i \in 1..(Len(s) - 1)
      PROVE  t[i] = IF i < p THEN s[i] ELSE s[i + 1]
  <2>1. t[i] = IF i <= p - 1 THEN a[i] ELSE b[i - (p - 1)]
    BY <1>1, <1>2, <1>3, <1>5, <1>6
  <2>2. CASE i < p
    BY <1>1, <1>2, <2>1, <2>2
  <2>3. CASE i >= p
    <3>1. i - (p - 1) \in 1..(Len(s) - p) /\ p + (i - (p - 1)) = i + 1
      BY <1>1, <2>3
    <3>2. QED
      BY <1>1, <1>3, <2>1, <2>3, <3>1, SMTT(60)
  <2>4. QED
    BY <1>1, <2>2, <2>3
<1>8. DOMAIN t = 1..(Len(s) - 1)
  BY <1>5, <1>6
<1>9. QED
  BY <1>5, <1>6, <1>7, <1>8 DEF Removal

\* t is s with e put in at place p.
Insertion(S, s, p, e, t) ==
    /\ t \in Seq(S) /\ Len(t) = Len(s) + 1
    /\ \A i \in 1..(Len(s) + 1) :
          t[i] = IF i < p THEN s[i] ELSE IF i = p THEN e ELSE s[i - 1]

\* A sequence with a new element at p: those from there on move.
LEMMA Inserted ==
  ASSUME NEW S, NEW s \in Seq(S), NEW e \in S, NEW p \in 1..(Len(s) + 1),
         NEW t, t = InsertAt(s, p, e)
  PROVE  Insertion(S, s, p, e, t)
<1> DEFINE a == SubSeq(s, 1, p - 1)
           b == SubSeq(s, p, Len(s))
           m == a \o <<e>>
<1>1. p \in Int /\ 1 <= p /\ p <= Len(s) + 1 /\ Len(s) \in Int
  OBVIOUS
<1>2. /\ a \in Seq(S) /\ Len(a) = p - 1
      /\ \A i \in 1..(p - 1) : a[i] = s[i]
  <2>1. /\ a \in Seq(S) /\ Len(a) = p - 1 - 1 + 1
        /\ \A i \in 1..(p - 1 - 1 + 1) : a[i] = s[1 + i - 1]
    BY <1>1, Slicing
  <2> HIDE DEF a
  <2>2. QED
    BY <1>1, <2>1
<1>3. /\ b \in Seq(S) /\ Len(b) = Len(s) - p + 1
      /\ \A i \in 1..(Len(s) - p + 1) : b[i] = s[p + i - 1]
  BY <1>1, Slicing
<1>4. t = m \o b
  BY DEF InsertAt
<1> HIDE DEF a, b
<1>5. /\ m \in Seq(S) /\ Len(m) = p
      /\ \A i \in 1..p : m[i] = IF i <= p - 1 THEN a[i] ELSE e
  <2>1. <<e>> \in Seq(S) /\ Len(<<e>>) = 1 /\ <<e>>[1] = e
    OBVIOUS
  <2>2. /\ m \in Seq(S) /\ Len(m) = Len(a) + Len(<<e>>)
        /\ \A i \in 1..(Len(a) + Len(<<e>>)) :
              m[i] = IF i <= Len(a) THEN a[i] ELSE <<e>>[i - Len(a)]
    BY <1>2, <2>1, ConcatProperties
  <2> HIDE DEF m
  <2>3. QED
    BY <1>1, <1>2, <2>1, <2>2
<1> HIDE DEF m
<1>6. /\ t \in Seq(S) /\ Len(t) = Len(m) + Len(b)
      /\ \A i \in 1..(Len(m) + Len(b)) : t[i] = IF i <= Len(m) THEN m[i] ELSE b[i - Len(m)]
  BY <1>3, <1>4, <1>5, Joined
<1>7. Len(t) = Len(s) + 1
  BY <1>1, <1>3, <1>5, <1>6
<1>8. \A i \in 1..p : t[i] = m[i]
  BY <1>1, <1>3, <1>5, <1>6
<1>9. ASSUME NEW i \in (p + 1)..(Len(s) + 1) PROVE t[i] = s[i - 1]
  <2>1. i - p \in 1..(Len(s) - p + 1) /\ p + (i - p) - 1 = i - 1
    BY <1>1
  <2>2. t[i] = b[i - p]
    BY <1>1, <1>3, <1>5, <1>6
  <2>3. QED
    BY <1>3, <2>1, <2>2
<1>10. t[p] = e /\ \A i \in 1..(p - 1) : t[i] = s[i]
  BY <1>1, <1>2, <1>5, <1>8
<1>11. ASSUME NEW i \in 1..(Len(s) + 1)
       PROVE  t[i] = IF i < p THEN s[i] ELSE IF i = p THEN e ELSE s[i - 1]
  <2>1. i < p => i \in 1..(p - 1)
    BY <1>1
  <2>2. p < i => i \in (p + 1)..(Len(s) + 1)
    BY <1>1
  <2>3. i < p \/ i = p \/ p < i
    BY <1>1
  <2>4. QED
    BY <1>1, <1>9, <1>10, <2>1, <2>2, <2>3
<1>12. QED
  BY <1>6, <1>7, <1>11 DEF Insertion

\* A function of the turns of a loop, each turn's value made of the last.
TurnByTurn(S, start, N, G, f) ==
    /\ f \in [0..N -> S]
    /\ f = [n \in 0..N |-> IF n = 0 THEN start ELSE G[n][f[n - 1]]]

\* There is a function that gives the value after each number of turns.
LEMMA Turns ==
  ASSUME NEW S, NEW start \in S, NEW N \in Nat, NEW G \in [1..N -> [S -> S]]
  PROVE  \E f : TurnByTurn(S, start, N, G, f)
<1> DEFINE Reaches(m) == \E f \in [0..m -> S] :
                           f[0] = start /\ \A n \in 1..m : f[n] = G[n][f[n - 1]]
           T == {m \in 0..N : ~Reaches(m)}
<1>1. Reaches(0)
  <2>1. /\ [n \in 0..0 |-> start] \in [0..0 -> S]
        /\ [n \in 0..0 |-> start][0] = start
        /\ 1..0 = {}
    OBVIOUS
  <2>2. QED
    BY <2>1
<1>2. ASSUME NEW m \in 1..N, Reaches(m - 1) PROVE Reaches(m)
  <2>1. PICK f \in [0..(m - 1) -> S] :
           f[0] = start /\ \A n \in 1..(m - 1) : f[n] = G[n][f[n - 1]]
    BY <1>2
  <2> DEFINE g == [n \in 0..m |-> IF n = m THEN G[m][f[m - 1]] ELSE f[n]]
  <2>2. m - 1 \in 0..(m - 1) /\ G[m] \in [S -> S]
    OBVIOUS
  <2>3. f[m - 1] \in S
    BY <2>2
  <2>4. G[m][f[m - 1]] \in S
    BY <2>2, <2>3
  <2>5. \A n \in 0..m : n # m => n \in 0..(m - 1)
    OBVIOUS
  <2>6. g \in [0..m -> S]
    BY <2>4, <2>5
  <2>7. g[0] = start
    BY <2>1
  <2>8. ASSUME NEW n \in 1..m PROVE g[n] = G[n][g[n - 1]]
    <3>1. n - 1 \in 0..m /\ n - 1 # m /\ g[n - 1] = f[n - 1]
      OBVIOUS
    <3>2. CASE n = m
      BY <3>1, <3>2
    <3>3. CASE n # m
      <4>1. n \in 1..(m - 1) /\ g[n] = f[n]
        BY <3>3
      <4>2. QED
        BY <2>1, <3>1, <4>1
    <3>4. QED
      BY <3>2, <3>3
  <2>9. QED
    BY <2>6, <2>7, <2>8
<1>3. T = {}
  <2>1. SUFFICES ASSUME T # {} PROVE FALSE
    OBVIOUS
  <2> HIDE DEF Reaches
  <2>2. T \subseteq Nat
    OBVIOUS
  <2>3. PICK m \in T : \A n \in T : m <= n
    BY <2>1, <2>2, LeastIn
  <2>4. m \in 1..N /\ m - 1 \in 0..N /\ m - 1 \notin T
    BY <1>1, <2>3
  <2>5. QED
    BY <1>2, <2>3, <2>4
<1>4. PICK f \in [0..N -> S] : f[0] = start /\ \A n \in 1..N : f[n] = G[n][f[n - 1]]
  <2> HIDE DEF Reaches
  <2>1. N \in 0..N /\ N \notin T
    BY <1>3
  <2>2. Reaches(N)
    BY <2>1
  <2>3. QED
    BY <2>2 DEF Reaches
<1>5. \A n \in 0..N : f[n] = IF n = 0 THEN start ELSE G[n][f[n - 1]]
  BY <1>4
<1>6. QED
  BY <1>4, <1>5 DEF TurnByTurn

-----------------------------------------------------------------------------
(***************************************************************************)
(* Sorting and searching entries whose keys compare as their ranks do.     *)
(***************************************************************************)
Ranked(E, r) ==
    /\ r \in [E -> Int]
    /\ \A a, b \in E : CompareVals(a.key, b.key) = r[a] - r[b]

Ascending(r, s) == \A i, j \in DOMAIN s : i < j => r[s[i]] <= r[s[j]]

\* An entry goes in after the last that is not above it.
LEMMA SortsIn ==
  ASSUME NEW E, NEW r, Ranked(E, r), NEW s \in Seq(E), Ascending(r, s), NEW e \in E,
         NEW t, t = SortIn(s, e)
  PROVE  /\ t \in Seq(E) /\ Len(t) = Len(s) + 1 /\ Ascending(r, t)
         /\ ToSet(t) = ToSet(s) \union {e}
         /\ IsInjective(s) /\ e \notin ToSet(s) => IsInjective(t)
<1>1. /\ r \in [E -> Int] /\ Len(s) \in Nat /\ DOMAIN s = 1..Len(s)
      /\ \A i \in DOMAIN s : s[i] \in E /\ r[s[i]] \in Int
      /\ r[e] \in Int
  BY DEF Ranked
<1>2. \A i \in DOMAIN s : Less(e, s[i]) <=> r[e] < r[s[i]]
  BY <1>1, SMTT(40) DEF Less, Ranked
<1> DEFINE stays == {i \in DOMAIN s : ~Less(e, s[i])}
           q == IF stays = {} THEN 0 ELSE CHOOSE i \in stays : \A j \in stays : j <= i
<1>4. /\ q \in 0..Len(s)
      /\ \A i \in DOMAIN s : i <= q => r[s[i]] <= r[e]
      /\ \A i \in DOMAIN s : q < i => r[e] < r[s[i]]
  <2>1. CASE stays = {}
    BY <1>1, <1>2, <2>1
  <2>2. CASE stays # {}
    <3>1. \E i \in stays : \A j \in stays : j <= i
      <4> DEFINE T == {n \in 0..Len(s) : Len(s) - n \in stays}
      <4>1. \A i \in stays : Len(s) - i \in T
        BY <1>1
      <4> HIDE DEF stays
      <4>2. T # {} /\ T \subseteq Nat
        BY <2>2, <4>1, SMTT(60)
      <4>3. PICK n \in T : \A m \in T : n <= m
        BY <4>2, LeastIn
      <4>4. stays \subseteq Int
        BY <1>1 DEF stays
      <4>5. Len(s) - n \in stays /\ n \in Int /\ \A j \in stays : n <= Len(s) - j
        BY <1>1, <4>1, <4>3
      <4>6. QED
        BY <1>1, <4>4, <4>5
    <3>2. q \in stays /\ \A j \in stays : j <= q
      BY <2>2, <3>1
    <3> HIDE DEF q
    <3>3. q \in 1..Len(s) /\ ~(r[e] < r[s[q]])
      BY <1>1, <1>2, <3>2
    <3>4. \A i \in DOMAIN s : i < q => r[s[i]] <= r[s[q]]
      BY <1>1, <3>3 DEF Ascending
    <3>5. \A i \in DOMAIN s : q < i => i \notin stays
      BY <1>1, <3>2, <3>3
    <3>6. QED
      BY <1>1, <1>2, <3>3, <3>4, <3>5
  <2>3. QED
    BY <2>1, <2>2
<1>0. PICK p \in 1..(Len(s) + 1) : p = 1 + q
  <2> HIDE DEF q
  <2>1. 1 + q \in 1..(Len(s) + 1)
    BY <1>1, <1>4
  <2>2. QED
    BY <2>1
<1>3. t = InsertAt(s, p, e)
  BY <1>0 DEF SortIn
<1> HIDE DEF q
<1>5. /\ t \in Seq(E) /\ Len(t) = Len(s) + 1 /\ t[p] = e
      /\ \A i \in 1..(p - 1) : t[i] = s[i]
      /\ \A i \in (p + 1)..(Len(s) + 1) : t[i] = s[i - 1]
  <2>1. /\ t \in Seq(E) /\ Len(t) = Len(s) + 1
        /\ \A i \in 1..(Len(s) + 1) :
              t[i] = IF i < p THEN s[i] ELSE IF i = p THEN e ELSE s[i - 1]
    <3>1. Insertion(E, s, p, e, t)
      BY <1>3, Inserted
    <3>2. QED
      BY <3>1 DEF Insertion
  <2>2. ASSUME NEW i \in 1..(p - 1) PROVE t[i] = s[i]
    BY <1>1, <2>1
  <2>3. ASSUME NEW i \in (p + 1)..(Len(s) + 1) PROVE t[i] = s[i - 1]
    BY <1>1, <2>1
  <2>4. QED
    BY <1>1, <2>1, <2>2, <2>3
<1>6. DOMAIN t = 1..(Len(s) + 1) /\ q \in Int /\ p = q + 1 /\ 0 <= q /\ q <= Len(s)
  BY <1>0, <1>1, <1>4, <1>5
\* Where each place of t comes from.
<1>7. \A i \in DOMAIN t :
         \/ i < p /\ i \in DOMAIN s /\ t[i] = s[i] /\ r[s[i]] <= r[e]
         \/ i = p /\ t[i] = e
         \/ p < i /\ i - 1 \in DOMAIN s /\ t[i] = s[i - 1] /\ r[e] < r[s[i - 1]]
  <2>1. SUFFICES ASSUME NEW i \in DOMAIN t
                 PROVE  \/ i < p /\ i \in DOMAIN s /\ t[i] = s[i] /\ r[s[i]] <= r[e]
                        \/ i = p /\ t[i] = e
                        \/ p < i /\ i - 1 \in DOMAIN s /\ t[i] = s[i - 1] /\ r[e] < r[s[i - 1]]
    OBVIOUS
  <2>2. CASE i < p
    <3>1. i \in 1..(p - 1) /\ i \in DOMAIN s /\ i <= q
      BY <1>1, <1>6, <2>2
    <3>2. QED
      BY <1>4, <1>5, <2>2, <3>1
  <2>3. CASE i = p
    BY <1>5, <2>3
  <2>4. CASE p < i
    <3>1. i \in (p + 1)..(Len(s) + 1) /\ i - 1 \in DOMAIN s /\ q < i - 1
      BY <1>1, <1>6, <2>4
    <3>2. QED
      BY <1>4, <1>5, <2>4, <3>1
  <2>5. QED
    BY <1>6, <2>2, <2>3, <2>4
<1>8. Ascending(r, t)
  <2>1. SUFFICES ASSUME NEW i \in DOMAIN t, NEW j \in DOMAIN t, i < j
                 PROVE  r[t[i]] <= r[t[j]]
    BY DEF Ascending
  <2>2. i \in Int /\ j \in Int
    BY <1>6
  <2>3. \A a, b \in DOMAIN s : a < b => r[s[a]] <= r[s[b]]
    BY DEF Ascending
  <2>4. CASE j < p
    <3>1. i < p /\ i # p /\ j # p /\ ~(p < i) /\ ~(p < j)
      BY <1>6, <2>1, <2>2, <2>4
    <3>2. i \in DOMAIN s /\ t[i] = s[i] /\ j \in DOMAIN s /\ t[j] = s[j]
      BY <1>7, <3>1
    <3>3. QED
      BY <2>1, <2>3, <3>2
  <2>5. CASE j = p
    <3>1. i < p /\ i # p /\ ~(p < i)
      BY <1>6, <2>1, <2>2, <2>5
    <3>2. t[i] = s[i] /\ r[s[i]] <= r[e] /\ t[j] = e
      BY <1>5, <1>7, <2>5, <3>1
    <3>3. QED
      BY <3>2
  <2>6. CASE p < j
    <3>1. j # p /\ ~(j < p)
      BY <1>6, <2>2, <2>6
    <3>2. j - 1 \in DOMAIN s /\ t[j] = s[j - 1] /\ r[e] < r[s[j - 1]]
      BY <1>7, <3>1
    <3>3. CASE i < p
      <4>1. i # p /\ ~(p < i)
        BY <1>6, <2>2, <3>3
      <4>2. i \in DOMAIN s /\ t[i] = s[i] /\ r[s[i]] <= r[e]
        BY <1>7, <4>1
      <4>3. QED
        BY <1>1, <3>2, <4>2
    <3>4. CASE i = p
      BY <1>1, <1>5, <3>2, <3>4
    <3>5. CASE p < i
      <4>1. i # p /\ ~(i < p)
        BY <1>6, <2>2, <3>5
      <4>2. i - 1 \in DOMAIN s /\ t[i] = s[i - 1] /\ i - 1 < j - 1
        BY <1>7, <2>1, <2>2, <4>1
      <4>3. QED
        BY <2>3, <3>2, <4>2
    <3>6. QED
      BY <1>6, <2>2, <3>3, <3>4, <3>5
  <2>7. QED
    BY <1>6, <2>2, <2>4, <2>5, <2>6
<1>9. ToSet(t) = ToSet(s) \union {e}
  <2>1. ToSet(t) \subseteq ToSet(s) \union {e}
    BY <1>7 DEF ToSet
  <2>2. e \in ToSet(t)
    BY <1>5, <1>6 DEF ToSet
  <2>3. ASSUME NEW i \in DOMAIN s PROVE s[i] \in ToSet(t)
    <3>1. CASE i < p
      <4>1. i \in DOMAIN t /\ i \in 1..(p - 1)
        BY <1>1, <1>6, <3>1
      <4>2. QED
        BY <1>5, <4>1 DEF ToSet
    <3>2. CASE p <= i
      <4>1. i + 1 \in DOMAIN t /\ i + 1 \in (p + 1)..(Len(s) + 1) /\ i + 1 - 1 = i
        BY <1>1, <1>6, <3>2
      <4>2. QED
        BY <1>5, <4>1 DEF ToSet
    <3>3. QED
      BY <1>1, <1>6, <3>1, <3>2
  <2>4. QED
    BY <2>1, <2>2, <2>3 DEF ToSet
<1>10. ASSUME IsInjective(s), e \notin ToSet(s) PROVE IsInjective(t)
  <2>1. \A i \in DOMAIN s : s[i] # e
    BY <1>10 DEF ToSet
  <2>2. \A a, b \in DOMAIN s : s[a] = s[b] => a = b
    BY <1>10 DEF IsInjective
  <2>3. SUFFICES ASSUME NEW i \in DOMAIN t, NEW j \in DOMAIN t, t[i] = t[j], i # j
                 PROVE  FALSE
    BY DEF IsInjective
  <2>4. i \in Int /\ j \in Int
    BY <1>6
  <2>5. CASE i = p
    BY <1>7, <1>6, <2>1, <2>3, <2>4, <2>5
  <2>6. CASE j = p
    BY <1>7, <1>6, <2>1, <2>3, <2>4, <2>6
  <2>7. CASE i # p /\ j # p
    <3>1. \/ i < p /\ i \in DOMAIN s /\ t[i] = s[i]
          \/ p < i /\ i - 1 \in DOMAIN s /\ t[i] = s[i - 1]
      BY <1>7, <2>7
    <3>2. \/ j < p /\ j \in DOMAIN s /\ t[j] = s[j]
          \/ p < j /\ j - 1 \in DOMAIN s /\ t[j] = s[j - 1]
      BY <1>7, <2>7
    <3>3. QED
      BY <1>6, <2>2, <2>3, <2>4, <3>1, <3>2
  <2>8. QED
    BY <2>5, <2>6, <2>7
<1>11. QED
  BY <1>5, <1>8, <1>9, <1>10

\* What Sort makes of a sequence of entries.
Sorting(E, r, es, t) ==
    /\ t \in Seq(E) /\ Len(t) = Len(es) /\ ToSet(t) = ToSet(es)
    /\ Ascending(r, t)
    /\ IsInjective(es) => IsInjective(t)

\* sort.Sort gives the same elements, in order.
LEMMA Sorts ==
  ASSUME NEW E, NEW r, Ranked(E, r), NEW es \in Seq(E)
  PROVE  Sorting(E, r, es, Sort(es))
<1> DEFINE N == Len(es)
           Up == {s \in Seq(E) : Ascending(r, s)}
           G == [n \in 1..N |-> [s \in Up |-> SortIn(s, es[n])]]
<1>1. N \in Nat /\ DOMAIN es = 1..N /\ \A n \in 1..N : es[n] \in E
  OBVIOUS
<1>2. ASSUME NEW n \in 1..N, NEW s \in Up
      PROVE  /\ SortIn(s, es[n]) \in Up
             /\ Len(SortIn(s, es[n])) = Len(s) + 1
             /\ ToSet(SortIn(s, es[n])) = ToSet(s) \union {es[n]}
             /\ IsInjective(s) /\ es[n] \notin ToSet(s) => IsInjective(SortIn(s, es[n]))
  BY <1>1, SortsIn
<1>3. <<>> \in Up
  <2>1. <<>> \in Seq(E) /\ DOMAIN <<>> = {}
    OBVIOUS
  <2>2. QED
    BY <2>1 DEF Ascending
<1>4. G \in [1..N -> [Up -> Up]]
  <2> HIDE DEF Up
  <2>1. \A n \in 1..N : [s \in Up |-> SortIn(s, es[n])] \in [Up -> Up]
    BY <1>2
  <2>2. QED
    BY <2>1
<1>5. PICK f \in [0..N -> Up] :
         f = [n \in 0..N |-> IF n = 0 THEN <<>> ELSE G[n][f[n - 1]]]
  <2> HIDE DEF G, Up, N
  <2>1. \E f : TurnByTurn(Up, <<>>, N, G, f)
    BY <1>1, <1>3, <1>4, Turns
  <2>2. QED
    BY <2>1 DEF TurnByTurn
<1>6. \A n \in 1..N : n - 1 \in 0..N /\ f[n - 1] \in Up /\ G[n][f[n - 1]] = SortIn(f[n - 1], es[n])
  <2>1. \A n \in 1..N : n - 1 \in 0..N
    BY <1>1
  <2> HIDE DEF Up
  <2>2. QED
    BY <2>1
<1>7. f = [n \in 0..N |-> IF n = 0 THEN <<>> ELSE SortIn(f[n - 1], es[n])]
  <2>1. \A n \in 0..N : f[n] = IF n = 0 THEN <<>> ELSE G[n][f[n - 1]]
    BY <1>5
  <2>2. \A n \in 0..N : n = 0 \/ n \in 1..N
    BY <1>1
  <2> HIDE DEF G
  <2>3. \A n \in 0..N : f[n] = IF n = 0 THEN <<>> ELSE SortIn(f[n - 1], es[n])
    BY <1>6, <2>1, <2>2
  <2>4. QED
    BY <1>5, <2>3
<1>8. PICK g : /\ g = [n \in 0..N |-> IF n = 0 THEN <<>> ELSE SortIn(g[n - 1], es[n])]
               /\ Sort(es) = g[N]
  BY <1>7 DEF Sort
<1>9. g[0] = <<>> /\ \A n \in 1..N : g[n] = SortIn(g[n - 1], es[n])
  BY <1>1, <1>8
<1> DEFINE Right(n) ==
             /\ g[n] \in Up /\ Len(g[n]) = n
             /\ ToSet(g[n]) = {es[i] : i \in 1..n}
             /\ IsInjective(es) => IsInjective(g[n])
           T == {n \in 0..N : ~Right(n)}
<1>10. Right(0)
  <2>1. Len(<<>>) = 0 /\ DOMAIN <<>> = {} /\ 1..0 = {}
    OBVIOUS
  <2> HIDE DEF Up
  <2>2. QED
    BY <1>3, <1>9, <2>1 DEF ToSet, IsInjective
<1>11. ASSUME NEW n \in 1..N, Right(n - 1) PROVE Right(n)
  <2> HIDE DEF Up
  <2>1. /\ g[n] \in Up /\ Len(g[n]) = n - 1 + 1
        /\ ToSet(g[n]) = {es[i] : i \in 1..(n - 1)} \union {es[n]}
        /\ IsInjective(g[n - 1]) /\ es[n] \notin {es[i] : i \in 1..(n - 1)}
             => IsInjective(g[n])
    BY <1>2, <1>9, <1>11, ZenonT(60)
  <2>2. 1..n = 1..(n - 1) \union {n}
    BY <1>1
  <2>3. {es[i] : i \in 1..(n - 1)} \union {es[n]} = {es[i] : i \in 1..n}
    BY <2>2
  <2>4. IsInjective(es) => es[n] \notin {es[i] : i \in 1..(n - 1)}
    BY <1>1 DEF IsInjective
  <2>5. QED
    BY <1>1, <1>11, <2>1, <2>3, <2>4
<1>12. T = {}
  <2> HIDE DEF Right
  <2>1. SUFFICES ASSUME T # {} PROVE FALSE
    OBVIOUS
  <2>2. PICK m \in T : \A n \in T : m <= n
    <3>1. T \subseteq Nat
      OBVIOUS
    <3>2. QED
      BY <2>1, <3>1, LeastIn
  <2>3. m \in 1..N /\ m - 1 \in 0..N /\ m - 1 \notin T
    BY <1>1, <1>10, <2>2
  <2>4. QED
    BY <1>11, <2>2, <2>3
<1>13. Right(N)
  <2> HIDE DEF Right
  <2>1. N \in 0..N /\ N \notin T
    BY <1>1, <1>12
  <2>2. QED
    BY <2>1
<1>14. ToSet(es) = {es[i] : i \in 1..N}
  BY <1>1 DEF ToSet
<1> DEFINE t == g[N]
<1>15. /\ t \in Seq(E) /\ Ascending(r, t) /\ Len(t) = N /\ ToSet(t) = ToSet(es)
       /\ IsInjective(es) => IsInjective(t)
  BY <1>13, <1>14
<1> HIDE DEF t
<1>16. Sorting(E, r, es, t)
  BY <1>15 DEF Sorting
<1>17. QED
  BY <1>8, <1>16 DEF t

-----------------------------------------------------------------------------
\* What Search finds in ascending entries for a key of rank k: how many of
\* them are below the key.
Below(E, r, s, k, n) ==
    /\ n \in 0..Len(s)
    /\ \A i \in DOMAIN s : i <= n => r[s[i]] < k
    /\ \A i \in DOMAIN s : n < i => k <= r[s[i]]

\* What is left of the entries to search.
Left(s, r, k, b) ==
    /\ b \in [i : 0..Len(s), j : 0..Len(s)]
    /\ b.i <= b.j
    /\ \A i \in DOMAIN s : i <= b.i => r[s[i]] < k
    /\ \A i \in DOMAIN s : b.j < i => k <= r[s[i]]

\* A turn of sort.Search keeps the place that is searched between its two bounds.
LEMMA Halves ==
  ASSUME NEW E, NEW r, Ranked(E, r), NEW s \in Seq(E), Ascending(r, s),
         NEW key, NEW k \in Int, \A a \in E : CompareVals(a.key, key) = r[a] - k,
         NEW b, Left(s, r, k, b)
  PROVE  /\ Left(s, r, k, Halved(s, key, b))
         /\ b.i = b.j => Halved(s, key, b) = b
         /\ b.i < b.j => Halved(s, key, b).j - Halved(s, key, b).i < b.j - b.i
<1>1. PICK i, j : b = [i |-> i, j |-> j] /\ i \in 0..Len(s) /\ j \in 0..Len(s)
                  /\ b.i = i /\ b.j = j /\ i <= j
  BY DEF Left
<1>2. /\ Len(s) \in Nat /\ DOMAIN s = 1..Len(s) /\ i \in Int /\ j \in Int
      /\ \A n \in DOMAIN s : s[n] \in E /\ r[s[n]] \in Int
      /\ \A n \in DOMAIN s : n <= i => r[s[n]] < k
      /\ \A n \in DOMAIN s : j < n => k <= r[s[n]]
  BY <1>1 DEF Ranked, Left
<1>3. CASE i = j
  BY <1>1, <1>3 DEF Halved
<1>4. CASE i < j
  <2>1. PICK h : h = (i + j) \div 2
    OBVIOUS
  <2>2. h \in Int /\ i <= h /\ h < j /\ h + 1 \in DOMAIN s
    BY <1>1, <1>2, <1>4, <2>1
  <2>3. Halved(s, key, b) = IF r[s[h + 1]] - k >= 0 THEN [i |-> i, j |-> h]
                            ELSE [i |-> h + 1, j |-> j]
    BY <1>1, <1>2, <1>4, <2>1, <2>2 DEF Halved
  <2>4. \A n \in DOMAIN s : /\ n < h + 1 => r[s[n]] <= r[s[h + 1]]
                            /\ h + 1 < n => r[s[h + 1]] <= r[s[n]]
    BY <2>2 DEF Ascending
  <2>5. r[s[h + 1]] \in Int
    BY <1>2, <2>2
  <2>6. CASE r[s[h + 1]] >= k
    <3>1. Halved(s, key, b) = [i |-> i, j |-> h]
      BY <2>3, <2>5, <2>6
    <3>2. \A n \in DOMAIN s : h < n => k <= r[s[n]]
      BY <1>2, <2>2, <2>4, <2>5, <2>6, SMTT(60)
    <3>3. QED
      BY <1>1, <1>2, <1>4, <2>2, <3>1, <3>2 DEF Left
  <2>7. CASE r[s[h + 1]] < k
    <3>1. Halved(s, key, b) = [i |-> h + 1, j |-> j]
      BY <2>3, <2>5, <2>7
    <3>2. \A n \in DOMAIN s : n <= h + 1 => r[s[n]] < k
      BY <1>2, <2>2, <2>4, <2>5, <2>7
    <3>3. QED
      BY <1>1, <1>2, <1>4, <2>2, <3>1, <3>2 DEF Left
  <2>8. QED
    BY <2>5, <2>6, <2>7
<1>5. QED
  BY <1>1, <1>2, <1>3, <1>4

\* sort.Search gives the first place that is not below the key.
LEMMA Searches ==
  ASSUME NEW E, NEW r, Ranked(E, r), NEW s \in Seq(E), Ascending(r, s),
         NEW key, NEW k \in Int, \A a \in E : CompareVals(a.key, key) = r[a] - k
  PROVE  Below(E, r, s, k, Search(s, key))
<1> DEFINE N == Len(s)
           B == {b \in [i : 0..N, j : 0..N] : Left(s, r, k, b)}
           start == [i |-> 0, j |-> N]
           G == [n \in 1..N |-> [b \in B |-> Halved(s, key, b)]]
<1>1. N \in Nat /\ DOMAIN s = 1..N
  OBVIOUS
<1>2. ASSUME NEW b \in B
      PROVE  /\ Halved(s, key, b) \in B
             /\ b.i = b.j => Halved(s, key, b) = b
             /\ b.i < b.j => Halved(s, key, b).j - Halved(s, key, b).i < b.j - b.i
  <2>1. /\ Left(s, r, k, Halved(s, key, b))
        /\ b.i = b.j => Halved(s, key, b) = b
        /\ b.i < b.j => Halved(s, key, b).j - Halved(s, key, b).i < b.j - b.i
    BY Halves
  <2>2. QED
    BY <2>1 DEF Left
<1>3. start \in B
  BY <1>1 DEF Left
<1>4. G \in [1..N -> [B -> B]]
  <2> HIDE DEF B
  <2>1. [b \in B |-> Halved(s, key, b)] \in [B -> B]
    BY <1>2
  <2>2. QED
    BY <2>1
<1>5. PICK f \in [0..N -> B] :
         f = [n \in 0..N |-> IF n = 0 THEN start ELSE G[n][f[n - 1]]]
  <2> HIDE DEF G, B, N, start
  <2>1. \E f : TurnByTurn(B, start, N, G, f)
    BY <1>1, <1>3, <1>4, Turns
  <2>2. QED
    BY <2>1 DEF TurnByTurn
<1>6. \A n \in 1..N : n - 1 \in 0..N /\ f[n - 1] \in B /\ G[n][f[n - 1]] = Halved(s, key, f[n - 1])
  <2>1. \A n \in 1..N : n - 1 \in 0..N
    BY <1>1
  <2> HIDE DEF B
  <2>2. QED
    BY <2>1
<1>7. f = [n \in 0..N |-> IF n = 0 THEN start ELSE Halved(s, key, f[n - 1])]
  <2>1. \A n \in 0..N : f[n] = IF n = 0 THEN start ELSE G[n][f[n - 1]]
    BY <1>5
  <2>2. \A n \in 0..N : n = 0 \/ n \in 1..N
    BY <1>1
  <2> HIDE DEF G, start
  <2>3. \A n \in 0..N : f[n] = IF n = 0 THEN start ELSE Halved(s, key, f[n - 1])
    BY <1>6, <2>1, <2>2
  <2>4. QED
    BY <1>5, <2>3
<1>8. PICK g : /\ g = [n \in 0..N |-> IF n = 0 THEN start ELSE Halved(s, key, g[n - 1])]
               /\ Search(s, key) = g[N].i
  BY <1>7 DEF Search
<1>9. g[0] = start /\ \A n \in 1..N : g[n] = Halved(s, key, g[n - 1])
  <2> HIDE DEF start
  <2>1. QED
    BY <1>1, <1>8
<1> DEFINE Right(n) == g[n] \in B /\ g[n].j - g[n].i <= N - n
           T == {n \in 0..N : ~Right(n)}
<1>10. Right(0)
  BY <1>1, <1>3, <1>9
<1>11. ASSUME NEW n \in 1..N, Right(n - 1) PROVE Right(n)
  <2>1. PICK b \in B : b = g[n - 1] /\ b.j - b.i <= N - (n - 1)
    BY <1>11
  <2>2. g[n] = Halved(s, key, b)
    BY <1>9, <2>1
  <2>3. PICK c \in B : c = Halved(s, key, b)
    BY <1>2
  <2>4. b.i \in Int /\ b.j \in Int /\ b.i <= b.j /\ c.i \in Int /\ c.j \in Int
    BY DEF Left
  <2>5. c.j - c.i <= N - n
    <3>1. CASE b.i = b.j
      <4>1. c = b
        BY <1>2, <2>3, <3>1
      <4>2. QED
        BY <1>1, <2>4, <3>1, <4>1
    <3>2. CASE b.i < b.j
      <4>1. c.j - c.i < b.j - b.i
        BY <1>2, <2>3, <3>2
      <4>2. QED
        BY <1>1, <2>1, <2>4, <4>1
    <3>3. QED
      BY <2>4, <3>1, <3>2
  <2>6. QED
    BY <2>2, <2>3, <2>5
<1>12. T = {}
  <2> HIDE DEF Right
  <2>1. SUFFICES ASSUME T # {} PROVE FALSE
    OBVIOUS
  <2>2. PICK m \in T : \A n \in T : m <= n
    <3>1. T \subseteq Nat
      OBVIOUS
    <3>2. QED
      BY <2>1, <3>1, LeastIn
  <2>3. m \in 1..N /\ m - 1 \in 0..N /\ m - 1 \notin T
    BY <1>1, <1>10, <2>2
  <2>4. QED
    BY <1>11, <2>2, <2>3
<1>13. Right(N)
  <2> HIDE DEF Right
  <2>1. N \in 0..N /\ N \notin T
    BY <1>1, <1>12
  <2>2. QED
    BY <2>1
<1>14. PICK b \in B : b = g[N] /\ b.j - b.i <= 0
  BY <1>1, <1>13
<1>15. /\ b.i \in 0..N /\ b.j = b.i
       /\ \A i \in DOMAIN s : i <= b.i => r[s[i]] < k
       /\ \A i \in DOMAIN s : b.j < i => k <= r[s[i]]
  BY <1>1, <1>14 DEF Left
<1>16. QED
  BY <1>8, <1>14, <1>15 DEF Below

-----------------------------------------------------------------------------
(***************************************************************************)
(* Keys.  They compare as their ranks do, and no two have the same one.    *)
(***************************************************************************)
KeysOf(c) == UNION {NewValue(c.type, x) : x \in c.inputs}
Rank(v) == IF v.v.type \in {"string", "IdentRef"} THEN Place(v.v.text) ELSE v.v.n

\* A value of a plain type that is no text is a number of one Go type.
LEMMA NumberKey ==
  ASSUME NEW name \in Plain \ {"string"}, NEW x \in GoValues, NEW v \in Convert(name, x)
  PROVE  \E n \in Int : v = Go(Held[name], n)
<1>1. CASE name \in Wholes
  BY <1>1, WholeFacts
<1>2. x.type \in Integral \union {"float64", "bool", "string"} => x.n \in Int
  BY ScalarFacts, SliceFacts DEF GoValues
<1>3. CASE name = "decimal64"
  <2>1. Convert(name, x) = {Go("float64", n) : n \in ToDecimal64(x)}
    BY <1>3, HeldFacts DEF Convert
  <2>2. ToDecimal64(x) \subseteq Int
    <3>1. Numeral(x.text) \subseteq Int
      BY NumbersAssumption DEF Numeral
    <3>2. QED
      BY <1>2, <3>1 DEF ToDecimal64
  <2>3. QED
    BY <1>3, <2>1, <2>2, HeldFacts
<1>4. CASE name = "boolean"
  <2>1. Convert(name, x) = {Go("bool", n) : n \in ToBool(x)}
    BY <1>4, HeldFacts DEF Convert
  <2>2. ToBool(x) \subseteq Int
    BY <1>2 DEF ToBool
  <2>3. QED
    BY <1>4, <2>1, <2>2, HeldFacts
<1>5. QED
  BY <1>1, <1>3, <1>4, HeldFacts DEF Plain, Wholes

\* What tells a key from the others.
LEMMA KeyShape ==
  ASSUME NEW c \in Cases, c.keyed, NEW u \in KeysOf(c)
  PROVE  /\ u = Value(c.type.format, u.v) /\ u.format = c.type.format
         /\ ~c.type.format.list
         /\ c.type.format.name \in Plain \union {"enumeration", "identityref"}
         /\ c.type.format.name = "string" => \E s : u.v = GoText("string", 0, s)
         /\ c.type.format.name = "identityref" => \E s : u.v = GoText("IdentRef", 0, s)
         /\ c.type.format.name = "enumeration" =>
               \E i \in DOMAIN c.type.enums :
                  u.v = GoText("Enum", c.type.enums[i].id, c.type.enums[i].label)
         /\ c.type.format.name \in Plain \ {"string"} =>
               \E n \in Int : u.v = Go(Held[c.type.format.name], n)
<1> DEFINE f == c.type.format
<1>1. PICK x \in c.inputs : u \in NewValue(c.type, x)
  BY DEF KeysOf
<1>2. /\ ~f.list /\ f.name # "union" /\ x \in GoValues
      /\ f.name \in Plain \union {"enumeration", "identityref"}
  BY CaseFacts, KeysAssumption DEF Plain
<1>3. CASE f.name \in Plain
  <2>1. u = Value(f, u.v) /\ u.format = f /\ u.v \in Convert(f.name, x)
    BY <1>1, <1>2, <1>3, PlainAgain
  <2>2. f.name \notin {"enumeration", "identityref"}
    BY <1>3 DEF Plain
  <2>3. CASE f.name = "string"
    <3>1. u.v = GoText("string", 0, Printed(x))
      BY <2>1, <2>3, HeldFacts DEF Convert
    <3>2. QED
      BY <1>2, <2>1, <2>3, <3>1
  <2>4. CASE f.name # "string"
    <3>1. \E n \in Int : u.v = Go(Held[f.name], n)
      BY <1>2, <1>3, <2>1, <2>4, NumberKey, SMTT(60)
    <3>2. QED
      BY <1>2, <2>1, <2>2, <2>4, <3>1
  <2>5. QED
    BY <2>3, <2>4
<1>4. CASE f.name = "enumeration"
  <2>1. PICK v \in ToEnum(c.type.enums, x) : u = Value(f, v)
    BY <1>1, <1>2, <1>4 DEF NewValue
  <2>2. \E i \in DOMAIN c.type.enums :
           v = GoText("Enum", c.type.enums[i].id, c.type.enums[i].label)
    BY <2>1, EnumIn DEF ToEnum, ById, ByLabel
  <2>3. u.v = v /\ u.format = f
    BY <2>1 DEF Value
  <2>4. QED
    BY <1>2, <1>4, <2>1, <2>2, <2>3 DEF Plain
<1>5. CASE f.name = "identityref"
  <2>1. PICK d : u = Value(f, GoText("IdentRef", 0, d))
    BY <1>1, <1>2, <1>5 DEF NewValue, ToIdentRef
  <2>2. u.v = GoText("IdentRef", 0, d) /\ u.format = f
    BY <2>1 DEF Value
  <2>3. QED
    BY <1>2, <1>5, <2>1, <2>2 DEF Plain
<1>6. QED
  BY <1>2, <1>3, <1>4, <1>5

\* No two enums have the same id.
LEMMA EnumIds ==
  ASSUME NEW c \in Cases
  PROVE  \A i, j \in DOMAIN c.type.enums :
            /\ c.type.enums[i].id \in Int
            /\ i = j \/ c.type.enums[i].id # c.type.enums[j].id
<1>1. PICK enums : enums = c.type.enums
  OBVIOUS
<1>2. enums \in Seq([id : Int, label : STRING])
  BY <1>1, CaseFacts
<1>3. \A i \in DOMAIN enums : enums[i].id \in Int
  <2>1. \A i \in DOMAIN enums : enums[i] \in [id : Int, label : STRING]
    BY <1>2, ElementOf
  <2>2. QED
    BY <2>1
<1>4. \A i, j \in DOMAIN enums : i = j \/ enums[i].id # enums[j].id
  BY <1>1, LeavesAssumption
<1>5. QED
  BY <1>1, <1>3, <1>4

\* Compare is the difference of two keys that can be sorted.
LEMMA NumbersCompared ==
  ASSUME NEW t, t \notin {"string", "IdentRef"}, NEW m, NEW n,
         NEW a, a = Go(t, m), NEW b, b = Go(t, n),
         a.type \in Integral => CanHold(a.type, a.n - b.n)
  PROVE  /\ a.type = t /\ a.n = m /\ b.type = t /\ b.n = n
         /\ Compare(a, b) = m - n
<1>1. a.type = t /\ a.n = m
  BY DEF Go
<1>2. b.type = t /\ b.n = n
  BY DEF Go
<1>3. QED
  BY <1>1, <1>2 DEF Compare, CanHold

\* The difference that Compare takes is that of the ranks.
LEMMA KeyOrder ==
  ASSUME NEW c \in Cases, c.keyed, NEW u \in KeysOf(c), NEW w \in KeysOf(c)
  PROVE  /\ Rank(u) \in Int /\ Rank(w) \in Int
         /\ Compare(u.v, w.v) = Rank(u) - Rank(w)
         /\ Rank(u) = Rank(w) => u = w
<1> DEFINE f == c.type.format
           enums == c.type.enums
<1>1. /\ u.v.type \in Integral => CanHold(u.v.type, u.v.n - w.v.n)
      /\ \A v \in {u, w} : v.v.type \in {"string", "IdentRef"} => v.v.text \in ToSet(Ordered)
  BY KeysAssumption DEF KeysOf
<1>2. f.name \in Plain \union {"enumeration", "identityref"}
  BY KeyShape
<1>3. u = Value(f, u.v) /\ w = Value(f, w.v)
  BY KeyShape
<1>4. ASSUME NEW s \in ToSet(Ordered)
      PROVE  Place(s) \in Int /\ Ordered[Place(s)] = s
  <2>1. DOMAIN Ordered \subseteq Int
    BY OrderedAssumption
  <2>2. QED
    BY <2>1 DEF Place, ToSet
<1>5. CASE f.name \in {"string", "identityref"}
  <2>1. PICK t : t \in {"string", "IdentRef"} /\ (\E s : u.v = GoText(t, 0, s))
                                               /\ (\E s : w.v = GoText(t, 0, s))
    BY <1>5, KeyShape
  <2>2. PICK s1, s2 : u.v = GoText(t, 0, s1) /\ w.v = GoText(t, 0, s2)
    BY <2>1
  <2>3. u.v.type = t /\ u.v.text = s1 /\ w.v.type = t /\ w.v.text = s2
    BY <2>2, GoTextFields
  <2>4. /\ Place(s1) \in Int /\ Place(s2) \in Int
        /\ Ordered[Place(s1)] = s1 /\ Ordered[Place(s2)] = s2
    BY <1>1, <1>4, <2>1, <2>3
  <2>5. Rank(u) = Place(s1) /\ Rank(w) = Place(s2)
    BY <2>1, <2>3 DEF Rank
  <2>6. Compare(u.v, w.v) = Place(s1) - Place(s2)
    BY <2>1, <2>3, SMTT(60) DEF Compare, Integral, Size
  <2>7. QED
    BY <1>3, <2>2, <2>4, <2>5, <2>6
<1>6. CASE f.name = "enumeration"
  <2>1. PICK i \in DOMAIN enums, j \in DOMAIN enums :
           /\ u.v = GoText("Enum", enums[i].id, enums[i].label)
           /\ w.v = GoText("Enum", enums[j].id, enums[j].label)
    BY <1>6, KeyShape
  <2>2. /\ u.v.type = "Enum" /\ u.v.n = enums[i].id
        /\ w.v.type = "Enum" /\ w.v.n = enums[j].id
    BY <2>1, GoTextFields
  <2>3. enums[i].id \in Int /\ enums[j].id \in Int /\ (i = j \/ enums[i].id # enums[j].id)
    BY EnumIds
  <2>4. Rank(u) = enums[i].id /\ Rank(w) = enums[j].id
    BY <2>2 DEF Rank
  <2>5. Compare(u.v, w.v) = enums[i].id - enums[j].id
    BY <2>2 DEF Compare, Integral, Size
  <2>6. QED
    BY <1>3, <2>1, <2>3, <2>4, <2>5
<1>7. CASE f.name \in Plain \ {"string"}
  <2>1. PICK t : t = Held[f.name]
    OBVIOUS
  <2>2. PICK m \in Int, n \in Int : u.v = Go(t, m) /\ w.v = Go(t, n)
    BY <1>7, <2>1, KeyShape
  <2>3. t \notin {"string", "IdentRef"}
    <3>1. Integral \cap {"string", "IdentRef"} = {}
      BY DEF Integral, Size
    <3>2. f.name \in Wholes \union {"decimal64", "boolean"}
      BY <1>7, HeldFacts DEF Plain, Wholes
    <3>3. QED
      BY <2>1, <3>1, <3>2, WholesHeld, HeldFacts
  <2>4. /\ u.v.type = t /\ u.v.n = m /\ w.v.type = t /\ w.v.n = n
        /\ Compare(u.v, w.v) = m - n
    BY <1>1, <2>2, <2>3, NumbersCompared
  <2>5. Rank(u) = m /\ Rank(w) = n
    BY <2>3, <2>4 DEF Rank
  <2>6. QED
    BY <1>3, <2>2, <2>4, <2>5
<1>8. QED
  BY <1>2, <1>5, <1>6, <1>7

\* A key alone.
LEMMA OneKey ==
  ASSUME NEW c \in Cases, c.keyed, NEW u \in KeysOf(c), NEW w \in KeysOf(c)
  PROVE  /\ CompareVals(<<u>>, <<w>>) = Rank(u) - Rank(w)
         /\ EqualVals(<<u>>, <<w>>) <=> u = w
<1>1. /\ Rank(u) \in Int /\ Rank(w) \in Int
      /\ Compare(u.v, w.v) = Rank(u) - Rank(w)
      /\ Rank(u) = Rank(w) => u = w
  BY KeyOrder
<1>2. u.format = w.format /\ ~u.format.list
  BY KeyShape
<1>3. DOMAIN <<u>> = {1} /\ Len(<<u>>) = 1 /\ Len(<<w>>) = 1 /\ <<u>>[1] = u /\ <<w>>[1] = w
  OBVIOUS
<1>4. EqualVals(<<u>>, <<w>>) <=> u = w
  BY <1>1, <1>2, <1>3 DEF EqualVals, Equal
<1>5. CompareVals(<<u>>, <<w>>) = Compare(u.v, w.v)
  <2> DEFINE differ == {i \in DOMAIN <<u>> : Compare(<<u>>[i].v, <<w>>[i].v) # 0}
             first == CHOOSE j \in differ : \A k \in differ : j <= k
  <2>1. CompareVals(<<u>>, <<w>>) =
           IF differ = {} THEN 0 ELSE Compare(<<u>>[first].v, <<w>>[first].v)
    BY DEF CompareVals
  <2>2. differ = IF Compare(u.v, w.v) = 0 THEN {} ELSE {1}
    BY <1>3
  <2>3. CASE Compare(u.v, w.v) = 0
    BY <2>1, <2>2, <2>3
  <2>4. CASE Compare(u.v, w.v) # 0
    <3>1. differ = {1}
      BY <2>2, <2>4
    <3>2. first = 1
      BY <3>1
    <3>3. QED
      BY <1>3, <2>1, <3>1, <3>2
  <2>5. QED
    BY <2>3, <2>4
<1>6. QED
  BY <1>1, <1>4, <1>5

-----------------------------------------------------------------------------
(***************************************************************************)
(* The inductive invariant.                                                *)
(***************************************************************************)
ItemsOf(c) ==
    UNION {{[said |-> x, written |-> v, stored |-> WriteField(c.field, v)] :
              v \in NewValue(c.type, x)} : x \in c.inputs}

There == {items[i].written : i \in DOMAIN items}

\* The items hold what was written to them, and no two the same key.
ItemsInv ==
    /\ case \in Cases
    /\ items \in Seq(ItemsOf(case))
    /\ Len(items) <= MaxItems
    /\ case.keyed =>
         \A i, j \in DOMAIN items : items[i].written = items[j].written => i = j

\* What the node has read: the sorted keys of the slice as it is, or those
\* of the map as it was.
KeyEntries(c) == {[key |-> <<v>>] : v \in KeysOf(c)}
ReadInv ==
    /\ ~case.keyed => entries = Unread
    /\ case.keyed /\ ~IsMap => entries \in {Unread, {BuildKeys}}
    /\ IsMap => \A ks \in entries :
                   entries = {ks} /\ ks \in Seq(KeyEntries(case)) /\ IsInjective(ks)

\* The keys of a map as the node knows them.
KeysRead == IF entries = Unread THEN <<>> ELSE CHOOSE ks \in entries : TRUE
KeysKnown == {e.key[1] : e \in ToSet(KeysRead)}

\* The rows that were seen are the first of the items or of the keys.
WalkInv ==
    /\ walk \in [seen : Seq(KeysOf(case)), due : SUBSET KeysOf(case), ended : BOOLEAN]
    /\ ~case.keyed => walk = NoWalk
    /\ ~IsMap =>
         /\ Len(walk.seen) <= Len(items)
         /\ \A k \in DOMAIN walk.seen : walk.seen[k] = items[k].written
         /\ ~walk.ended => walk.due \subseteq There
    /\ IsMap =>
         /\ Len(walk.seen) <= Len(KeysRead)
         /\ \A k \in DOMAIN walk.seen : walk.seen[k] = KeysRead[k].key[1]
         /\ ~walk.ended => walk.due = KeysKnown

\* A walk that came to its end.
EndInv ==
    answer.is = "end" /\ walk.ended /\ walk.due \subseteq There =>
        walk.due \subseteq ToSet(walk.seen)

GInv == ItemsInv /\ ReadInv /\ WalkInv /\ EndInv

\* What an item is.
LEMMA ItemShape ==
  ASSUME ItemsInv, NEW i \in DOMAIN items
  PROVE  /\ items[i].said \in case.inputs
         /\ items[i].written \in NewValue(case.type, items[i].said)
         /\ items[i].stored = WriteField(case.field, items[i].written)
<1>1. items[i] \in ItemsOf(case)
  BY ElementOf DEF ItemsInv
<1>2. PICK x \in case.inputs : \E v \in NewValue(case.type, x) :
         items[i] = [said |-> x, written |-> v, stored |-> WriteField(case.field, v)]
  BY <1>1 DEF ItemsOf
<1>3. QED
  BY <1>2

\* An item reads back, so its key is what was written.
LEMMA ItemFacts ==
  ASSUME ItemsInv, NEW i \in DOMAIN items
  PROVE  /\ items[i].written \in KeysOf(case)
         /\ ReadField(case, items[i].stored) = {items[i].written}
         /\ KeyOf(items[i]) = <<items[i].written>>
<1>1. case \in Cases
  BY DEF ItemsInv
<1>2. /\ items[i].said \in case.inputs
      /\ items[i].written \in NewValue(case.type, items[i].said)
      /\ items[i].stored = WriteField(case.field, items[i].written)
  BY ItemShape
<1>3. items[i].written \in KeysOf(case)
  BY <1>2 DEF KeysOf
<1>4. ReadField(case, items[i].stored) = {items[i].written}
  BY <1>1, <1>2, WrittenReadsBack
<1>5. KeyOf(items[i]) = <<CHOOSE v \in {items[i].written} : TRUE>>
  BY <1>4 DEF KeyOf
<1>6. QED
  BY <1>3, <1>4, <1>5

Ranks(E) == [e \in E |-> Rank(e.key[1])]

\* Keys compare as their ranks do, and are equal when these are.
LEMMA KeysRanked ==
  ASSUME NEW c \in Cases, c.keyed, NEW E, \A e \in E : \E v \in KeysOf(c) : e.key = <<v>>
  PROVE  /\ Ranked(E, Ranks(E))
         /\ \A e \in E, v \in KeysOf(c) : /\ CompareVals(e.key, <<v>>) = Ranks(E)[e] - Rank(v)
                                          /\ EqualVals(e.key, <<v>>) <=> e.key = <<v>>
<1>1. ASSUME NEW e \in E, NEW v \in KeysOf(c)
      PROVE  /\ Ranks(E)[e] \in Int /\ Ranks(E)[e] = Rank(e.key[1])
             /\ CompareVals(e.key, <<v>>) = Rank(e.key[1]) - Rank(v)
             /\ EqualVals(e.key, <<v>>) <=> e.key = <<v>>
  <2>1. PICK u \in KeysOf(c) : e.key = <<u>> /\ e.key[1] = u
    OBVIOUS
  <2>2. Rank(u) \in Int
    BY KeyOrder
  <2>3. /\ CompareVals(<<u>>, <<v>>) = Rank(u) - Rank(v)
        /\ EqualVals(<<u>>, <<v>>) <=> u = v
    BY OneKey
  <2>4. <<u>> = <<v>> <=> u = v
    OBVIOUS
  <2>5. Ranks(E)[e] = Rank(e.key[1])
    BY DEF Ranks
  <2>6. QED
    BY <2>1, <2>2, <2>3, <2>4, <2>5
<1>2. Ranks(E) \in [E -> Int]
  <2>1. \A e \in E : Rank(e.key[1]) \in Int
    BY <1>1
  <2>2. QED
    BY <2>1 DEF Ranks
<1>3. ASSUME NEW a \in E, NEW b \in E
      PROVE  CompareVals(a.key, b.key) = Ranks(E)[a] - Ranks(E)[b]
  <2>1. PICK v \in KeysOf(c) : b.key = <<v>> /\ b.key[1] = v
    OBVIOUS
  <2>2. QED
    BY <1>1, <2>1
<1>4. QED
  BY <1>1, <1>2, <1>3 DEF Ranked

\* The entry of an item of a slice.
EntryAt(i) == [key |-> <<items[i].written>>, item |-> items[i], pos |-> i]
EntriesNow == {EntryAt(i) : i \in DOMAIN items}

\* The fields of the entry of item i.
LEMMA EntryFields ==
  ASSUME NEW i
  PROVE  /\ EntryAt(i).key = <<items[i].written>>
         /\ EntryAt(i).item = items[i] /\ EntryAt(i).pos = i
  BY DEF EntryAt

\* The keys of the entries are those that were converted.
LEMMA EntriesHaveKeys ==
  ASSUME ItemsInv
  PROVE  \A e \in EntriesNow : \E v \in KeysOf(case) : e.key = <<v>>
<1>1. SUFFICES ASSUME NEW i \in DOMAIN items
               PROVE  \E v \in KeysOf(case) : EntryAt(i).key = <<v>>
  BY DEF EntriesNow
<1>2. QED
  BY ItemFacts, EntryFields

\* The keys of a slice, sorted.
LEMMA SliceKeys ==
  ASSUME ItemsInv, case.keyed
  PROVE  /\ BuildKeys \in Seq(EntriesNow) /\ Len(BuildKeys) = Len(items)
         /\ ToSet(BuildKeys) = EntriesNow
         /\ Ascending(Ranks(EntriesNow), BuildKeys)
<1>1. PICK U : U = [i \in DOMAIN items |-> EntryAt(i)]
  OBVIOUS
<1>2. BuildKeys = Sort(U)
  <2>1. \A i \in DOMAIN items :
          EntryAt(i) = [key |-> KeyOf(items[i]), item |-> items[i], pos |-> i]
    BY ItemFacts DEF EntryAt
  <2>2. [i \in DOMAIN items |-> [key |-> KeyOf(items[i]), item |-> items[i], pos |-> i]] = U
    BY <1>1, <2>1
  <2>3. QED
    BY <2>2 DEF BuildKeys
<1>3. items \in Seq(ItemsOf(case)) /\ case \in Cases
  BY DEF ItemsInv
<1>4. U \in Seq(EntriesNow) /\ Len(U) = Len(items) /\ ToSet(U) = EntriesNow
  <2>1. DOMAIN items = 1..Len(items) /\ Len(items) \in Nat
    BY <1>3
  <2>2. \A i \in DOMAIN items : EntryAt(i) \in EntriesNow
    BY DEF EntriesNow
  <2>3. U \in Seq(EntriesNow) /\ Len(U) = Len(items)
    BY <1>1, <2>1, <2>2
  <2>4. ToSet(U) = EntriesNow
    BY <1>1 DEF ToSet, EntriesNow
  <2>5. QED
    BY <2>3, <2>4
<1>5. Ranked(EntriesNow, Ranks(EntriesNow))
  BY <1>3, EntriesHaveKeys, KeysRanked
<1>6. Sorting(EntriesNow, Ranks(EntriesNow), U, Sort(U))
  BY <1>4, <1>5, Sorts
<1>7. QED
  BY <1>2, <1>4, <1>6 DEF Sorting

\* What is found for a key: the item it is the key of, if there is one.
Finds(v, found) ==
    /\ found = {} <=> \A i \in DOMAIN items : items[i].written # v
    /\ \A e \in found : /\ e.pos \in DOMAIN items /\ e.item = items[e.pos]
                        /\ e.item.written = v

\* Searching a slice finds the item with the key, if there is one (sliceSorter).
LEMMA SliceFinds ==
  ASSUME ItemsInv, case.keyed, NEW v \in KeysOf(case)
  PROVE  Finds(v, Found(BuildKeys, <<v>>))
<1>1. PICK es, r, found :
         es = BuildKeys /\ r = Ranks(EntriesNow) /\ found = Found(BuildKeys, <<v>>)
  OBVIOUS
<1>2. /\ es \in Seq(EntriesNow) /\ ToSet(es) = EntriesNow /\ Ascending(r, es)
  BY <1>1, SliceKeys
<1>3. /\ Ranked(EntriesNow, r) /\ Rank(v) \in Int /\ case \in Cases
      /\ \A e \in EntriesNow : CompareVals(e.key, <<v>>) = r[e] - Rank(v)
      /\ \A e \in EntriesNow : EqualVals(e.key, <<v>>) <=> e.key = <<v>>
  <2>1. case \in Cases
    BY DEF ItemsInv
  <2>2. \A e \in EntriesNow : \E u \in KeysOf(case) : e.key = <<u>>
    BY EntriesHaveKeys
  <2>3. Rank(v) \in Int
    BY <2>1, KeyOrder
  <2>4. QED
    BY <1>1, <2>1, <2>2, <2>3, KeysRanked
<1>4. PICK n : n = Search(es, <<v>>)
  OBVIOUS
<1>5. /\ n \in 0..Len(es)
      /\ \A i \in DOMAIN es : i <= n => r[es[i]] < Rank(v)
      /\ \A i \in DOMAIN es : n < i => Rank(v) <= r[es[i]]
  <2>1. Below(EntriesNow, r, es, Rank(v), n)
    BY <1>2, <1>3, <1>4, Searches
  <2>2. QED
    BY <2>1 DEF Below
<1>6. found = {es[j] : j \in {i \in {n + 1} \cap DOMAIN es : EqualVals(es[i].key, <<v>>)}}
  BY <1>1, <1>4 DEF Found
<1>7. \A i \in DOMAIN es : es[i] \in EntriesNow
  BY <1>2, ElementOf
<1>8. ASSUME NEW e \in found
      PROVE  e.pos \in DOMAIN items /\ e.item = items[e.pos] /\ e.item.written = v
  <2>1. e \in EntriesNow /\ e.key = <<v>>
    BY <1>3, <1>6, <1>7
  <2>2. PICK i \in DOMAIN items : e = EntryAt(i)
    BY <2>1 DEF EntriesNow
  <2>3. e.key = <<items[i].written>> /\ e.item = items[i] /\ e.pos = i
    BY <2>2, EntryFields
  <2>4. <<items[i].written>>[1] = items[i].written /\ <<v>>[1] = v
    OBVIOUS
  <2>5. QED
    BY <2>1, <2>3, <2>4
<1>9. ASSUME NEW i \in DOMAIN items, items[i].written = v
      PROVE  found # {}
  <2>1. PICK j \in DOMAIN es : es[j] = EntryAt(i)
    BY <1>2 DEF EntriesNow, ToSet
  <2>2. es[j].key = <<v>> /\ es[j].key[1] = v
    BY <1>9, <2>1, EntryFields
  <2>3. r[es[j]] = Rank(v)
    BY <1>1, <1>7, <2>2 DEF Ranks
  <2>4. DOMAIN es = 1..Len(es) /\ Len(es) \in Nat
    BY <1>2
  <2>5. n < j
    BY <1>3, <1>5, <2>3, <2>4
  <2>6. n + 1 \in DOMAIN es /\ n + 1 <= j
    BY <1>5, <2>4, <2>5
  <2>7. r[es[n + 1]] = Rank(v)
    <3>1. r[es[n + 1]] \in Int
      BY <1>3, <1>7, <2>6 DEF Ranked
    <3>2. Rank(v) <= r[es[n + 1]]
      BY <1>5, <2>6
    <3>3. r[es[n + 1]] <= Rank(v)
      <4>1. n + 1 < j => r[es[n + 1]] <= r[es[j]]
        BY <1>2, <2>6 DEF Ascending
      <4>2. n + 1 < j \/ n + 1 = j
        BY <1>5, <2>4, <2>6
      <4>3. QED
        BY <1>3, <2>3, <4>1, <4>2
    <3>4. QED
      BY <1>3, <3>1, <3>2, <3>3
  <2>8. PICK u \in KeysOf(case) : es[n + 1].key = <<u>> /\ es[n + 1].key[1] = u
    BY <1>7, <2>6, EntriesHaveKeys
  <2>9. Rank(u) = Rank(v)
    BY <1>1, <1>7, <2>6, <2>7, <2>8 DEF Ranks
  <2>10. u = v
    BY <1>3, <2>9, KeyOrder
  <2>11. QED
    BY <1>3, <1>6, <1>7, <2>6, <2>8, <2>10
<1>10. QED
  BY <1>1, <1>8, <1>9 DEF Finds

\* And so does the index of a map (listMap).
LEMMA MapFinds ==
  ASSUME ItemsInv, case.keyed, NEW v \in KeysOf(case)
  PROVE  Finds(v, MapIndex(v))
<1>1. case \in Cases
  BY DEF ItemsInv
<1>2. \A i \in DOMAIN items : items[i].written.v = v.v <=> items[i].written = v
  <2>1. SUFFICES ASSUME NEW i \in DOMAIN items, items[i].written.v = v.v
                 PROVE  items[i].written = v
    OBVIOUS
  <2>2. items[i].written \in KeysOf(case)
    BY ItemFacts
  <2>3. /\ items[i].written = Value(case.type.format, items[i].written.v)
        /\ v = Value(case.type.format, v.v)
    BY <1>1, <2>2, KeyShape
  <2>4. QED
    BY <2>1, <2>3
<1>3. MapIndex(v) = {[item |-> items[i], pos |-> i] : i \in {j \in DOMAIN items : items[j].written = v}}
  BY <1>2 DEF MapIndex
<1>4. ASSUME NEW e \in MapIndex(v)
      PROVE  e.pos \in DOMAIN items /\ e.item = items[e.pos] /\ e.item.written = v
  <2>1. PICK i \in DOMAIN items : e = [item |-> items[i], pos |-> i] /\ items[i].written = v
    BY <1>3
  <2>2. e.item = items[i] /\ e.pos = i
    BY <2>1
  <2>3. QED
    BY <2>1, <2>2
<1>5. MapIndex(v) = {} <=> \A i \in DOMAIN items : items[i].written # v
  BY <1>3
<1>6. QED
  BY <1>4, <1>5 DEF Finds

\* The node's list of keys, sorted when it is read.
LEMMA MapKeys ==
  ASSUME ItemsInv, case.keyed
  PROVE  /\ SortedKeys \in Seq(KeyEntries(case)) /\ IsInjective(SortedKeys)
<1>1. PICK U : U = [i \in DOMAIN items |-> [key |-> <<items[i].written>>]]
  OBVIOUS
<1>2. items \in Seq(ItemsOf(case)) /\ case \in Cases
  BY DEF ItemsInv
<1>3. U \in Seq(KeyEntries(case)) /\ IsInjective(U)
  <2>1. DOMAIN items = 1..Len(items) /\ Len(items) \in Nat
    BY <1>2
  <2>2. \A i \in DOMAIN items : [key |-> <<items[i].written>>] \in KeyEntries(case)
    BY ItemFacts DEF KeyEntries
  <2>3. U \in Seq(KeyEntries(case))
    BY <1>1, <2>1, <2>2
  <2>4. ASSUME NEW i \in DOMAIN items, NEW j \in DOMAIN items, U[i] = U[j]
        PROVE  i = j
    <3>1. U[i].key[1] = items[i].written /\ U[j].key[1] = items[j].written
      BY <1>1
    <3>2. items[i].written = items[j].written
      BY <2>4, <3>1
    <3>3. QED
      BY <3>2 DEF ItemsInv
  <2>5. QED
    BY <1>1, <2>3, <2>4 DEF IsInjective
<1>4. Ranked(KeyEntries(case), Ranks(KeyEntries(case)))
  <2>1. \A e \in KeyEntries(case) : \E v \in KeysOf(case) : e.key = <<v>>
    BY DEF KeyEntries
  <2>2. QED
    BY <1>2, <2>1, KeysRanked
<1>5. Sorting(KeyEntries(case), Ranks(KeyEntries(case)), U, Sort(U))
  BY <1>3, <1>4, Sorts
<1>6. QED
  BY <1>1, <1>3, <1>5 DEF Sorting, SortedKeys

-----------------------------------------------------------------------------
(***************************************************************************)
(* What the requests are answered with.                                    *)
(***************************************************************************)
LEMMA ItemFound ==
  ASSUME ItemsInv, ReadInv, case.keyed, NEW v \in KeysOf(case)
  PROVE  Finds(v, ItemOf(v)) /\ Looked \in {entries, {BuildKeys}} /\ (IsMap => Looked = entries)
<1>1. CASE IsMap
  BY <1>1, MapFinds DEF ItemOf, Looked
<1>2. CASE ~IsMap
  <2>1. entries \in {Unread, {BuildKeys}}
    BY <1>2 DEF ReadInv
  <2>2. Current = BuildKeys
    BY <2>1 DEF Current, Unread
  <2>3. QED
    BY <1>2, <2>2, SliceFinds DEF ItemOf, Looked
<1>3. QED
  BY <1>1, <1>2

\* A map has one key, of a plain type.
LEMMA MapIsKeyed ==
  ASSUME NEW c \in Cases, c.list = "map"
  PROVE  c.keyed /\ c.type.format.name \in Plain
<1>1. c.keyed /\ c.type.format.name \in {"string", "int32"}
  BY KeysAssumption
<1>2. QED
  BY <1>1, HeldFacts DEF Plain

\* The keys of a map that the node knows when it is asked for a row.
LEMMA KnownKeys ==
  ASSUME ItemsInv, ReadInv, IsMap
  PROVE  /\ Keys \in Seq(KeyEntries(case)) /\ IsInjective(Keys)
         /\ entries # Unread => Keys = KeysRead
<1>1. case \in Cases /\ case.keyed
  BY MapIsKeyed DEF ItemsInv, IsMap
<1>2. CASE entries = Unread
  BY <1>1, <1>2, MapKeys DEF Keys
<1>3. CASE entries # Unread
  <2>1. PICK ks \in entries : TRUE
    BY <1>3 DEF Unread
  <2>2. entries = {ks} /\ ks \in Seq(KeyEntries(case)) /\ IsInjective(ks)
    BY <2>1 DEF ReadInv
  <2>3. Keys = ks /\ KeysRead = ks
    BY <1>3, <2>2 DEF Keys, KeysRead
  <2>4. QED
    BY <2>2, <2>3
<1>4. QED
  BY <1>2, <1>3

\* The entries of a map are its keys.
LEMMA KeyEntryShape ==
  ASSUME NEW c, NEW e \in KeyEntries(c)
  PROVE  e.key[1] \in KeysOf(c) /\ e.key = <<e.key[1]>>
<1>1. PICK v \in KeysOf(c) : e = [key |-> <<v>>]
  BY DEF KeyEntries
<1>2. e.key = <<v>> /\ <<v>>[1] = v
  BY <1>1
<1>3. QED
  BY <1>2

\* A key of a map is read again as itself.
LEMMA MapKeyAgain ==
  ASSUME NEW c \in Cases, c.list = "map", NEW v \in KeysOf(c)
  PROVE  NewValue(c.type, v.v) = {v}
<1>1. PICK x \in c.inputs : v \in NewValue(c.type, x)
  BY DEF KeysOf
<1>2. c.type.format.name \in Plain
  BY MapIsKeyed
<1>3. QED
  BY <1>1, <1>2, PlainAgain

\* A row of a map is the key at that place, or the end if its item is gone.
LEMMA MapAnswers ==
  ASSUME ItemsInv, ReadInv, IsMap, NEW r \in Nat \ {0}, NEW ks, ks = Keys, MapRow(r)
  PROVE  /\ entries' = {ks}
         /\ \/ /\ answer' = Answer("end", <<>>, <<>>)
               /\ r \notin DOMAIN ks \/ ks[r].key[1] \notin There
            \/ /\ answer' = Answer("row", <<>>, <<ks[r].key[1]>>)
               /\ r \in DOMAIN ks /\ ks[r].key[1] \in There
<1>1. /\ ks \in Seq(KeyEntries(case)) /\ case \in Cases /\ case.keyed
      /\ case.list = "map"
  BY KnownKeys, MapIsKeyed DEF ItemsInv, IsMap
<1> DEFINE left == {k \in {ks[i].key[1] : i \in {r} \cap DOMAIN ks} : MapIndex(k) # {}}
<1>2. /\ entries' = {ks}
      /\ answer' \in IF left = {} THEN {Answer("end", <<>>, <<>>)}
                     ELSE {Answer("row", <<>>, <<v>>) :
                             v \in UNION {NewValue(case.type, k.v) : k \in left}}
  BY DEF MapRow
<1>3. CASE r \notin DOMAIN ks
  BY <1>2, <1>3
<1>4. CASE r \in DOMAIN ks
  <2>1. PICK k : k = ks[r].key[1]
    OBVIOUS
  <2>2. k \in KeysOf(case)
    <3>1. ks[r] \in KeyEntries(case)
      BY <1>1, <1>4, ElementOf
    <3>2. QED
      BY <2>1, <3>1, KeyEntryShape
  <2>3. MapIndex(k) = {} <=> k \notin There
    BY <1>1, <2>2, MapFinds DEF Finds, There
  <2>4. left = IF k \in There THEN {k} ELSE {}
    BY <1>4, <2>1, <2>3
  <2>5. CASE k \notin There
    BY <1>2, <2>1, <2>4, <2>5
  <2>6. CASE k \in There
    <3>1. left = {k}
      BY <2>4, <2>6
    <3>2. UNION {NewValue(case.type, j.v) : j \in left} = {k}
      <4>1. NewValue(case.type, k.v) = {k}
        BY <1>1, <2>2, MapKeyAgain
      <4> HIDE DEF left
      <4>2. UNION {NewValue(case.type, j.v) : j \in {k}} = {k}
        BY <4>1
      <4>3. QED
        BY <3>1, <4>2
    <3>3. answer' = Answer("row", <<>>, <<k>>)
      BY <1>2, <3>1, <3>2
    <3>4. QED
      BY <1>2, <1>4, <2>1, <2>6, <3>3
  <2>7. QED
    BY <2>5, <2>6
<1>5. QED
  BY <1>3, <1>4

\* A row of a slice.
LEMMA SliceAnswers ==
  ASSUME ItemsInv, NEW r \in Nat \ {0}, SliceRow(r)
  PROVE  /\ entries' = entries
         /\ \/ answer' = Answer("end", <<>>, <<>>) /\ r \notin DOMAIN items
            \/ answer' = Answer("row", <<>>, <<items[r].written>>) /\ r \in DOMAIN items
<1>1. DOMAIN items = 1..Len(items) /\ Len(items) \in Nat
  BY DEF ItemsInv
<1>2. CASE r > Len(items)
  BY <1>1, <1>2 DEF SliceRow
<1>3. CASE r <= Len(items)
  <2>1. r \in DOMAIN items
    BY <1>1, <1>3
  <2>2. KeyOf(items[r]) = <<items[r].written>>
    BY <2>1, ItemFacts
  <2>3. QED
    BY <1>1, <1>3, <2>1, <2>2 DEF SliceRow
<1>4. QED
  BY <1>1, <1>2, <1>3

-----------------------------------------------------------------------------
(***************************************************************************)
(* Every step keeps the invariant.                                         *)
(***************************************************************************)
LEMMA NoWalkFields ==
  NoWalk.seen = <<>> /\ NoWalk.due = {} /\ NoWalk.ended = TRUE
  BY DEF NoWalk

\* The invariant holds of a new list.
LEMMA InitInv == Init => GInv
<1>1. SUFFICES ASSUME Init PROVE GInv
  OBVIOUS
<1>2. case \in Cases /\ items = <<>> /\ entries = {} /\ walk = NoWalk
      /\ answer = Answer("none", <<>>, <<>>)
  BY <1>1 DEF Init, Unread
<1>3. ItemsInv
  <2>1. items \in Seq(ItemsOf(case)) /\ Len(items) = 0 /\ DOMAIN items = {}
    BY <1>2
  <2>2. QED
    BY <1>2, <2>1, MaxItemsAssumption DEF ItemsInv
<1>4. ReadInv
  BY <1>2 DEF ReadInv, Unread
<1>5. WalkInv
  <2>1. KeysRead = <<>>
    BY <1>2 DEF KeysRead, Unread
  <2>2. <<>> \in Seq(KeysOf(case)) /\ Len(<<>>) = 0 /\ DOMAIN <<>> = {}
    OBVIOUS
  <2>3. NoWalk \in [seen : Seq(KeysOf(case)), due : SUBSET KeysOf(case), ended : BOOLEAN]
    BY <2>2 DEF NoWalk
  <2>4. QED
    BY <1>2, <2>1, <2>2, <2>3, NoWalkFields DEF WalkInv
<1>6. EndInv
  BY <1>2 DEF EndInv, Answer
<1>7. QED
  BY <1>3, <1>4, <1>5, <1>6 DEF GInv

\* No walk is on.
LEMMA WalkDropped ==
  ASSUME ItemsInv', ReadInv', walk' = NoWalk
  PROVE  WalkInv' /\ EndInv'
<1>1. items' \in Seq(ItemsOf(case'))
  BY DEF ItemsInv
<1>2. Len(items') \in Nat
  BY <1>1
<1>3. IsMap' => Len(KeysRead') \in Nat
  <2>1. SUFFICES ASSUME IsMap' PROVE Len(KeysRead') \in Nat
    OBVIOUS
  <2>2. CASE entries' = Unread
    BY <2>2 DEF KeysRead
  <2>3. CASE entries' # Unread
    <3>1. PICK ks \in entries' : TRUE
      BY <2>3 DEF Unread
    <3>2. entries' = {ks} /\ ks \in Seq(KeyEntries(case'))
      BY <2>1, <3>1 DEF ReadInv
    <3>3. KeysRead' = ks
      BY <2>3, <3>2 DEF KeysRead
    <3>4. QED
      BY <3>2, <3>3
  <2>4. QED
    BY <2>2, <2>3
<1>4. <<>> \in Seq(KeysOf(case')) /\ Len(<<>>) = 0 /\ DOMAIN <<>> = {}
  OBVIOUS
<1>5. NoWalk \in [seen : Seq(KeysOf(case')), due : SUBSET KeysOf(case'), ended : BOOLEAN]
  BY <1>4 DEF NoWalk
<1>6. WalkInv'
  BY <1>2, <1>3, <1>4, <1>5, NoWalkFields DEF WalkInv
<1>7. EndInv'
  BY NoWalkFields DEF EndInv
<1>8. QED
  BY <1>6, <1>7

\* Nothing but the answer and what was read of a slice changes.
LEMMA StaysInv ==
  ASSUME GInv, UNCHANGED <<case, items, walk>>,
         entries' = entries \/ (~IsMap /\ case.keyed /\ entries' = {BuildKeys}),
         answer'.is # "end" \/ answer' = answer
  PROVE  GInv'
<1>1. case' = case /\ items' = items /\ walk' = walk
      /\ ItemsInv /\ ReadInv /\ WalkInv /\ EndInv
  BY DEF GInv
<1>2. ItemsInv'
  BY <1>1 DEF ItemsInv
<1>3. BuildKeys' = BuildKeys /\ (IsMap' <=> IsMap) /\ There' = There
  BY <1>1 DEF BuildKeys, KeyOf, IsMap, There
<1>4. ReadInv'
  BY <1>1, <1>3 DEF ReadInv
<1>5. IsMap => KeysRead' = KeysRead /\ KeysKnown' = KeysKnown
  BY DEF KeysRead, KeysKnown
<1>6. WalkInv'
  BY <1>1, <1>3, <1>5 DEF WalkInv
<1>7. EndInv'
  BY <1>1, <1>3 DEF EndInv
<1>8. QED
  BY <1>2, <1>4, <1>6, <1>7 DEF GInv

\* A node made anew has read nothing.
LEMMA OpenInv == ASSUME GInv, Open PROVE GInv'
<1>1. case' = case /\ items' = items /\ walk' = NoWalk /\ entries' = Unread /\ ItemsInv
  BY DEF GInv, Open
<1>2. ItemsInv'
  BY <1>1 DEF ItemsInv
<1>3. ReadInv'
  BY <1>1 DEF ReadInv, Unread
<1>4. QED
  BY <1>1, <1>2, <1>3, WalkDropped DEF GInv

\* A key that is refused changes nothing.
LEMMA RefuseInv == ASSUME GInv, NEW x, Refuse(x) PROVE GInv'
<1>1. answer'.is # "end"
  BY DEF Refuse, Answer
<1>2. UNCHANGED <<case, items, walk>> /\ entries' = entries
  BY DEF Refuse
<1>3. QED
  BY <1>1, <1>2, StaysInv

\* A search leaves the list as it is.
LEMMA FindInv ==
  ASSUME GInv, case.keyed, NEW v \in KeysOf(case), Find(v)
  PROVE  GInv'
<1>1. ItemsInv /\ ReadInv
  BY DEF GInv
<1>2. Looked \in {entries, {BuildKeys}} /\ (IsMap => Looked = entries)
  BY <1>1, ItemFound
<1>3. answer'.is # "end"
  <2>1. \/ answer' = Answer("missing", <<v>>, <<>>)
        \/ \E e \in ItemOf(v) : answer' = Answer("found", <<v>>, <<e.item.written>>)
    BY DEF Find
  <2>2. QED
    BY <2>1 DEF Answer
<1>4. UNCHANGED <<case, items, walk>> /\ entries' = Looked
  BY DEF Find
<1>5. entries' = entries \/ (~IsMap /\ case.keyed /\ entries' = {BuildKeys})
  <2>1. CASE IsMap
    BY <1>2, <1>4, <2>1
  <2>2. CASE ~IsMap
    BY <1>2, <1>4, <2>2
  <2>3. QED
    BY <2>1, <2>2
<1>6. QED
  BY <1>3, <1>4, <1>5, StaysInv

\* A sequence with a new element at its end.
LEMMA Appended ==
  ASSUME NEW S, NEW s \in Seq(S), NEW e \in S, NEW t, t = Append(s, e)
  PROVE  /\ t \in Seq(S) /\ Len(t) = Len(s) + 1 /\ DOMAIN t = 1..(Len(s) + 1)
         /\ \A i \in DOMAIN s : i \in DOMAIN t /\ t[i] = s[i]
         /\ t[Len(s) + 1] = e
  OBVIOUS

\* The node forgets the keys of a slice that it changes.
LEMMA ChangedInv ==
  ASSUME ItemsInv, ReadInv, case' = case, entries' = Changed
  PROVE  ReadInv' /\ (IsMap' <=> IsMap)
         /\ (IsMap => KeysRead' = KeysRead /\ KeysKnown' = KeysKnown)
<1>1. IsMap' <=> IsMap
  BY DEF IsMap
<1>2. CASE IsMap
  <2>1. entries' = entries
    BY <1>2 DEF Changed
  <2>2. case.keyed
    BY <1>2, MapIsKeyed DEF IsMap, ItemsInv
  <2>3. ReadInv'
    BY <1>1, <1>2, <2>1, <2>2 DEF ReadInv
  <2>4. KeysRead' = KeysRead /\ KeysKnown' = KeysKnown
    BY <2>1 DEF KeysRead, KeysKnown
  <2>5. QED
    BY <1>1, <2>3, <2>4
<1>3. CASE ~IsMap
  <2>1. entries' = Unread
    BY <1>3 DEF Changed
  <2>2. QED
    BY <1>1, <1>3, <2>1 DEF ReadInv, Unread
<1>4. QED
  BY <1>2, <1>3

\* A new item goes to the end of a slice, and its key is its own.
LEMMA NewInv ==
  ASSUME GInv, NEW x \in case.inputs, NEW v \in NewValue(case.type, x),
         Len(items) < MaxItems, case.keyed => v \notin There, New(x, v)
  PROVE  GInv'
<1>1. /\ ItemsInv /\ ReadInv /\ WalkInv
      /\ case' = case /\ walk' = walk /\ entries' = Changed
      /\ items' = Append(items, Item(x, v))
      /\ answer'.is # "end"
  BY DEF GInv, New, Answer
<1>2. case \in Cases /\ items \in Seq(ItemsOf(case)) /\ Len(items) \in Nat
      /\ DOMAIN items = 1..Len(items)
  BY <1>1 DEF ItemsInv
<1>3. Item(x, v) \in ItemsOf(case) /\ Item(x, v).written = v
  BY DEF Item, ItemsOf
<1>4. /\ items' \in Seq(ItemsOf(case)) /\ Len(items') = Len(items) + 1
      /\ DOMAIN items' = 1..(Len(items) + 1)
      /\ \A i \in DOMAIN items : i \in DOMAIN items' /\ items'[i] = items[i]
      /\ items'[Len(items) + 1] = Item(x, v)
  BY <1>1, <1>2, <1>3, Appended
<1>5. ItemsInv'
  <2>1. ASSUME case.keyed, NEW i \in DOMAIN items', NEW j \in DOMAIN items',
               items'[i].written = items'[j].written
        PROVE  i = j
    <3>1. \A n \in DOMAIN items : items[n].written # v
      BY <2>1 DEF There
    <3>2. \A n \in DOMAIN items' : n \in DOMAIN items \/ n = Len(items) + 1
      BY <1>2, <1>4
    <3>3. CASE i \in DOMAIN items /\ j \in DOMAIN items
      <4>1. items[i].written = items[j].written
        BY <1>4, <2>1, <3>3
      <4>2. QED
        BY <1>1, <2>1, <3>3, <4>1 DEF ItemsInv
    <3>4. CASE i \in DOMAIN items /\ j = Len(items) + 1
      BY <1>3, <1>4, <2>1, <3>1, <3>4
    <3>5. CASE j \in DOMAIN items /\ i = Len(items) + 1
      BY <1>3, <1>4, <2>1, <3>1, <3>5
    <3>6. QED
      BY <3>2, <3>3, <3>4, <3>5
  <2>2. Len(items') <= MaxItems
    BY <1>2, <1>4, MaxItemsAssumption
  <2>3. QED
    BY <1>1, <1>2, <1>4, <2>1, <2>2 DEF ItemsInv
<1>6. ReadInv' /\ (IsMap' <=> IsMap)
      /\ (IsMap => KeysRead' = KeysRead /\ KeysKnown' = KeysKnown)
  BY <1>1, ChangedInv
<1>7. There \subseteq There'
  BY <1>4 DEF There
<1>8. WalkInv'
  <2>1. CASE IsMap
    BY <1>1, <1>6, <2>1 DEF WalkInv
  <2>2. CASE ~IsMap
    <3>1. /\ walk.seen \in Seq(KeysOf(case)) /\ Len(walk.seen) <= Len(items)
          /\ \A k \in DOMAIN walk.seen : walk.seen[k] = items[k].written
          /\ ~walk.ended => walk.due \subseteq There
      BY <1>1, <2>2 DEF WalkInv
    <3>2. Len(walk.seen) <= Len(items')
      BY <1>2, <1>4, <3>1
    <3>3. \A k \in DOMAIN walk.seen : k \in DOMAIN items
      BY <1>2, <3>1
    <3>4. \A k \in DOMAIN walk.seen : walk.seen[k] = items'[k].written
      BY <1>4, <3>1, <3>3
    <3>5. QED
      BY <1>1, <1>6, <1>7, <2>2, <3>1, <3>2, <3>4 DEF WalkInv
  <2>3. QED
    BY <2>1, <2>2
<1>9. EndInv'
  BY <1>1 DEF EndInv
<1>10. QED
  BY <1>5, <1>6, <1>8, <1>9 DEF GInv

\* What is left when an item is taken out.
AllBut(p, t) ==
    /\ t \in Seq(ItemsOf(case)) /\ Len(t) = Len(items) - 1
    /\ \A i \in DOMAIN t : \E j \in DOMAIN items \ {p} : t[i] = items[j]
    /\ \A j \in DOMAIN items \ {p} : \E i \in DOMAIN t : t[i] = items[j]
    /\ \A i, j \in DOMAIN t : i # j => \E a, b \in DOMAIN items :
          a # b /\ t[i] = items[a] /\ t[j] = items[b]

\* After a deletion the others are there, in order.
LEMMA DeletedItems ==
  ASSUME ItemsInv, NEW p \in DOMAIN items, NEW t, t = RemoveAt(items, p)
  PROVE  AllBut(p, t)
<1>1. /\ items \in Seq(ItemsOf(case)) /\ Len(items) \in Nat
      /\ DOMAIN items = 1..Len(items)
  BY DEF ItemsInv
<1>2. /\ t \in Seq(ItemsOf(case)) /\ Len(t) = Len(items) - 1
      /\ \A i \in DOMAIN t : t[i] = IF i < p THEN items[i] ELSE items[i + 1]
  <2>1. Removal(ItemsOf(case), items, p, t)
    BY <1>1, Removed
  <2>2. QED
    BY <2>1 DEF Removal
<1>3. DOMAIN t = 1..(Len(items) - 1)
  BY <1>2
<1> DEFINE From(i) == IF i < p THEN i ELSE i + 1
<1>4. \A i \in DOMAIN t : From(i) \in DOMAIN items \ {p} /\ t[i] = items[From(i)]
  BY <1>1, <1>2, <1>3
<1>5. \A i, j \in DOMAIN t : i # j => From(i) # From(j)
  BY <1>1, <1>3
<1>6. ASSUME NEW j \in DOMAIN items \ {p} PROVE \E i \in DOMAIN t : From(i) = j
  <2>1. CASE j < p
    <3>1. j \in DOMAIN t /\ From(j) = j
      BY <1>1, <1>3, <2>1
    <3>2. QED
      BY <3>1
  <2>2. CASE j > p
    <3>1. j - 1 \in DOMAIN t /\ From(j - 1) = j
      BY <1>1, <1>3, <2>2
    <3>2. QED
      BY <3>1
  <2>3. QED
    BY <1>1, <2>1, <2>2
<1> HIDE DEF From
<1>7. QED
  BY <1>2, <1>4, <1>5, <1>6 DEF AllBut

\* A deletion takes the item that was found and what the node had read of a slice.
LEMMA DeleteInv ==
  ASSUME GInv, case.keyed, NEW v \in KeysOf(case), NEW e \in ItemOf(v), DeleteFound(v, e)
  PROVE  GInv'
<1>1. /\ ItemsInv /\ ReadInv
      /\ case' = case /\ walk' = NoWalk /\ entries' = Changed
      /\ items' = RemoveAt(items, e.pos)
  BY DEF GInv, DeleteFound
<1>2. e.pos \in DOMAIN items
  BY <1>1, ItemFound DEF Finds
<1>3. /\ items' \in Seq(ItemsOf(case)) /\ Len(items') = Len(items) - 1
      /\ \A i, j \in DOMAIN items' : i # j => \E a, b \in DOMAIN items :
               a # b /\ items'[i] = items[a] /\ items'[j] = items[b]
  <2>1. AllBut(e.pos, items')
    BY <1>1, <1>2, DeletedItems
  <2>2. QED
    BY <2>1 DEF AllBut
<1>4. \A i, j \in DOMAIN items' : items'[i].written = items'[j].written => i = j
  BY <1>1, <1>3 DEF ItemsInv
<1>5. case \in Cases /\ Len(items) \in Nat /\ Len(items) <= MaxItems
  BY <1>1 DEF ItemsInv
<1>6. Len(items') <= MaxItems
  BY <1>3, <1>5, MaxItemsAssumption
<1>7. ItemsInv'
  BY <1>1, <1>3, <1>4, <1>5, <1>6 DEF ItemsInv
<1>8. ReadInv'
  BY <1>1, ChangedInv
<1>9. QED
  BY <1>1, <1>7, <1>8, WalkDropped DEF GInv

\* The walk goes on from the rows s, for the keys d.
GoesOn(s, d) ==
    walk' = [seen |-> s \o answer'.item, due |-> d, ended |-> answer'.is = "end"]

\* A walk begins with the first row and goes on with the next one, or is none.
LEMMA WalkedFacts ==
  ASSUME NEW r, NEW d, Walked(r, d)
  PROVE  \/ walk' = NoWalk
         \/ case.keyed /\ r = 1 /\ GoesOn(<<>>, d)
         \/ ~walk.ended /\ r = Len(walk.seen) + 1 /\ GoesOn(walk.seen, walk.due)
  BY DEF Walked, GoesOn

\* What the rows that were seen are after another row.
Seen(s, item, t) ==
    /\ t \in Seq(KeysOf(case))
    /\ Len(t) = Len(s) + Len(item)
    /\ \A i \in DOMAIN s : i \in DOMAIN t /\ t[i] = s[i]
    /\ Len(item) = 1 => t[Len(s) + 1] = item[1]

\* A row adds at most one key to those that were seen.
LEMMA SeenNext ==
  ASSUME NEW s \in Seq(KeysOf(case)), NEW item \in Seq(KeysOf(case)), NEW t, t = s \o item
  PROVE  Seen(s, item, t)
<1>1. /\ t \in Seq(KeysOf(case)) /\ Len(t) = Len(s) + Len(item)
      /\ \A i \in 1..(Len(s) + Len(item)) :
            t[i] = IF i <= Len(s) THEN s[i] ELSE item[i - Len(s)]
  BY Joined
<1>2. Len(s) \in Nat /\ Len(item) \in Nat /\ DOMAIN s = 1..Len(s) /\ DOMAIN t = 1..Len(t)
  BY <1>1
<1>3. \A i \in DOMAIN s : i \in DOMAIN t /\ t[i] = s[i]
  BY <1>1, <1>2
<1>4. ASSUME Len(item) = 1 PROVE t[Len(s) + 1] = item[1]
  <2>1. Len(s) + 1 \in 1..(Len(s) + Len(item)) /\ Len(s) + 1 - Len(s) = 1
        /\ ~(Len(s) + 1 <= Len(s))
    BY <1>2, <1>4
  <2>2. QED
    BY <1>1, <2>1
<1>5. QED
  BY <1>1, <1>3, <1>4 DEF Seen

\* The keys of the items are keys of the case.
LEMMA ThereKeys == ASSUME ItemsInv PROVE There \subseteq KeysOf(case)
  BY ItemFacts DEF There

\* A walk over a slice goes on, or ends past the last item.
LEMMA SliceGoesOn ==
  ASSUME ItemsInv, ~IsMap, case.keyed, case' = case, items' = items,
         NEW r \in Nat \ {0}, r - 1 <= Len(items),
         NEW s \in Seq(KeysOf(case)), Len(s) = r - 1,
         \A k \in DOMAIN s : s[k] = items[k].written,
         NEW d, d \subseteq There, SliceRow(r), GoesOn(s, d)
  PROVE  WalkInv' /\ EndInv'
<1>1. Len(items) \in Nat /\ DOMAIN items = 1..Len(items)
  BY DEF ItemsInv
<1>2. d \in SUBSET KeysOf(case)
  BY ThereKeys
<1>3. PICK t : t = s \o answer'.item
  OBVIOUS
<1>4. walk' = [seen |-> t, due |-> d, ended |-> answer'.is = "end"]
  BY <1>3 DEF GoesOn
<1>5. /\ walk'.seen = t /\ walk'.due = d /\ walk'.ended = (answer'.is = "end")
  BY <1>4
<1>6. (IsMap' <=> IsMap) /\ There' = There /\ KeysOf(case') = KeysOf(case)
  BY DEF IsMap, There
<1>7. SUFFICES /\ t \in Seq(KeysOf(case)) /\ Len(t) <= Len(items)
               /\ \A k \in DOMAIN t : t[k] = items[k].written
               /\ answer'.is = "end" => d \subseteq ToSet(t)
  <2>1. ASSUME t \in Seq(KeysOf(case))
        PROVE  walk' \in [seen : Seq(KeysOf(case)), due : SUBSET KeysOf(case), ended : BOOLEAN]
    BY <1>2, <1>4, <2>1
  <2>2. QED
    BY <1>5, <1>6, <2>1 DEF WalkInv, EndInv
<1>8. CASE answer' = Answer("end", <<>>, <<>>) /\ r \notin DOMAIN items
  <2>1. answer'.item = <<>> /\ Len(<<>>) = 0 /\ <<>> \in Seq(KeysOf(case))
    BY <1>8 DEF Answer
  <2>2. Seen(s, <<>>, t)
    BY <1>3, <2>1, SeenNext
  <2>3. /\ t \in Seq(KeysOf(case)) /\ Len(t) = Len(s)
        /\ \A i \in DOMAIN s : i \in DOMAIN t /\ t[i] = s[i]
    BY <2>1, <2>2 DEF Seen
  <2>4. Len(items) = Len(s) /\ DOMAIN s = DOMAIN items /\ DOMAIN t = DOMAIN s
    BY <1>1, <1>8, <2>3
  <2>5. \A i \in DOMAIN items : items[i].written \in ToSet(t)
    BY <2>3, <2>4 DEF ToSet
  <2>6. d \subseteq ToSet(t)
    BY <2>5 DEF There
  <2>7. QED
    BY <1>1, <2>3, <2>4, <2>6
<1>9. CASE answer' = Answer("row", <<>>, <<items[r].written>>) /\ r \in DOMAIN items
  <2>1. answer'.item = <<items[r].written>> /\ answer'.is = "row"
    BY <1>9 DEF Answer
  <2>2. PICK w \in KeysOf(case) : w = items[r].written
    BY <1>9, ItemFacts
  <2>3. <<w>> \in Seq(KeysOf(case)) /\ Len(<<w>>) = 1 /\ <<w>>[1] = w
    OBVIOUS
  <2>4. Seen(s, <<w>>, t)
    BY <1>3, <2>1, <2>2, <2>3, SeenNext
  <2>5. /\ t \in Seq(KeysOf(case)) /\ Len(t) = r
        /\ \A i \in DOMAIN s : t[i] = s[i]
        /\ t[r] = w
    BY <2>3, <2>4 DEF Seen
  <2>6. \A k \in DOMAIN t : k \in DOMAIN s \/ k = r
    BY <2>5
  <2>7. \A k \in DOMAIN t : t[k] = items[k].written
    BY <2>2, <2>5, <2>6
  <2>8. Len(t) <= Len(items)
    BY <1>1, <1>9, <2>5
  <2>9. QED
    BY <2>1, <2>5, <2>7, <2>8
<1>10. QED
  BY <1>8, <1>9, SliceAnswers

\* A walk over a map goes on, or ends at a key that is gone or past the last.
LEMMA MapGoesOn ==
  ASSUME ItemsInv, ReadInv, IsMap, case' = case, items' = items,
         NEW r \in Nat \ {0}, NEW ks, ks = Keys, r - 1 <= Len(ks),
         NEW s \in Seq(KeysOf(case)), Len(s) = r - 1,
         \A k \in DOMAIN s : s[k] = ks[k].key[1],
         NEW d, d = {e.key[1] : e \in ToSet(ks)}, MapRow(r), GoesOn(s, d)
  PROVE  WalkInv' /\ EndInv'
<1>1. /\ ks \in Seq(KeyEntries(case)) /\ Len(ks) \in Nat /\ DOMAIN ks = 1..Len(ks)
      /\ case \in Cases /\ case.keyed
  BY KnownKeys, MapIsKeyed DEF IsMap, ItemsInv
<1>2. \A i \in DOMAIN ks : ks[i].key[1] \in KeysOf(case)
  BY <1>1, ElementOf, KeyEntryShape
<1>3. d \in SUBSET KeysOf(case)
  BY <1>2 DEF ToSet
<1>4. PICK t : t = s \o answer'.item
  OBVIOUS
<1>5. walk' = [seen |-> t, due |-> d, ended |-> answer'.is = "end"]
  BY <1>4 DEF GoesOn
<1>6. /\ walk'.seen = t /\ walk'.due = d /\ walk'.ended = (answer'.is = "end")
  BY <1>5
<1>7. (IsMap' <=> IsMap) /\ There' = There /\ KeysOf(case') = KeysOf(case)
  BY DEF IsMap, There
<1>8. /\ entries' = {ks}
      /\ \/ /\ answer' = Answer("end", <<>>, <<>>)
            /\ r \notin DOMAIN ks \/ ks[r].key[1] \notin There
         \/ /\ answer' = Answer("row", <<>>, <<ks[r].key[1]>>)
            /\ r \in DOMAIN ks /\ ks[r].key[1] \in There
  BY MapAnswers
<1>9. KeysRead' = ks /\ KeysKnown' = d
  BY <1>8 DEF KeysRead, KeysKnown, Unread
<1>10. SUFFICES /\ t \in Seq(KeysOf(case)) /\ Len(t) <= Len(ks)
                /\ \A k \in DOMAIN t : t[k] = ks[k].key[1]
                /\ answer'.is = "end" /\ d \subseteq There => d \subseteq ToSet(t)
  <2>1. ASSUME t \in Seq(KeysOf(case))
        PROVE  walk' \in [seen : Seq(KeysOf(case)), due : SUBSET KeysOf(case), ended : BOOLEAN]
    BY <1>3, <1>5, <2>1
  <2>2. QED
    BY <1>1, <1>6, <1>7, <1>9, <2>1 DEF WalkInv, EndInv
<1>11. CASE /\ answer' = Answer("end", <<>>, <<>>)
            /\ r \notin DOMAIN ks \/ ks[r].key[1] \notin There
  <2>1. answer'.item = <<>> /\ Len(<<>>) = 0 /\ <<>> \in Seq(KeysOf(case))
    BY <1>11 DEF Answer
  <2>2. Seen(s, <<>>, t)
    BY <1>4, <2>1, SeenNext
  <2>3. /\ t \in Seq(KeysOf(case)) /\ Len(t) = Len(s)
        /\ \A i \in DOMAIN s : i \in DOMAIN t /\ t[i] = s[i]
    BY <2>1, <2>2 DEF Seen
  <2>4. DOMAIN t = DOMAIN s
    BY <2>3
  <2>5. ASSUME d \subseteq There PROVE d \subseteq ToSet(t)
    <3>1. r \notin DOMAIN ks
      <4>1. r \in DOMAIN ks => ks[r].key[1] \in d
        BY DEF ToSet
      <4>2. QED
        BY <1>11, <2>5, <4>1
    <3>2. DOMAIN t = DOMAIN ks
      BY <1>1, <2>3, <3>1
    <3>3. \A i \in DOMAIN ks : ks[i].key[1] \in ToSet(t)
      BY <2>3, <2>4, <3>2 DEF ToSet
    <3>4. QED
      BY <3>3 DEF ToSet
  <2>6. QED
    BY <1>1, <2>3, <2>4, <2>5
<1>12. CASE /\ answer' = Answer("row", <<>>, <<ks[r].key[1]>>)
            /\ r \in DOMAIN ks /\ ks[r].key[1] \in There
  <2>1. answer'.item = <<ks[r].key[1]>> /\ answer'.is = "row"
    BY <1>12 DEF Answer
  <2>2. PICK w \in KeysOf(case) : w = ks[r].key[1]
    BY <1>2, <1>12
  <2>3. <<w>> \in Seq(KeysOf(case)) /\ Len(<<w>>) = 1 /\ <<w>>[1] = w
    OBVIOUS
  <2>4. Seen(s, <<w>>, t)
    BY <1>4, <2>1, <2>2, <2>3, SeenNext
  <2>5. /\ t \in Seq(KeysOf(case)) /\ Len(t) = r
        /\ \A i \in DOMAIN s : t[i] = s[i]
        /\ t[r] = w
    BY <2>3, <2>4 DEF Seen
  <2>6. \A k \in DOMAIN t : k \in DOMAIN s \/ k = r
    BY <2>5
  <2>7. \A k \in DOMAIN t : t[k] = ks[k].key[1]
    BY <2>2, <2>5, <2>6
  <2>8. Len(t) <= Len(ks)
    BY <1>1, <1>12, <2>5
  <2>9. QED
    BY <2>1, <2>5, <2>7, <2>8
<1>13. QED
  BY <1>8, <1>11, <1>12

\* A row of a slice keeps the invariant.
LEMMA SliceRowInv ==
  ASSUME GInv, ~IsMap, NEW r \in 1..(Len(items) + 1), Row(r)
  PROVE  GInv'
<1>1. /\ ItemsInv /\ ReadInv /\ WalkInv /\ case' = case /\ items' = items
      /\ SliceRow(r) /\ Walked(r, There)
  BY DEF GInv, Row, There
<1>2. /\ Len(items) \in Nat /\ r \in Nat \ {0} /\ r - 1 <= Len(items)
  <2>1. items \in Seq(ItemsOf(case))
    BY <1>1 DEF ItemsInv
  <2>2. QED
    BY <2>1
<1>3. ItemsInv'
  BY <1>1 DEF ItemsInv
<1>4. ReadInv'
  <2>1. BuildKeys' = BuildKeys /\ (IsMap' <=> IsMap) /\ entries' = entries
    BY <1>1 DEF BuildKeys, KeyOf, IsMap, SliceRow
  <2>2. QED
    BY <1>1, <2>1 DEF ReadInv
<1>5. CASE walk' = NoWalk
  BY <1>3, <1>4, <1>5, WalkDropped DEF GInv
<1>6. CASE case.keyed /\ r = 1 /\ GoesOn(<<>>, There)
  <2>1. /\ <<>> \in Seq(KeysOf(case)) /\ Len(<<>>) = r - 1
        /\ \A k \in DOMAIN <<>> : <<>>[k] = items[k].written
    BY <1>6
  <2>2. WalkInv' /\ EndInv'
    BY <1>1, <1>2, <1>6, <2>1, SliceGoesOn
  <2>3. QED
    BY <1>3, <1>4, <2>2 DEF GInv
<1>7. CASE ~walk.ended /\ r = Len(walk.seen) + 1 /\ GoesOn(walk.seen, walk.due)
  <2>1. /\ case.keyed /\ walk.seen \in Seq(KeysOf(case)) /\ walk.due \subseteq There
        /\ \A k \in DOMAIN walk.seen : walk.seen[k] = items[k].written
    BY <1>1, <1>7, NoWalkFields DEF WalkInv
  <2>2. Len(walk.seen) = r - 1
    BY <1>2, <1>7, <2>1
  <2>3. WalkInv' /\ EndInv'
    BY <1>1, <1>2, <1>7, <2>1, <2>2, SliceGoesOn
  <2>4. QED
    BY <1>3, <1>4, <2>3 DEF GInv
<1>8. QED
  BY <1>1, <1>5, <1>6, <1>7, WalkedFacts

\* A row of a map keeps the invariant.
LEMMA MapRowInv ==
  ASSUME GInv, IsMap, NEW r \in 1..(Len(items) + 1), Row(r)
  PROVE  GInv'
<1>1. PICK ks, d : ks = Keys /\ d = {e.key[1] : e \in ToSet(ks)}
  OBVIOUS
<1>2. /\ ItemsInv /\ ReadInv /\ WalkInv /\ case' = case /\ items' = items
      /\ MapRow(r) /\ Walked(r, d)
  BY <1>1 DEF GInv, Row
<1>3. r \in Nat \ {0}
  <2>1. items \in Seq(ItemsOf(case))
    BY <1>2 DEF ItemsInv
  <2>2. QED
    BY <2>1
<1>4. /\ ks \in Seq(KeyEntries(case)) /\ IsInjective(ks)
      /\ entries # Unread => ks = KeysRead
  BY <1>1, <1>2, KnownKeys
<1>5. ItemsInv'
  BY <1>2 DEF ItemsInv
<1>6. ReadInv'
  <2>1. entries' = {ks} /\ (IsMap' <=> IsMap) /\ case.keyed
    BY <1>1, <1>2, MapIsKeyed DEF MapRow, IsMap, ItemsInv
  <2>2. QED
    BY <1>2, <1>4, <2>1 DEF ReadInv
<1>7. CASE walk' = NoWalk
  BY <1>5, <1>6, <1>7, WalkDropped DEF GInv
<1>8. CASE r = 1 /\ GoesOn(<<>>, d)
  <2>1. /\ <<>> \in Seq(KeysOf(case)) /\ Len(<<>>) = r - 1 /\ r - 1 <= Len(ks)
        /\ \A k \in DOMAIN <<>> : <<>>[k] = ks[k].key[1]
    BY <1>4, <1>8
  <2>2. WalkInv' /\ EndInv'
    BY <1>1, <1>2, <1>3, <1>8, <2>1, MapGoesOn
  <2>3. QED
    BY <1>5, <1>6, <2>2 DEF GInv
<1>9. CASE ~walk.ended /\ r = Len(walk.seen) + 1 /\ GoesOn(walk.seen, walk.due) /\ r # 1
  <2>1. /\ walk.seen \in Seq(KeysOf(case)) /\ walk.due = KeysKnown
        /\ Len(walk.seen) <= Len(KeysRead)
        /\ \A k \in DOMAIN walk.seen : walk.seen[k] = KeysRead[k].key[1]
    BY <1>2, <1>9 DEF WalkInv
  <2>2. Len(walk.seen) = r - 1 /\ Len(walk.seen) > 0
    BY <1>3, <1>9, <2>1
  <2>3. entries # Unread
    <3>1. entries = Unread => Len(KeysRead) = 0
      BY DEF KeysRead
    <3>2. QED
      BY <2>1, <2>2, <3>1
  <2>4. KeysRead = ks /\ walk.due = d
    BY <1>1, <1>4, <2>1, <2>3 DEF KeysKnown
  <2>5. WalkInv' /\ EndInv'
    BY <1>1, <1>2, <1>3, <1>9, <2>1, <2>2, <2>4, MapGoesOn
  <2>6. QED
    BY <1>5, <1>6, <2>5 DEF GInv
<1>10. CASE ~walk.ended /\ r = Len(walk.seen) + 1 /\ GoesOn(walk.seen, walk.due) /\ r = 1
  <2>1. walk' = NoWalk \/ GoesOn(<<>>, d)
    BY <1>2, <1>10, MapIsKeyed DEF Walked, GoesOn, IsMap, ItemsInv
  <2>2. QED
    BY <1>7, <1>8, <1>10, <2>1
<1>11. QED
  BY <1>2, <1>7, <1>8, <1>9, <1>10, WalkedFacts

\* The invariant speaks of the variables only.
LEMMA StutterInv == ASSUME GInv, UNCHANGED vars PROVE GInv'
<1>1. UNCHANGED <<case, items, walk>> /\ entries' = entries /\ answer' = answer
  BY DEF vars
<1>2. QED
  BY <1>1, StaysInv

\* What the steps of a list do, with what they are about.
Requests ==
    \/ Open
    \/ \E x \in case.inputs : Refuse(x)
    \/ \E v \in KeysOf(case) : case.keyed /\ Find(v)
    \/ \E x \in case.inputs : \E v \in NewValue(case.type, x) :
          /\ Len(items) < MaxItems /\ (case.keyed => v \notin There)
          /\ New(x, v)
    \/ \E v \in KeysOf(case) : case.keyed /\ \E e \in ItemOf(v) : DeleteFound(v, e)
    \/ \E r \in 1..(Len(items) + 1) : Row(r)

\* Next, one request at a time.
LEMMA NextRequests == ASSUME GInv, Next PROVE Requests
<1>1. ItemsInv /\ ReadInv
  BY DEF GInv
<1>2. \A x \in case.inputs : NewValue(case.type, x) \subseteq KeysOf(case)
  BY DEF KeysOf
<1>3. CASE Open
  BY <1>3 DEF Requests
<1>4. ASSUME NEW x \in case.inputs, Refuse(x) PROVE Requests
  BY <1>4 DEF Requests
<1>5. ASSUME NEW x \in case.inputs, NEW v \in NewValue(case.type, x),
             case.keyed, Find(v)
      PROVE  Requests
  BY <1>2, <1>5 DEF Requests
<1>6. ASSUME NEW x \in case.inputs, NEW v \in NewValue(case.type, x),
             case.keyed, Len(items) < MaxItems, Insert(x, v)
      PROVE  Requests
  <2>1. CASE ItemOf(v) # {}
    <3>1. Find(v)
      BY <1>6, <2>1 DEF Insert
    <3>2. QED
      BY <1>5, <1>6, <3>1
  <2>2. CASE ItemOf(v) = {}
    <3>1. New(x, v)
      BY <1>6, <2>2 DEF Insert
    <3>2. v \notin There
      BY <1>1, <1>2, <1>6, <2>2, ItemFound DEF Finds, There
    <3>3. QED
      BY <1>6, <3>1, <3>2 DEF Requests
  <2>3. QED
    BY <2>1, <2>2
<1>7. ASSUME NEW x \in case.inputs, NEW v \in NewValue(case.type, x), case.keyed, Delete(v)
      PROVE  Requests
  <2>1. CASE ItemOf(v) # {}
    <3>1. \E e \in ItemOf(v) : DeleteFound(v, e)
      BY <1>7, <2>1 DEF Delete
    <3>2. QED
      BY <1>2, <1>7, <3>1 DEF Requests
  <2>2. CASE ItemOf(v) = {}
    BY <1>5, <1>7, <2>2 DEF Delete
  <2>3. QED
    BY <2>1, <2>2
<1>8. ASSUME NEW x \in case.inputs, NEW v \in NewValue(case.type, x),
             ~case.keyed, Len(items) < MaxItems, New(x, v)
      PROVE  Requests
  BY <1>8 DEF Requests
<1>9. ASSUME NEW r \in 1..(Len(items) + 1), Row(r) PROVE Requests
  BY <1>9 DEF Requests
<1>10. QED
  BY <1>3, <1>4, <1>5, <1>6, <1>7, <1>8, <1>9 DEF Next

\* The invariant is inductive.
LEMMA StepInv == GInv /\ [Next]_vars => GInv'
<1>1. SUFFICES ASSUME GInv, [Next]_vars PROVE GInv'
  OBVIOUS
<1>2. CASE UNCHANGED vars
  BY <1>1, <1>2, StutterInv
<1>3. CASE Next
  <2>1. Requests
    BY <1>1, <1>3, NextRequests
  <2>2. CASE Open
    BY <1>1, <2>2, OpenInv
  <2>3. ASSUME NEW x \in case.inputs, Refuse(x) PROVE GInv'
    BY <1>1, <2>3, RefuseInv
  <2>4. ASSUME NEW v \in KeysOf(case), case.keyed, Find(v) PROVE GInv'
    BY <1>1, <2>4, FindInv
  <2>5. ASSUME NEW x \in case.inputs, NEW v \in NewValue(case.type, x),
               Len(items) < MaxItems, case.keyed => v \notin There, New(x, v)
        PROVE  GInv'
    BY <1>1, <2>5, NewInv
  <2>6. ASSUME NEW v \in KeysOf(case), case.keyed, NEW e \in ItemOf(v), DeleteFound(v, e)
        PROVE  GInv'
    BY <1>1, <2>6, DeleteInv
  <2>7. ASSUME NEW r \in 1..(Len(items) + 1), Row(r) PROVE GInv'
    BY <1>1, <2>7, SliceRowInv, MapRowInv
  <2>8. QED
    BY <2>1, <2>2, <2>3, <2>4, <2>5, <2>6, <2>7 DEF Requests
<1>4. QED
  BY <1>1, <1>2, <1>3

\* The inductive invariant: what the list and the node's sorted keys are, where
\* a walk over the rows is, and what has been answered (ReflectList).
THEOREM Invariance == Spec => []GInv
<1>1. QED
  BY InitInv, StepInv, PTL DEF Spec

-----------------------------------------------------------------------------
(***************************************************************************)
(* The properties of the runs, for every value of the constants.           *)
(***************************************************************************)
\* What the node has read of a slice is what the slice holds, each key with
\* its item and its place, however it came to be (listSlice.OnNext).
THEOREM TypeSafety == Spec => []TypeOK
<1>1. ASSUME GInv PROVE TypeOK
  <2>1. ItemsInv /\ ReadInv /\ WalkInv
    BY <1>1 DEF GInv
  <2>2. case \in Cases /\ Len(items) <= MaxItems /\ walk.ended \in BOOLEAN
    BY <2>1 DEF ItemsInv, WalkInv
  <2>3. ASSUME ~IsMap, NEW es \in entries
        PROVE  /\ Len(es) = Len(items)
               /\ \A i \in DOMAIN items : \E e \in ToSet(es) :
                     e = [key |-> KeyOf(items[i]), item |-> items[i], pos |-> i]
    <3>1. case.keyed /\ es = BuildKeys
      BY <2>1, <2>2, <2>3, CaseFacts DEF ReadInv, Unread
    <3>2. Len(es) = Len(items) /\ ToSet(es) = EntriesNow
      BY <2>1, <3>1, SliceKeys
    <3>3. \A i \in DOMAIN items :
             EntryAt(i) = [key |-> KeyOf(items[i]), item |-> items[i], pos |-> i]
      BY <2>1, ItemFacts DEF EntryAt
    <3>4. QED
      BY <3>2, <3>3 DEF EntriesNow
  <2>4. QED
    BY <2>2, <2>3 DEF TypeOK
<1>2. QED
  BY <1>1, Invariance, PTL

\* What was written to a leaf is what is read from it, for every type, every
\* Go value that comes in and every field that holds it (childMap, strukt).
THEOREM ReadsBackSafety == Spec => []ReadsBack
<1>1. ASSUME GInv PROVE ReadsBack
  BY <1>1, ItemFacts DEF GInv, ReadsBack
<1>2. QED
  BY <1>1, Invariance, PTL

\* No number that a type can hold is written as another one (val.Conv).
THEOREM AsSaidSafety == Spec => []AsSaid
<1>1. ASSUME GInv PROVE AsSaid
  <2>1. SUFFICES
          ASSUME case.type.format.name \in (DOMAIN Held \
                    {"boolean", "string", "enumeration", "identityref", "decimal64"}),
                 NEW i \in DOMAIN items
          PROVE  SaysAlike(case.type.format.name, items[i].said, items[i].written.v)
    BY DEF AsSaid, SaysAlike
  <2>2. PICK f, x, u : f = case.type.format /\ x = items[i].said /\ u = items[i].written
    OBVIOUS
  <2>3. f.name \in Wholes /\ f.name \in Plain
    BY <2>1, <2>2, HeldFacts DEF Wholes, Plain
  <2>4. ItemsInv /\ case \in Cases
    BY <1>1 DEF GInv, ItemsInv
  <2>5. x \in case.inputs /\ u \in NewValue(case.type, x)
    BY <2>2, <2>4, ItemShape
  <2>6. x \in GoValues
    BY <2>4, <2>5, CaseFacts
  <2>7. u \in Conv(f, x)
    BY <2>2, <2>3, <2>4, <2>5, NewPlain
  <2>8. u.v \in IF f.list THEN ConvertList(f.name, x) ELSE Convert(f.name, x)
    BY <2>7 DEF Conv, Value
  <2>9. SaysAlike(f.name, x, u.v)
    BY <2>3, <2>6, <2>8, SingleSaysAlike, ListSaysAlike
  <2>10. QED
    BY <2>2, <2>9
<1>2. QED
  BY <1>1, Invariance, PTL

\* A walk over the rows meets no item twice and, when it ends, has met all
\* that were there from its beginning (listSlice.OnNext, listMap.OnNext).
THEOREM EveryRowSafety == Spec => []EveryRow
<1>1. ASSUME GInv PROVE EveryRow
  <2>1. ItemsInv /\ ReadInv /\ WalkInv /\ EndInv
    BY <1>1 DEF GInv
  <2>2. IsInjective(walk.seen)
    <3>1. SUFFICES ASSUME NEW a \in DOMAIN walk.seen, NEW b \in DOMAIN walk.seen,
                          walk.seen[a] = walk.seen[b]
                   PROVE  a = b
      BY DEF IsInjective
    <3>2. case.keyed
      <4>1. DOMAIN NoWalk.seen = {}
        BY DEF NoWalk
      <4>2. QED
        BY <2>1, <3>1, <4>1 DEF WalkInv
    <3>3. CASE ~IsMap
      <4>1. /\ walk.seen[a] = items[a].written /\ walk.seen[b] = items[b].written
            /\ walk.seen \in Seq(KeysOf(case)) /\ Len(walk.seen) <= Len(items)
        BY <2>1, <3>3 DEF WalkInv
      <4>2. items \in Seq(ItemsOf(case))
        BY <2>1 DEF ItemsInv
      <4>3. a \in DOMAIN items /\ b \in DOMAIN items
        BY <4>1, <4>2
      <4>4. QED
        BY <2>1, <3>1, <3>2, <4>1, <4>3 DEF ItemsInv
    <3>4. CASE IsMap
      <4>1. PICK ks : ks = KeysRead
        OBVIOUS
      <4>2. /\ walk.seen[a] = ks[a].key[1] /\ walk.seen[b] = ks[b].key[1]
            /\ walk.seen \in Seq(KeysOf(case)) /\ Len(walk.seen) <= Len(ks)
        BY <2>1, <3>4, <4>1 DEF WalkInv
      <4>3. ks \in Seq(KeyEntries(case)) /\ IsInjective(ks)
        <5>1. CASE entries = Unread
          BY <4>1, <5>1 DEF KeysRead, IsInjective
        <5>2. CASE entries # Unread
          BY <2>1, <3>4, <4>1, <5>2, KnownKeys
        <5>3. QED
          BY <5>1, <5>2
      <4>4. a \in DOMAIN ks /\ b \in DOMAIN ks
        BY <4>2, <4>3
      <4>5. ks[a] = ks[b]
        <5>1. ks[a] \in KeyEntries(case) /\ ks[b] \in KeyEntries(case)
          BY <4>3, <4>4, ElementOf
        <5>2. PICK u \in KeysOf(case) : ks[a] = [key |-> <<u>>]
          BY <5>1 DEF KeyEntries
        <5>3. PICK w \in KeysOf(case) : ks[b] = [key |-> <<w>>]
          BY <5>1 DEF KeyEntries
        <5>4. ks[a].key[1] = u /\ ks[b].key[1] = w
          BY <5>2, <5>3
        <5>5. QED
          BY <3>1, <4>2, <5>2, <5>3, <5>4
      <4>6. QED
        BY <4>3, <4>4, <4>5 DEF IsInjective
    <3>5. QED
      BY <3>3, <3>4
  <2>3. QED
    BY <2>1, <2>2 DEF EveryRow, EndInv, There
<1>2. QED
  BY <1>1, Invariance, PTL

-----------------------------------------------------------------------------
(***************************************************************************)
(* A list is a set of keys.                                                *)
(***************************************************************************)
KeysNow == {<<items[i].written>> : i \in DOMAIN items}

\* A key of the list is that of an item.
LEMMA HasKey ==
  /\ \A v : <<v>> \in KeysNow <=> v \in There
  /\ \A k \in KeysNow : \E v \in There : k = <<v>>
<1>1. \A v, w : <<v>> = <<w>> <=> v = w
  OBVIOUS
<1>2. QED
  BY <1>1 DEF KeysNow, There

\* The fields of an answer.
LEMMA AnswerFields ==
  ASSUME NEW is, NEW k, NEW i
  PROVE  /\ Answer(is, k, i).is = is /\ Answer(is, k, i).key = k
         /\ Answer(is, k, i).item = i /\ Set!Said(is, k, i) = Answer(is, k, i)
  BY DEF Answer, Set!Said

\* A search answers as the set does.
LEMMA FindAsSet ==
  ASSUME GInv, case.keyed, NEW v \in KeysOf(case), Find(v)
  PROVE  Set!Find(answer'.key) /\ answer'.key = <<v>>
<1>1. KeysNow' = KeysNow
  BY DEF Find, KeysNow
<1>2. Finds(v, ItemOf(v))
  BY ItemFound DEF GInv
<1>3. ItemOf(v) = {} <=> v \notin There
  BY <1>2 DEF Finds, There
<1>4. CASE ItemOf(v) = {}
  <2>1. answer' = Answer("missing", <<v>>, <<>>)
    BY <1>4 DEF Find
  <2>2. <<v>> \notin KeysNow /\ answer'.key = <<v>>
    BY <1>3, <1>4, <2>1, HasKey, AnswerFields
  <2>3. QED
    BY <1>1, <2>1, <2>2, AnswerFields DEF Set!Find, KeysNow
<1>5. CASE ItemOf(v) # {}
  <2>1. PICK e \in ItemOf(v) : answer' = Answer("found", <<v>>, <<e.item.written>>)
    BY <1>5 DEF Find
  <2>2. e.item.written = v
    BY <1>2 DEF Finds
  <2>3. <<v>> \in KeysNow /\ answer'.key = <<v>>
    BY <1>3, <1>5, <2>1, HasKey, AnswerFields
  <2>4. QED
    BY <1>1, <2>1, <2>2, <2>3, AnswerFields DEF Set!Find, KeysNow
<1>6. QED
  BY <1>4, <1>5

\* A new item adds its key.
LEMMA NewAsSet ==
  ASSUME GInv, NEW x \in case.inputs, NEW v \in NewValue(case.type, x),
         case.keyed => v \notin There, New(x, v)
  PROVE  Set!Insert(answer'.key) \/ Set!Append(answer'.key)
<1>1. /\ items \in Seq(ItemsOf(case)) /\ case \in Cases
      /\ items' = Append(items, Item(x, v))
  BY DEF GInv, ItemsInv, New
<1>2. Item(x, v) \in ItemsOf(case) /\ Item(x, v).written = v
  BY DEF Item, ItemsOf
<1>3. /\ DOMAIN items' = 1..(Len(items) + 1)
      /\ \A i \in DOMAIN items : i \in DOMAIN items' /\ items'[i] = items[i]
      /\ items'[Len(items) + 1] = Item(x, v)
  BY <1>1, <1>2, Appended
<1>4. \A i \in DOMAIN items' : i \in DOMAIN items \/ i = Len(items) + 1
  BY <1>1, <1>3
<1>5. Len(items) + 1 \in DOMAIN items'
  BY <1>1, <1>3
<1>6. KeysNow' = KeysNow \union {<<v>>}
  BY <1>2, <1>3, <1>4, <1>5 DEF KeysNow
<1>7. CASE case.keyed
  <2>1. answer' = Answer("made", <<v>>, <<v>>)
    BY <1>7 DEF New
  <2>2. <<v>> \notin KeysNow /\ answer'.key = <<v>>
    BY <1>7, <2>1, HasKey, AnswerFields
  <2>3. Set!Insert(answer'.key)
    BY <1>6, <2>1, <2>2, AnswerFields DEF Set!Insert, KeysNow
  <2>4. QED
    BY <2>3
<1>8. CASE ~case.keyed
  <2>1. answer' = Answer("appended", <<v>>, <<v>>)
    BY <1>8 DEF New
  <2>2. answer'.key = <<v>>
    BY <2>1, AnswerFields
  <2>3. Set!Append(answer'.key)
    BY <1>6, <2>1, <2>2, AnswerFields DEF Set!Append, KeysNow
  <2>4. QED
    BY <2>3
<1>9. QED
  BY <1>1, <1>7, <1>8, CaseFacts

\* A deletion removes the key of the item that was found.
LEMMA DeleteAsSet ==
  ASSUME GInv, case.keyed, NEW v \in KeysOf(case), NEW e \in ItemOf(v), DeleteFound(v, e)
  PROVE  Set!Delete(answer'.key)
<1>1. PICK p : p = e.pos
  OBVIOUS
<1>2. /\ ItemsInv /\ p \in DOMAIN items /\ e.item.written = v /\ items[p].written = v
  BY <1>1, ItemFound DEF Finds, GInv
<1>3. /\ items' = RemoveAt(items, p)
      /\ answer' = Answer("deleted", <<v>>, <<v>>)
  BY <1>1, <1>2 DEF DeleteFound
<1>4. /\ \A i \in DOMAIN items' : \E j \in DOMAIN items \ {p} : items'[i] = items[j]
      /\ \A j \in DOMAIN items \ {p} : \E i \in DOMAIN items' : items'[i] = items[j]
  <2>1. AllBut(p, items')
    BY <1>2, <1>3, DeletedItems
  <2>2. QED
    BY <2>1 DEF AllBut
<1>5. \A j \in DOMAIN items : j = p <=> items[j].written = v
  BY <1>2 DEF ItemsInv
<1>6. There' = There \ {v}
  <2>1. \A w \in There' : w \in There /\ w # v
    BY <1>4, <1>5 DEF There
  <2>2. \A w \in There : w # v => w \in There'
    BY <1>4, <1>5 DEF There
  <2>3. v \notin There'
    BY <2>1
  <2>4. QED
    BY <2>1, <2>2, <2>3
<1>7. KeysNow = {<<w>> : w \in There} /\ KeysNow' = {<<w>> : w \in There'}
  BY DEF KeysNow, There
<1>8. \A w : <<w>> = <<v>> <=> w = v
  OBVIOUS
<1>9. KeysNow' = KeysNow \ {<<v>>}
  BY <1>6, <1>7, <1>8
<1>10. <<v>> \in KeysNow
  BY <1>2 DEF KeysNow
<1>11. answer'.key = <<v>>
  BY <1>3, AnswerFields
<1>12. QED
  BY <1>3, <1>9, <1>10, <1>11, AnswerFields DEF Set!Delete, KeysNow

\* A row is of a key that is there, or there is none.
LEMMA RowAsSet ==
  ASSUME GInv, NEW r \in 1..(Len(items) + 1), Row(r)
  PROVE  Set!Row(answer'.item) \/ Set!Nothing
<1>1. ItemsInv /\ ReadInv /\ KeysNow' = KeysNow
  BY DEF GInv, Row, KeysNow
<1>2. r \in Nat \ {0}
  <2>1. items \in Seq(ItemsOf(case))
    BY <1>1 DEF ItemsInv
  <2>2. QED
    BY <2>1
<1>3. \/ answer' = Answer("end", <<>>, <<>>)
      \/ \E v \in There : answer' = Answer("row", <<>>, <<v>>)
  <2>1. CASE IsMap
    <3>1. MapRow(r)
      BY <2>1 DEF Row
    <3>2. QED
      BY <1>1, <1>2, <2>1, <3>1, MapAnswers
  <2>2. CASE ~IsMap
    <3>1. SliceRow(r)
      BY <2>2 DEF Row
    <3>2. QED
      BY <1>1, <1>2, <3>1, SliceAnswers DEF There
  <2>3. QED
    BY <2>1, <2>2
<1>4. CASE answer' = Answer("end", <<>>, <<>>)
  BY <1>1, <1>4, AnswerFields DEF Set!Nothing, KeysNow
<1>5. ASSUME NEW v \in There, answer' = Answer("row", <<>>, <<v>>)
      PROVE  Set!Row(answer'.item)
  <2>1. <<v>> \in KeysNow /\ answer'.item = <<v>>
    BY <1>5, HasKey, AnswerFields
  <2>2. QED
    BY <1>1, <1>5, <2>1, AnswerFields DEF Set!Row, KeysNow
<1>6. QED
  BY <1>3, <1>4, <1>5

\* Each step of the list is one of the set, or none.
LEMMA StepAsSet == GInv /\ [Next]_vars => [Set!Next]_Set!vars
<1>1. SUFFICES ASSUME GInv, [Next]_vars PROVE [Set!Next]_Set!vars
  OBVIOUS
<1>2. CASE UNCHANGED vars
  BY <1>2 DEF vars, Set!vars
<1>3. CASE Next
  <2>1. Requests
    BY <1>1, <1>3, NextRequests
  <2>2. CASE Open
    BY <2>2 DEF Open, Set!vars
  <2>3. ASSUME NEW x \in case.inputs, Refuse(x) PROVE Set!Next
    <3>1. KeysNow' = KeysNow /\ answer' = Answer("refused", <<>>, <<>>)
      BY <2>3 DEF Refuse, KeysNow
    <3>2. Set!Nothing
      BY <3>1, AnswerFields DEF Set!Nothing, KeysNow
    <3>3. QED
      BY <3>2 DEF Set!Next
  <2>4. ASSUME NEW v \in KeysOf(case), case.keyed, Find(v) PROVE Set!Next
    BY <1>1, <2>4, FindAsSet DEF Set!Next
  <2>5. ASSUME NEW x \in case.inputs, NEW v \in NewValue(case.type, x),
               Len(items) < MaxItems, case.keyed => v \notin There, New(x, v)
        PROVE  Set!Next
    BY <1>1, <2>5, NewAsSet DEF Set!Next
  <2>6. ASSUME NEW v \in KeysOf(case), case.keyed, NEW e \in ItemOf(v), DeleteFound(v, e)
        PROVE  Set!Next
    BY <1>1, <2>6, DeleteAsSet DEF Set!Next
  <2>7. ASSUME NEW r \in 1..(Len(items) + 1), Row(r) PROVE Set!Next
    BY <1>1, <2>7, RowAsSet DEF Set!Next
  <2>8. QED
    BY <2>1, <2>2, <2>3, <2>4, <2>5, <2>6, <2>7 DEF Requests
<1>4. QED
  BY <1>1, <1>2, <1>3

\* KeySpec: over a slice or over a map, sorted, searched, cached and walked, a
\* list answers every request as a set of keys does (listSlice, listMap).
THEOREM ListIsASet == Spec => KeySpec
<1>1. Init => Set!Init
  BY DEF Init, Set!Init, Answer, Set!Said
<1>2. GInv /\ [Next]_vars => [Set!Next]_Set!vars
  BY StepAsSet
<1>3. Spec => []GInv
  BY Invariance
<1>4. QED
  BY <1>1, <1>2, <1>3, PTL DEF Spec, KeySpec, Set!Spec
=============================================================================
