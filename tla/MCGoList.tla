------------------------------ MODULE MCGoList ------------------------------
(* Leaves of every type, each with the Go values that come in for it: what *)
(* the width and the windows tell apart, and what is refused.              *)
EXTENDS GoList

MCSpan == (8 :> 2 ^ 8) @@ (16 :> 2 ^ 16) @@ (32 :> 2 ^ 20) @@ (64 :> 2 ^ 24)
MCNumbers == {-129, -1, 0, 1, 5, 126, 127, 128, 143, 255, 256, 65535, 65536,
              2 ^ 20 - 1, 2 ^ 20, 2 ^ 23 - 1, 2 ^ 23}
MCOrdered == <<"", "-1", "0", "1", "2", "5", "blue", "no", "red", "true",
               "yes">>

Text(t) == GoText("string", 0, t)
Texts(ts) == {Text(t) : t \in ts}
Number(n) == Text(ToString(n))
Float(halves) == Go("float64", halves)
Mixed(vs) == GoSlice("[]interface{}", vs)
Strings(ts) == GoSlice("[]string", [i \in DOMAIN ts |-> Text(ts[i])])

Single(name) == Type(Format(name, FALSE), <<>>, {}, <<>>)
List(name) == Type(Format(name, TRUE), <<>>, {}, <<>>)
Colours == <<[id |-> 0, label |-> "red"], [id |-> 5, label |-> "blue"]>>
Colour(list) == Type(Format("enumeration", list), Colours, {}, <<>>)
Kind(list) == Type(Format("identityref", list), <<>>, {"red", "blue"}, <<>>)
Union == Type(Format("union", FALSE), <<>>, {},
              <<Format("int8", FALSE), Format("boolean", FALSE),
                Format("string", FALSE)>>)

Case(type, field, keyed, inputs) ==
    [list |-> "slice", type |-> type, field |-> field, keyed |-> keyed, inputs |-> inputs]
OverMap(c) == [c EXCEPT !.list = "map"]

(* The keys of lists: as text from a path, and as JSON or Go has them.     *)
Keyed ==
    {Case(Single("int32"), "int", TRUE,
          {Number(-1), Number(5), Float(2), Go("int", 5), Text("red")}),
     Case(Single("int64"), "map", TRUE,
          {Number(-1), Number(127), Go("Time", 5), Go("uint64", 2 ^ 22)}),
     Case(Single("int8"), "map", TRUE,
          {Number(0), Number(126), Go("named", 5), Go("uint8", 5), Number(256)}),
     Case(Single("string"), "string", TRUE,
          Texts({"red", "blue", "5"}) \union {Go("int", 5), Float(3)}),
     Case(Single("boolean"), "bool", TRUE,
          Texts({"true", "0", "no"}) \union {Go("bool", 1)}),
     Case(Single("decimal64"), "map", TRUE, {Number(5), Float(3), Float(-1)}),
     Case(Colour(FALSE), "int", TRUE,
          Texts({"red", "blue", "5", "no"}) \union {Go("int", 0)}),
     Case(Colour(FALSE), "string", TRUE, Texts({"red", "blue", "0"})),
     Case(Kind(FALSE), "string", TRUE, Texts({"red", "blue", "no"}))}

(* Leaves and leaf-lists at the edges of their types.                      *)
Edges ==
    {Case(Single("int8"), "int8", FALSE,
          {Number(127), Number(128 - 256), Go("int8", -1), Go("int", 127),
           Go("uint64", 5), Go("bool", 1)}),
     Case(Single("uint8"), "uint8", FALSE,
          {Number(0), Number(255), Number(256), Number(-1), Float(510)}),
     Case(Single("int16"), "map", FALSE,
          {Number(143), Number(-129), Number(256), Go("uint8", 255)}),
     Case(Single("uint16"), "map", FALSE,
          {Number(65535), Number(65536), Go("int16", 5), Go("int", 65535)}),
     Case(Single("uint32"), "map", FALSE,
          {Number(2 ^ 20 - 1), Number(2 ^ 20), Number(-1),
           Go("uint64", 2 ^ 20 - 1)}),
     Case(Single("uint64"), "uint64", FALSE,
          {Number(2 ^ 23 - 1), Number(2 ^ 23), Go("uint64", 2 ^ 24 - 1),
           Go("Time", 5), Float(2), Go("named", 5)}),
     Case(Single("string"), "map", FALSE, {Text(""), Go("bool", 0)}),
     Case(Union, "map", FALSE,
          {Number(5), Number(256), Text("true"), Text("red"), Go("bool", 0)}),
     Case(List("int8"), "map", FALSE,
          {Number(5), Mixed(<<Number(1), Float(2)>>), Strings(<<"1", "red">>)}),
     Case(List("uint32"), "map", FALSE,
          {GoSlice("[]uint32", <<Go("uint32", 5)>>), Go("int", 1),
           GoSlice("[]float64", <<Float(2), Float(0)>>)}),
     Case(List("int64"), "map", FALSE,
          {GoSlice("[]int", <<Go("int", 5), Go("int", -1)>>),
           GoSlice("[]Time", <<Go("Time", 5)>>), Mixed(<<>>)}),
     Case(List("string"), "map", FALSE,
          {Strings(<<"red", "5">>), Mixed(<<Go("int", 5), Float(2)>>), Text("red")}),
     Case(List("boolean"), "map", FALSE,
          {Strings(<<"yes", "0">>), Mixed(<<Go("bool", 1), Text("no")>>)}),
     Case(List("decimal64"), "map", FALSE,
          {Go("int", 5), Mixed(<<Float(3), Number(1)>>),
           GoSlice("[]float64", <<Float(3)>>)})}

(* Maps by a string and by a number, as text, JSON or Go has it.           *)
Maps ==
    {OverMap(Case(Single("string"), "string", TRUE, Texts({"red", "blue", "5"}) \union {Go("int", 5)})),
     OverMap(Case(Single("int32"), "map", TRUE, {Number(-1), Number(5), Float(2), Text("red")}))}

MCCases == Keyed \union Edges \union Maps

=============================================================================
