------------------------------- MODULE KeySet -------------------------------
(***************************************************************************)
(* What a list node promises the edits and the navigation that call its    *)
(* OnNext: it is a set of keys.  A key that is there is found and a key    *)
(* that is not is not, whatever was asked before.  "answer" holds what the *)
(* last request asked for and the key of the item it was answered with.    *)
(***************************************************************************)
EXTENDS Naturals

VARIABLES keys, answer

vars == <<keys, answer>>

Said(is, key, item) == [is |-> is, key |-> key, item |-> item]

Init == keys = {} /\ answer = Said("none", <<>>, <<>>)

Find(k) ==
    /\ answer' = IF k \in keys THEN Said("found", k, k) ELSE Said("missing", k, <<>>)
    /\ UNCHANGED keys

(* The edit looks a key up before it asks for a new item.                  *)
Insert(k) ==
    IF k \in keys THEN Find(k)
    ELSE /\ keys' = keys \union {k}
         /\ answer' = Said("made", k, k)

Delete(k) ==
    IF k \notin keys THEN Find(k)
    ELSE /\ keys' = keys \ {k}
         /\ answer' = Said("deleted", k, k)

(* An item of a list without keys.                                         *)
Append(k) ==
    /\ keys' = keys \union {k}
    /\ answer' = Said("appended", k, k)

Row(k) ==
    /\ k \in keys
    /\ answer' = Said("row", <<>>, k)
    /\ UNCHANGED keys

(* A row past the last one, or a text that is no key.                      *)
Nothing ==
    /\ answer' \in {Said(is, <<>>, <<>>) : is \in {"end", "refused"}}
    /\ UNCHANGED keys

(* Every answer names the key it is about.                                 *)
Next ==
    \/ Find(answer'.key) \/ Insert(answer'.key) \/ Delete(answer'.key)
    \/ Append(answer'.key) \/ Row(answer'.item)
    \/ Nothing

Spec == Init /\ [][Next]_vars
=============================================================================
