----------------------------- MODULE Deviations -----------------------------
(***************************************************************************)
(* applyDeviation (meta/resolver.go): what a deviation does to its target. *)
(* A step takes r = [h, err] and changes nothing once err is set.  The     *)
(* target is asserted to be what the change needs (HasDetails, Leafable,   *)
(* HasListDetails, HasMusts): when it is not, the nil interface panics.    *)
(***************************************************************************)
EXTENDS Builder
LOCAL INSTANCE SequencesExt

Needs == [config |-> HasDetails, mandatory |-> HasDetails, max |-> HasListDetails,
          min |-> HasListDetails, units |-> Leafable, default |-> Leafable]

Failing(r, err) == IF r.err = "" THEN [r EXCEPT !.err = err] ELSE r

\* One field of the deviate d: guarded by what the target t may already have.
Change(r, d, t, f, refuses) ==
    CASE r.err # "" \/ ~IsSet(r.h, d, f) -> r
      [] r.err = "" /\ IsSet(r.h, d, f) /\ ~Is(r.h, t, Needs[f]) -> Failing(r, "panic")
      [] OTHER -> IF r.h[t].kind = "any" /\ f \in {"units", "default"} THEN Failing(r, "panic")
                  ELSE IF refuses THEN Failing(r, "error")
                  ELSE [r EXCEPT !.h = Put(@, t, f, r.h[d].at[f])]

AddField(r, d, t, f) == Change(r, d, t, f, IsSet(r.h, t, f))
ReplaceField(r, d, t, f) == Change(r, d, t, f, ~IsSet(r.h, t, f))

\* addMust gives the deviate's must itself to the target.
AddMusts(r, d, t) ==
    FoldLeft(LAMBDA s, m : IF s.err # "" THEN s
                           ELSE IF ~Is(s.h, t, Kinds("musts")) THEN Failing(s, "panic")
                           ELSE [s EXCEPT !.h = Push([@ EXCEPT ![m].parent = t], t, "musts", m)],
             r, Kids(r.h, d, "musts"))

\* deviate add: the musts are added before units and default, and once more
\* at the end.
Add1(r, d, t) ==
    LET fields(s, fs) == FoldLeft(LAMBDA x, f : AddField(x, d, t, f), s, fs)
    IN  IF d = Nil THEN r
        ELSE AddMusts(fields(AddMusts(fields(r, <<"config", "mandatory", "max", "min">>), d, t),
                             <<"units", "default">>), d, t)

\* deviate replace: a type is read by the parser and never applied.
Replace1(r, d, t) ==
    IF d = Nil THEN r
    ELSE FoldLeft(LAMBDA x, f : ReplaceField(x, d, t, f), r,
                  <<"config", "mandatory", "max", "min", "units", "default">>)

\* deviate delete: refused when the target has the very value to delete.
DeleteField(r, d, t, f) ==
    CASE r.err # "" \/ ~IsSet(r.h, d, f) -> r
      [] r.err = "" /\ IsSet(r.h, d, f) /\ ~Is(r.h, t, Leafable \ {"any"}) -> Failing(r, "panic")
      [] OTHER -> IF IsSet(r.h, t, f) /\ r.h[t].at[f] = r.h[d].at[f] THEN Failing(r, "error")
                  ELSE [r EXCEPT !.h = Unset(@, t, f)]

DeleteMust(r, m, t) ==
    LET musts == Kids(r.h, t, "musts")
        kept == SelectSeq(musts, LAMBDA c : r.h[c].ident # r.h[m].ident)
    IN  CASE r.err # "" -> r
          [] r.err = "" /\ ~Is(r.h, t, Kinds("musts")) -> Failing(r, "panic")
          [] OTHER -> IF kept = musts THEN Failing(r, "error") ELSE [r EXCEPT !.h = Put(@, t, "musts", kept)]

Delete1(r, d, t) ==
    IF d = Nil THEN r
    ELSE FoldLeft(LAMBDA s, m : DeleteMust(s, m, t),
                  DeleteField(DeleteField(r, d, t, "units"), d, t, "default"),
                  Kids(r.h, d, "musts"))

\* not-supported: an action or a notification leaves its map, any other
\* definition leaves the data definitions of its parent, which are all put
\* back except for it.
Forget(h, t, f) ==
    LET p == h[t].parent IN Put(h, p, f, [n \in DOMAIN Kids(h, p, f) \ {h[t].ident} |-> h[p].at[f][n]])

Remove1(h, t) ==
    LET p == h[t].parent
        keep == SelectSeq(Kids(h, p, "defs"), LAMBDA d : d # t)
    IN  CASE h[t].kind = "rpc" -> Forget(h, t, "actions")
          [] h[t].kind = "notification" -> Forget(h, t, "notifs")
          [] OTHER -> FoldLeft(LAMBDA g, d : AddDef(g, p, d), PopDefs(h, p), keep)

Deviated(h, d, y) ==
    LET t == Find(h, y, h[d].ident)
        r == [h |-> h, err |-> ""]
    IN  CASE t = Nil -> Failing(r, "error")
          [] t = Panic -> Failing(r, "panic")
          [] OTHER -> IF IsSet(h, d, "notSupported") THEN [r EXCEPT !.h = Remove1(h, t)]
                      ELSE Delete1(Replace1(Add1(r, Pointer(h, d, "add"), t),
                                            Pointer(h, d, "replace"), t),
                                   Pointer(h, d, "delete"), t)
=============================================================================
