---------------------------- MODULE ConfigProxy ----------------------------
(***************************************************************************)
(* nodeutil/config_proxy.go over nodeutil/copy_on_write.go: two copies of  *)
(* the configuration, one local and one at a remote node.  An edit of the  *)
(* proxy reads the local copy and collects what it writes in a node of its *)
(* own, which is merged into the remote node and then into the local one.  *)
(*                                                                         *)
(* Each of the three is an edit of its own and has the outcomes of         *)
(* DataStore: the merge, or an error and part of it.  The proxy's root is  *)
(* made anew for every call, as NewBrowserSource does.  Left out are the   *)
(* errors that an edit drops while it clears a case (Edit's ChooseError    *)
(* and FindError), and copies that hold two cases of one choice.           *)
(***************************************************************************)
EXTENDS Merge

VARIABLES
  local, remote, \* the two copies
  op, from,      \* the call and the data it is given
  changes,       \* what the edit has written
  status,        \* "idle", "ok", "failed", or the step that is next
  before,        \* both copies as the call found them
  first,         \* both copies as the first of a run of equal attempts found them
  refused        \* the edit of the caller or the remote node has failed

vars == <<local, remote, op, from, changes, status, before, first, refused>>

Resting == status \in {"idle", "ok", "failed"}

Both == [local |-> local, remote |-> remote]
Agree(copies) == copies.local = copies.remote

Nothing == [p \in Pos |-> IF p = Root THEN Obj ELSE Absent]

\* What an edit that fails half way may leave.
Partial(t, m) ==
  { [p \in Pos |-> IF p \in done THEN m[p] ELSE t[p]] :
      done \in SUBSET {p \in Pos : m[p] # t[p]} }

\* UpsertInto
Upserted(t) ==
  Merge([kind |-> "upsert", base |-> op.base, dir |-> "into", defaults |-> FALSE],
        changes, t)

-----------------------------------------------------------------------------
(***************************************************************************)
(* CopyOnWrite: lookups read the local copy and make an empty node in      *)
(* changes for what they find, writes go to changes, deletions to the      *)
(* local copy.                                                             *)
(***************************************************************************)
Gives(p) == Given(op, from, local, p)

\* The containers of another case that the edit looks up to delete them.
Deleted ==
  {p \in Below[op.base] \cap Inner :
     p # op.base /\ local[p] # Absent /\ Displaced(op, [q \in Pos |-> Gives(q)], p)}

\* Bug: only what the source holds is written.
WrittenOnlyGiven ==
  [p \in Pos |-> IF op.base \in Below[p] THEN Obj
                 ELSE IF Gives(p) # Absent THEN from[p] ELSE Absent]

Written ==
  [p \in Pos |-> IF op.base \in Below[p] \/ p \in Deleted THEN Obj ELSE Gives(p)]

Kept == [p \in Pos |-> IF \E a \in Deleted : p \in Below[a] THEN Absent ELSE local[p]]

-----------------------------------------------------------------------------
Init ==
  /\ local \in Targets /\ remote = local
  /\ op = CHOOSE r \in Requests : TRUE
  /\ from \in Seen
  /\ changes = Nothing
  /\ status = "idle"
  /\ before = Both
  /\ first = Both
  /\ refused = FALSE

\* The proxy of a place that only one side has panics and is not asked for.
Call(r, src) ==
  /\ Resting
  /\ local[r.base] # Absent /\ remote[r.base] # Absent /\ src[r.base] # Absent
  /\ op' = r /\ from' = src
  /\ changes' = Nothing
  /\ before' = Both
  /\ first' = IF status = "failed" /\ r = op /\ src = from THEN first ELSE Both
  /\ status' = IF r.kind = "delete" THEN "drop" ELSE "collect"
  /\ refused' = FALSE
  /\ UNCHANGED <<local, remote>>

\* The edit of the caller, on the copy-on-write node that OnBeginEdit made.
Collect ==
  /\ status = "collect"
  /\ ~Refused(op, from, local)
  /\ changes' = Written
  /\ local' = Kept
  /\ status' = "send"
  /\ UNCHANGED <<remote, op, from, before, first, refused>>

CollectFails ==
  /\ status = "collect"
  /\ local' \in Partial(local, Kept) /\ Rooted(local')
  /\ status' = "failed" /\ refused' = TRUE
  /\ UNCHANGED <<remote, op, from, changes, before, first>>

\* OnEndEdit, the remote node first.
Send ==
  /\ status = "send"
  /\ remote' = Upserted(remote)
  /\ status' = "save"
  /\ UNCHANGED <<local, op, from, changes, before, first, refused>>

\* Bug: the error of the remote node is only logged.
SendFailsOnward ==
  /\ status = "send"
  /\ remote' \in Partial(remote, Upserted(remote)) /\ Rooted(remote')
  /\ status' = "save"
  /\ UNCHANGED <<local, op, from, changes, before, first, refused>>

SendFails ==
  /\ status = "send"
  /\ remote' \in Partial(remote, Upserted(remote)) /\ Rooted(remote')
  /\ status' = "failed" /\ refused' = TRUE
  /\ UNCHANGED <<local, op, from, changes, before, first>>

\* Bug: what the caller gave is saved, not what the edit made of it.
SaveGiven ==
  /\ status = "save"
  /\ local' = Merge([op EXCEPT !.kind = "upsert", !.defaults = FALSE], from, local)
  /\ status' = "ok"
  /\ UNCHANGED <<remote, op, from, changes, before, first, refused>>

Save ==
  /\ status = "save"
  /\ local' = Upserted(local)
  /\ status' = "ok"
  /\ UNCHANGED <<remote, op, from, changes, before, first, refused>>

SaveFails ==
  /\ status = "save"
  /\ local' \in Partial(local, Upserted(local)) /\ Rooted(local')
  /\ status' = "failed"
  /\ UNCHANGED <<remote, op, from, changes, before, first, refused>>

\* Bug: what is under it stays.
DropLocalOnly ==
  /\ status = "drop"
  /\ \/ local' = [local EXCEPT ![op.base] = Absent] /\ status' = "dropRemote"
     \/ status' = "failed" /\ UNCHANGED local
  /\ UNCHANGED <<remote, op, from, changes, before, first, refused>>

\* A deletion is no edit of the proxy: its OnChild and OnNext pass it on.
DropLocal ==
  /\ status = "drop"
  /\ \/ local' = Erase(local, op.base) /\ status' = "dropRemote"
     \/ status' = "failed" /\ UNCHANGED local
  /\ UNCHANGED <<remote, op, from, changes, before, first, refused>>

DropRemote ==
  /\ status = "dropRemote"
  /\ \/ remote' = Erase(remote, op.base) /\ status' = "ok" /\ UNCHANGED refused
     \/ status' = "failed" /\ refused' = TRUE /\ UNCHANGED remote
  /\ UNCHANGED <<local, op, from, changes, before, first>>

Next ==
  \/ \E r \in Requests, src \in Seen : Call(r, src)
  \/ Collect \/ CollectFails \/ Send \/ SendFails \/ Save \/ SaveFails
  \/ DropLocal \/ DropRemote

Spec == Init /\ [][Next]_vars

-----------------------------------------------------------------------------
\* Every variable has its type.
TypeOK ==
  /\ \A t \in {local, remote, changes, before.local, before.remote} : WellTyped(t) /\ Rooted(t)
  /\ op \in Requests /\ from \in Seen
  /\ status \in {"idle", "ok", "failed", "collect", "send", "save", "drop", "dropRemote"}

\* config_proxy.go 10-14: the local copy behaves as if it had been edited itself,
\* although it is read, collected from and merged into in separate steps.
Store == INSTANCE DataStore WITH
  store <- IF Resting THEN local ELSE before.local,
  status <- IF Resting THEN status ELSE "running",
  dropped <- FALSE

LocalSpec == Store!Spec

\* config_proxy.go 10-14, "for config writes send a copy to far end and if returns
\* ok then trigger storage to save": whatever failed before, the local copy holds
\* nothing that the remote one does not, and a write that the far end refuses
\* leaves the local copy alone. Not so a deletion (98-107): the local copy is
\* erased first, and stays so when the remote one then refuses.
RemoteFirst ==
  /\ \A p \in Pos : local[p] # Absent => remote[p] # Absent
  /\ refused => local = IF op.kind = "delete" THEN Erase(before.local, op.base) ELSE before.local

\* Two copies that agree still agree after a call that succeeds; after failed
\* attempts at the same upsert they differ in nothing but defaults: what a failed
\* attempt created is not new to the next one.
CopiesAgree ==
  status = "ok" =>
    /\ Agree(before) => local = remote
    /\ op.kind = "upsert" /\ Agree(first) =>
         \A p \in Pos : local[p] # remote[p] => p \in Leaves /\ from[p] = Absent
=============================================================================
