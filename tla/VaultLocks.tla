----------------------------- MODULE VaultLocks -----------------------------
(***************************************************************************)
(* The vault_locks table (internal/storage/store.go): one row per locked   *)
(* target_path, the plan it belongs to and an expires_at.  owner[f] is the *)
(* plan_id of the row of path f, NoPlan when there is none; lapsed is the  *)
(* set of paths whose row has an expires_at in the past.  Every statement  *)
(* of the store on this table is one operator below.                       *)
(***************************************************************************)
CONSTANT NoPlan

\* DELETE ... WHERE expires_at = '' OR expires_at <= now
Reaped(owner, lapsed) ==
    [f \in DOMAIN owner |-> IF f \in lapsed THEN NoPlan ELSE owner[f]]

\* The INSERTs all go through: target_path is the primary key, and one that
\* is taken rolls the transaction back, the reaping with it.
Acquirable(owner, lapsed, paths) ==
    \A f \in paths : Reaped(owner, lapsed)[f] = NoPlan

\* The table after AcquireLocks(paths, p).
Acquired(owner, lapsed, paths, p) ==
    [f \in DOMAIN owner |-> IF f \in paths THEN p ELSE Reaped(owner, lapsed)[f]]

\* The rows DELETE ... WHERE plan_id = p removes.
RowsOf(owner, p) == {f \in DOMAIN owner : owner[f] = p}

\* The table after ReleaseLocks(p).
Released(owner, p) ==
    [f \in DOMAIN owner |-> IF owner[f] = p THEN NoPlan ELSE owner[f]]
=============================================================================
