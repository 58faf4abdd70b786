------------------------------- MODULE Vault -------------------------------
(***************************************************************************)
(* The Obsidian vault as the executor sees it, and the operations of a     *)
(* VaultPlan on it (internal/executor/direct_fs.go).  A note is the set of *)
(* marks written into it: who contributed which text.  ContentHash is      *)
(* taken to be injective, so comparing before_hash with the hash of a note *)
(* is comparing two sets of marks.                                         *)
(***************************************************************************)
EXTENDS Naturals, Sequences

CONSTANTS Paths,    \* vault-relative paths
          Absent    \* what stands at a path where there is no file

\* The operation types applyOperation accepts; create_note and
\* write_agent_report take the same branch everywhere.
OpKinds == {"create", "append", "rewrite", "move"}

\* An operation of a plan; dest is the destination of a move, else path itself.
Op == [kind : OpKinds, path : Paths, dest : Paths]

\* The paths an operation names; target_paths of a plan lists them all.
OpPaths(op) == {op.path, op.dest}

\* Mutant: before_hash is not compared.
OpReadyUnguarded(v, op, h) ==
    /\ (v[op.path] = Absent) <=> (op.kind = "create")
    /\ op.kind = "move" => v[op.dest] = Absent

(***************************************************************************)
(* The condition under which an operation goes ahead on vault v when h is  *)
(* the before_hash recorded by Prepare: a create wants nothing at its      *)
(* path, the others want the note they saw, a move also a free             *)
(* destination.  preflightApply and the guarded reads of applyOperation    *)
(* test the same things.                                                   *)
(***************************************************************************)
OpReady(v, op, h) ==
    /\ IF op.kind = "create" THEN v[op.path] = Absent
                             ELSE v[op.path] # Absent /\ v[op.path] = h
    /\ op.kind = "move" => v[op.dest] = Absent

(***************************************************************************)
(* How a refused operation is reported: a note that has gone missing is    *)
(* an ordinary error of open(2), everything else is a conflictError.       *)
(***************************************************************************)
OpVerdict(v, op, h) ==
    IF OpReady(v, op, h) THEN "ok"
    ELSE IF op.kind # "create" /\ v[op.path] = Absent THEN "failed"
    ELSE "conflict"

\* The note an operation leaves behind; mark stands for the plan's text.
NoteAfter(note, op, mark) ==
    IF op.kind \in {"append", "move"} THEN note \cup {mark} ELSE {mark}

\* The vault after an operation.
OpApplied(v, op, mark) ==
    IF op.kind = "move"
    THEN [v EXCEPT ![op.path] = Absent,
                   ![op.dest] = NoteAfter(v[op.path], op, mark)]
    ELSE [v EXCEPT ![op.path] = NoteAfter(v[op.path], op, mark)]

(***************************************************************************)
(* moveNote that moved the note and then failed to append its processing   *)
(* note: the re-read of the destination or safeWriteReplace gave an error. *)
(***************************************************************************)
MoveHalfApplied(v, op) ==
    [v EXCEPT ![op.path] = Absent, ![op.dest] = v[op.path]]

\* Every mark that stands somewhere in the vault.
MarksIn(v) == UNION {v[f] : f \in {g \in Paths : v[g] # Absent}}
=============================================================================
