------------------------------ MODULE DirectFS ------------------------------
(***************************************************************************)
(* The operations of DirectFS at the level of file system calls            *)
(* (internal/executor/direct_fs.go, path_guard.go): names that point to    *)
(* inodes, temporary files, link, unlink and rename, with the user's       *)
(* editor saving, moving and deleting notes between any two calls.  Vault  *)
(* has each operation in one step; here is what that stands for.  The      *)
(* executor holds the vault_locks rows of its paths, so no other executor  *)
(* works on them (PlansExclude), and one executor is enough.               *)
(***************************************************************************)
EXTENDS Vault, FiniteSets

CONSTANTS Ops,       \* the operations of the plan, each tried once
          Inodes,    \* inode numbers; a number without a file is used again
          Nothing,   \* no inode, no operation
          Torn,      \* the content of a file that is not written out yet
          Initial,   \* the paths that hold a note when the plan is prepared
          MaxFaults, \* bound: crashes and failed calls
          MaxEdits   \* bound: edits by the user

ASSUME OpsAssumption ==
    /\ Ops \subseteq Op /\ Initial \subseteq Paths
    /\ \A o \in Ops : o.kind # "move" => o.dest = o.path
ASSUME InodesAssumption ==
    /\ IsFiniteSet(Initial) /\ Initial \subseteq Inodes
    /\ Nothing \notin Inodes \cup Ops
ASSUME BoundsAssumption == MaxFaults \in Nat /\ MaxEdits \in Nat

VARIABLES dir,     \* the inode each path names
          file,    \* text and size of each inode
          temp,    \* the .openwhisker-write-* file of the executor
          litter,  \* temporary files nobody will remove
          pc,      \* the next system call
          op,      \* the operation at hand
          guard,   \* guardInfo: inode and size
          seen,    \* what was read
          outcome, \* what became of each operation
          late,    \* marks the user wrote too late to be noticed, or gave up
          faults, edits

fsVars == <<dir, file, temp, litter>>
opVars == <<pc, op, guard, seen, outcome>>
vars == <<fsVars, opVars, late, faults, edits>>

PlanMark(o) == <<"op", o>>
UserMark(n) == <<"user", n>>
BaseMark(f) == <<"base", f>>
WholeMarks == ({"op"} \X Ops) \cup ({"user"} \X Nat) \cup ({"base"} \X Paths)
Marks == {Torn} \cup WholeMarks

\* No text looks like a file that is cut off.
ASSUME TornAssumption == Torn \notin WholeMarks

Outcomes == {"todo", "running", "applied", "failed", "conflict", "died"}
Pcs == {"idle", "lookup", "open", "read", "link_dest", "unlink", "rollback", "reopen", "reread",
        "mktemp", "fill", "link_temp", "check", "rename"}
NoGuard == [ino |-> Nothing, size |-> 0]

\* before_hash: Prepare read the notes before the user came.
BeforeHash(f) == IF f \in Initial THEN {BaseMark(f)} ELSE Absent

\* The vault as Vault has it.
TextAt(names, files, f) == IF names[f] = Nothing THEN Absent ELSE files[names[f]].text
View == [f \in Paths |-> TextAt(dir, file, f)]

\* The path whose file an operation ends up writing.
Target == op.dest

Init ==
    /\ dir = [f \in Paths |-> IF f \in Initial THEN f ELSE Nothing]
    /\ file = [i \in Inodes |-> [text |-> IF i \in Initial THEN {BaseMark(i)} ELSE {}, size |-> 1]]
    /\ temp = Nothing
    /\ litter = {}
    /\ pc = "idle"
    /\ op = Nothing
    /\ guard = NoGuard
    /\ seen = {}
    /\ outcome = [o \in Ops |-> "todo"]
    /\ late = {}
    /\ faults = 0
    /\ edits = 0

-----------------------------------------------------------------------------
Named == {dir[f] : f \in Paths}

\* An open file keeps its inode; so does every name.
Free == {i \in Inodes :
            /\ i \notin Named \cup litter \cup {temp}
            /\ pc \in {"read", "reread"} => i # guard.ino}

Goto(l) == pc' = l /\ UNCHANGED <<op, guard, seen, outcome>>

\* The operation is over, and its descriptor and temporary file with it.
End(how) ==
    /\ outcome' = [outcome EXCEPT ![op] = how]
    /\ pc' = "idle"
    /\ op' = Nothing
    /\ guard' = NoGuard
    /\ seen' = {}
    /\ temp' = Nothing

\* What the rest of a step leaves alone.
Quietly == UNCHANGED <<late, faults, edits>>

Begin(o) ==
    /\ pc = "idle"
    /\ outcome[o] = "todo"
    /\ op' = o
    /\ pc' = IF o.kind = "create" THEN "lookup" ELSE "open"
    /\ outcome' = [outcome EXCEPT ![o] = "running"]
    /\ UNCHANGED <<fsVars, guard, seen>> /\ Quietly

\* createNote: Lstat before anything is written.
Lookup ==
    /\ pc = "lookup"
    /\ IF dir[op.path] = Nothing THEN Goto("mktemp") /\ UNCHANGED temp ELSE End("conflict")
    /\ UNCHANGED <<dir, file, litter>> /\ Quietly

\* safeReadAll: open and fstat, on the target or, after a move, on the new path.
OpenFile ==
    LET f == IF pc = "open" THEN op.path ELSE op.dest
    IN  /\ pc \in {"open", "reopen"}
        /\ IF dir[f] = Nothing
           THEN End("failed")
           ELSE /\ guard' = [ino |-> dir[f], size |-> file[dir[f]].size]
                /\ pc' = IF pc = "open" THEN "read" ELSE "reread"
                /\ UNCHANGED <<op, seen, outcome, temp>>
        /\ UNCHANGED <<dir, file, litter>> /\ Quietly

\* Mutant: the content is not compared with before_hash.
ReadUnguarded ==
    /\ pc = "read"
    /\ seen' = file[guard.ino].text
    /\ pc' = IF op.kind = "move" THEN "link_dest" ELSE "mktemp"
    /\ UNCHANGED <<fsVars, op, guard, outcome>> /\ Quietly

\* ... and ReadAll, from the open file; readGuardedFile compares the hash.
ReadGuarded ==
    /\ pc = "read"
    /\ IF file[guard.ino].text = BeforeHash(op.path)
       THEN /\ seen' = file[guard.ino].text
            /\ pc' = IF op.kind = "move" THEN "link_dest" ELSE "mktemp"
            /\ UNCHANGED <<op, guard, outcome, temp>>
       ELSE End("conflict")
    /\ UNCHANGED <<dir, file, litter>> /\ Quietly

\* safeMoveAtomic: link(source, dest) ...
LinkDest ==
    /\ pc = "link_dest"
    /\ CASE dir[op.path] = Nothing -> End("failed") /\ UNCHANGED dir
         [] dir[op.path] # Nothing /\ dir[op.dest] # Nothing -> End("conflict") /\ UNCHANGED dir
         [] OTHER -> /\ dir' = [dir EXCEPT ![op.dest] = dir[op.path]]
                     /\ Goto("unlink") /\ UNCHANGED temp
    /\ UNCHANGED <<file, litter>> /\ Quietly

\* ... unlink(source), whatever the source names by now ...
Unlink ==
    /\ pc = "unlink"
    /\ dir' = [dir EXCEPT ![op.path] = Nothing]
    /\ Goto(IF dir[op.path] = Nothing THEN "rollback" ELSE "reopen")
    /\ UNCHANGED <<file, temp, litter>> /\ Quietly

\* Mutant: a move that could not unlink its source is not taken back.
RollbackNothing ==
    /\ pc = "rollback"
    /\ End("failed")
    /\ UNCHANGED <<dir, file, litter>> /\ Quietly

\* ... or, when that failed, unlink(dest).
Rollback ==
    /\ pc = "rollback"
    /\ dir' = [dir EXCEPT ![op.dest] = Nothing]
    /\ End("failed")
    /\ UNCHANGED <<file, litter>> /\ Quietly

\* moveNote reads back what it moved; without a processing note that is all.
ReadBack ==
    /\ pc = "reread"
    /\ \/ /\ seen' = file[guard.ino].text
          /\ pc' = "mktemp"
          /\ UNCHANGED <<op, guard, outcome, temp>>
       \/ End("applied")
    /\ UNCHANGED <<dir, file, litter>> /\ Quietly

Fresh(i, text, size) == file' = [file EXCEPT ![i] = [text |-> text, size |-> size]]

\* writeTempFile: CreateTemp ...
MakeTemp ==
    /\ pc = "mktemp"
    /\ \E i \in Free : temp' = i /\ Fresh(i, {Torn}, 0)
    /\ Goto("fill")
    /\ UNCHANGED <<dir, litter>> /\ Quietly

\* ... Write, Chmod, Sync and Close.
FillTemp ==
    /\ pc = "fill"
    /\ Fresh(temp, NoteAfter(seen, op, PlanMark(op)), guard.size + 1)
    /\ Goto(IF op.kind = "create" THEN "link_temp" ELSE "check")
    /\ UNCHANGED <<dir, temp, litter>> /\ Quietly

\* Mutant: rename(2) instead of link(2).
LinkTempOver ==
    /\ pc = "link_temp"
    /\ dir' = [dir EXCEPT ![op.path] = temp]
    /\ End("applied")
    /\ UNCHANGED <<file, litter>> /\ Quietly

\* safeCreateAtomic: link(2) does not replace, and the other name goes away.
LinkTemp ==
    /\ pc = "link_temp"
    /\ IF dir[op.path] = Nothing
       THEN dir' = [dir EXCEPT ![op.path] = temp] /\ End("applied")
       ELSE UNCHANGED dir /\ End("conflict")
    /\ UNCHANGED <<file, litter>> /\ Quietly

\* writeViaTempAndRename: Lstat and sameFile.
Check ==
    /\ pc = "check"
    /\ CASE dir[Target] = Nothing -> End("failed")
         [] dir[Target] # Nothing /\ guard = [ino |-> dir[Target], size |-> file[dir[Target]].size]
               -> Goto("rename") /\ UNCHANGED temp
         [] OTHER -> End("conflict")
    /\ UNCHANGED <<dir, file, litter>> /\ Quietly

\* rename(temp, target), whatever is there by now.
Rename ==
    /\ pc = "rename"
    /\ dir' = [dir EXCEPT ![Target] = temp]
    /\ End("applied")
    /\ UNCHANGED <<file, litter>> /\ Quietly

-----------------------------------------------------------------------------
(***************************************************************************)
(* Failures.                                                               *)
(***************************************************************************)
Failing == faults < MaxFaults /\ faults' = faults + 1

\* A call gives an error; the temporary file is removed.
CallFails ==
    /\ Failing
    /\ pc \notin {"idle", "unlink", "rollback"}
    /\ End("failed")
    /\ UNCHANGED <<dir, file, litter, late, edits>>

\* unlink(source) gives an error.
UnlinkFails ==
    /\ Failing
    /\ pc = "unlink"
    /\ Goto("rollback")
    /\ UNCHANGED <<fsVars, late, edits>>

\* The rollback fails too, and nobody looks at its error.
RollbackFails ==
    /\ Failing
    /\ pc = "rollback"
    /\ End("failed")
    /\ UNCHANGED <<dir, file, litter, late, edits>>

\* The process dies: a temporary file stays.
Crash ==
    /\ Failing
    /\ pc # "idle"
    /\ End("died")
    /\ litter' = IF temp = Nothing THEN litter ELSE litter \cup {temp}
    /\ UNCHANGED <<dir, file, late, edits>>

-----------------------------------------------------------------------------
(***************************************************************************)
(* The user, in Obsidian or elsewhere.  An edit is late when the executor  *)
(* has no check to come that could show it: the new file has the inode and *)
(* the size of guardInfo, or the calls that replace or unlink the path     *)
(* without a look come next.                                               *)
(***************************************************************************)
Blind(f, i, size) ==
    /\ pc \in {"mktemp", "fill", "check"}
    /\ op.kind # "create" /\ f = Target
    /\ guard = [ino |-> i, size |-> size]
Window(f) ==
    \/ pc = "rename" /\ f = Target
    \/ pc \in {"unlink", "rollback"} /\ f \in {op.path, op.dest}
\* Between link and unlink both names still have the same file.
RidesAlong(i) == pc = "unlink" /\ i = dir[op.path] /\ i = dir[op.dest]

\* The user has saved text at f, in inode i, and so at its other names.
Saved(f, i, text, size) ==
    /\ dir' = [dir EXCEPT ![f] = i]
    /\ Fresh(i, text, size)
    /\ late' = IF \E g \in {f} \cup {h \in Paths : i = dir[h]} :
                     Blind(g, i, size) \/ (Window(g) /\ ~RidesAlong(i))
               THEN late \cup (text \ seen)
               ELSE late

Editing == edits < MaxEdits /\ edits' = edits + 1 /\ UNCHANGED <<temp, litter, opVars, faults>>

\* Saving into the open file; a ticked checkbox leaves the size as it was.
SaveInPlace(f) ==
    /\ Editing
    /\ dir[f] # Nothing
    /\ \E more \in {0, 1} :
          Saved(f, dir[f], View[f] \cup {UserMark(edits + 1)}, file[dir[f]].size + more)

\* Saving a new file over the old one, or where there was none.
SaveAtomically(f) ==
    /\ Editing
    /\ \E i \in Free, more \in {0, 1} :
          IF dir[f] = Nothing
          THEN Saved(f, i, {UserMark(edits + 1)}, 1 + more)
          ELSE Saved(f, i, View[f] \cup {UserMark(edits + 1)}, file[dir[f]].size + more)

\* Deleting a note gives its text up.
Delete(f) ==
    /\ Editing
    /\ dir[f] # Nothing
    /\ dir' = [dir EXCEPT ![f] = Nothing]
    /\ late' = late \cup View[f]
    /\ UNCHANGED file

\* Moving a note to a free path.
MoveNote(f, g) ==
    /\ Editing
    /\ dir[f] # Nothing /\ dir[g] = Nothing
    /\ dir' = [dir EXCEPT ![g] = dir[f], ![f] = Nothing]
    /\ late' = IF Window(f) \/ Window(g) \/ Blind(g, dir[f], file[dir[f]].size)
               THEN late \cup View[f]
               ELSE late
    /\ UNCHANGED file

-----------------------------------------------------------------------------
Call ==
    \/ Lookup \/ OpenFile \/ ReadGuarded \/ LinkDest \/ Unlink \/ Rollback \/ ReadBack
    \/ MakeTemp \/ FillTemp \/ LinkTemp \/ Check \/ Rename
Fault == CallFails \/ UnlinkFails \/ RollbackFails \/ Crash
Edit ==
    \/ \E f \in Paths : SaveInPlace(f) \/ SaveAtomically(f) \/ Delete(f)
    \/ \E f, g \in Paths : MoveNote(f, g)

Next == (\E o \in Ops : Begin(o)) \/ Call \/ Fault \/ Edit
Spec == Init /\ [][Next]_vars

-----------------------------------------------------------------------------
(***************************************************************************)
(* Properties.                                                             *)
(***************************************************************************)

(***************************************************************************)
(* Every variable has a value of its type, and the executor has a          *)
(* temporary file only while it is at work on one: no way out of an        *)
(* operation forgets it.                                                   *)
(***************************************************************************)
TypeOK ==
    /\ dir \in [Paths -> Inodes \cup {Nothing}]
    /\ \A i \in Inodes : file[i].text \subseteq Marks /\ file[i].size \in Nat
    /\ temp \in Inodes \cup {Nothing}
    /\ temp # Nothing <=> pc \in {"fill", "link_temp", "check", "rename"}
    /\ litter \subseteq Inodes
    /\ pc \in Pcs
    /\ op \in Ops \cup {Nothing}
    /\ guard.ino \in Inodes \cup {Nothing} /\ guard.size \in Nat
    /\ seen \subseteq Marks
    /\ outcome \in [Ops -> Outcomes]
    /\ late \subseteq Marks
    /\ faults \in Nat /\ edits \in Nat

\* What a rewrite that is about to take effect replaces.
Replaced == IF pc = "rename" /\ op.kind = "rewrite" THEN BeforeHash(op.path) ELSE {}

(***************************************************************************)
(* Text disappears from the vault by the executor's hand only where a      *)
(* rewrite replaces what its plan was made from, or when the user wrote it *)
(* too late to be noticed: every other edit is kept or makes the operation *)
(* give up, and a create or a move never takes a note's place.             *)
(***************************************************************************)
OnlyLateEditsAreLost ==
    [][edits' = edits =>
          (MarksIn(View) \ MarksIn(View')) \subseteq (late \cup Replaced)]_vars

\* The call that puts a file in place, as Vault has it.
InVault ==
    IF op.kind = "move"
    THEN View' = [View EXCEPT ![op.dest] = NoteAfter(View[op.dest], op, PlanMark(op))]
    ELSE /\ OpReady(View, op, BeforeHash(op.path))
         /\ View' = OpApplied(View, op, PlanMark(op))
PutsInPlace == pc \in {"link_temp", "rename"} /\ dir' # dir /\ edits' = edits

(***************************************************************************)
(* The operations of Vault are what these calls amount to: the call that   *)
(* puts a file in place finds the note the plan was made from and leaves   *)
(* exactly the note OpApplied says, unless a late edit came in between.    *)
(***************************************************************************)
OneStepAsInVault == [][PutsInPlace /\ late = {} => InVault]_vars

(***************************************************************************)
(* Nobody ever opens a note that is not written out, wherever the process  *)
(* dies.                                                                   *)
(***************************************************************************)
NotesAreWhole == \A f \in Paths : View[f] # Absent => Torn \notin View[f]

(***************************************************************************)
(* A move leaves a note at one path, even when a call fails: unless the    *)
(* process died, two calls failed, or the user was at the same paths       *)
(* between link and unlink, no two names share a file.                     *)
(***************************************************************************)
MovesDoNotCopy ==
    /\ pc \notin {"unlink", "rollback"}
    /\ faults < 2 /\ \A o \in Ops : outcome[o] # "died"
    /\ late = {}
    =>
        \A f, g \in Paths : f # g /\ dir[f] = dir[g] => dir[f] = Nothing

(***************************************************************************)
(* Whatever fails, dies or is edited: no temporary file is forgotten, no   *)
(* note is half written, and no move leaves two.                           *)
(***************************************************************************)
FilesInv == TypeOK /\ NotesAreWhole /\ MovesDoNotCopy
=============================================================================
