--------------------------- MODULE DirectFS_proofs ---------------------------
(***************************************************************************)
(* The system calls of DirectFS amount to the operations of Vault, for     *)
(* every set of operations, paths and inodes and any number of edits.      *)
(***************************************************************************)
EXTENDS DirectFS, TLAPS

(***************************************************************************)
(* Types, and what the executor has in hand at each call.                  *)
(***************************************************************************)
FileTyping ==
    /\ dir \in [Paths -> Inodes \cup {Nothing}]
    /\ file \in [Inodes -> [text : SUBSET Marks, size : Nat]]
    /\ temp \in Inodes \cup {Nothing}
    /\ litter \subseteq Inodes
    /\ late \subseteq Marks
    /\ faults \in Nat /\ edits \in Nat

Reading   == {"read", "reread"}
Moving    == {"link_dest", "unlink", "rollback", "reopen", "reread"}
Holding   == {"fill", "link_temp", "check", "rename"}
Rewriting == {"mktemp", "fill", "check", "rename"}

OpTyping ==
    /\ pc \in Pcs
    /\ guard \in [ino : Inodes \cup {Nothing}, size : Nat]
    /\ seen \subseteq Marks \ {Torn}
    /\ outcome \in [Ops -> Outcomes]
    /\ IF pc = "idle" THEN op = Nothing ELSE op \in Ops /\ outcome[op] = "running"
    /\ temp # Nothing <=> pc \in Holding

\* Which operations come to a call, and with what.
AtWork ==
    /\ pc \in {"lookup", "link_temp"} => op.kind = "create"
    /\ pc \in {"open", "read", "check", "rename"} => op.kind # "create"
    /\ pc \in Moving => op.kind = "move"
    /\ pc \in {"unlink", "rollback"} => op.path # op.dest
    /\ pc \in Reading => guard.ino \in Inodes
    /\ pc \in Rewriting /\ op.kind # "create" => guard.ino \in Inodes
    /\ pc \in Rewriting /\ op.kind \in {"append", "rewrite"} => seen = BeforeHash(op.path)

(***************************************************************************)
(* What is written.                                                        *)
(***************************************************************************)
Whole(i) == file[i].text # {} /\ Torn \notin file[i].text

Texts ==
    /\ \A f \in Paths : dir[f] # Nothing => Whole(dir[f])
    /\ pc \in Reading => Whole(guard.ino)
    /\ temp # Nothing => \A f \in Paths : dir[f] # temp
    /\ pc \in {"link_temp", "check", "rename"} => file[temp].text = NoteAfter(seen, op, PlanMark(op))
    /\ \A n \in Nat : UserMark(n) \in seen \/ (\E i \in Inodes : UserMark(n) \in file[i].text)
                        => n <= edits

\* The file at Target is the one that was read, as far as the executor looks.
Matches == dir[Target] # Nothing /\ guard = [ino |-> dir[Target], size |-> file[dir[Target]].size]

\* Then so is its text, but for what the user wrote too late.
Noticed ==
    /\ dir[Target] # Nothing => file[dir[Target]].text \subseteq seen \cup late
    /\ late = {} => dir[Target] # Nothing /\ file[dir[Target]].text = seen

Guarded ==
    /\ pc \in {"mktemp", "fill", "check"} /\ op.kind # "create" /\ Matches => Noticed
    /\ pc = "rename" => Noticed

\* Everything at f can be taken away: it is elsewhere, or was written too late.
Covered(f) ==
    dir[f] # Nothing => \A m \in file[dir[f]].text :
        m \in late \/ \E g \in Paths \ {f} : dir[g] # Nothing /\ m \in file[dir[g]].text

Taken ==
    /\ pc = "unlink" => Covered(op.path) /\ Covered(op.dest)
    /\ pc = "rollback" => Covered(op.dest)

\* A move that was not disturbed.
Calm == faults < 2 /\ late = {} /\ \A o \in Ops : outcome[o] # "died"

Apart ==
    Calm => \A f, g \in Paths : f # g /\ dir[f] = dir[g] /\ dir[f] # Nothing =>
        /\ pc \in {"unlink", "rollback"}
        /\ f \in {op.path, op.dest} /\ g \in {op.path, op.dest}
        /\ pc = "rollback" => faults > 0

FilesIInv == FileTyping /\ OpTyping /\ AtWork /\ Texts /\ Guarded /\ Taken /\ Apart

-----------------------------------------------------------------------------
\* The operations of the plan, and the marks they leave.
LEMMA OpFacts ==
    ASSUME NEW o \in Ops
    PROVE  /\ o.path \in Paths /\ o.dest \in Paths /\ o.kind \in OpKinds
           /\ o.kind # "move" => o.dest = o.path
           /\ PlanMark(o) \in WholeMarks
           /\ o # Nothing
BY OpsAssumption, InodesAssumption DEF Op, PlanMark, WholeMarks

\* Marks are told apart, and none is that of a torn file.
LEMMA MarkFacts ==
    /\ \A m \in WholeMarks : m \in Marks /\ m # Torn
    /\ \A n \in Nat : UserMark(n) \in WholeMarks
    /\ \A f \in Paths : BaseMark(f) \in WholeMarks
    /\ \A n, k \in Nat : UserMark(n) = UserMark(k) => n = k
    /\ \A n, f : UserMark(n) # BaseMark(f)
    /\ \A n, o : UserMark(n) # PlanMark(o)
<1>1. \A m \in WholeMarks : m \in Marks /\ m # Torn
  BY TornAssumption DEF Marks
<1>2. \A n \in Nat : UserMark(n) \in WholeMarks
  BY DEF UserMark, WholeMarks
<1>3. \A f \in Paths : BaseMark(f) \in WholeMarks
  BY DEF BaseMark, WholeMarks
<1>4. /\ \A n, k \in Nat : UserMark(n) = UserMark(k) => n = k
      /\ \A n, f : UserMark(n) # BaseMark(f)
      /\ \A n, o : UserMark(n) # PlanMark(o)
  BY DEF UserMark, BaseMark, PlanMark
<1> QED
  BY <1>1, <1>2, <1>3, <1>4

(***************************************************************************)
(* The user's edits: a file is saved, in place or as a new one, or a name  *)
(* goes away or moves.                                                     *)
(***************************************************************************)
OldText(f) == IF dir[f] = Nothing THEN {} ELSE file[dir[f]].text
NewText(f) == OldText(f) \cup {UserMark(edits + 1)}
Unused(i) == /\ \A g \in Paths : dir[g] # i
             /\ i \notin litter /\ i # temp
             /\ pc \in Reading => i # guard.ino

SaveStep(f, i, size) ==
    /\ i = dir[f] \/ Unused(i)
    /\ Saved(f, i, NewText(f), size)

\* Every edit is of one of these shapes, and leaves the executor alone.
LEMMA EditCases ==
    ASSUME FileTyping, Edit
    PROVE  /\ edits' = edits + 1
           /\ UNCHANGED <<temp, litter, pc, op, guard, seen, outcome, faults>>
           /\ \/ \E f \in Paths, i \in Inodes, size \in Nat : SaveStep(f, i, size)
              \/ \E f \in Paths : Delete(f)
              \/ \E f, g \in Paths : MoveNote(f, g)
<1>1. /\ edits' = edits + 1
      /\ UNCHANGED <<temp, litter, pc, op, guard, seen, outcome, faults>>
  BY DEF Edit, SaveInPlace, SaveAtomically, Delete, MoveNote, Editing, opVars
<1>2. ASSUME NEW f \in Paths, SaveInPlace(f)
      PROVE  \E i \in Inodes, size \in Nat : SaveStep(f, i, size)
  <2>1. dir[f] \in Inodes /\ dir[f] # Nothing
    BY <1>2 DEF SaveInPlace, FileTyping
  <2>2. PICK more \in {0, 1} :
           Saved(f, dir[f], View[f] \cup {UserMark(edits + 1)}, file[dir[f]].size + more)
    BY <1>2 DEF SaveInPlace
  <2>3. View[f] \cup {UserMark(edits + 1)} = NewText(f)
    BY <2>1 DEF View, TextAt, NewText, OldText
  <2>4. file[dir[f]].size + more \in Nat
    BY <2>1 DEF FileTyping
  <2>5. SaveStep(f, dir[f], file[dir[f]].size + more)
    BY <2>2, <2>3 DEF SaveStep
  <2> QED
    BY <2>1, <2>4, <2>5
<1>3. ASSUME NEW f \in Paths, SaveAtomically(f)
      PROVE  \E i \in Inodes, size \in Nat : SaveStep(f, i, size)
  <2>1. PICK i \in Free, more \in {0, 1} :
           IF dir[f] = Nothing
           THEN Saved(f, i, {UserMark(edits + 1)}, 1 + more)
           ELSE Saved(f, i, View[f] \cup {UserMark(edits + 1)}, file[dir[f]].size + more)
    BY <1>3 DEF SaveAtomically
  <2>2. i \in Inodes /\ Unused(i)
    BY DEF Free, Named, Unused, Reading
  <2>3. CASE dir[f] = Nothing
    <3>1. {UserMark(edits + 1)} = NewText(f)
      BY <2>3 DEF NewText, OldText
    <3>2. SaveStep(f, i, 1 + more) /\ 1 + more \in Nat
      BY <2>1, <2>2, <2>3, <3>1 DEF SaveStep
    <3> QED
      BY <2>2, <3>2
  <2>4. CASE dir[f] # Nothing
    <3>1. View[f] \cup {UserMark(edits + 1)} = NewText(f)
      BY <2>4 DEF View, TextAt, NewText, OldText
    <3>2. SaveStep(f, i, file[dir[f]].size + more)
      BY <2>1, <2>2, <2>4, <3>1 DEF SaveStep
    <3>3. file[dir[f]].size + more \in Nat
      BY <2>4 DEF FileTyping
    <3> QED
      BY <2>2, <3>2, <3>3
  <2> QED
    BY <2>3, <2>4
<1> QED
  BY <1>1, <1>2, <1>3 DEF Edit

(***************************************************************************)
(* The types.                                                              *)
(***************************************************************************)

\* Writing a file.
LEMMA FreshTyping ==
    ASSUME FileTyping, NEW i \in Inodes, NEW text \in SUBSET Marks, NEW size \in Nat,
           Fresh(i, text, size)
    PROVE  /\ file' \in [Inodes -> [text : SUBSET Marks, size : Nat]]
           /\ file'[i].text = text /\ file'[i].size = size
           /\ \A j \in Inodes \ {i} : file'[j] = file[j]
BY DEF Fresh, FileTyping

\* What an edit writes, and what it says was too late.
LEMMA SaveWrites ==
    ASSUME FileTyping, NEW f \in Paths, NEW i \in Inodes, NEW size \in Nat, SaveStep(f, i, size)
    PROVE  /\ NewText(f) \in SUBSET Marks
           /\ dir' = [dir EXCEPT ![f] = i]
           /\ file' \in [Inodes -> [text : SUBSET Marks, size : Nat]]
           /\ file'[i].text = NewText(f) /\ file'[i].size = size
           /\ \A j \in Inodes \ {i} : file'[j] = file[j]
           /\ late \subseteq late' /\ late' \subseteq late \cup NewText(f)
<1>1. NewText(f) \in SUBSET Marks
  BY MarkFacts DEF NewText, OldText, FileTyping
<1> QED
  BY <1>1, FreshTyping DEF SaveStep, Saved

\* The file system keeps its types: under the user's hands,
LEMMA EditTypes ==
    ASSUME FileTyping, Edit
    PROVE  FileTyping'
<1>1. /\ edits' \in Nat
      /\ UNCHANGED <<temp, litter, faults>>
  BY EditCases DEF FileTyping
<1>2. ASSUME NEW f \in Paths, NEW i \in Inodes, NEW size \in Nat, SaveStep(f, i, size)
      PROVE  FileTyping'
  <2>1. dir' \in [Paths -> Inodes \cup {Nothing}] /\ late' \subseteq Marks
    BY <1>2, SaveWrites DEF FileTyping
  <2> QED
    BY <1>1, <1>2, <2>1, SaveWrites DEF FileTyping
<1>3. ASSUME NEW f \in Paths, Delete(f)
      PROVE  FileTyping'
  BY <1>1, <1>3 DEF Delete, View, TextAt, FileTyping
<1>4. ASSUME NEW f \in Paths, NEW g \in Paths, MoveNote(f, g)
      PROVE  FileTyping'
  BY <1>1, <1>4 DEF MoveNote, View, TextAt, FileTyping
<1> QED
  BY <1>2, <1>3, <1>4, EditCases

\* What fits together while the executor works.
Hand == FileTyping /\ OpTyping /\ AtWork

\* An operation that is at hand is one of the plan, with its paths.
LEMMA HandFacts ==
    ASSUME Hand, pc # "idle"
    PROVE  /\ op \in Ops /\ outcome[op] = "running"
           /\ op.path \in Paths /\ op.dest \in Paths /\ op.kind \in OpKinds
           /\ op.kind # "move" => op.dest = op.path
           /\ PlanMark(op) \in WholeMarks
           /\ pc \in Holding => temp \in Inodes
BY OpFacts DEF Hand, OpTyping, FileTyping

\* The end of an operation.
LEMMA EndHand ==
    ASSUME Hand, pc # "idle", NEW how \in Outcomes, End(how)
    PROVE  OpTyping' /\ AtWork' /\ temp' \in Inodes \cup {Nothing}
<1>1. op \in Ops
  BY HandFacts
<1>2. pc' = "idle" /\ op' = Nothing /\ guard' = NoGuard /\ seen' = {} /\ temp' = Nothing
  BY DEF End
<1>3. outcome' \in [Ops -> Outcomes]
  BY <1>1 DEF Hand, OpTyping, End
<1>4. guard' \in [ino : Inodes \cup {Nothing}, size : Nat] /\ pc' \in Pcs
  BY <1>2 DEF NoGuard, Pcs
<1>5. OpTyping'
  BY <1>2, <1>3, <1>4 DEF OpTyping, Holding
<1>6. AtWork'
  BY <1>2 DEF AtWork, Moving, Reading, Rewriting
<1> QED
  BY <1>2, <1>5, <1>6

\* What a note says that is fit to be read.
LEMMA ReadText ==
    ASSUME Hand, Texts, pc \in Reading
    PROVE  guard.ino \in Inodes /\ file[guard.ino].text \subseteq Marks \ {Torn}
BY DEF Hand, AtWork, Texts, Whole, FileTyping, Reading

\* The executor keeps the types, call by call: it starts and creates,
LEMMA CreateHand ==
    ASSUME Hand, (\E o \in Ops : Begin(o)) \/ Lookup \/ LinkTemp
    PROVE  Hand'
<1> USE DEF Hand
<1>1. ASSUME NEW o \in Ops, Begin(o)
      PROVE  Hand'
  <2>1. o # Nothing /\ "running" \in Outcomes
    BY OpFacts DEF Outcomes
  <2>2. FileTyping' /\ temp = Nothing
    BY <1>1 DEF Begin, fsVars, Quietly, FileTyping, OpTyping, Holding
  <2>3. pc' \in {"lookup", "open"} /\ op' = o /\ (pc' = "lookup" <=> o.kind = "create")
    BY <1>1 DEF Begin
  <2>4. OpTyping'
    BY <1>1, <2>1, <2>2, <2>3 DEF Begin, fsVars, OpTyping, Holding, Pcs
  <2>5. AtWork'
    BY <2>3 DEF AtWork, Moving, Reading, Rewriting
  <2> QED
    BY <2>2, <2>4, <2>5
<1>2. CASE Lookup
  <2>1. CASE End("conflict")
    <3>1. OpTyping' /\ AtWork' /\ temp' \in Inodes \cup {Nothing}
      BY <1>2, <2>1, EndHand DEF Lookup, Outcomes
    <3> QED
      BY <1>2, <3>1 DEF Lookup, Quietly, FileTyping
  <2>2. CASE Goto("mktemp") /\ UNCHANGED temp
    BY <1>2, <2>2 DEF Lookup, Quietly, FileTyping, Goto, OpTyping, AtWork, Holding, Pcs, Moving,
                      Reading, Rewriting
  <2> QED
    BY <1>2, <2>1, <2>2 DEF Lookup
<1>3. CASE LinkTemp
  <2>1. OpTyping' /\ AtWork' /\ temp' \in Inodes \cup {Nothing}
    BY <1>3, EndHand DEF LinkTemp, Outcomes
  <2>2. temp \in Inodes
    BY <1>3, HandFacts DEF LinkTemp, Holding
  <2>3. dir' \in [Paths -> Inodes \cup {Nothing}]
    BY <1>3, <2>2 DEF LinkTemp, FileTyping
  <2> QED
    BY <1>3, <2>1, <2>3 DEF LinkTemp, Quietly, FileTyping
<1> QED
  BY <1>1, <1>2, <1>3

\* reads,
LEMMA ReadHand ==
    ASSUME Hand, Texts, OpenFile \/ ReadGuarded \/ ReadBack
    PROVE  Hand'
<1> USE DEF Hand
<1>0. pc # "idle" /\ op \in Ops /\ op.path \in Paths /\ op.dest \in Paths
  BY HandFacts DEF OpenFile, ReadGuarded, ReadBack
<1>1. UNCHANGED <<dir, file, litter, late, faults, edits>>
  BY DEF OpenFile, ReadGuarded, ReadBack, Quietly
<1>2. CASE \E how \in Outcomes : End(how)
  BY <1>0, <1>1, <1>2, EndHand DEF FileTyping
<1>3. CASE OpenFile /\ ~\E how \in Outcomes : End(how)
  <2>1. PICK f \in Paths : /\ f = IF pc = "open" THEN op.path ELSE op.dest
                           /\ dir[f] \in Inodes
                           /\ guard' = [ino |-> dir[f], size |-> file[dir[f]].size]
    BY <1>0, <1>3 DEF OpenFile, Outcomes, FileTyping
  <2>2. /\ pc \in {"open", "reopen"} /\ pc' = IF pc = "open" THEN "read" ELSE "reread"
        /\ UNCHANGED <<op, seen, outcome, temp>>
    BY <1>0, <1>3 DEF OpenFile, Outcomes
  <2>3. guard' \in [ino : Inodes \cup {Nothing}, size : Nat] /\ guard'.ino \in Inodes
    BY <2>1 DEF FileTyping
  <2>4. OpTyping'
    BY <2>2, <2>3 DEF OpTyping, Holding, Pcs
  <2>5. AtWork'
    BY <2>2, <2>3 DEF AtWork, Moving, Reading, Rewriting
  <2> QED
    BY <1>1, <2>2, <2>4, <2>5 DEF FileTyping
<1>4. CASE (ReadGuarded \/ ReadBack) /\ ~\E how \in Outcomes : End(how)
  <2>1. pc \in Reading /\ seen' = file[guard.ino].text /\ UNCHANGED <<op, guard, outcome, temp>>
    BY <1>4 DEF ReadGuarded, ReadBack, Reading, Outcomes
  <2>2. seen' \subseteq Marks \ {Torn} /\ guard.ino \in Inodes
    BY <2>1, ReadText
  <2>3. CASE ReadGuarded
    <3>1. /\ seen' = BeforeHash(op.path) /\ pc = "read"
          /\ pc' = IF op.kind = "move" THEN "link_dest" ELSE "mktemp"
      BY <1>4, <2>1, <2>3 DEF ReadGuarded, Outcomes
    <3>2. OpTyping'
      BY <2>1, <2>2, <3>1 DEF OpTyping, Holding, Pcs
    <3>3. AtWork'
      BY <2>1, <2>2, <3>1 DEF AtWork, Moving, Reading, Rewriting, BeforeHash
    <3> QED
      BY <1>1, <2>1, <3>2, <3>3 DEF FileTyping
  <2>4. CASE ReadBack
    <3>1. pc' = "mktemp" /\ pc = "reread"
      BY <1>4, <2>4 DEF ReadBack, Outcomes
    <3>2. OpTyping'
      BY <2>1, <2>2, <3>1 DEF OpTyping, Holding, Pcs
    <3>3. AtWork'
      BY <2>1, <2>2, <3>1 DEF AtWork, Moving, Reading, Rewriting
    <3> QED
      BY <1>1, <2>1, <3>2, <3>3 DEF FileTyping
  <2> QED
    BY <1>4, <2>3, <2>4
<1> QED
  BY <1>2, <1>3, <1>4

\* moves,
LEMMA MoveHand ==
    ASSUME Hand, LinkDest \/ Unlink \/ Rollback
    PROVE  Hand'
<1> USE DEF Hand
<1>0. pc # "idle" /\ op \in Ops /\ op.path \in Paths /\ op.dest \in Paths
  BY HandFacts DEF LinkDest, Unlink, Rollback
<1>1. UNCHANGED <<file, litter, late, faults, edits>>
  BY DEF LinkDest, Unlink, Rollback, Quietly
<1>2. dir' \in [Paths -> Inodes \cup {Nothing}]
  BY <1>0 DEF LinkDest, Unlink, Rollback, FileTyping
<1>3. CASE \E how \in Outcomes : End(how)
  BY <1>0, <1>1, <1>2, <1>3, EndHand DEF FileTyping
<1>4. CASE ~\E how \in Outcomes : End(how)
  <2>1. /\ UNCHANGED <<op, guard, seen, outcome, temp>>
        /\ \/ pc = "link_dest" /\ pc' = "unlink" /\ op.path # op.dest
           \/ pc = "unlink" /\ pc' \in {"rollback", "reopen"}
    BY <1>4 DEF LinkDest, Unlink, Rollback, Goto, Outcomes
  <2>2. OpTyping'
    BY <2>1 DEF OpTyping, Holding, Pcs
  <2>3. AtWork'
    BY <2>1 DEF AtWork, Moving, Reading, Rewriting
  <2> QED
    BY <1>1, <1>2, <2>1, <2>2, <2>3 DEF FileTyping
<1> QED
  BY <1>3, <1>4

\* and writes.
LEMMA WriteHand ==
    ASSUME Hand, MakeTemp \/ FillTemp \/ Check \/ Rename
    PROVE  Hand'
<1> USE DEF Hand
<1>0. pc # "idle" /\ op \in Ops /\ op.dest \in Paths /\ op.kind \in OpKinds
  BY HandFacts DEF MakeTemp, FillTemp, Check, Rename
<1>1. UNCHANGED <<litter, late, faults, edits>>
  BY DEF MakeTemp, FillTemp, Check, Rename, Quietly
<1>2. CASE MakeTemp
  <2>1. PICK i \in Inodes : temp' = i /\ Fresh(i, {Torn}, 0)
    BY <1>2 DEF MakeTemp, Free
  <2>2. {Torn} \in SUBSET Marks /\ 0 \in Nat
    BY DEF Marks
  <2>3. file' \in [Inodes -> [text : SUBSET Marks, size : Nat]]
    BY <2>1, <2>2, FreshTyping
  <2>4. pc = "mktemp" /\ pc' = "fill" /\ UNCHANGED <<op, guard, seen, outcome, dir>>
    BY <1>2 DEF MakeTemp, Goto
  <2>5. OpTyping' /\ AtWork'
    BY <2>1, <2>4, InodesAssumption
       DEF OpTyping, AtWork, Holding, Pcs, Moving, Reading, Rewriting, BeforeHash
  <2> QED
    BY <1>1, <2>1, <2>3, <2>4, <2>5 DEF FileTyping
<1>3. CASE FillTemp
  <2>1. NoteAfter(seen, op, PlanMark(op)) \in SUBSET Marks
    BY <1>0, OpFacts, MarkFacts DEF NoteAfter, OpTyping
  <2>2. temp \in Inodes /\ guard.size + 1 \in Nat
    BY <1>3, HandFacts DEF FillTemp, OpTyping, Holding
  <2>3. file' \in [Inodes -> [text : SUBSET Marks, size : Nat]]
    BY <1>3, <2>1, <2>2, FreshTyping DEF FillTemp
  <2>4. /\ pc = "fill" /\ pc' = IF op.kind = "create" THEN "link_temp" ELSE "check"
        /\ UNCHANGED <<op, guard, seen, outcome, dir, temp>>
    BY <1>3 DEF FillTemp, Goto
  <2>5. OpTyping' /\ AtWork'
    BY <2>4 DEF OpTyping, AtWork, Holding, Pcs, Moving, Reading, Rewriting, BeforeHash
  <2> QED
    BY <1>1, <2>3, <2>4, <2>5 DEF FileTyping
<1>4. CASE Check
  <2>1. CASE Goto("rename") /\ UNCHANGED temp
    <3>1. OpTyping' /\ AtWork'
      BY <1>4, <2>1 DEF Check, Goto, OpTyping, AtWork, Holding, Pcs, Moving, Reading, Rewriting,
                        BeforeHash
    <3> QED
      BY <1>1, <1>4, <2>1, <3>1 DEF Check, FileTyping
  <2>2. CASE \E how \in Outcomes : End(how)
    <3>1. OpTyping' /\ AtWork' /\ temp' \in Inodes \cup {Nothing}
      BY <1>0, <2>2, EndHand
    <3> QED
      BY <1>1, <1>4, <3>1 DEF Check, FileTyping
  <2> QED
    BY <1>4, <2>1, <2>2 DEF Check, Outcomes
<1>5. CASE Rename
  <2>1. OpTyping' /\ AtWork' /\ temp' \in Inodes \cup {Nothing}
    BY <1>5, EndHand DEF Rename, Outcomes
  <2>2. temp \in Inodes
    BY <1>5, HandFacts DEF Rename, Holding
  <2>3. dir' \in [Paths -> Inodes \cup {Nothing}]
    BY <1>0, <1>5, <2>2 DEF Rename, Target, FileTyping
  <2> QED
    BY <1>1, <1>5, <2>1, <2>3 DEF Rename, FileTyping
<1> QED
  BY <1>2, <1>3, <1>4, <1>5

\* So do failures,
LEMMA FaultHand ==
    ASSUME Hand, Fault
    PROVE  Hand'
<1> USE DEF Hand
<1>1. UNCHANGED <<dir, file, late, edits>> /\ faults' \in Nat /\ pc # "idle"
  BY DEF Fault, CallFails, UnlinkFails, RollbackFails, Crash, Failing, fsVars, FileTyping
<1>2. litter' \subseteq Inodes
  BY DEF Fault, CallFails, UnlinkFails, RollbackFails, Crash, fsVars, FileTyping
<1>3. CASE \E how \in Outcomes : End(how)
  BY <1>1, <1>2, <1>3, EndHand DEF FileTyping
<1>4. CASE UnlinkFails
  <2>1. pc = "unlink" /\ pc' = "rollback" /\ UNCHANGED <<op, guard, seen, outcome, temp>>
    BY <1>4 DEF UnlinkFails, Goto, fsVars
  <2>2. OpTyping' /\ AtWork'
    BY <2>1 DEF OpTyping, AtWork, Holding, Pcs, Moving, Reading, Rewriting
  <2> QED
    BY <1>1, <1>2, <2>1, <2>2 DEF FileTyping
<1> QED
  BY <1>3, <1>4 DEF Fault, CallFails, RollbackFails, Crash, Outcomes

\* and edits, which do not concern it.
LEMMA EditHand ==
    ASSUME Hand, Edit
    PROVE  Hand'
<1>1. UNCHANGED <<temp, pc, op, guard, seen, outcome>>
  BY EditCases DEF Hand
<1> QED
  BY <1>1, EditTypes DEF Hand, OpTyping, AtWork, BeforeHash

\* No step leaves the types.
LEMMA HandNext == Hand /\ Texts /\ [Next]_vars => Hand'
<1> SUFFICES ASSUME Hand, Texts, [Next]_vars PROVE Hand'
  OBVIOUS
<1>1. CASE UNCHANGED vars
  BY <1>1 DEF vars, fsVars, opVars, Hand, FileTyping, OpTyping, AtWork, BeforeHash
<1> QED
  BY <1>1, CreateHand, ReadHand, MoveHand, WriteHand, FaultHand, EditHand DEF Next, Call

(***************************************************************************)
(* The texts of the files.                                                 *)
(***************************************************************************)

\* Every file with a name is written out, and no text is of an edit to come.
FilesWhole == \A f \in Paths : dir[f] # Nothing => Whole(dir[f])
Past == \A n \in Nat : UserMark(n) \in seen \/ (\E i \in Inodes : UserMark(n) \in file[i].text)
                          => n <= edits

\* What the executor writes is written out.
LEMMA NoteWhole ==
    ASSUME Hand, pc # "idle"
    PROVE  /\ NoteAfter(seen, op, PlanMark(op)) # {}
           /\ Torn \notin NoteAfter(seen, op, PlanMark(op))
           /\ \A n \in Nat : UserMark(n) \in NoteAfter(seen, op, PlanMark(op)) => UserMark(n) \in seen
<1>1. PlanMark(op) # Torn /\ Torn \notin seen
  BY HandFacts, MarkFacts DEF Hand, OpTyping
<1>2. \A n \in Nat : UserMark(n) # PlanMark(op)
  BY MarkFacts
<1> QED
  BY <1>1, <1>2 DEF NoteAfter

\* The end of an operation leaves no temporary file to think of.
LEMMA EndTexts ==
    ASSUME Hand, Texts, NEW how \in Outcomes, End(how), UNCHANGED <<file, edits>>, FilesWhole'
    PROVE  Texts'
<1>1. pc' = "idle" /\ temp' = Nothing /\ seen' = {}
  BY DEF End
<1>2. Past'
  BY <1>1 DEF Past, Texts
<1> QED
  BY <1>1, <1>2 DEF Texts, FilesWhole, Past, Reading

\* A name that goes away or to another name's file is no harm,
LEMMA NamesWhole ==
    ASSUME FilesWhole, UNCHANGED file,
           \A f \in Paths : dir'[f] = Nothing \/ \E g \in Paths : dir'[f] = dir[g]
    PROVE  FilesWhole'
BY DEF FilesWhole, Whole

\* The texts stay whole while the executor only looks,
LEMMA LookTexts ==
    ASSUME Hand, Texts, (\E o \in Ops : Begin(o)) \/ Lookup \/ OpenFile \/ ReadGuarded \/ ReadBack
                           \/ Check \/ Fault
    PROVE  Texts'
<1>1. UNCHANGED <<dir, file, edits>>
  BY DEF Begin, Lookup, OpenFile, ReadGuarded, ReadBack, Check, Fault, CallFails, UnlinkFails,
         RollbackFails, Crash, fsVars, Quietly
<1>2. FilesWhole /\ FilesWhole' /\ Past
  BY <1>1 DEF Texts, FilesWhole, Whole, Past
<1>3. CASE \E how \in Outcomes : End(how)
  BY <1>1, <1>2, <1>3, EndTexts
<1>4. CASE ~\E how \in Outcomes : End(how)
  <2>1. /\ temp' = temp
        /\ seen' = seen \/ (pc \in Reading /\ seen' = file[guard.ino].text)
    BY <1>4 DEF Begin, Lookup, OpenFile, ReadGuarded, ReadBack, Check, Fault, CallFails, UnlinkFails,
         RollbackFails, Crash, fsVars, Goto, Outcomes, Reading
  <2>2. pc \in Reading => guard.ino \in Inodes
    BY DEF Hand, AtWork
  <2>3. Past'
    BY <1>1, <1>2, <2>1, <2>2 DEF Past
  <2>4. pc' \in Reading => Whole(guard'.ino)
    <3>1. CASE OpenFile
      BY <1>2, <1>4, <3>1, HandFacts DEF OpenFile, FilesWhole, Outcomes
    <3>2. CASE ~OpenFile
      BY <1>4, <3>2 DEF Begin, Lookup, ReadGuarded, ReadBack, Check, Fault, CallFails, UnlinkFails,
         RollbackFails, Crash, Goto, Outcomes, Reading
    <3> QED
      BY <3>1, <3>2
  <2>5. pc' \in {"link_temp", "check", "rename"} =>
            pc = "check" /\ UNCHANGED <<op, seen>>
    BY <1>4 DEF Begin, Lookup, OpenFile, ReadGuarded, ReadBack, Check, Fault, CallFails, UnlinkFails,
         RollbackFails, Crash, fsVars, Goto, Outcomes
  <2> QED
    BY <1>1, <1>2, <2>1, <2>3, <2>4, <2>5 DEF Texts, FilesWhole, Past, Whole
<1> QED
  BY <1>3, <1>4

\* moves a file,
LEMMA MoveTexts ==
    ASSUME Hand, Texts, LinkDest \/ Unlink \/ Rollback
    PROVE  Texts'
<1>1. UNCHANGED <<file, edits>> /\ pc # "idle" /\ pc \notin Holding
  BY DEF LinkDest, Unlink, Rollback, Quietly, Holding
<1>2. op.path \in Paths /\ op.dest \in Paths /\ temp = Nothing
  BY <1>1, HandFacts DEF Hand, OpTyping
<1>3. \A f \in Paths : dir'[f] = Nothing \/ \E g \in Paths : dir'[f] = dir[g]
  BY <1>2 DEF LinkDest, Unlink, Rollback, Hand, FileTyping
<1>4. FilesWhole' /\ Past
  BY <1>1, <1>3, NamesWhole DEF Texts, FilesWhole, Past
<1>5. CASE \E how \in Outcomes : End(how)
  BY <1>1, <1>4, <1>5, EndTexts
<1>6. CASE ~\E how \in Outcomes : End(how)
  <2>1. UNCHANGED <<temp, seen>> /\ pc' \in {"unlink", "rollback", "reopen"}
    BY <1>6 DEF LinkDest, Unlink, Rollback, Goto, Outcomes
  <2> QED
    BY <1>1, <1>2, <1>4, <2>1 DEF Texts, FilesWhole, Past, Reading
<1> QED
  BY <1>5, <1>6

\* makes one,
LEMMA FillTexts ==
    ASSUME Hand, Texts, MakeTemp \/ FillTemp
    PROVE  Texts'
<1>1. UNCHANGED <<dir, op, seen, edits>> /\ pc \in {"mktemp", "fill"}
  BY DEF MakeTemp, FillTemp, Goto, Quietly
<1>2. CASE MakeTemp
  <2>1. PICK i \in Free : temp' = i /\ Fresh(i, {Torn}, 0)
    BY <1>2 DEF MakeTemp
  <2>2. i \in Inodes /\ \A f \in Paths : dir[f] # i
    BY DEF Free, Named
  <2>3. {Torn} \in SUBSET Marks /\ 0 \in Nat
    BY DEF Marks
  <2>4. file'[i].text = {Torn} /\ \A j \in Inodes \ {i} : file'[j] = file[j]
    BY <2>1, <2>2, <2>3, FreshTyping DEF Hand
  <2>5. \A n \in Nat : UserMark(n) # Torn
    BY MarkFacts
  <2>6. pc' = "fill"
    BY <1>2 DEF MakeTemp, Goto
  <2>7. \A f \in Paths : dir[f] # Nothing => file'[dir[f]] = file[dir[f]]
    BY <2>2, <2>4 DEF Hand, FileTyping
  <2>8. Past'
    BY <1>1, <2>4, <2>5 DEF Past, Texts
  <2> QED
    BY <1>1, <2>1, <2>2, <2>6, <2>7, <2>8 DEF Texts, Past, Whole, Reading
<1>3. CASE FillTemp
  <2>1. NoteAfter(seen, op, PlanMark(op)) \in SUBSET Marks
    BY <1>1, HandFacts, OpFacts, MarkFacts DEF NoteAfter, Hand, OpTyping
  <2>2. temp \in Inodes /\ guard.size + 1 \in Nat /\ temp # Nothing
    BY <1>3, HandFacts DEF FillTemp, Hand, OpTyping, Holding
  <2>3. /\ file'[temp].text = NoteAfter(seen, op, PlanMark(op))
        /\ \A j \in Inodes \ {temp} : file'[j] = file[j]
    BY <1>3, <2>1, <2>2, FreshTyping DEF FillTemp, Hand
  <2>4. temp' = temp /\ pc' \in {"link_temp", "check"}
    BY <1>3 DEF FillTemp, Goto
  <2>5. \A f \in Paths : dir[f] # temp /\ (dir[f] # Nothing => file'[dir[f]] = file[dir[f]])
    BY <2>2, <2>3 DEF Hand, FileTyping, Texts
  <2>6. Past'
    BY <1>1, <2>3, NoteWhole DEF Past, Texts
  <2> QED
    BY <1>1, <2>3, <2>4, <2>5, <2>6 DEF Texts, Past, Whole, Reading
<1> QED
  BY <1>2, <1>3

\* or puts it in place.
LEMMA PutTexts ==
    ASSUME Hand, Texts, LinkTemp \/ Rename
    PROVE  Texts'
<1>1. UNCHANGED <<file, edits>> /\ pc \in {"link_temp", "rename"}
  BY DEF LinkTemp, Rename, Quietly
<1>2. temp \in Inodes /\ op.path \in Paths /\ op.dest \in Paths
  BY <1>1, HandFacts DEF Holding
<1>3. Whole(temp)
  BY <1>1, NoteWhole, <1>2, InodesAssumption DEF Texts, Whole
<1>4. \A f \in Paths : dir'[f] = dir[f] \/ dir'[f] = temp
  BY <1>2 DEF LinkTemp, Rename, Target, Hand, FileTyping
<1>5. FilesWhole'
  BY <1>1, <1>3, <1>4 DEF Texts, FilesWhole, Whole
<1> QED
  BY <1>1, <1>5, EndTexts DEF LinkTemp, Rename, Outcomes

\* An edit adds text to a file nobody else is writing.
LEMMA EditTexts ==
    ASSUME Hand, Texts, Edit
    PROVE  Texts'
<1>0. FileTyping /\ edits \in Nat
  BY DEF Hand, FileTyping
<1>1. /\ edits' = edits + 1
      /\ UNCHANGED <<temp, litter, pc, op, guard, seen, outcome, faults>>
  BY <1>0, EditCases
<1>2. ASSUME NEW f \in Paths, NEW i \in Inodes, NEW size \in Nat, SaveStep(f, i, size)
      PROVE  Texts'
  <2>1. /\ dir' = [dir EXCEPT ![f] = i]
        /\ file'[i].text = NewText(f)
        /\ \A j \in Inodes \ {i} : file'[j] = file[j]
    BY <1>0, <1>2, SaveWrites
  <2>2. i # temp /\ (i = dir[f] \/ (pc \in Reading => i # guard.ino))
    BY <1>2, InodesAssumption DEF SaveStep, Unused, Texts
  <2>3. NewText(f) # {} /\ Torn \notin NewText(f)
    BY <1>0, MarkFacts DEF NewText, OldText, Texts, Whole
  <2>4. \A g \in Paths : dir'[g] # Nothing =>
            file'[dir'[g]].text # {} /\ Torn \notin file'[dir'[g]].text
    BY <1>0, <2>1, <2>3 DEF Texts, Whole, FileTyping
  <2>5. pc \in Reading => file'[guard.ino].text # {} /\ Torn \notin file'[guard.ino].text
    BY <2>1, <2>3 DEF Texts, Whole, Hand, AtWork
  <2>6. temp # Nothing => \A g \in Paths : dir'[g] # temp
    BY <1>0, <2>1, <2>2 DEF Texts, FileTyping
  <2>7. pc \in {"link_temp", "check", "rename"} => file'[temp] = file[temp]
    BY <2>1, <2>2, HandFacts DEF Holding
  <2>8. \A n \in Nat : UserMark(n) \in NewText(f) => n <= edits + 1
    <3> SUFFICES ASSUME NEW n \in Nat, UserMark(n) \in NewText(f) PROVE n <= edits + 1
      OBVIOUS
    <3>1. CASE UserMark(n) \in OldText(f)
      BY <1>0, <3>1 DEF OldText, Texts, FileTyping
    <3>2. CASE UserMark(n) = UserMark(edits + 1)
      BY <1>0, <3>2, MarkFacts
    <3> QED
      BY <3>1, <3>2 DEF NewText
  <2>9. \A n \in Nat : UserMark(n) \in seen \/ (\E j \in Inodes : UserMark(n) \in file'[j].text)
                          => n <= edits + 1
    BY <1>0, <2>1, <2>8 DEF Texts
  <2> QED
    BY <1>1, <2>4, <2>5, <2>6, <2>7, <2>9 DEF Texts, Whole
<1>3. ASSUME file' = file, \A f \in Paths : dir'[f] = Nothing \/ \E g \in Paths : dir'[f] = dir[g]
      PROVE  Texts'
  BY <1>0, <1>1, <1>3 DEF Texts, Whole
<1>4. ASSUME NEW f \in Paths, Delete(f)
      PROVE  Texts'
  BY <1>0, <1>3, <1>4 DEF Delete, FileTyping
<1>5. ASSUME NEW f \in Paths, NEW g \in Paths, MoveNote(f, g)
      PROVE  Texts'
  BY <1>0, <1>3, <1>5 DEF MoveNote, FileTyping
<1> QED
  BY <1>0, <1>2, <1>4, <1>5, EditCases

\* So nobody opens a note that is not written out.
LEMMA TextsNext == Hand /\ Texts /\ [Next]_vars => Texts'
<1> SUFFICES ASSUME Hand, Texts, [Next]_vars PROVE Texts'
  OBVIOUS
<1>1. CASE UNCHANGED vars
  BY <1>1 DEF vars, fsVars, opVars, Texts, Whole
<1> QED
  BY <1>1, LookTexts, MoveTexts, FillTexts, PutTexts, EditTexts DEF Next, Call

(***************************************************************************)
(* What the executor looked at before it replaces a note.                  *)
(***************************************************************************)

\* What a save does to the names: they keep their text and no other grows.
LEMMA SaveGrows ==
    ASSUME FileTyping, NEW f \in Paths, NEW i \in Inodes, NEW size \in Nat, SaveStep(f, i, size)
    PROVE  /\ \A g \in Paths : dir[g] # Nothing =>
                 dir'[g] # Nothing /\ file[dir[g]].text \subseteq file'[dir'[g]].text
           /\ \A g \in Paths : dir'[g] # i => dir'[g] = dir[g] /\ (dir[g] # Nothing => file'[dir[g]] = file[dir[g]])
           /\ \A g \in Paths : dir'[g] = i => /\ g = f \/ dir[g] = i
                                              /\ file'[i].text = OldText(g) \cup {UserMark(edits + 1)}
                                              /\ file'[i].size = size
<1>1. /\ dir' = [dir EXCEPT ![f] = i]
      /\ file'[i].text = NewText(f) /\ file'[i].size = size
      /\ \A j \in Inodes \ {i} : file'[j] = file[j]
  BY SaveWrites
<1>2. dir \in [Paths -> Inodes \cup {Nothing}] /\ Nothing \notin Inodes
  BY InodesAssumption DEF FileTyping
<1>3. ASSUME NEW g \in Paths, dir[g] = i
      PROVE  dir[f] = i
  BY <1>3 DEF SaveStep, Unused
<1>4. ASSUME NEW g \in Paths, dir'[g] = i
      PROVE  (g = f \/ dir[g] = i) /\ OldText(g) = OldText(f)
  BY <1>1, <1>2, <1>3, <1>4 DEF OldText
<1>5. ASSUME NEW g \in Paths, dir[g] # Nothing
      PROVE  dir'[g] # Nothing /\ file[dir[g]].text \subseteq file'[dir'[g]].text
  <2>1. CASE dir'[g] = i
    BY <1>1, <1>2, <1>4, <1>5, <2>1 DEF NewText, OldText
  <2>2. CASE dir'[g] # i
    BY <1>1, <1>2, <1>5, <2>2
  <2> QED
    BY <2>1, <2>2
<1>6. ASSUME NEW g \in Paths, dir'[g] # i
      PROVE  dir'[g] = dir[g] /\ (dir[g] # Nothing => file'[dir[g]] = file[dir[g]])
  BY <1>1, <1>2, <1>6
<1> QED
  BY <1>1, <1>4, <1>5, <1>6 DEF NewText

\* What the user writes now the executor has not read.
LEMMA NewMark ==
    ASSUME Hand, Texts
    PROVE  /\ UserMark(edits + 1) \notin seen
           /\ \A i \in Inodes : UserMark(edits + 1) \notin file[i].text
           /\ edits + 1 \in Nat
<1>1. edits \in Nat /\ edits + 1 \in Nat /\ ~(edits + 1 <= edits)
  BY DEF Hand, FileTyping
<1> QED
  BY <1>1 DEF Texts

\* The executor reads, compares and writes its temporary file,
LEMMA CallGuarded ==
    ASSUME Hand, Texts, Guarded, (\E o \in Ops : Begin(o)) \/ Call \/ Fault
    PROVE  Guarded'
<1> DEFINE Inside == {"mktemp", "fill", "check", "rename"}
<1>1. ASSUME pc' \notin Inside
      PROVE  Guarded'
  BY <1>1 DEF Guarded
<1>2. ASSUME pc' \in Inside
      PROVE  Lookup \/ ReadGuarded \/ ReadBack \/ MakeTemp \/ FillTemp \/ Check
  BY <1>2 DEF Call, Fault, Begin, OpenFile, LinkDest, Unlink, Rollback, LinkTemp, Rename,
              CallFails, UnlinkFails, RollbackFails, Crash, End, Goto
<1>3. ASSUME Lookup, pc' \in Inside
      PROVE  Guarded'
  BY <1>3 DEF Lookup, End, Goto, Guarded, Hand, AtWork
<1>4. ASSUME ReadGuarded \/ ReadBack, pc' \in Inside
      PROVE  Guarded'
  <2>1. /\ pc' = "mktemp" /\ seen' = file[guard.ino].text
        /\ UNCHANGED <<op, guard, dir, file, late>>
    BY <1>4 DEF ReadGuarded, ReadBack, End, Quietly
  <2>2. dir[Target] # Nothing /\ dir[Target] = guard.ino => Noticed'
    BY <2>1 DEF Noticed, Target
  <2> QED
    BY <2>1, <2>2 DEF Guarded, Matches, Target
<1>5. ASSUME MakeTemp \/ FillTemp
      PROVE  Guarded'
  <2>1. /\ pc \in {"mktemp", "fill"} /\ pc' \in {"fill", "check", "link_temp"}
        /\ UNCHANGED <<op, guard, seen, dir, late>>
    BY <1>5 DEF MakeTemp, FillTemp, Goto, Quietly
  <2>2. PICK i \in Inodes : (\E text, size : Fresh(i, text, size)) /\ \A f \in Paths : dir[f] # i
    <3>1. CASE MakeTemp
      BY <3>1 DEF MakeTemp, Free, Named
    <3>2. CASE FillTemp
      BY <3>2, HandFacts, InodesAssumption DEF FillTemp, Texts, Holding
    <3> QED
      BY <1>5, <3>1, <3>2
  <2>3. \A j \in Inodes \ {i} : file'[j] = file[j]
    BY <2>2 DEF Fresh, Hand, FileTyping
  <2>4. op.dest \in Paths
    BY <2>1, HandFacts
  <2>5. dir[Target] # Nothing => file'[dir[Target]] = file[dir[Target]]
    BY <2>2, <2>3, <2>4 DEF Target, Hand, FileTyping
  <2> QED
    BY <2>1, <2>5 DEF Guarded, Matches, Noticed, Target
<1>6. ASSUME Check, pc' \in Inside
      PROVE  Guarded'
  <2>1. Goto("rename") /\ Matches /\ pc = "check" /\ UNCHANGED <<dir, file, late>>
    BY <1>6 DEF Check, Matches, End, Quietly
  <2>2. op.kind # "create"
    BY <2>1 DEF Hand, AtWork
  <2> QED
    BY <2>1, <2>2 DEF Goto, Guarded, Noticed, Target
<1> QED
  BY <1>1, <1>2, <1>3, <1>4, <1>5, <1>6

\* and a save that it would not see is late.
LEMMA EditGuarded ==
    ASSUME Hand, Texts, Guarded, Edit
    PROVE  Guarded'
<1>0. FileTyping /\ Nothing \notin Inodes
  BY InodesAssumption DEF Hand
<1>1. UNCHANGED <<pc, op, guard, seen>>
  BY <1>0, EditCases
<1> SUFFICES ASSUME pc \in {"mktemp", "fill", "check", "rename"}, op.kind # "create",
                    pc = "rename" \/ Matches'
             PROVE  Noticed'
  <2>1. pc = "rename" => op.kind # "create"
    BY DEF Hand, AtWork
  <2> QED
    BY <1>1, <2>1 DEF Guarded
<1>2. Target' = Target /\ Target \in Paths
  BY <1>1, HandFacts DEF Target
<1>3. ASSUME dir'[Target] = dir[Target], late \subseteq late',
             dir[Target] # Nothing => file'[dir[Target]] = file[dir[Target]]
      PROVE  Noticed'
  <2>1. Matches' => Matches
    BY <1>1, <1>2, <1>3 DEF Matches
  <2>2. Noticed
    BY <2>1 DEF Guarded
  <2> QED
    BY <1>1, <1>2, <1>3, <2>2 DEF Noticed
<1>4. ASSUME NEW f \in Paths, NEW i \in Inodes, NEW size \in Nat, SaveStep(f, i, size)
      PROVE  Noticed'
  <2>1. late \subseteq late'
    BY <1>0, <1>4, SaveWrites
  <2>2. CASE dir'[Target] # i
    BY <1>0, <1>2, <1>3, <1>4, <2>1, <2>2, SaveGrows
  <2>3. CASE dir'[Target] = i
    <3>1. /\ Target = f \/ dir[Target] = i
          /\ file'[i].size = size /\ file'[i].text = NewText(f)
      BY <1>0, <1>2, <1>4, <2>3, SaveGrows, SaveWrites
    <3>2. Blind(Target, i, size) \/ (Window(Target) /\ ~RidesAlong(i))
      BY <1>1, <1>2, <2>3, <3>1 DEF Blind, Window, RidesAlong, Matches
    <3>3. late' = late \cup (NewText(f) \ seen)
      BY <1>2, <1>4, <3>1, <3>2 DEF SaveStep, Saved
    <3>4. UserMark(edits + 1) \in late'
      BY <3>3, NewMark DEF NewText
    <3> QED
      BY <1>1, <1>2, <2>3, <3>1, <3>3, <3>4 DEF Noticed
  <2> QED
    BY <2>2, <2>3
<1>5. ASSUME NEW f \in Paths, Delete(f)
      PROVE  Noticed'
  <2>1. /\ dir' = [dir EXCEPT ![f] = Nothing] /\ file' = file
        /\ late' = late \cup file[dir[f]].text /\ file[dir[f]].text # {}
    BY <1>5 DEF Delete, View, TextAt, Texts, Whole
  <2>2. CASE Target = f
    BY <1>0, <1>2, <2>1, <2>2 DEF Noticed, FileTyping
  <2>3. CASE Target # f
    BY <1>0, <1>2, <1>3, <2>1, <2>3 DEF FileTyping
  <2> QED
    BY <2>2, <2>3
<1>6. ASSUME NEW f \in Paths, NEW g \in Paths, MoveNote(f, g)
      PROVE  Noticed'
  <2>1. /\ dir' = [dir EXCEPT ![g] = dir[f], ![f] = Nothing] /\ file' = file /\ f # g
        /\ dir[f] # Nothing /\ file[dir[f]].text # {} /\ late \subseteq late'
        /\ (Window(f) \/ Window(g) \/ Blind(g, dir[f], file[dir[f]].size))
               => late' = late \cup file[dir[f]].text
    BY <1>6 DEF MoveNote, View, TextAt, Texts, Whole
  <2>2. CASE Target = f
    <3>1. dir'[Target] = Nothing
      BY <1>0, <2>1, <2>2 DEF FileTyping
    <3>2. pc = "rename"
      BY <1>2, <3>1 DEF Matches
    <3>3. Window(f)
      BY <2>2, <3>2 DEF Window
    <3> QED
      BY <1>2, <2>1, <3>1, <3>3 DEF Noticed
  <2>3. CASE Target = g
    <3>1. dir'[Target] = dir[f]
      BY <1>0, <2>1, <2>3 DEF FileTyping
    <3>2. Window(g) \/ Blind(g, dir[f], file[dir[f]].size)
      BY <1>1, <1>2, <2>1, <2>3, <3>1 DEF Window, Blind, Matches
    <3> QED
      BY <1>2, <2>1, <3>1, <3>2 DEF Noticed
  <2>4. CASE Target # f /\ Target # g
    BY <1>0, <1>2, <1>3, <2>1, <2>4 DEF FileTyping
  <2> QED
    BY <2>2, <2>3, <2>4
<1> QED
  BY <1>0, <1>4, <1>5, <1>6, EditCases

\* A rewrite never replaces text it has not seen, late edits aside.
LEMMA GuardedNext == Hand /\ Texts /\ Guarded /\ [Next]_vars => Guarded'
<1> SUFFICES ASSUME Hand, Texts, Guarded, [Next]_vars PROVE Guarded'
  OBVIOUS
<1>1. CASE UNCHANGED vars
  BY <1>1 DEF vars, fsVars, opVars, Guarded, Matches, Noticed, Target
<1> QED
  BY <1>1, CallGuarded, EditGuarded DEF Next

(***************************************************************************)
(* What a move takes away.                                                 *)
(***************************************************************************)

\* A move links before it unlinks,
LEMMA CallTaken ==
    ASSUME Hand, Texts, Taken, (\E o \in Ops : Begin(o)) \/ Call \/ Fault
    PROVE  Taken'
<1> USE DEF Taken
<1>1. ASSUME pc' \in {"unlink", "rollback"}
      PROVE  LinkDest \/ Unlink \/ UnlinkFails
  BY <1>1 DEF Call, Fault, Begin, Lookup, OpenFile, ReadGuarded, ReadBack, MakeTemp, FillTemp, Check,
              LinkTemp, Rename, Rollback, CallFails, RollbackFails, Crash, End, Goto
<1>2. ASSUME LinkDest, pc' \in {"unlink", "rollback"}
      PROVE  Taken'
  <2>1. /\ dir' = [dir EXCEPT ![op.dest] = dir[op.path]] /\ dir[op.path] # Nothing
        /\ dir[op.dest] = Nothing
        /\ pc' = "unlink" /\ UNCHANGED <<op, file, late>>
    BY <1>2 DEF LinkDest, End, Goto, Quietly
  <2>2. op.path \in Paths /\ op.dest \in Paths /\ op.path # op.dest
    BY <1>2, <2>1, HandFacts DEF LinkDest
  <2>3. dir'[op.dest] = dir[op.path] /\ dir'[op.path] = dir[op.path]
    BY <2>1, <2>2 DEF Hand, FileTyping
  <2>4. Covered(op.path)' /\ Covered(op.dest)'
    BY <2>1, <2>2, <2>3 DEF Covered
  <2> QED
    BY <2>1, <2>4
<1>3. ASSUME Unlink \/ UnlinkFails, pc' \in {"unlink", "rollback"}
      PROVE  Taken'
  <2>1. /\ pc = "unlink" /\ pc' = "rollback" /\ UNCHANGED <<op, file, late>>
        /\ dir' = dir \/ (dir[op.path] = Nothing /\ dir' = [dir EXCEPT ![op.path] = Nothing])
    BY <1>3 DEF Unlink, UnlinkFails, Goto, Quietly, fsVars
  <2>2. dir' = dir
    BY <2>1 DEF Hand, FileTyping
  <2> QED
    BY <2>1, <2>2 DEF Covered
<1> QED
  BY <1>1, <1>2, <1>3

\* and what is only at the name it unlinks was written too late.
LEMMA EditCovered ==
    ASSUME Hand, Texts, Edit, NEW F \in Paths, Covered(F),
           pc \in {"unlink", "rollback"}, F \in {op.path, op.dest}
    PROVE  Covered(F)'
<1>0. FileTyping /\ Nothing \notin Inodes
  BY InodesAssumption DEF Hand
<1>1. /\ op.path \in Paths /\ op.dest \in Paths /\ op.path # op.dest
      /\ Window(F)
  BY HandFacts DEF Hand, AtWork, Window
<1>2. ASSUME NEW f \in Paths, NEW i \in Inodes, NEW size \in Nat, SaveStep(f, i, size)
      PROVE  Covered(F)'
  <2> SUFFICES ASSUME dir'[F] # Nothing, NEW m \in file'[dir'[F]].text, m \notin late'
               PROVE  \E g \in Paths \ {F} : dir'[g] # Nothing /\ m \in file'[dir'[g]].text
    BY DEF Covered
  <2>1. late \subseteq late'
    BY <1>0, <1>2, SaveWrites
  <2>2. CASE dir[F] # Nothing /\ m \in file[dir[F]].text
    <3>1. PICK g \in Paths \ {F} : dir[g] # Nothing /\ m \in file[dir[g]].text
      BY <2>1, <2>2 DEF Covered
    <3> QED
      BY <1>0, <1>2, <3>1, SaveGrows
  <2>3. CASE ~(dir[F] # Nothing /\ m \in file[dir[F]].text)
    <3>1. dir'[F] = i
      BY <1>0, <1>2, <2>3, SaveGrows
    <3>2. m = UserMark(edits + 1) /\ (F = f \/ dir[F] = i) /\ m \in NewText(f)
      BY <1>0, <1>2, <2>3, <3>1, SaveGrows, SaveWrites DEF OldText
    <3>3. m \notin seen
      BY <3>2, NewMark
    <3>4. RidesAlong(i)
      BY <1>1, <1>2, <3>2, <3>3 DEF SaveStep, Saved
    <3>5. PICK g \in {op.path, op.dest} \ {F} : dir[g] = i
      BY <1>1, <3>4 DEF RidesAlong
    <3>6. dir'[g] = i
      BY <1>0, <1>1, <1>2, <3>5, SaveWrites DEF FileTyping
    <3> QED
      BY <1>0, <1>1, <3>1, <3>5, <3>6
  <2> QED
    BY <2>2, <2>3
<1>3. ASSUME NEW f \in Paths, Delete(f)
      PROVE  Covered(F)'
  <2>1. /\ dir' = [dir EXCEPT ![f] = Nothing] /\ file' = file
        /\ late' = late \cup file[dir[f]].text
    BY <1>3 DEF Delete, View, TextAt
  <2>2. \A g \in Paths : g # f => dir'[g] = dir[g]
    BY <1>0, <2>1 DEF FileTyping
  <2>3. dir'[f] = Nothing
    BY <1>0, <2>1 DEF FileTyping
  <2> QED
    BY <2>1, <2>2, <2>3 DEF Covered
<1>4. ASSUME NEW f \in Paths, NEW g \in Paths, MoveNote(f, g)
      PROVE  Covered(F)'
  <2>1. /\ dir' = [dir EXCEPT ![g] = dir[f], ![f] = Nothing] /\ file' = file /\ f # g
        /\ dir[f] # Nothing /\ dir[g] = Nothing
        /\ late' = IF Window(f) \/ Window(g) \/ Blind(g, dir[f], file[dir[f]].size)
                   THEN late \cup file[dir[f]].text ELSE late
    BY <1>4 DEF MoveNote, View, TextAt
  <2>2. /\ dir'[f] = Nothing /\ dir'[g] = dir[f]
        /\ \A h \in Paths : h # f /\ h # g => dir'[h] = dir[h]
    BY <1>0, <2>1 DEF FileTyping
  <2>3. CASE F = f
    BY <2>2, <2>3 DEF Covered
  <2>4. CASE F = g
    BY <1>1, <2>1, <2>2, <2>4 DEF Covered
  <2>5. CASE F # f /\ F # g
    <3> SUFFICES ASSUME dir[F] # Nothing, NEW m \in file[dir[F]].text, m \notin late
                 PROVE  \E h \in Paths \ {F} : dir'[h] # Nothing /\ m \in file[dir'[h]].text
      BY <2>1, <2>2, <2>5 DEF Covered
    <3>1. PICK h \in Paths \ {F} : dir[h] # Nothing /\ m \in file[dir[h]].text
      BY DEF Covered
    <3>2. CASE h = f
      BY <2>1, <2>2, <2>5, <3>1, <3>2
    <3>3. CASE h # f
      BY <2>1, <2>2, <3>1, <3>3
    <3> QED
      BY <3>2, <3>3
  <2> QED
    BY <2>3, <2>4, <2>5
<1> QED
  BY <1>0, <1>2, <1>3, <1>4, EditCases

\* A move takes away nothing that is not elsewhere, late edits aside.
LEMMA TakenNext == Hand /\ Texts /\ Taken /\ [Next]_vars => Taken'
<1> SUFFICES ASSUME Hand, Texts, Taken, [Next]_vars PROVE Taken'
  OBVIOUS
<1>1. CASE UNCHANGED vars
  BY <1>1 DEF vars, fsVars, opVars, Taken, Covered
<1>2. CASE Edit
  <2>1. UNCHANGED <<pc, op>>
    BY <1>2, EditCases DEF Hand
  <2>2. pc # "idle" => op.path \in Paths /\ op.dest \in Paths
    BY HandFacts
  <2>3. ASSUME pc = "unlink" PROVE Covered(op.path)' /\ Covered(op.dest)'
    BY <1>2, <2>1, <2>2, <2>3, EditCovered DEF Taken, Covered
  <2>4. ASSUME pc = "rollback" PROVE Covered(op.dest)'
    BY <1>2, <2>1, <2>2, <2>4, EditCovered DEF Taken, Covered
  <2> QED
    BY <2>1, <2>3, <2>4 DEF Taken
<1> QED
  BY <1>1, <1>2, CallTaken DEF Next

(***************************************************************************)
(* No two names share a file, but within a move.                           *)
(***************************************************************************)

\* What disturbed a move stays on record.
LEMMA CalmBefore ==
    ASSUME Hand, [Next]_vars, Calm'
    PROVE  Calm
<1>1. CASE UNCHANGED vars
  BY <1>1 DEF vars, opVars, Calm
<1>2. CASE Edit
  <2>1. outcome' = outcome /\ faults' = faults
    BY <1>2, EditCases DEF Hand
  <2>2. late \subseteq late'
    <3>1. ASSUME NEW f \in Paths, NEW i \in Inodes, NEW size \in Nat, SaveStep(f, i, size)
          PROVE  late \subseteq late'
      BY <3>1, SaveWrites DEF Hand
    <3>2. ASSUME NEW f \in Paths, NEW g \in Paths, Delete(f) \/ MoveNote(f, g)
          PROVE  late \subseteq late'
      BY <3>2 DEF Delete, MoveNote
    <3> QED
      BY <1>2, <3>1, <3>2, EditCases DEF Hand
  <2> QED
    BY <2>1, <2>2 DEF Calm
<1>3. CASE (\E o \in Ops : Begin(o)) \/ Call \/ Fault
  <2>1. late' = late /\ (faults' < 2 => faults < 2)
    BY <1>3 DEF Begin, Call, Lookup, OpenFile, ReadGuarded, LinkDest, Unlink, Rollback, ReadBack,
                MakeTemp, FillTemp, LinkTemp, Check, Rename, Quietly, Fault, CallFails, UnlinkFails,
                RollbackFails, Crash, Failing, Hand, FileTyping
  <2>2. \/ outcome' = outcome
        \/ \E o \in Ops : outcome[o] = "todo" /\ outcome' = [outcome EXCEPT ![o] = "running"]
        \/ pc # "idle" /\ \E how \in Outcomes : outcome' = [outcome EXCEPT ![op] = how]
    <3>1. CASE \E how \in Outcomes : End(how) /\ pc # "idle"
      BY <3>1 DEF End
    <3>2. CASE \E o \in Ops : Begin(o)
      BY <3>2 DEF Begin
    <3>3. CASE Goto(pc') \/ outcome' = outcome
      BY <3>3 DEF Goto
    <3> QED
      BY <1>3, <3>1, <3>2, <3>3
      DEF Call, Lookup, OpenFile, ReadGuarded, LinkDest, Unlink, Rollback, ReadBack, MakeTemp,
          FillTemp, LinkTemp, Check, Rename, Fault, CallFails, UnlinkFails, RollbackFails, Crash,
          Goto, Outcomes
  <2>3. pc # "idle" => outcome[op] = "running"
    BY HandFacts
  <2>4. \A o \in Ops : outcome[o] = "died" => outcome'[o] = "died" \/ (pc # "idle" /\ o = op)
    BY <2>2 DEF Hand, OpTyping
  <2> QED
    BY <2>1, <2>3, <2>4 DEF Calm
<1> QED
  BY <1>1, <1>2, <1>3 DEF Next

\* Two names that share a file.
Shared(f, g) == f # g /\ dir[f] = dir[g] /\ dir[f] # Nothing

\* The executor's calls make a pair only of the two names of a move,
LEMMA CallApart ==
    ASSUME Hand, Texts, Apart, (\E o \in Ops : Begin(o)) \/ Call \/ Fault, Calm, Calm'
    PROVE  Apart'
<1>0. /\ \A f, g \in Paths : Shared(f, g) =>
             /\ pc \in {"unlink", "rollback"} /\ {f, g} = {op.path, op.dest}
             /\ pc = "rollback" => faults > 0
      /\ dir \in [Paths -> Inodes \cup {Nothing}]
  BY DEF Apart, Shared, Hand, FileTyping
<1> SUFFICES ASSUME NEW f \in Paths, NEW g \in Paths, Shared(f, g)'
             PROVE  /\ pc' \in {"unlink", "rollback"} /\ {f, g} \subseteq {op'.path, op'.dest}
                    /\ pc' = "rollback" => faults' > 0
  BY DEF Apart, Shared
<1>1. CASE dir' = dir
  <2>1. Shared(f, g)
    BY <1>1 DEF Shared
  <2>2. pc \in {"unlink", "rollback"} /\ {f, g} = {op.path, op.dest}
    BY <1>0, <2>1
  <2>3. dir[op.path] # Nothing /\ dir[op.dest] # Nothing /\ op.path \in Paths /\ op.dest \in Paths
    BY <2>1, <2>2 DEF Shared
  <2>4. Unlink => dir'[op.path] = Nothing
    BY <1>0, <2>3 DEF Unlink
  <2>5. Rollback => dir'[op.dest] = Nothing
    BY <1>0, <2>3 DEF Rollback
  <2>6. UnlinkFails \/ RollbackFails \/ Crash
    BY <1>1, <2>2, <2>3, <2>4, <2>5
       DEF Begin, Call, Lookup, OpenFile, ReadGuarded, LinkDest, ReadBack, MakeTemp, FillTemp,
           LinkTemp, Check, Rename, Fault, CallFails
  <2>7. ~Crash
    <3> SUFFICES ASSUME Crash PROVE FALSE
      OBVIOUS
    <3>1. op \in Ops /\ outcome'[op] = "died"
      BY <2>2, HandFacts DEF Crash, End, Hand, OpTyping
    <3> QED
      BY <3>1 DEF Calm
  <2>8. ~RollbackFails
    <3> SUFFICES ASSUME RollbackFails PROVE FALSE
      OBVIOUS
    <3>1. faults > 0 /\ faults' = faults + 1 /\ faults \in Nat
      BY <1>0, <2>1 DEF RollbackFails, Failing, Hand, FileTyping
    <3> QED
      BY <3>1 DEF Calm
  <2>9. UnlinkFails
    BY <2>6, <2>7, <2>8
  <2> QED
    BY <2>2, <2>9 DEF UnlinkFails, Failing, Goto, Hand, FileTyping
<1>2. CASE Unlink /\ dir' # dir
  <2>1. op.path \in Paths /\ op.dest \in Paths
    BY <1>2, HandFacts DEF Unlink
  <2>2. dir' = [dir EXCEPT ![op.path] = Nothing]
    BY <1>2 DEF Unlink
  <2>3. Shared(f, g) /\ f # op.path /\ g # op.path
    BY <1>0, <2>1, <2>2 DEF Shared
  <2> QED
    BY <1>0, <2>3 DEF Shared
<1>3. CASE Rollback /\ dir' # dir
  <2>1. op.path \in Paths /\ op.dest \in Paths
    BY <1>3, HandFacts DEF Rollback
  <2>2. dir' = [dir EXCEPT ![op.dest] = Nothing]
    BY <1>3 DEF Rollback
  <2>3. Shared(f, g) /\ f # op.dest /\ g # op.dest
    BY <1>0, <2>1, <2>2 DEF Shared
  <2> QED
    BY <1>0, <2>3 DEF Shared
<1>4. CASE LinkDest /\ dir' # dir
  <2>1. /\ dir' = [dir EXCEPT ![op.dest] = dir[op.path]]
        /\ pc = "link_dest" /\ pc' = "unlink" /\ op' = op
    BY <1>4 DEF LinkDest, Goto
  <2>2. ~Shared(f, g)
    BY <1>0, <2>1
  <2>3. op.path \in Paths /\ op.dest \in Paths
    BY <2>1, HandFacts
  <2>4. f = op.dest \/ g = op.dest
    BY <1>0, <2>1, <2>2 DEF Shared
  <2>5. {f, g} \subseteq {op.path, op.dest}
    BY <1>0, <2>1, <2>3, <2>4 DEF Shared
  <2> QED
    BY <2>1, <2>5
<1>5. CASE (LinkTemp \/ Rename) /\ dir' # dir
  <2>1. PICK h \in Paths : dir' = [dir EXCEPT ![h] = temp]
    BY <1>5, HandFacts DEF LinkTemp, Rename, Target
  <2>2. pc \in {"link_temp", "rename"} /\ \A k \in Paths : dir[k] # temp
    BY <1>5, HandFacts, InodesAssumption DEF LinkTemp, Rename, Texts, Holding
  <2>3. Shared(f, g)
    BY <1>0, <2>1, <2>2 DEF Shared
  <2> QED
    BY <1>0, <2>2, <2>3
<1> QED
  BY <1>1, <1>2, <1>3, <1>4, <1>5
     DEF Begin, Call, Lookup, OpenFile, ReadGuarded, ReadBack, MakeTemp, FillTemp, Check, Fault,
         CallFails, UnlinkFails, RollbackFails, Crash, fsVars

\* and the user makes none.
LEMMA EditApart ==
    ASSUME Hand, Texts, Apart, Edit, Calm, Calm'
    PROVE  Apart'
<1>0. /\ FileTyping /\ Nothing \notin Inodes
      /\ UNCHANGED <<pc, op, faults>>
  BY EditCases, InodesAssumption DEF Hand
<1> SUFFICES ASSUME NEW f \in Paths, NEW g \in Paths, Shared(f, g)'
             PROVE  Shared(f, g)
  BY <1>0 DEF Apart, Shared
<1>1. ASSUME NEW h \in Paths, NEW i \in Inodes, NEW size \in Nat, SaveStep(h, i, size)
      PROVE  Shared(f, g)
  <2>1. dir' = [dir EXCEPT ![h] = i] /\ (i = dir[h] \/ \A k \in Paths : dir[k] # i)
    BY <1>0, <1>1, SaveWrites DEF SaveStep, Unused
  <2> QED
    BY <1>0, <2>1 DEF Shared, FileTyping
<1>2. ASSUME NEW h \in Paths, Delete(h)
      PROVE  Shared(f, g)
  BY <1>0, <1>2 DEF Delete, Shared, FileTyping
<1>3. ASSUME NEW h \in Paths, NEW k \in Paths, MoveNote(h, k)
      PROVE  Shared(f, g)
  <2>1. /\ dir' = [dir EXCEPT ![k] = dir[h], ![h] = Nothing]
        /\ dir[h] # Nothing /\ dir[k] = Nothing /\ file[dir[h]].text # {}
        /\ Window(h) => late' = late \cup file[dir[h]].text
    BY <1>3 DEF MoveNote, View, TextAt, Texts, Whole
  <2>2. ~Window(h)
    BY <2>1 DEF Calm
  <2>3. \A l \in Paths : ~Shared(l, h)
    BY <2>2 DEF Apart, Shared, Window
  <2> QED
    BY <1>0, <2>1, <2>3 DEF Shared, FileTyping
<1> QED
  BY <1>0, <1>1, <1>2, <1>3, EditCases

\* A move leaves a note at one path.
LEMMA ApartNext == Hand /\ Texts /\ Apart /\ [Next]_vars => Apart'
<1> SUFFICES ASSUME Hand, Texts, Apart, [Next]_vars, Calm' PROVE Apart'
  BY DEF Apart
<1>1. Calm
  BY CalmBefore
<1>2. CASE UNCHANGED vars
  BY <1>2 DEF vars, fsVars, opVars, Apart, Calm
<1> QED
  BY <1>1, <1>2, CallApart, EditApart DEF Next

(***************************************************************************)
(* The invariant and what follows from it.                                 *)
(***************************************************************************)

\* Before the first call there is nothing but the notes of the plan's making.
LEMMA FilesInit == Init => FilesIInv
<1> SUFFICES ASSUME Init PROVE FilesIInv
  OBVIOUS
<1>1. \A f \in Initial : BaseMark(f) \in Marks /\ BaseMark(f) # Torn
  BY OpsAssumption, MarkFacts
<1>2. \A n \in Nat, f \in Paths : UserMark(n) # BaseMark(f)
  BY MarkFacts
<1>3. Initial \subseteq Paths /\ Initial \subseteq Inodes /\ Nothing \notin Inodes
  BY OpsAssumption, InodesAssumption
<1>4. \A i \in Inodes : /\ file[i].text = IF i \in Initial THEN {BaseMark(i)} ELSE {}
                        /\ file[i].size = 1
  BY DEF Init
<1>5. FileTyping
  <2>1. file \in [Inodes -> [text : SUBSET Marks, size : Nat]]
    BY <1>1 DEF Init
  <2> QED
    BY <1>3, <2>1 DEF Init, FileTyping
<1>6. OpTyping
  BY DEF Init, OpTyping, NoGuard, Pcs, Outcomes, Holding
<1>7. AtWork
  BY DEF Init, AtWork, Moving, Reading, Rewriting
<1>8. Texts
  <2>1. \A f \in Paths : dir[f] # Nothing => f \in Initial /\ dir[f] = f
    BY DEF Init
  <2>2. \A f \in Paths : dir[f] # Nothing => Whole(dir[f])
    <3>1. \A i \in Initial : Whole(i)
      BY <1>1, <1>3, <1>4 DEF Whole
    <3> QED
      BY <2>1, <3>1
  <2>3. \A n \in Nat, i \in Inodes : UserMark(n) \notin file[i].text
    BY <1>2, <1>3, <1>4
  <2>4. pc = "idle" /\ temp = Nothing /\ seen = {}
    BY DEF Init
  <2> QED
    BY <2>2, <2>3, <2>4 DEF Texts, Reading
<1>9. Guarded /\ Taken /\ Apart
  BY <1>3 DEF Init, Guarded, Taken, Apart
<1> QED
  BY <1>5, <1>6, <1>7, <1>8, <1>9 DEF FilesIInv

\* Every step keeps it.
LEMMA FilesNext == FilesIInv /\ [Next]_vars => FilesIInv'
BY HandNext, TextsNext, GuardedNext, TakenNext, ApartNext DEF FilesIInv, Hand

\* The invariant holds in every state.
LEMMA FilesAlways == Spec => []FilesIInv
BY FilesInit, FilesNext, PTL DEF Spec

(***************************************************************************)
(* Whatever fails, dies or is edited between two calls: no temporary file  *)
(* is forgotten, nobody opens a note that is half written, and a move that *)
(* was not disturbed twice leaves its note at one path.                    *)
(***************************************************************************)
THEOREM FilesInvariant == Spec => []FilesInv
<1>1. FilesIInv => FilesInv
  <2> SUFFICES ASSUME FilesIInv PROVE FilesInv
    OBVIOUS
  <2>1. TypeOK
    BY DEF FilesIInv, FileTyping, OpTyping, Holding, TypeOK
  <2>2. NotesAreWhole
    BY DEF FilesIInv, Texts, Whole, NotesAreWhole, View, TextAt
  <2>3. MovesDoNotCopy
    BY DEF FilesIInv, Apart, Calm, MovesDoNotCopy
  <2> QED
    BY <2>1, <2>2, <2>3 DEF FilesInv
<1> QED
  BY <1>1, FilesAlways, PTL

\* The marks in the vault are those of the files that have a name.
LEMMA MarksInFiles ==
    ASSUME Absent \notin SUBSET Marks,
           NEW names \in [Paths -> Inodes \cup {Nothing}],
           NEW files \in [Inodes -> [text : SUBSET Marks, size : Nat]],
           NEW m
    PROVE  m \in MarksIn([f \in Paths |-> TextAt(names, files, f)]) <=>
               \E f \in Paths : names[f] # Nothing /\ m \in files[names[f]].text
<1> DEFINE v == [f \in Paths |-> TextAt(names, files, f)]
<1>1. \A f \in Paths : names[f] # Nothing => files[names[f]].text \in SUBSET Marks
  OBVIOUS
<1>2. \A f \in Paths : (v[f] # Absent <=> names[f] # Nothing)
                       /\ (names[f] # Nothing => v[f] = files[names[f]].text)
  BY <1>1 DEF TextAt
<1> HIDE DEF v
<1>3. m \in MarksIn(v) <=> \E f \in Paths : v[f] # Absent /\ m \in v[f]
  BY DEF MarksIn
<1>4. m \in MarksIn(v) <=> \E f \in Paths : names[f] # Nothing /\ m \in files[names[f]].text
  BY <1>2, <1>3
<1> QED
  BY <1>4 DEF v

\* The executor's calls that touch names or files of notes.
LEMMA CallShapes ==
    ASSUME Hand, Texts, [Next]_vars, edits' = edits
    PROVE  \/ /\ dir' = dir
              /\ \A f \in Paths : dir[f] # Nothing => file'[dir[f]] = file[dir[f]]
           \/ LinkDest /\ file' = file /\ dir[op.dest] = Nothing
                       /\ dir' = [dir EXCEPT ![op.dest] = dir[op.path]]
           \/ Unlink /\ file' = file
           \/ Rollback /\ file' = file
           \/ LinkTemp /\ file' = file /\ dir[op.path] = Nothing
                       /\ dir' = [dir EXCEPT ![op.path] = temp]
           \/ Rename /\ file' = file
<1>1. ~Edit
  BY EditCases DEF Hand, FileTyping
<1>2. CASE MakeTemp \/ FillTemp
  <2>1. PICK i \in Inodes : (\E text, size : Fresh(i, text, size)) /\ \A f \in Paths : dir[f] # i
    <3>1. CASE MakeTemp
      BY <3>1 DEF MakeTemp, Free, Named
    <3>2. CASE FillTemp
      BY <3>2, HandFacts, InodesAssumption DEF FillTemp, Texts, Holding
    <3> QED
      BY <1>2, <3>1, <3>2
  <2>2. \A j \in Inodes \ {i} : file'[j] = file[j]
    BY <2>1 DEF Fresh, Hand, FileTyping
  <2>3. dir' = dir
    BY <1>2 DEF MakeTemp, FillTemp
  <2> QED
    BY <2>1, <2>2, <2>3 DEF Hand, FileTyping
<1>3. CASE ~(MakeTemp \/ FillTemp)
  <2>1. file' = file
    BY <1>1, <1>3
       DEF Next, Begin, Call, Lookup, OpenFile, ReadGuarded, LinkDest, Unlink, Rollback, ReadBack,
           LinkTemp, Check, Rename, Fault, CallFails, UnlinkFails, RollbackFails, Crash, fsVars, vars
  <2>2. \/ LinkDest /\ dir' # dir
        \/ Unlink \/ Rollback \/ Rename
        \/ LinkTemp /\ dir' # dir
        \/ dir' = dir
    BY <1>1, <1>3
       DEF Next, Begin, Call, Lookup, OpenFile, ReadGuarded, ReadBack, LinkDest, LinkTemp,
           Check, Fault, CallFails, UnlinkFails, RollbackFails, Crash, fsVars, vars
  <2>3. LinkDest /\ dir' # dir => /\ dir[op.dest] = Nothing
                                  /\ dir' = [dir EXCEPT ![op.dest] = dir[op.path]]
    BY DEF LinkDest
  <2>4. LinkTemp /\ dir' # dir => /\ dir[op.path] = Nothing
                                  /\ dir' = [dir EXCEPT ![op.path] = temp]
    BY DEF LinkTemp
  <2> QED
    BY <2>1, <2>2, <2>3, <2>4
<1> QED
  BY <1>2, <1>3

(***************************************************************************)
(* The executor's hand takes text out of the vault only where a rewrite    *)
(* replaces what its plan was made from, or where the user wrote it when   *)
(* no check was left to show it.  (Absent stands for no text.)             *)
(***************************************************************************)
THEOREM OnlyLateTextIsLost ==
    ASSUME Absent \notin SUBSET Marks
    PROVE  Spec => OnlyLateEditsAreLost
<1>1. ASSUME FilesIInv, FilesIInv', [Next]_vars, edits' = edits
      PROVE  (MarksIn(View) \ MarksIn(View')) \subseteq (late \cup Replaced)
  <2>0. /\ Hand /\ Texts /\ Guarded /\ Taken
        /\ dir \in [Paths -> Inodes \cup {Nothing}]
        /\ file \in [Inodes -> [text : SUBSET Marks, size : Nat]]
        /\ dir' \in [Paths -> Inodes \cup {Nothing}]
        /\ file' \in [Inodes -> [text : SUBSET Marks, size : Nat]]
    BY <1>1 DEF FilesIInv, Hand, FileTyping
  <2> SUFFICES ASSUME NEW m, m \in MarksIn(View), m \notin MarksIn(View'), m \notin late
               PROVE  m \in Replaced
    OBVIOUS
  <2>1. PICK f \in Paths : dir[f] # Nothing /\ m \in file[dir[f]].text
    BY <2>0, MarksInFiles DEF View
  <2>2. \A g \in Paths : dir'[g] # Nothing => m \notin file'[dir'[g]].text
    BY <2>0, MarksInFiles DEF View
  <2>3. CASE Unlink /\ file' = file
    <3>1. dir' = [dir EXCEPT ![op.path] = Nothing] /\ Covered(op.path) /\ op.path \in Paths
      BY <2>0, <2>3, HandFacts DEF Unlink, Taken
    <3>2. PICK g \in Paths : g # op.path /\ dir[g] # Nothing /\ m \in file[dir[g]].text
      BY <2>1, <3>1 DEF Covered
    <3>3. dir'[g] = dir[g]
      BY <2>0, <3>1, <3>2
    <3> QED
      BY <2>2, <2>3, <3>2, <3>3
  <2>4. CASE Rollback /\ file' = file
    <3>1. dir' = [dir EXCEPT ![op.dest] = Nothing] /\ Covered(op.dest) /\ op.dest \in Paths
      BY <2>0, <2>4, HandFacts DEF Rollback, Taken
    <3>2. PICK g \in Paths : g # op.dest /\ dir[g] # Nothing /\ m \in file[dir[g]].text
      BY <2>1, <3>1 DEF Covered
    <3>3. dir'[g] = dir[g]
      BY <2>0, <3>1, <3>2
    <3> QED
      BY <2>2, <2>4, <3>2, <3>3
  <2>5. CASE Rename /\ file' = file
    <3>1. /\ pc = "rename" /\ dir' = [dir EXCEPT ![op.dest] = temp] /\ Noticed
          /\ op.dest \in Paths /\ op.kind \in OpKinds /\ op.kind # "create"
          /\ temp \in Inodes /\ temp # Nothing
      BY <2>0, <2>5, HandFacts, InodesAssumption DEF Rename, Target, Guarded, Hand, AtWork, Holding
    <3>2. f = op.dest
      BY <2>0, <2>1, <2>2, <2>5, <3>1
    <3>3. m \in seen
      BY <2>1, <3>1, <3>2 DEF Noticed, Target
    <3>4. m \notin NoteAfter(seen, op, PlanMark(op))
      BY <2>0, <2>2, <2>5, <3>1 DEF Texts
    <3>5. op.kind = "rewrite"
      BY <3>1, <3>3, <3>4 DEF NoteAfter, OpKinds
    <3>6. seen = BeforeHash(op.path)
      BY <2>0, <3>1, <3>5 DEF Hand, AtWork, Rewriting
    <3> QED
      BY <3>1, <3>3, <3>5, <3>6 DEF Replaced
  <2>6. CASE /\ dir' = dir
             /\ \A g \in Paths : dir[g] # Nothing => file'[dir[g]] = file[dir[g]]
    BY <2>1, <2>2, <2>6
  <2>7. CASE file' = file /\ \E h \in Paths : dir[h] = Nothing /\ \E i : dir' = [dir EXCEPT ![h] = i]
    BY <2>0, <2>1, <2>2, <2>7
  <2>8. (LinkDest => op.dest \in Paths) /\ (LinkTemp => op.path \in Paths)
    BY <2>0, HandFacts DEF LinkDest, LinkTemp
  <2> QED
    BY <1>1, <2>0, <2>3, <2>4, <2>5, <2>6, <2>7, <2>8, CallShapes
<1>2. FilesIInv /\ FilesIInv' /\ [Next]_vars =>
          [edits' = edits => (MarksIn(View) \ MarksIn(View')) \subseteq (late \cup Replaced)]_vars
  BY <1>1
<1> QED
  BY <1>2, FilesAlways, PTL DEF Spec, OnlyLateEditsAreLost

(***************************************************************************)
(* The detailed calls implement the one step Vault has: the call that puts *)
(* a file in place finds the note its plan was made from, and leaves the   *)
(* note OpApplied says and no other changed, unless a late edit came in    *)
(* between.                                                                *)
(***************************************************************************)
THEOREM CallsAreOneStep ==
    ASSUME Absent \notin SUBSET Marks
    PROVE  Spec => OneStepAsInVault
<1>1. ASSUME FilesIInv, FilesIInv', [Next]_vars, PutsInPlace, late = {}
      PROVE  InVault
  <2>0. /\ Hand /\ Texts /\ Guarded
        /\ dir \in [Paths -> Inodes \cup {Nothing}]
        /\ file \in [Inodes -> [text : SUBSET Marks, size : Nat]]
        /\ pc \in {"link_temp", "rename"} /\ dir' # dir /\ edits' = edits
    BY <1>1 DEF FilesIInv, Hand, FileTyping, PutsInPlace
  <2>1. /\ op \in Ops /\ op.path \in Paths /\ op.dest \in Paths /\ op.kind \in OpKinds
        /\ op.kind # "move" => op.dest = op.path
        /\ temp \in Inodes /\ temp # Nothing
        /\ file[temp].text = NoteAfter(seen, op, PlanMark(op))
    BY <2>0, HandFacts, InodesAssumption DEF Holding, Texts
  <2>2. /\ file' = file
        /\ \/ pc = "link_temp" /\ dir[op.path] = Nothing /\ dir' = [dir EXCEPT ![op.path] = temp]
           \/ pc = "rename" /\ dir' = [dir EXCEPT ![op.dest] = temp]
    <3>1. LinkTemp \/ Rename
      BY <1>1, <2>0, CallShapes DEF LinkDest, Unlink, Rollback
    <3> QED
      BY <1>1, <2>0, <3>1, CallShapes DEF LinkTemp, Rename, LinkDest, Unlink, Rollback, Target
  <2>3. ASSUME NEW h \in Paths, dir' = [dir EXCEPT ![h] = temp]
        PROVE  View' = [View EXCEPT ![h] = file[temp].text]
    BY <2>0, <2>1, <2>2, <2>3 DEF View, TextAt
  <2>4. CASE pc = "link_temp"
    <3>1. op.kind = "create" /\ View[op.path] = Absent
      BY <2>0, <2>1, <2>2, <2>4 DEF Hand, AtWork, View, TextAt
    <3>2. OpReady(View, op, BeforeHash(op.path))
      BY <3>1 DEF OpReady
    <3>3. View' = [View EXCEPT ![op.path] = NoteAfter(View[op.path], op, PlanMark(op))]
      BY <2>1, <2>2, <2>3, <2>4, <3>1 DEF NoteAfter
    <3> QED
      BY <3>1, <3>2, <3>3 DEF InVault, OpApplied
  <2>5. CASE pc = "rename"
    <3>1. dir[op.dest] # Nothing /\ file[dir[op.dest]].text = seen /\ op.kind # "create"
      BY <1>1, <2>0, <2>5 DEF Guarded, Noticed, Target, Hand, AtWork
    <3>2. View[op.dest] = seen /\ seen # Absent
      BY <2>0, <2>1, <3>1 DEF View, TextAt, Hand, OpTyping
    <3>3. View' = [View EXCEPT ![op.dest] = NoteAfter(View[op.dest], op, PlanMark(op))]
      BY <2>1, <2>2, <2>3, <2>5, <3>2
    <3>4. op.kind # "move" => OpReady(View, op, BeforeHash(op.path))
      BY <2>0, <2>1, <2>5, <3>1, <3>2 DEF OpReady, OpKinds, Hand, AtWork, Rewriting
    <3> QED
      BY <2>1, <3>3, <3>4 DEF InVault, OpApplied
  <2> QED
    BY <2>0, <2>4, <2>5
<1>2. FilesIInv /\ FilesIInv' /\ [Next]_vars => [PutsInPlace /\ late = {} => InVault]_vars
  BY <1>1
<1> QED
  BY <1>2, FilesAlways, PTL DEF Spec, OneStepAsInVault
=============================================================================
