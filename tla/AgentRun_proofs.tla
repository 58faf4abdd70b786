--------------------------- MODULE AgentRun_proofs ---------------------------
(***************************************************************************)
(* A run of an agent accounts for its end and its model is told what the   *)
(* skill may read, and the daemon's vocabulary only grows: for any skills, *)
(* answers of the model, notes and budgets.                                *)
(***************************************************************************)
EXTENDS AgentRun, FiniteSetTheorems, TLAPS

(***************************************************************************)
(* Types.                                                                  *)
(***************************************************************************)

\* What a note can hold before and after an enrichment, and the tags there are.
Held == Contents \cup {[c EXCEPT !.tags = @ \cup config.newTags] : c \in Contents}
Tags == config.newTags \cup UNION {c.tags : c \in Contents}
Read == UNION {[notes -> Held] : notes \in SUBSET Notes}

VaultOK == disk \in Read /\ dirs \subseteq Directories

ResolvedLink == [text : Seq(STRING), related : BOOLEAN, to : Notes \cup {NoNote}]
ScanPcs == {"idle", "start", "walk", "failed", "installed", "part", "over"}

ScanState == [pc : ScanPcs, dirs : SUBSET Directories, listed : SUBSET Notes, read : Read]
LinkMap == UNION {[notes -> SUBSET ResolvedLink] : notes \in SUBSET Notes}

IndexOK ==
    /\ links \in LinkMap /\ ready \in BOOLEAN /\ generation \in Nat
    /\ scan \in [Scans -> ScanState]
    /\ watcher \in {"off", "start", "register", "loop"}
    /\ toWatch \subseteq Directories /\ watched \subseteq Directories \cup {<<>>}

RescanPcs == {"idle", "reindex", "clear", "start", "walk", "replace", "failed", "over"}
HookPcs == {"idle", "rows", "cache", "known"}

RescanState == [pc : RescanPcs, todo : SUBSET Notes, note : Notes \cup {NoNote},
                tags : SUBSET Tags, merged : SUBSET Tags]
HookState == [pc : HookPcs, note : Notes \cup {NoNote}, tags : SUBSET Tags, added : SUBSET Tags]

MemoryOK ==
    /\ rows \in [Notes -> SUBSET Tags]
    /\ known \subseteq Tags /\ cache \subseteq Tags /\ memReady \in BOOLEAN
    /\ rescan \in [Processes -> RescanState]
    /\ hook \in HookState
    /\ \A p \in Processes : rescan[p].pc = "replace" => rescan[p].note \in Notes
    /\ hook.pc # "idle" => hook.note \in Notes

\* The cache is the daemon's rescan's to fill first: an enrichment waits for it,
\* and it is not begun again.
FilledFirst ==
    /\ ~memReady => cache = {} /\ hook.pc = "idle"
    /\ memReady => rescan["daemon"].pc = "over"

Endings == {"error", "protocol_failed", "wall_clock_exceeded", "natural"} \cup Exhausting

RunState == [pc : {"idle", "turn", "batch", "finish", "over"}, deadline : Nat, calls : Int, bytes : Int,
             force : BOOLEAN, violations : 0..MaxViolations, batch : Seq(Call),
             status : {"none", "done", "partial", "failed", "refused"}, termination : Endings,
             version : Nat]

RunOK ==
    /\ clock \in Nat
    /\ run \in RunState /\ run.bytes <= skill.bytes
    /\ row \in {"none", "running", "done", "partial", "failed"}
    /\ spent \in [failedLast : BOOLEAN, told : SUBSET Notes]

\* What is true of a run before it ends: a budget is named when, and only when,
\* it has forced the run, and nothing else has been said of how it ends.
Undecided ==
    /\ run.pc \in {"idle", "turn", "batch"} =>
          run.status = "none" /\ (IF run.force THEN run.termination \in Exhausting ELSE run.termination = "error")
    /\ run.pc = "idle" => ~run.force
    /\ run.pc = "finish" => run.status \in {"done", "partial", "failed"}
    /\ run.pc # "over" => row \in {"none", "running"}

Typing == config \in Scenario /\ VaultOK /\ IndexOK /\ MemoryOK /\ RunOK

AgentInv == Typing /\ FilledFirst /\ Undecided /\ EndingsAreExplained /\ ToldStaysInScope

-----------------------------------------------------------------------------
\* What a step leaves of the scenario: the skill, its answers and its tags.
SameScenario ==
    /\ config' \in Scenario
    /\ config'.skill = config.skill /\ config'.newTags = config.newTags

\* A scenario's counters go down, the rest of it stays.
LEMMA ConfigNext ==
    ASSUME config \in Scenario, [Next]_vars
    PROVE  SameScenario
<1>1. /\ config.faults \in Nat /\ config.turns \in Nat /\ config.edits \in Nat
      /\ config.errors \in Nat /\ config.enrichments \in Nat
  BY DEF Scenario
<1>2. CASE config' = config
  BY <1>2 DEF SameScenario
<1>3. CASE config.faults > 0 /\ config' = [config EXCEPT !.faults = @ - 1]
  BY <1>1, <1>3 DEF SameScenario, Scenario
<1>4. CASE config.turns > 0 /\ config' = [config EXCEPT !.turns = @ - 1]
  BY <1>1, <1>4 DEF SameScenario, Scenario
<1>5. CASE config.edits > 0 /\ config' = [config EXCEPT !.edits = @ - 1]
  BY <1>1, <1>5 DEF SameScenario, Scenario
<1>6. CASE config.errors > 0 /\ config' = [config EXCEPT !.errors = @ - 1]
  BY <1>1, <1>6 DEF SameScenario, Scenario
<1>7. CASE config.enrichments > 0 /\ config' = [config EXCEPT !.enrichments = @ - 1]
  BY <1>1, <1>7 DEF SameScenario, Scenario
<1>8. \/ config' = config
      \/ config.faults > 0 /\ config' = [config EXCEPT !.faults = @ - 1]
      \/ config.turns > 0 /\ config' = [config EXCEPT !.turns = @ - 1]
      \/ config.edits > 0 /\ config' = [config EXCEPT !.edits = @ - 1]
      \/ config.errors > 0 /\ config' = [config EXCEPT !.errors = @ - 1]
      \/ config.enrichments > 0 /\ config' = [config EXCEPT !.enrichments = @ - 1]
  <2>1. CASE Begin \/ Close \/ MemoryTrouble
    BY <2>1 DEF Begin, Close, MemoryTrouble, StoreWorks, StoreFails
  <2>2. CASE EngineStep
    BY <2>2 DEF EngineStep, Turn, SubmitResult, RejectCall, ExecuteCall, EndBatch
  <2>3. CASE Tick \/ ScanStep \/ WatchStep \/ MemoryStep
    BY <2>3 DEF Tick, ScanStep, WatchStep, MemoryStep, runVars
  <2>4. CASE Edit \/ Enrich \/ Trouble
    BY <2>4 DEF Edit, Enrich, Trouble
  <2>5. CASE UNCHANGED vars
    BY <2>5 DEF vars, runVars
  <2> QED
    BY <2>1, <2>2, <2>3, <2>4, <2>5 DEF Next
<1> QED
  BY <1>2, <1>3, <1>4, <1>5, <1>6, <1>7, <1>8

(***************************************************************************)
(* Partial functions: what is in them, put into them, taken out of them.   *)
(***************************************************************************)
LEMMA Partial ==
    ASSUME NEW D, NEW S, NEW f
    PROVE  f \in UNION {[d -> S] : d \in SUBSET D} <=> DOMAIN f \subseteq D /\ f \in [DOMAIN f -> S]
OBVIOUS

\* A note put into one.
LEMMA PartialPut ==
    ASSUME NEW D, NEW S, NEW f \in UNION {[d -> S] : d \in SUBSET D}, NEW x \in D, NEW v \in S
    PROVE  Put(f, x, v) \in UNION {[d -> S] : d \in SUBSET D}
<1> DEFINE g == Put(f, x, v)
<1>1. DOMAIN f \subseteq D /\ f \in [DOMAIN f -> S]
  BY Partial
<1>2. g = [y \in {x} \cup DOMAIN f |-> IF y = x THEN v ELSE f[y]]
  BY DEF Put
<1>3. DOMAIN g \subseteq D /\ g \in [DOMAIN g -> S]
  BY <1>1, <1>2
<1> HIDE DEF g
<1>4. g \in UNION {[d -> S] : d \in SUBSET D}
  BY <1>3, Partial
<1> QED
  BY <1>4 DEF g

\* One with some of its notes taken out.
LEMMA PartialDrop ==
    ASSUME NEW D, NEW S, NEW f \in UNION {[d -> S] : d \in SUBSET D}, NEW e \in SUBSET (DOMAIN f)
    PROVE  [y \in e |-> f[y]] \in UNION {[d -> S] : d \in SUBSET D}
<1>1. DOMAIN f \subseteq D /\ f \in [DOMAIN f -> S]
  BY Partial
<1> QED
  BY <1>1

(***************************************************************************)
(* The notes on disk.                                                      *)
(***************************************************************************)

\* What a note holds, and that a second enrichment with the same tags adds none.
LEMMA HeldFacts ==
    ASSUME config \in Scenario
    PROVE  /\ Contents \subseteq Held
           /\ \A c \in Held :
                /\ c \in [links : SUBSET [text : Seq(STRING), related : BOOLEAN], tags : SUBSET STRING]
                /\ c.tags \subseteq Tags
                /\ [c EXCEPT !.tags = @ \cup config.newTags] \in Held
           /\ config.newTags \subseteq Tags /\ Tags \subseteq STRING
<1>1. config.newTags \in SUBSET STRING
  BY DEF Scenario
<1>2. \A c \in Contents : c \in [links : SUBSET [text : Seq(STRING), related : BOOLEAN], tags : SUBSET STRING]
  BY ContentsAssumption
<1>3. config.newTags \subseteq Tags /\ Tags \subseteq STRING /\ \A c \in Contents : c.tags \subseteq Tags
  BY <1>1, <1>2 DEF Tags
<1>4. ASSUME NEW c \in Contents, NEW h, h = c \/ h = [c EXCEPT !.tags = @ \cup config.newTags]
      PROVE  /\ h \in [links : SUBSET [text : Seq(STRING), related : BOOLEAN], tags : SUBSET STRING]
             /\ h.tags \subseteq Tags
             /\ [h EXCEPT !.tags = @ \cup config.newTags] = [c EXCEPT !.tags = @ \cup config.newTags]
  <2>1. c \in [links : SUBSET [text : Seq(STRING), related : BOOLEAN], tags : SUBSET STRING]
    BY <1>2
  <2>2. CASE h = c
    BY <1>3, <2>1, <2>2
  <2>3. CASE h = [c EXCEPT !.tags = @ \cup config.newTags]
    <3>1. h.tags = c.tags \cup config.newTags /\ h.links = c.links
          /\ h \in [links : SUBSET [text : Seq(STRING), related : BOOLEAN], tags : SUBSET STRING]
      BY <1>1, <2>1, <2>3
    <3>2. h.tags \cup config.newTags = h.tags
      BY <3>1
    <3>3. [h EXCEPT !.tags = @ \cup config.newTags] = h
      BY <3>1, <3>2
    <3> QED
      BY <1>3, <2>3, <3>1, <3>3
  <2> QED
    BY <1>4, <2>2, <2>3
<1>5. \A c \in Contents : [c EXCEPT !.tags = @ \cup config.newTags] \in Held
  BY DEF Held
<1>6. ASSUME NEW h \in Held
      PROVE  \E c \in Contents : h = c \/ h = [c EXCEPT !.tags = @ \cup config.newTags]
  BY DEF Held
<1>7. ASSUME NEW h \in Held
      PROVE  /\ h \in [links : SUBSET [text : Seq(STRING), related : BOOLEAN], tags : SUBSET STRING]
             /\ h.tags \subseteq Tags
             /\ [h EXCEPT !.tags = @ \cup config.newTags] \in Held
  BY <1>4, <1>5, <1>6
<1> QED
  BY <1>3, <1>7 DEF Held

\* What these are depends on the scenario's tags alone.
LEMMA HeldStays ==
    ASSUME config'.newTags = config.newTags
    PROVE  Held' = Held /\ Tags' = Tags /\ Read' = Read
BY DEF Held, Tags, Read

\* A note that is on disk.
LEMMA OnDisk ==
    ASSUME VaultOK, NEW n \in DOMAIN disk
    PROVE  n \in Notes /\ disk[n] \in Held
BY Partial DEF VaultOK, Read

\* The notes of a directory that goes hold what they held.
LEMMA MovedNotes ==
    ASSUME VaultOK, NEW d \in Directories, NEW e \in Directories \cup {<<>>}, MoveDir(d, e)
    PROVE  disk' \in Read
<1> DEFINE gone == {n \in DOMAIN disk : DirOf(n) = d}
           source(n) == {m \in gone : Stem(m) = Stem(n)}
           come == {n \in Notes : DirOf(n) = e /\ source(n) # {}}
           there == (DOMAIN disk \ gone) \cup come
           new == [n \in there |-> IF n \in come THEN disk[CHOOSE m \in source(n) : TRUE] ELSE disk[n]]
<1>1. DOMAIN disk \subseteq Notes /\ \A n \in DOMAIN disk : disk[n] \in Held
  BY OnDisk
<1>2. \A n \in come : (CHOOSE m \in source(n) : TRUE) \in DOMAIN disk
  OBVIOUS
<1>3. there \subseteq Notes /\ \A n \in there : n \notin come => n \in DOMAIN disk
  BY <1>1
<1>4. disk' = new
  BY DEF MoveDir
<1> HIDE DEF come, there
<1>5. \A n \in there : new[n] \in Held
  BY <1>1, <1>2, <1>3
<1>6. DOMAIN new \subseteq Notes /\ new \in [DOMAIN new -> Held]
  BY <1>3, <1>5
<1> HIDE DEF new
<1> QED
  BY <1>4, <1>6, Partial DEF Read

\* The user and an enrichment write, move and delete notes, and nobody else does.
LEMMA VaultNext ==
    ASSUME config \in Scenario, VaultOK, SameScenario, [Next]_vars
    PROVE  VaultOK'
<1>1. Held' = Held /\ Read' = Read
  BY HeldStays DEF SameScenario
<1>2. ASSUME NEW n \in Notes, NEW content \in Held, WriteNote(n, content)
      PROVE  VaultOK'
  <2>1. disk' \in Read
    BY <1>2, PartialPut DEF WriteNote, VaultOK, Read
  <2> QED
    BY <1>1, <1>2, <2>1 DEF WriteNote, VaultOK
<1>3. CASE Edit
  <2>1. ASSUME NEW n \in Notes, DeleteNote(n)
        PROVE  VaultOK'
    <3>1. disk' \in Read
      BY <2>1, PartialDrop DEF DeleteNote, VaultOK, Read
    <3> QED
      BY <1>1, <2>1, <3>1 DEF DeleteNote, VaultOK
  <2>2. ASSUME NEW d \in Directories, MakeDir(d)
        PROVE  VaultOK'
    BY <1>1, <2>2 DEF MakeDir, VaultOK, Directories
  <2>3. ASSUME NEW d \in Directories, NEW e \in Directories \cup {<<>>}, MoveDir(d, e)
        PROVE  VaultOK'
    <3>1. disk' \in Read
      BY <2>3, MovedNotes
    <3> QED
      BY <1>1, <2>3, <3>1 DEF MoveDir, VaultOK
  <2> QED
    BY <1>2, <1>3, <2>1, <2>2, <2>3, HeldFacts DEF Edit, UserEdit
<1>4. CASE Enrich
  <2>1. PICK n \in Notes : EnrichApply(n, config.newTags)
    BY <1>4 DEF Enrich
  <2>2. disk[n] \in Held
    BY <2>1, OnDisk DEF EnrichApply
  <2> QED
    BY <1>2, <2>1, <2>2, HeldFacts DEF EnrichApply
<1>5. CASE UNCHANGED vaultVars
  BY <1>1, <1>5 DEF vaultVars, VaultOK, Directories
<1>6. Edit \/ Enrich \/ UNCHANGED vaultVars
  <2>1. CASE Begin \/ Close \/ EngineStep
    BY <2>1 DEF Begin, Close, EngineStep, Dispatch, Finish, Turn, SubmitResult, RejectCall, ExecuteCall, EndBatch
  <2>2. CASE Tick \/ MemoryStep \/ MemoryTrouble \/ UNCHANGED vars
    BY <2>2 DEF Tick, MemoryStep, MemoryTrouble, vars
  <2>3. CASE ScanStep \/ WatchStep \/ Trouble
    BY <2>3 DEF ScanStep, WatchStep, Trouble, Build, BuildStart, BuildListDir, BuildReadNote, BuildBreaksOff,
                BuildInstall, BuildFinish, WatchStart, WatchRegister, WatchLoop, TakeEvent, flushPending,
                WatchMisses, WatchRefused, WatchGivesUp, WatchError
  <2> QED
    BY <2>1, <2>2, <2>3 DEF Next
<1> QED
  BY <1>3, <1>4, <1>5, <1>6

(***************************************************************************)
(* The index.                                                              *)
(***************************************************************************)

\* A link's text means a note there is, or none.
LEMMA TargetIsANote ==
    ASSUME NEW text, NEW notePaths \in SUBSET Notes
    PROVE  resolveTarget(text, notePaths) \in Notes \cup {NoNote}
<1> DEFINE exact == {n \in notePaths : PathOf[n].segs = text}
           stems == {n \in notePaths : text = <<Stem(n)>>}
           found == IF exact # {} THEN exact ELSE stems
<1>1. found \in SUBSET Notes
  OBVIOUS
<1>2. resolveTarget(text, notePaths) =
          IF Cardinality(found) = 1 THEN CHOOSE n \in found : TRUE ELSE NoNote
  BY DEF resolveTarget
<1> HIDE DEF found
<1>3. Cardinality(found) = 1 => \E n \in found : TRUE
  BY FS_EmptySet
<1> QED
  BY <1>1, <1>2, <1>3

\* So do the links of a note.
LEMMA ResolvedLinks ==
    ASSUME config \in Scenario, NEW content \in Held, NEW notePaths \in SUBSET Notes
    PROVE  Resolve(content, notePaths) \in SUBSET ResolvedLink
<1>1. content.links \in SUBSET [text : Seq(STRING), related : BOOLEAN]
  <2>1. content \in [links : SUBSET [text : Seq(STRING), related : BOOLEAN], tags : SUBSET STRING]
    BY HeldFacts
  <2> QED
    BY <2>1
<1>2. ASSUME NEW l \in content.links
      PROVE  [text |-> l.text, related |-> l.related, to |-> resolveTarget(l.text, notePaths)] \in ResolvedLink
  <2>1. l.text \in Seq(STRING) /\ l.related \in BOOLEAN
    BY <1>1
  <2>2. resolveTarget(l.text, notePaths) \in Notes \cup {NoNote}
    BY TargetIsANote
  <2> QED
    BY <2>1, <2>2 DEF ResolvedLink
<1> QED
  BY <1>2 DEF Resolve

\* A scan.
LEMMA ScanNext ==
    ASSUME config \in Scenario, VaultOK, IndexOK, SameScenario, NEW b \in Scans, Build(b)
    PROVE  IndexOK'
<1>1. /\ Read' = Read /\ Directories' = Directories
      /\ ScanState' = ScanState /\ LinkMap' = LinkMap
  BY HeldStays DEF SameScenario, ScanState, LinkMap, Directories, ResolvedLink, ScanPcs
<1>2. scan[b] \in ScanState /\ scan \in [Scans -> ScanState]
  BY DEF IndexOK
<1>3. ASSUME NEW s \in ScanState, scan' = [scan EXCEPT ![b] = s]
      PROVE  scan' \in [Scans -> ScanState]
  BY <1>2, <1>3
<1>4. scan[b].dirs \subseteq Directories /\ scan[b].listed \subseteq Notes /\ scan[b].read \in Read
  BY <1>2 DEF ScanState
<1>5. EmptyIndex \in Read
  <2>1. EmptyIndex \in [{} -> Held]
    BY DEF EmptyIndex
  <2> QED
    BY <2>1 DEF Read
<1>6. CASE BuildStart(b)
  <2>1. [scan[b] EXCEPT !.pc = "walk", !.dirs = {d \in dirs : ~shouldSkipDir(d)}] \in ScanState
    BY <1>2 DEF ScanState, ScanPcs, VaultOK
  <2>2. scan' = [scan EXCEPT ![b] = [scan[b] EXCEPT !.pc = "walk", !.dirs = {d \in dirs : ~shouldSkipDir(d)}]]
    BY <1>2, <1>6 DEF BuildStart
  <2> QED
    BY <1>1, <1>3, <1>6, <2>1, <2>2 DEF BuildStart, installedVars, watchVars, IndexOK
<1>7. ASSUME NEW d \in Directories, BuildListDir(b, d)
      PROVE  IndexOK'
  <2> DEFINE found == {n \in DOMAIN disk : DirOf(n) = d /\ pathInReadRoots(n)}
  <2>1. found \subseteq Notes
    BY OnDisk
  <2> HIDE DEF found
  <2>2. [scan[b] EXCEPT !.dirs = @ \ {d}, !.listed = found] \in ScanState
    BY <1>2, <2>1 DEF ScanState
  <2>3. scan' = [scan EXCEPT ![b] = [scan[b] EXCEPT !.dirs = @ \ {d}, !.listed = found]]
    BY <1>2, <1>7 DEF BuildListDir, found
  <2> QED
    BY <1>1, <1>3, <1>7, <2>2, <2>3 DEF BuildListDir, installedVars, watchVars, IndexOK
<1>8. ASSUME NEW n \in Notes, BuildReadNote(b, n)
      PROVE  IndexOK'
  <2> DEFINE read == IF n \in DOMAIN disk THEN Put(scan[b].read, n, disk[n]) ELSE scan[b].read
  <2>1. read \in Read
    BY <1>4, OnDisk, PartialPut DEF Read
  <2>2. scan' = [scan EXCEPT ![b] = [scan[b] EXCEPT !.listed = @ \ {n}, !.read = read]]
    BY <1>2, <1>8 DEF BuildReadNote
  <2> HIDE DEF read
  <2>3. [scan[b] EXCEPT !.listed = @ \ {n}, !.read = read] \in ScanState
    BY <1>2, <2>1 DEF ScanState
  <2> QED
    BY <1>1, <1>3, <1>8, <2>2, <2>3 DEF BuildReadNote, installedVars, watchVars, IndexOK
<1>9. CASE BuildBreaksOff(b)
  <2>1. [scan[b] EXCEPT !.pc = "failed", !.dirs = {}, !.listed = {}] \in ScanState
    BY <1>2 DEF ScanState, ScanPcs
  <2>2. scan' = [scan EXCEPT ![b] = [scan[b] EXCEPT !.pc = "failed", !.dirs = {}, !.listed = {}]]
    BY <1>2, <1>9 DEF BuildBreaksOff
  <2> QED
    BY <1>1, <1>3, <1>9, <2>1, <2>2 DEF BuildBreaksOff, installedVars, watchVars, IndexOK
<1>10. CASE BuildInstall(b)
  <2> DEFINE read == scan[b].read
             new == [n \in DOMAIN read |-> Resolve(read[n], DOMAIN read)]
  <2>1. DOMAIN read \subseteq Notes /\ \A n \in DOMAIN read : read[n] \in Held
    BY <1>4, Partial DEF Read
  <2>2. \A n \in DOMAIN read : Resolve(read[n], DOMAIN read) \in SUBSET ResolvedLink
    BY <2>1, ResolvedLinks
  <2>3. DOMAIN new \subseteq Notes /\ new \in [DOMAIN new -> SUBSET ResolvedLink]
    BY <2>1, <2>2
  <2>4. links' = new
    BY <1>10 DEF BuildInstall
  <2> HIDE DEF new
  <2>5. links' \in LinkMap
    BY <2>3, <2>4, Partial DEF LinkMap
  <2>6. \A pc \in ScanPcs : [Idle EXCEPT !.pc = pc] \in ScanState
    BY <1>5 DEF Idle, ScanState
  <2>7. scan' = [scan EXCEPT ![b] = [Idle EXCEPT !.pc = IF scan[b].pc = "walk" THEN "installed" ELSE "part"]]
    BY <1>10 DEF BuildInstall
  <2> DEFINE pc == IF scan[b].pc = "walk" THEN "installed" ELSE "part"
  <2>8. pc \in ScanPcs
    BY DEF ScanPcs
  <2>9. scan' \in [Scans -> ScanState]
    BY <1>3, <2>6, <2>7, <2>8
  <2> QED
    BY <1>1, <1>10, <2>5, <2>9 DEF BuildInstall, watchVars, IndexOK
<1>11. CASE BuildFinish(b)
  <2>1. [Idle EXCEPT !.pc = "over"] \in ScanState
    BY <1>5 DEF Idle, ScanState, ScanPcs
  <2>2. scan' \in [Scans -> ScanState]
    BY <1>3, <1>11, <2>1 DEF BuildFinish
  <2> QED
    BY <1>1, <1>11, <2>2 DEF BuildFinish, IndexOK
<1> QED
  BY <1>6, <1>7, <1>8, <1>9, <1>10, <1>11 DEF Build

\* The notes a flush leaves in the index, with links that mean notes.
LEMMA FlushNext ==
    ASSUME config \in Scenario, VaultOK, IndexOK, flushPending
    PROVE  links' \in LinkMap
<1> DEFINE notes == {n \in Notes : PathOf[n].segs \in pending}
<1>1. PICK turn \in Injection(notes, 1..Cardinality(notes)) :
          links' = [n \in (DOMAIN links \ Dropped(notes)) \cup Reread(notes) |->
                       IF n \in Reread(notes)
                       THEN Resolve(disk[n], IndexedBefore(n, notes, turn))
                       ELSE links[n]]
  BY DEF flushPending
<1>2. DOMAIN links \subseteq Notes /\ links \in [DOMAIN links -> SUBSET ResolvedLink]
  BY Partial DEF LinkMap, IndexOK
<1>3. Reread(notes) \subseteq Notes \cap DOMAIN disk
  BY DEF Reread
<1>4. ASSUME NEW n \in Reread(notes)
      PROVE  Resolve(disk[n], IndexedBefore(n, notes, turn)) \in SUBSET ResolvedLink
  <2>1. IndexedBefore(n, notes, turn) \in SUBSET Notes
    BY <1>2 DEF IndexedBefore, Reread
  <2>2. disk[n] \in Held
    BY <1>3, OnDisk
  <2> QED
    BY <2>1, <2>2, ResolvedLinks
<1> DEFINE kept == (DOMAIN links \ Dropped(notes)) \cup Reread(notes)
           new == [n \in kept |-> IF n \in Reread(notes)
                                  THEN Resolve(disk[n], IndexedBefore(n, notes, turn))
                                  ELSE links[n]]
<1>5. kept \subseteq Notes
  BY <1>2, <1>3
<1>6. \A n \in kept : n \notin Reread(notes) => links[n] \in SUBSET ResolvedLink
  BY <1>2
<1> HIDE DEF kept, notes
<1>7. \A n \in kept : new[n] \in SUBSET ResolvedLink
  BY <1>4, <1>6
<1>8. DOMAIN new \subseteq Notes /\ new \in [DOMAIN new -> SUBSET ResolvedLink]
  BY <1>5, <1>7
<1>9. links' = new
  BY <1>1 DEF kept
<1> HIDE DEF new
<1> QED
  BY <1>8, <1>9, Partial DEF LinkMap

\* The watcher, and what disturbs it.
LEMMA WatchNext ==
    ASSUME config \in Scenario, VaultOK, IndexOK, SameScenario,
           \/ WatchStart \/ WatchRegister \/ WatchLoop \/ WatchMisses \/ WatchRefused
           \/ \E b \in Scans, kept \in SUBSET events : WatchError(b, kept)
    PROVE  IndexOK'
<1>1. /\ Read' = Read /\ Directories' = Directories
      /\ ScanState' = ScanState /\ LinkMap' = LinkMap
  BY HeldStays DEF SameScenario, ScanState, LinkMap, Directories, ResolvedLink, ScanPcs
<1>2. CASE WatchStart
  BY <1>1, <1>2 DEF WatchStart, installedVars, VaultOK, IndexOK
<1>3. CASE WatchRegister
  BY <1>1, <1>3 DEF WatchRegister, installedVars, IndexOK
<1>4. ASSUME NEW e \in events, TakeEvent(e)
      PROVE  IndexOK'
  BY <1>1, <1>4 DEF TakeEvent, markPending, installedVars, VaultOK, IndexOK
<1>5. CASE flushPending
  <2>1. links' \in LinkMap
    BY <1>5, FlushNext
  <2>2. /\ generation' \in Nat
        /\ UNCHANGED <<ready, scan, watcher, toWatch, watched>>
    BY <1>5 DEF flushPending, IndexOK
  <2> QED
    BY <1>1, <2>1, <2>2 DEF IndexOK
<1>6. CASE WatchMisses \/ WatchRefused
  BY <1>1, <1>6 DEF WatchMisses, WatchRefused, WatchGivesUp, installedVars, IndexOK
<1>7. ASSUME NEW b \in Scans, NEW kept \in SUBSET events, WatchError(b, kept)
      PROVE  IndexOK'
  <2>1. scan[b] \in ScanState /\ scan \in [Scans -> ScanState]
    BY DEF IndexOK
  <2>2. [scan[b] EXCEPT !.pc = "start"] \in ScanState
    BY <2>1 DEF ScanState, ScanPcs
  <2>3. scan' = [scan EXCEPT ![b] = [scan[b] EXCEPT !.pc = "start"]]
    BY <1>7, <2>1 DEF WatchError
  <2>4. scan' \in [Scans -> ScanState]
    BY <2>1, <2>2, <2>3
  <2> QED
    BY <1>1, <1>7, <2>4 DEF WatchError, IndexOK
<1> QED
  BY <1>2, <1>3, <1>4, <1>5, <1>6, <1>7 DEF WatchLoop

\* The index keeps its type.
LEMMA IndexNext ==
    ASSUME config \in Scenario, VaultOK, IndexOK, SameScenario, [Next]_vars
    PROVE  IndexOK'
<1>1. /\ Read' = Read /\ Directories' = Directories
      /\ ScanState' = ScanState /\ LinkMap' = LinkMap
  BY HeldStays DEF SameScenario, ScanState, LinkMap, Directories, ResolvedLink, ScanPcs
<1>2. CASE UNCHANGED <<links, ready, generation, scan, watcher, toWatch, watched>>
  BY <1>1, <1>2 DEF IndexOK
<1>3. CASE ScanStep
  BY <1>3, ScanNext DEF ScanStep
<1>4. CASE WatchStep
  BY <1>4, WatchNext DEF WatchStep
<1>5. CASE Trouble
  BY <1>5, WatchNext DEF Trouble
<1>6. CASE Begin \/ Close \/ EngineStep
  BY <1>2, <1>6 DEF Begin, Close, EngineStep, Dispatch, Finish, Turn, SubmitResult, RejectCall, ExecuteCall,
                    EndBatch, indexVars, installedVars, watchVars
<1>7. CASE Tick \/ MemoryStep \/ MemoryTrouble \/ UNCHANGED vars
  BY <1>2, <1>7 DEF Tick, MemoryStep, MemoryTrouble, vars, indexVars, installedVars, watchVars
<1>8. ASSUME NEW d \in Directories, NEW e \in Directories \cup {<<>>}, MoveDir(d, e)
      PROVE  IndexOK'
  BY <1>1, <1>8 DEF MoveDir, installedVars, IndexOK
<1>9. CASE Edit \/ Enrich
  BY <1>2, <1>8, <1>9 DEF Edit, UserEdit, Enrich, EnrichApply, WriteNote, DeleteNote, MakeDir, installedVars
<1> QED
  BY <1>3, <1>4, <1>5, <1>6, <1>7, <1>9 DEF Next

(***************************************************************************)
(* The memory.                                                             *)
(***************************************************************************)

\* What a step of the memory does to the state of one rescan.
LEMMA RescanSet ==
    ASSUME MemoryOK, NEW p \in Processes, NEW r \in RescanState,
           r.pc = "replace" => r.note \in Notes,
           rescan' = [rescan EXCEPT ![p] = r]
    PROVE  /\ rescan' \in [Processes -> RescanState]
           /\ \A q \in Processes : rescan'[q].pc = "replace" => rescan'[q].note \in Notes
           /\ rescan'[p] = r /\ \A q \in Processes \ {p} : rescan'[q] = rescan[q]
<1>1. rescan \in [Processes -> RescanState]
  BY DEF MemoryOK
<1>2. rescan' \in [Processes -> RescanState]
  BY <1>1
<1>3. rescan'[p] = r /\ \A q \in Processes \ {p} : rescan'[q] = rescan[q]
  BY <1>1
<1> QED
  BY <1>2, <1>3 DEF MemoryOK

\* A rescan keeps the memory's type, and fills the cache once.
LEMMA RescanNext ==
    ASSUME config \in Scenario, VaultOK, MemoryOK, FilledFirst, SameScenario, NEW p \in Processes,
           RescanAll(p) \/ RescanFails(p)
    PROVE  MemoryOK' /\ FilledFirst' /\ cache \subseteq cache'
<1>1. Tags' = Tags /\ RescanState' = RescanState /\ HookState' = HookState
  BY HeldStays DEF SameScenario, RescanState, HookState, RescanPcs, HookPcs
<1>2. rescan[p] \in RescanState /\ rescan \in [Processes -> RescanState]
  BY DEF MemoryOK
<1>3. /\ rescan[p].todo \subseteq Notes /\ rescan[p].tags \subseteq Tags /\ rescan[p].merged \subseteq Tags
      /\ rescan[p].pc = "replace" => rescan[p].note \in Notes
  BY <1>2 DEF MemoryOK, RescanState
<1>4. "daemon" \in Processes /\ (rescan[p].pc # "over" => ~memReady \/ p # "daemon")
  BY DEF Processes, FilledFirst
<1>5. CASE RescanLoad(p)
  <2> DEFINE todo == {n \in DOMAIN disk : isUnderAnyRoot(PathOf[n].segs, ScanDirs)}
             r == [rescan[p] EXCEPT !.pc = "walk", !.merged = known, !.todo = todo]
  <2>1. todo \subseteq Notes
    BY OnDisk
  <2>2. rescan' = [rescan EXCEPT ![p] = r]
    BY <1>2, <1>5 DEF RescanLoad
  <2> HIDE DEF todo
  <2>3. r \in RescanState /\ r.pc = "walk"
    BY <1>2, <2>1 DEF RescanState, RescanPcs, MemoryOK
  <2> HIDE DEF r
  <2> QED
    BY <1>1, <1>4, <1>5, <2>2, <2>3, RescanSet DEF RescanLoad, tableVars, MemoryOK, FilledFirst
<1>6. ASSUME NEW n \in Notes, RescanRead(p, n)
      PROVE  MemoryOK' /\ FilledFirst' /\ cache \subseteq cache'
  <2>1. n \in DOMAIN disk => disk[n].tags \subseteq Tags
    BY OnDisk, HeldFacts
  <2>2. PICK r \in {[rescan[p] EXCEPT !.pc = "replace", !.todo = @ \ {n}, !.note = n, !.tags = disk[n].tags],
                   [NoRescan EXCEPT !.pc = "failed"], [rescan[p] EXCEPT !.todo = @ \ {n}]} :
            /\ rescan' = [rescan EXCEPT ![p] = r]
            /\ r.pc = "replace" => n \in DOMAIN disk
    BY <1>2, <1>6 DEF RescanRead, NoRescan, RescanState
  <2>3. r \in RescanState /\ r.pc \in {"replace", "failed", "walk"} /\ (r.pc = "replace" => r.note \in Notes)
    <3>1. CASE r = [rescan[p] EXCEPT !.pc = "replace", !.todo = @ \ {n}, !.note = n, !.tags = disk[n].tags]
      <4>1. r.pc = "replace" /\ n \in DOMAIN disk
        BY <1>2, <2>2, <3>1 DEF RescanState
      <4> QED
        BY <1>2, <2>1, <3>1, <4>1 DEF RescanState, RescanPcs
    <3>2. CASE r = [NoRescan EXCEPT !.pc = "failed"]
      BY <3>2 DEF RescanState, RescanPcs, NoRescan
    <3>3. CASE r = [rescan[p] EXCEPT !.todo = @ \ {n}]
      BY <1>2, <1>6, <3>3 DEF RescanRead, RescanState
    <3> QED
      BY <2>2, <3>1, <3>2, <3>3
  <2> QED
    BY <1>1, <1>4, <1>6, <2>2, <2>3, RescanSet DEF RescanRead, tableVars, MemoryOK, FilledFirst
<1>7. CASE RescanReplace(p)
  <2> DEFINE r == [rescan[p] EXCEPT !.pc = "walk", !.note = NoNote, !.tags = {},
                                    !.merged = @ \cup rescan[p].tags]
  <2>1. rescan' = [rescan EXCEPT ![p] = r]
    BY <1>2, <1>7 DEF RescanReplace
  <2>2. r \in RescanState /\ r.pc = "walk"
    BY <1>2, <1>3 DEF RescanState, RescanPcs
  <2>3. rows' \in [Notes -> SUBSET Tags] /\ known' \subseteq Tags
    BY <1>3, <1>7 DEF RescanReplace, MemoryOK
  <2> HIDE DEF r
  <2> QED
    BY <1>1, <1>4, <1>7, <2>1, <2>2, <2>3, RescanSet DEF RescanReplace, MemoryOK, FilledFirst
<1>8. CASE RescanSwap(p)
  <2> DEFINE r == [NoRescan EXCEPT !.pc = "over"]
  <2>1. rescan' = [rescan EXCEPT ![p] = r]
    BY <1>8 DEF RescanSwap
  <2>2. r \in RescanState /\ r.pc = "over"
    BY DEF RescanState, RescanPcs, NoRescan
  <2>3. cache' \subseteq Tags /\ memReady' \in BOOLEAN
    BY <1>3, <1>8 DEF RescanSwap, MemoryOK
  <2>4. cache \subseteq cache' /\ (p # "daemon" => UNCHANGED <<cache, memReady>>) /\ (p = "daemon" => memReady')
    BY <1>4, <1>8 DEF RescanSwap, MemoryOK, FilledFirst
  <2> HIDE DEF r
  <2> QED
    BY <1>1, <1>4, <1>8, <2>1, <2>2, <2>3, <2>4, RescanSet DEF RescanSwap, tableVars, MemoryOK, FilledFirst
<1>9. CASE RescanFails(p)
  <2> DEFINE r == [NoRescan EXCEPT !.pc = "failed"]
  <2>1. rescan' = [rescan EXCEPT ![p] = r]
    BY <1>9 DEF RescanFails
  <2>2. r \in RescanState /\ r.pc = "failed"
    BY DEF RescanState, RescanPcs, NoRescan
  <2>3. rows' \in [Notes -> SUBSET Tags] /\ known' \subseteq Tags
    BY <1>3, <1>9 DEF RescanFails, tableVars, MemoryOK
  <2> HIDE DEF r
  <2> QED
    BY <1>1, <1>4, <1>9, <2>1, <2>2, <2>3, RescanSet DEF RescanFails, MemoryOK, FilledFirst
<1> QED
  BY <1>5, <1>6, <1>7, <1>8, <1>9 DEF RescanAll

\* So does the clearing of the tables.
LEMMA ReindexNext ==
    ASSUME config \in Scenario, MemoryOK, FilledFirst, SameScenario, Reindex
    PROVE  MemoryOK' /\ FilledFirst' /\ cache \subseteq cache'
<1>1. Tags' = Tags /\ RescanState' = RescanState /\ HookState' = HookState
  BY HeldStays DEF SameScenario, RescanState, HookState, RescanPcs, HookPcs
<1>2. "command" \in Processes /\ "daemon" \in Processes /\ "daemon" # "command"
  BY DEF Processes
<1>3. rescan["command"] \in RescanState /\ rescan \in [Processes -> RescanState]
  BY <1>2 DEF MemoryOK
<1>4. ASSUME NEW pc \in {"clear", "start"},
             rescan' = [rescan EXCEPT !["command"].pc = pc],
             rows' \in [Notes -> SUBSET Tags], known' \subseteq Tags, UNCHANGED <<cache, memReady, hook>>
      PROVE  MemoryOK' /\ FilledFirst' /\ cache \subseteq cache'
  <2> DEFINE r == [rescan["command"] EXCEPT !.pc = pc]
  <2>1. rescan' = [rescan EXCEPT !["command"] = r]
    BY <1>3, <1>4
  <2>2. r \in RescanState /\ r.pc = pc
    BY <1>3 DEF RescanState, RescanPcs
  <2> HIDE DEF r
  <2> QED
    BY <1>1, <1>2, <1>4, <2>1, <2>2, RescanSet DEF MemoryOK, FilledFirst
<1>5. CASE ReindexClearRows
  BY <1>4, <1>5 DEF ReindexClearRows, MemoryOK
<1>6. CASE ReindexClearKnown
  BY <1>4, <1>6 DEF ReindexClearKnown, MemoryOK
<1> QED
  BY <1>5, <1>6 DEF Reindex

\* So does an enrichment with its hook.
LEMMA HookNext ==
    ASSUME config \in Scenario, VaultOK, MemoryOK, FilledFirst, SameScenario,
           \/ RecordForNote \/ RecordFails
           \/ \E n \in Notes : EnrichApply(n, config.newTags)
    PROVE  MemoryOK' /\ FilledFirst' /\ cache \subseteq cache'
<1>1. Tags' = Tags /\ RescanState' = RescanState /\ HookState' = HookState
  BY HeldStays DEF SameScenario, RescanState, HookState, RescanPcs, HookPcs
<1>2. hook \in HookState /\ hook.tags \subseteq Tags /\ hook.added \subseteq Tags
      /\ (hook.pc # "idle" => hook.note \in Notes /\ memReady)
  BY DEF MemoryOK, FilledFirst, HookState
<1>3. NoHook \in HookState /\ NoHook.pc = "idle"
  BY DEF NoHook, HookState, HookPcs
<1>4. ASSUME NEW n \in Notes, EnrichApply(n, config.newTags)
      PROVE  MemoryOK' /\ FilledFirst' /\ cache \subseteq cache'
  <2>1. disk[n].tags \cup config.newTags \subseteq Tags /\ config.newTags \subseteq Tags
    BY <1>4, OnDisk, HeldFacts DEF EnrichApply
  <2>2. hook' \in HookState /\ hook'.note = n
    BY <1>4, <2>1 DEF EnrichApply, HookState, HookPcs
  <2> QED
    BY <1>1, <1>4, <2>2 DEF EnrichApply, WaitReady, tableVars, MemoryOK, FilledFirst
<1>5. CASE RecordRows
  <2>1. hook' \in HookState /\ hook'.note = hook.note /\ rows' \in [Notes -> SUBSET Tags]
    BY <1>2, <1>5 DEF RecordRows, HookState, HookPcs, MemoryOK
  <2> QED
    BY <1>1, <1>2, <1>5, <2>1 DEF RecordRows, MemoryOK, FilledFirst
<1>6. CASE RecordCache
  <2>1. [hook EXCEPT !.pc = "known", !.tags = @ \ cache] \in HookState
    BY <1>2 DEF HookState, HookPcs
  <2>2. hook' \in HookState /\ (hook'.pc # "idle" => hook'.note = hook.note)
    BY <1>2, <1>3, <1>6, <2>1 DEF RecordCache, HookState
  <2> QED
    BY <1>1, <1>2, <1>6, <2>2 DEF RecordCache, tableVars, MemoryOK, FilledFirst
<1>7. CASE RecordKnown
  <2>1. PICK tag \in hook.tags :
            /\ known' = known \cup {tag}
            /\ hook' = IF hook.tags = {tag} THEN NoHook ELSE [hook EXCEPT !.tags = @ \ {tag}]
    BY <1>7 DEF RecordKnown
  <2>2. hook' \in HookState /\ hook.pc # "idle" /\ (hook'.pc # "idle" => hook'.note = hook.note)
    BY <1>2, <1>3, <1>7, <2>1 DEF RecordKnown, HookState
  <2> QED
    BY <1>1, <1>2, <1>7, <2>1, <2>2 DEF RecordKnown, MemoryOK, FilledFirst
<1>8. CASE RecordFails
  <2>1. [hook EXCEPT !.pc = "cache", !.tags = hook.added] \in HookState
    BY <1>2 DEF HookState, HookPcs
  <2>2. hook' \in HookState /\ hook.pc # "idle" /\ (hook'.pc # "idle" => hook'.note = hook.note)
    BY <1>2, <1>3, <1>8, <2>1 DEF RecordFails, HookState
  <2> QED
    BY <1>1, <1>2, <1>8, <2>2 DEF RecordFails, tableVars, MemoryOK, FilledFirst
<1> QED
  BY <1>4, <1>5, <1>6, <1>7, <1>8 DEF RecordForNote

\* The memory keeps its type, its cache is filled once, and it only grows.
LEMMA MemoryNext ==
    ASSUME config \in Scenario, VaultOK, MemoryOK, FilledFirst, SameScenario, [Next]_vars
    PROVE  MemoryOK' /\ FilledFirst' /\ cache \subseteq cache'
<1>1. CASE UNCHANGED memoryVars
  <2>1. Tags' = Tags /\ RescanState' = RescanState /\ HookState' = HookState
    BY HeldStays DEF SameScenario, RescanState, HookState, RescanPcs, HookPcs
  <2> QED
    BY <1>1, <2>1 DEF memoryVars, tableVars, MemoryOK, FilledFirst
<1>2. CASE MemoryStep
  BY <1>2, RescanNext, ReindexNext, HookNext DEF MemoryStep
<1>3. CASE MemoryTrouble
  BY <1>3, RescanNext, HookNext DEF MemoryTrouble
<1>4. CASE Enrich
  BY <1>4, HookNext DEF Enrich
<1>5. CASE Begin \/ Close \/ EngineStep
  BY <1>1, <1>5 DEF Begin, Close, EngineStep, Dispatch, Finish, Turn, SubmitResult, RejectCall, ExecuteCall,
                    EndBatch
<1>6. CASE Tick \/ ScanStep \/ WatchStep \/ Edit \/ Trouble \/ UNCHANGED vars
  BY <1>1, <1>6 DEF Tick, ScanStep, WatchStep, Edit, Trouble, vars
<1> QED
  BY <1>2, <1>3, <1>4, <1>5, <1>6 DEF Next

(***************************************************************************)
(* What the tools tell.                                                    *)
(***************************************************************************)

\* A sequence over a set is one over a larger set.
LEMMA WiderSeq ==
    ASSUME NEW S, NEW T, S \subseteq T, NEW s \in Seq(S)
    PROVE  s \in Seq(T)
OBVIOUS

\* A path below one that is below a root is below the root.
LEMMA PrefixOfPrefix ==
    ASSUME NEW T, NEW r \in Seq(T), NEW p \in Seq(T), NEW s \in Seq(T), IsPrefix(r, p), IsPrefix(p, s)
    PROVE  IsPrefix(r, s)
BY DEF IsPrefix

\* A note lies below the roots that its directory lies below.
LEMMA PrefixOfDir ==
    ASSUME NEW T, NEW r \in Seq(T), NEW s \in Seq(T), s # <<>>, IsPrefix(r, Front(s))
    PROVE  IsPrefix(r, s)
BY DEF IsPrefix, Front

\* A note's path is that of a file in a directory.
LEMMA NotePath ==
    ASSUME NEW n \in Notes
    PROVE  PathOf[n].segs \in Seq(STRING) /\ PathOf[n].segs # <<>>
<1>1. n \in DOMAIN PathOf /\ Len(PathOf[n].segs) = 2
  BY NotesAssumption
<1>2. PathOf[n].segs \in Seq(STRING)
  BY <1>1, PathsAssumption
<1> QED
  BY <1>1, <1>2

\* A function of the first numbers is a sequence.
LEMMA SeqOfSomething ==
    ASSUME NEW len \in Nat, NEW f, f = [k \in 1..len |-> f[k]]
    PROVE  \E T : STRING \subseteq T /\ f \in Seq(T)
<1> DEFINE T == STRING \cup {f[k] : k \in 1..len}
<1>1. STRING \subseteq T /\ \A k \in 1..len : f[k] \in T
  OBVIOUS
<1> HIDE DEF T
<1>2. f \in [1..len -> T]
  BY <1>1
<1>3. f \in Seq(T)
  BY <1>2
<1> QED
  BY <1>1, <1>3

\* So is one thing.
LEMMA SeqOfOne ==
    ASSUME NEW s
    PROVE  \E T : STRING \subseteq T /\ <<s>> \in Seq(T)
<1>1. <<s>> \in Seq(STRING \cup {s})
  OBVIOUS
<1> QED
  BY <1>1

\* A cleaned path is a sequence.
LEMMA CleanedPath ==
    ASSUME NEW n \in DOMAIN PathOf, NEW p \in cleanRelativePath(PathOf[n])
    PROVE  \E T : STRING \subseteq T /\ p \in Seq(T)
<1> DEFINE segs == PathOf[n].segs
           kept == {i \in DOMAIN segs : segs[i] # "."}
           len == Cardinality(kept)
           clean == withoutDots(segs)
<1>1. segs \in Seq(STRING)
  BY PathsAssumption
<1>2. len \in Nat
  <2>1. DOMAIN segs = 1..Len(segs) /\ Len(segs) \in Nat
    BY <1>1
  <2>2. IsFiniteSet(1..Len(segs))
    BY <2>1, FS_Interval
  <2>3. IsFiniteSet(kept)
    BY <2>1, <2>2, FS_Subset
  <2> QED
    BY <2>3, FS_CardinalityType
<1>3. clean = [k \in 1..len |-> clean[k]]
  BY DEF withoutDots
<1>4. CASE p = clean
  <2> HIDE DEF clean, len
  <2> QED
    BY <1>2, <1>3, <1>4, SeqOfSomething
<1>5. CASE p = <<".">>
  BY <1>5, SeqOfOne
<1>6. p \in {clean, <<".">>}
  BY DEF cleanRelativePath, CleanRelativePattern
<1> QED
  BY <1>4, <1>5, <1>6

\* What a result weighs, and that a cut adds nothing.
LEMMA ResultWeighs ==
    ASSUME NEW told \in SUBSET Notes, NEW named \in SUBSET Notes
    PROVE  /\ Result(told, named).told = told /\ Result(told, named).bytes \in Nat
           /\ \A k : \A few \in Cut(told, k) : few \subseteq told
<1>1. IsFiniteSet(told \cup named)
  BY NotesAssumption, FS_Subset
<1>2. Cardinality(told \cup named) \in Nat
  BY <1>1, FS_CardinalityType
<1> QED
  BY <1>2 DEF Result, Cut

\* What a call may have told, and what it weighs.
Sound(result, tool) ==
    /\ result.bytes \in Nat /\ result.told \subseteq Notes
    /\ \A n \in result.told : pathInScope(PathOf[n].segs, skill) \/ tool = "recall_memory"

\* A refused call tells nothing.
LEMMA RefusedIsSound ==
    ASSUME NEW kind, NEW tool
    PROVE  Sound(Refused(kind), tool)
BY DEF Sound, Refused

\* A result that tells notes of the scope is sound.
LEMMA ResultIsSound ==
    ASSUME NEW told \in SUBSET Notes, NEW named \in SUBSET Notes, NEW tool,
           \A n \in told : pathInScope(PathOf[n].segs, skill) \/ tool = "recall_memory"
    PROVE  Sound(Result(told, named), tool)
BY ResultWeighs DEF Sound

\* So is one that a cut of them makes.
LEMMA CutIsSound ==
    ASSUME NEW notes \in SUBSET Notes, NEW k, NEW tool,
           \A n \in notes : pathInScope(PathOf[n].segs, skill) \/ tool = "recall_memory"
    PROVE  \A result \in {Result(few, {}) : few \in Cut(notes, k)} : Sound(result, tool)
<1>1. \A few \in Cut(notes, k) : few \subseteq notes
  BY ResultWeighs
<1>2. ASSUME NEW few \in Cut(notes, k)
      PROVE  Sound(Result(few, {}), tool)
  BY <1>1, ResultIsSound
<1> QED
  BY <1>2

\* The path that a tool works on lies in the scope.
LEMMA PathIsInScope ==
    ASSUME NEW name, PathError(name, skill) = "none"
    PROVE  pathInScope(PathOfCall(name, skill), skill)
<1>1. resolveAndCheckPath(name, skill) # {}
  BY DEF PathError
<1>2. PathOfCall(name, skill) \in resolveAndCheckPath(name, skill)
  BY <1>1 DEF PathOfCall
<1> QED
  BY <1>2 DEF resolveAndCheckPath

\* A call's arguments may ask for anything: its results tell what lies in the
\* scope, unless it recalls.
LEMMA ExecuteIsSound ==
    ASSUME config \in Scenario, VaultOK, IndexOK, MemoryOK, NEW call \in Call,
           NEW result \in Execute(call, skill, expired)
    PROVE  Sound(result, call.tool)
<1>1. skill.scope \subseteq Seq(STRING)
  BY DEF skill, Scenario, Skill
<1>2. DOMAIN disk \subseteq Notes
  BY OnDisk
<1>3. DOMAIN links \subseteq Notes /\ \A n \in DOMAIN links : links[n] \in SUBSET ResolvedLink
  BY Partial DEF IndexOK, LinkMap
<1>4. CASE \E kind : result = Refused(kind)
  BY <1>4, RefusedIsSound
<1>5. ASSUME result \in listVaultDir(call.path, skill)
      PROVE  Sound(result, call.tool)
  <2>1. CASE PathError(call.path, skill) = "none"
    <3> DEFINE path == PathOfCall(call.path, skill)
               notes == {n \in DOMAIN disk : DirOf(n) = path}
    <3>1. pathInScope(path, skill)
      BY <2>1, PathIsInScope
    <3>2. notes \in SUBSET Notes
      BY <1>2
    <3>3. ASSUME NEW n \in notes
          PROVE  pathInScope(PathOf[n].segs, skill)
      <4>1. PathOf[n].segs \in Seq(STRING) /\ PathOf[n].segs # <<>>
        BY <3>2, NotePath
      <4>2. PICK root \in skill.scope : IsPrefix(root, Front(PathOf[n].segs))
        BY <3>1 DEF pathInScope, isUnderAnyRoot, DirOf
      <4>3. IsPrefix(root, PathOf[n].segs)
        BY <1>1, <4>1, <4>2, PrefixOfDir
      <4> QED
        BY <4>1, <4>3 DEF pathInScope, isUnderAnyRoot
    <3>4. (\E kind : result = Refused(kind)) \/ result \in {Result(few, {}) : few \in Cut(notes, MaxEntries)}
      BY <1>5 DEF listVaultDir
    <3> HIDE DEF notes
    <3> QED
      BY <1>4, <3>2, <3>3, <3>4, CutIsSound
  <2>2. CASE PathError(call.path, skill) # "none"
    BY <1>4, <1>5, <2>2 DEF listVaultDir
  <2> QED
    BY <2>1, <2>2
<1>6. ASSUME result \in readVaultNote(call.path, skill)
      PROVE  Sound(result, call.tool)
  <2> DEFINE notes == NotesAt(PathOfCall(call.path, skill))
  <2>1. CASE PathError(call.path, skill) = "none"
    <3>1. pathInScope(PathOfCall(call.path, skill), skill)
      BY <2>1, PathIsInScope
    <3>2. notes \in SUBSET Notes /\ \A n \in notes : pathInScope(PathOf[n].segs, skill)
      BY <1>2, <3>1 DEF NotesAt
    <3>3. (\E kind : result = Refused(kind)) \/ result = Result(notes, {})
      BY <1>6 DEF readVaultNote
    <3> HIDE DEF notes
    <3> QED
      BY <1>4, <3>2, <3>3, ResultIsSound
  <2>2. CASE PathError(call.path, skill) # "none"
    BY <1>4, <1>6, <2>2 DEF readVaultNote
  <2> QED
    BY <2>1, <2>2
<1>7. ASSUME result \in vaultOutlinks(call.path, skill)
      PROVE  Sound(result, call.tool)
  <2> DEFINE named == {l.to : l \in UNION {Outlinks(n) : n \in IndexedAt(PathOfCall(call.path, skill))}} \ {NoNote}
  <2>1. ASSUME NEW n \in IndexedAt(PathOfCall(call.path, skill)), NEW l \in Outlinks(n)
        PROVE  l.to \in Notes \cup {NoNote}
    BY <1>3 DEF IndexedAt, Outlinks, ResolvedLink
  <2>2. named \in SUBSET Notes
    BY <2>1
  <2>3. (\E kind : result = Refused(kind)) \/ result = Result({}, named)
    BY <1>7 DEF vaultOutlinks
  <2> HIDE DEF named
  <2> QED
    BY <1>4, <2>2, <2>3, ResultIsSound
<1>8. ASSUME result \in vaultBacklinks(call.path, skill)
      PROVE  Sound(result, call.tool)
  <2> DEFINE targets == {n \in Notes : PathOf[n].segs = PathOfCall(call.path, skill)}
             notes == {s \in UNION {Backlinks(n) : n \in targets} : pathInScope(PathOf[s].segs, skill)}
  <2>1. notes \in SUBSET Notes /\ \A n \in notes : pathInScope(PathOf[n].segs, skill)
    BY <1>3 DEF Backlinks
  <2>2. (\E kind : result = Refused(kind)) \/ result = Result(notes, {})
    BY <1>8 DEF vaultBacklinks
  <2> HIDE DEF notes
  <2> QED
    BY <1>4, <2>1, <2>2, ResultIsSound
<1>9. ASSUME result \in vaultTextSearch(call.query, call.names, skill)
      PROVE  Sound(result, call.tool)
  <2> DEFINE names == call.names
             roots == IF names = {} THEN skill.scope ELSE CleanSubset(names, skill)
             hits == {n \in DOMAIN disk : /\ isUnderAnyRoot(PathOf[n].segs, roots)
                                          /\ ~IsForbiddenScopePath(PathOf[n])
                                          /\ call.query \in {l.text : l \in disk[n].links}}
  <2>1. CASE SubsetRefused(names, skill)
    BY <1>4, <1>9, <2>1 DEF vaultTextSearch
  <2>2. CASE ~SubsetRefused(names, skill)
    <3>1. names \subseteq DOMAIN PathOf
      BY <2>2 DEF SubsetRefused
    <3>2. hits \in SUBSET Notes
      BY <1>2
    <3>3. ASSUME NEW n \in hits
          PROVE  pathInScope(PathOf[n].segs, skill)
      <4>1. PathOf[n].segs \in Seq(STRING) /\ PathOf[n].segs # <<>>
        BY <3>2, NotePath
      <4>2. PICK p \in roots : IsPrefix(p, PathOf[n].segs)
        BY DEF isUnderAnyRoot
      <4>3. CASE p \in skill.scope
        BY <4>1, <4>2, <4>3 DEF pathInScope, isUnderAnyRoot
      <4>4. CASE p \in CleanSubset(names, skill)
        <5>1. PICK m \in names : p \in cleanRelativePath(PathOf[m])
          BY <4>4 DEF CleanSubset
        <5>2. PICK T : STRING \subseteq T /\ p \in Seq(T)
          BY <3>1, <5>1, CleanedPath
        <5>3. PICK root \in skill.scope : IsPrefix(root, p)
          BY <4>4 DEF CleanSubset, pathInScope, isUnderAnyRoot
        <5>4. root \in Seq(T) /\ PathOf[n].segs \in Seq(T)
          BY <1>1, <4>1, <5>2, <5>3, WiderSeq
        <5>5. IsPrefix(root, PathOf[n].segs)
          BY <4>2, <5>2, <5>3, <5>4, PrefixOfPrefix
        <5> QED
          BY <4>1, <5>5 DEF pathInScope, isUnderAnyRoot
      <4> QED
        BY <4>2, <4>3, <4>4
    <3>4. (\E kind : result = Refused(kind)) \/ result \in {Result(few, {}) : few \in Cut(hits, MaxHits)}
      BY <1>9 DEF vaultTextSearch
    <3> HIDE DEF hits
    <3> QED
      BY <1>4, <3>2, <3>3, <3>4, CutIsSound
  <2> QED
    BY <2>1, <2>2
<1>10. ASSUME result \in recallMemory(call, skill), call.tool = "recall_memory"
       PROVE  Sound(result, call.tool)
  <2> DEFINE names == {n \in call.names : n \in DOMAIN PathOf => PathOf[n].segs # <<>>}
             scope == CleanSubset(names, skill)
             query == IF call.query \in Texts THEN call.query ELSE <<>>
             found == Recall(query, call.tags, scope, skill.index)
  <2>1. found \in SUBSET Notes
    <3>1. \A n : OutlinksRelated(n) \subseteq Notes
      BY <1>3 DEF OutlinksRelated, Outlinks, ResolvedLink
    <3>2. \A n : BacklinksRelated(n) \subseteq Notes
      BY <1>3 DEF BacklinksRelated, Backlinks
    <3>3. \A items \in SUBSET Notes : expandRelated(items) \subseteq Notes
      BY <3>1, <3>2 DEF expandRelated
    <3>4. TextSearch(query, scope) \subseteq Notes
      BY <1>2 DEF TextSearch
    <3>5. NotesForTags(call.tags) \subseteq Notes
      BY DEF NotesForTags
    <3> QED
      BY <3>3, <3>4, <3>5 DEF Recall, filterScope
  <2>2. (\E kind : result = Refused(kind)) \/ result \in {Result(few, {}) : few \in Cut(found, RecallLimit)}
    BY <1>10 DEF recallMemory
  <2> HIDE DEF found
  <2> QED
    BY <1>4, <1>10, <2>1, <2>2, CutIsSound
<1>11. \/ \E kind : result = Refused(kind)
       \/ result \in listVaultDir(call.path, skill)
       \/ result \in readVaultNote(call.path, skill)
       \/ result \in vaultOutlinks(call.path, skill)
       \/ result \in vaultBacklinks(call.path, skill)
       \/ result \in vaultTextSearch(call.query, call.names, skill)
       \/ result \in recallMemory(call, skill) /\ call.tool = "recall_memory"
  <2>1. CASE expired \/ ~call.parses
    BY <2>1 DEF Execute
  <2>2. CASE ~expired /\ call.parses
    BY <2>2, Zenon DEF Execute
  <2> QED
    BY <2>1, <2>2
<1> QED
  BY <1>4, <1>5, <1>6, <1>7, <1>8, <1>9, <1>10, <1>11

(***************************************************************************)
(* The run.                                                                *)
(***************************************************************************)

\* The scenario's bounds.
LEMMA Bounds ==
    /\ MaxViolations \in Nat \ {0} /\ SchedulerCap \in Nat \ {0} /\ WallClock \in Nat \ {0}
    /\ \A s \in Skill : tightenSchedulerBudget(s) \in Nat \ {0}
<1>1. MaxViolations \in Nat \ {0} /\ SchedulerCap \in Nat \ {0} /\ WallClock \in Nat \ {0}
  BY RunLimitsAssumption
<1>2. ASSUME NEW s \in Skill
      PROVE  tightenSchedulerBudget(s) \in Nat \ {0}
  <2>1. s.calls \in Nat \ {0}
    BY DEF Skill
  <2>2. s.calls > 1 => s.calls \div 2 \in Nat \ {0}
    BY <2>1
  <2> QED
    BY <1>1, <2>1, <2>2 DEF tightenSchedulerBudget, Min2
<1> QED
  BY <1>1, <1>2

\* No calls.
LEMMA EmptySeq ==
    ASSUME NEW S
    PROVE  <<>> \in Seq(S)
OBVIOUS

\* What a step of the run keeps.
RunFacts == RunOK /\ Undecided /\ EndingsAreExplained /\ ToldStaysInScope

\* A step that leaves the run.
LEMMA RunStays ==
    ASSUME RunFacts, SameScenario, UNCHANGED <<run, row, spent>>, clock' \in Nat
    PROVE  RunFacts'
<1>1. skill' = skill /\ RunState' = RunState
  BY DEF SameScenario, skill, RunState
<1>2. RunOK'
  BY <1>1 DEF RunFacts, RunOK
<1>3. Undecided' /\ EndingsAreExplained'
  BY DEF RunFacts, Undecided, EndingsAreExplained
<1>4. ToldStaysInScope'
  BY <1>1 DEF RunFacts, ToldStaysInScope, pathInScope
<1> QED
  BY <1>2, <1>3, <1>4 DEF RunFacts

\* A step of the run that tells the model nothing new.
LEMMA RunMoves ==
    ASSUME RunFacts, SameScenario, UNCHANGED <<clock, spent>>,
           run' \in RunState, run'.bytes <= skill.bytes,
           row' \in {"none", "running", "done", "partial", "failed"},
           Undecided', EndingsAreExplained'
    PROVE  RunFacts'
<1>1. skill' = skill /\ RunState' = RunState
  BY DEF SameScenario, skill, RunState
<1>2. RunOK'
  BY <1>1 DEF RunFacts, RunOK
<1>3. ToldStaysInScope'
  BY <1>1 DEF RunFacts, ToldStaysInScope, pathInScope
<1> QED
  BY <1>2, <1>3 DEF RunFacts

\* A run that fails in its turns.
LEMMA FailNext ==
    ASSUME RunFacts, SameScenario, run.pc \in {"turn", "batch"}, UNCHANGED <<clock, row, spent>>,
           NEW t \in {"error", "protocol_failed", "wall_clock_exceeded"}, Fail(t)
    PROVE  RunFacts'
<1>1. run \in RunState /\ run.bytes <= skill.bytes /\ row \in {"none", "running"}
  BY DEF RunFacts, RunOK, Undecided
<1>2. run' = [[[[run EXCEPT !.pc = "finish"] EXCEPT !.status = "failed"] EXCEPT !.termination = t] EXCEPT !.batch = <<>>]
  BY <1>1 DEF Fail, RunState
<1>3. /\ run' \in RunState /\ run'.bytes = run.bytes
      /\ run'.pc = "finish" /\ run'.status = "failed" /\ run'.termination = t
  <2>1. [run EXCEPT !.pc = "finish"] \in RunState
    BY <1>1 DEF RunState
  <2>2. [[run EXCEPT !.pc = "finish"] EXCEPT !.status = "failed"] \in RunState
    BY <2>1 DEF RunState
  <2>3. t \in Endings
    BY DEF Endings
  <2>4. [[[run EXCEPT !.pc = "finish"] EXCEPT !.status = "failed"] EXCEPT !.termination = t] \in RunState
    BY <2>2, <2>3 DEF RunState
  <2>5. run' \in RunState
    BY <1>2, <2>4, EmptySeq DEF RunState
  <2>6. /\ run'.bytes = run.bytes
        /\ run'.pc = "finish" /\ run'.status = "failed" /\ run'.termination = t
    BY <1>1, <1>2 DEF RunState
  <2> QED
    BY <2>5, <2>6
<1>4. Undecided' /\ EndingsAreExplained'
  BY <1>1, <1>3 DEF Undecided, EndingsAreExplained, Exhausting
<1> QED
  BY <1>1, <1>3, <1>4, RunMoves

\* A run that goes on in its turns, at most with one violation more.
LEMMA GoesOn ==
    ASSUME RunFacts, SameScenario, run.pc \in {"turn", "batch"}, UNCHANGED <<clock, row, spent>>,
           NEW pc \in {"turn", "batch"}, NEW v \in 0..MaxViolations, NEW b \in Seq(Call),
           run' = [run EXCEPT !.pc = pc, !.violations = v, !.batch = b]
    PROVE  RunFacts'
<1>1. run \in RunState /\ run.bytes <= skill.bytes /\ row \in {"none", "running"}
  BY DEF RunFacts, RunOK, Undecided
<1>2. /\ run' \in RunState /\ run'.bytes = run.bytes /\ run'.calls = run.calls
      /\ run'.pc = pc /\ run'.status = run.status /\ run'.termination = run.termination
      /\ run'.force = run.force
  BY <1>1 DEF RunState
<1>3. Undecided' /\ EndingsAreExplained'
  BY <1>1, <1>2 DEF RunFacts, Undecided, EndingsAreExplained, Exhausting
<1> QED
  BY <1>1, <1>2, <1>3, RunMoves

\* The start of a run.
LEMMA DispatchNext ==
    ASSUME config \in Scenario, RunFacts, SameScenario, NEW accepted, Dispatch(accepted),
           generation \in Nat
    PROVE  RunFacts'
<1>1. /\ run \in RunState /\ run.bytes <= skill.bytes /\ row \in {"none", "running"}
      /\ run.pc = "idle" /\ ~run.force /\ run.status = "none" /\ run.termination = "error"
      /\ clock \in Nat
  BY DEF RunFacts, RunOK, Undecided, Dispatch
<1>2. /\ skill.bytes \in Nat \ {0} /\ skill.sourcesFail \in BOOLEAN
      /\ tightenSchedulerBudget(skill) \in Nat \ {0}
  BY Bounds DEF Scenario, skill, Skill
<1>3. CASE ~accepted /\ skill.trigger = "adhoc"
  <2>1. run' = [run EXCEPT !.pc = "over", !.status = "refused"] /\ UNCHANGED <<row, clock, spent>>
    BY <1>3 DEF Dispatch
  <2>2. /\ run' \in RunState /\ run'.bytes = run.bytes
        /\ run'.pc = "over" /\ run'.status = "refused" /\ run'.termination = "error"
    BY <1>1, <2>1 DEF RunState
  <2>3. Undecided' /\ EndingsAreExplained'
    BY <1>1, <2>1, <2>2 DEF Undecided, EndingsAreExplained, Exhausting
  <2> QED
    BY <1>1, <2>1, <2>2, <2>3, RunMoves
<1>4. CASE ~(~accepted /\ skill.trigger = "adhoc")
  <2> DEFINE pc == IF skill.sourcesFail THEN "finish" ELSE "turn"
             status == IF skill.sourcesFail THEN "failed" ELSE "none"
             calls == tightenSchedulerBudget(skill)
  <2>1. /\ run' = [run EXCEPT !.pc = pc, !.status = status, !.deadline = Deadline(clock),
                              !.calls = calls, !.bytes = skill.bytes]
        /\ row' = IF skill.trigger = "adhoc" THEN "running" ELSE row
        /\ UNCHANGED <<clock, spent>>
    BY <1>4 DEF Dispatch
  <2>2. Deadline(clock) \in Nat
    BY <1>1, Bounds DEF Deadline
  <2> HIDE DEF calls
  <2>3. calls \in Nat \ {0}
    BY <1>2 DEF calls
  <2>4. /\ run'.pc = pc /\ run'.status = status /\ run'.calls = calls /\ run'.bytes = skill.bytes
        /\ run'.force = run.force /\ run'.termination = run.termination
    BY <1>1, <2>1 DEF RunState
  <2>5. run' \in RunState
    <3>1. [run EXCEPT !.pc = pc, !.status = status] \in RunState
      BY <1>1 DEF RunState
    <3>2. [[run EXCEPT !.pc = pc, !.status = status] EXCEPT !.deadline = Deadline(clock)] \in RunState
      BY <2>2, <3>1 DEF RunState
    <3>3. [[[run EXCEPT !.pc = pc, !.status = status] EXCEPT !.deadline = Deadline(clock)]
              EXCEPT !.calls = calls, !.bytes = skill.bytes] \in RunState
      <4>1. calls \in Int /\ skill.bytes \in Int
        BY <1>2, <2>3
      <4> QED
        BY <3>2, <4>1 DEF RunState
    <3>4. run' = [[[run EXCEPT !.pc = pc, !.status = status] EXCEPT !.deadline = Deadline(clock)]
                     EXCEPT !.calls = calls, !.bytes = skill.bytes]
      BY <1>1, <2>1 DEF RunState
    <3> QED
      BY <3>3, <3>4
  <2>6. row' \in {"none", "running"}
    BY <1>1, <2>1
  <2>7. Undecided' /\ EndingsAreExplained'
    BY <1>1, <1>2, <2>3, <2>4, <2>6 DEF Undecided, EndingsAreExplained, Exhausting
  <2> QED
    BY <1>2, <2>1, <2>4, <2>5, <2>6, <2>7, RunMoves
<1> QED
  BY <1>3, <1>4

\* One answer of the model.
LEMMA TurnNext ==
    ASSUME config \in Scenario, RunFacts, SameScenario, NEW answer \in config.answers, Turn(answer)
    PROVE  RunFacts'
<1>1. run \in RunState /\ run.pc = "turn" /\ UNCHANGED <<clock, row, spent>>
  BY DEF RunFacts, RunOK, Turn
<1>2. answer.kind \in {"error", "empty", "text", "calls"} /\ answer.calls \in Seq(Call)
  BY DEF Scenario, Answer
<1>3. run.violations \in 0..MaxViolations /\ run.batch \in Seq(Call)
  BY <1>1 DEF RunState
<1>4. CASE expired \/ answer.kind = "error" \/ answer.kind = "empty"
  <2>1. \E t \in {"error", "protocol_failed", "wall_clock_exceeded"} : Fail(t)
    BY <1>4 DEF Turn
  <2> QED
    BY <1>1, <2>1, FailNext
<1>5. CASE ~expired /\ answer.kind = "text"
  <2>1. CASE run.violations + 1 >= MaxViolations
    <3>1. Fail("protocol_failed")
      BY <1>5, <2>1 DEF Turn, Violation
    <3> QED
      BY <1>1, <3>1, FailNext
  <2>2. CASE ~(run.violations + 1 >= MaxViolations)
    <3>1. run' = [run EXCEPT !.violations = @ + 1]
      BY <1>5, <2>2 DEF Turn, Violation
    <3>2. run' = [run EXCEPT !.pc = "turn", !.violations = run.violations + 1, !.batch = run.batch]
      BY <1>1, <3>1 DEF RunState
    <3>3. run.violations + 1 \in 0..MaxViolations
      BY <1>3, <2>2, Bounds
    <3> QED
      BY <1>1, <1>3, <3>2, <3>3, GoesOn
  <2> QED
    BY <2>1, <2>2
<1>6. CASE ~expired /\ answer.kind = "calls"
  <2>1. run' = [run EXCEPT !.pc = "batch", !.violations = 0, !.batch = answer.calls]
    BY <1>6 DEF Turn
  <2>2. 0 \in 0..MaxViolations
    BY Bounds
  <2> QED
    BY <1>1, <1>2, <2>1, <2>2, GoesOn
<1> QED
  BY <1>2, <1>4, <1>5, <1>6

\* A result submitted.
LEMMA SubmitNext ==
    ASSUME RunFacts, SameScenario, SubmitResult
    PROVE  RunFacts'
<1>1. /\ run \in RunState /\ run.pc = "batch" /\ run.batch # <<>> /\ UNCHANGED <<clock, row, spent>>
      /\ run.bytes <= skill.bytes /\ row \in {"none", "running"}
  BY DEF RunFacts, RunOK, Undecided, SubmitResult
<1>2. run.violations \in 0..MaxViolations /\ run.batch \in Seq(Call) /\ Tail(run.batch) \in Seq(Call)
  BY <1>1 DEF RunState
<1>3. CASE Head(run.batch).parses
  <2> DEFINE status == IF run.force THEN "partial" ELSE "done"
             termination == IF run.force THEN run.termination ELSE "natural"
  <2>1. run' = [run EXCEPT !.pc = "finish", !.batch = <<>>, !.status = status, !.termination = termination]
    BY <1>1, <1>3 DEF SubmitResult, RunState
  <2>2. termination \in Endings
    BY <1>1 DEF RunState, Endings
  <2>3. /\ run'.pc = "finish" /\ run'.status = status /\ run'.termination = termination
        /\ run'.bytes = run.bytes /\ run'.calls = run.calls /\ run'.force = run.force
    BY <1>1, <2>1 DEF RunState
  <2>4. run' \in RunState
    <3>1. [run EXCEPT !.pc = "finish", !.status = status] \in RunState
      BY <1>1 DEF RunState
    <3>2. [[run EXCEPT !.pc = "finish", !.status = status] EXCEPT !.termination = termination] \in RunState
      BY <2>2, <3>1 DEF RunState
    <3>3. [[[run EXCEPT !.pc = "finish", !.status = status] EXCEPT !.termination = termination]
              EXCEPT !.batch = <<>>] \in RunState
      BY <3>2, EmptySeq DEF RunState
    <3> HIDE DEF status, termination
    <3>4. run' = [[[run EXCEPT !.pc = "finish", !.status = status] EXCEPT !.termination = termination]
                    EXCEPT !.batch = <<>>]
      BY <1>1, <2>1 DEF RunState
    <3> QED
      BY <3>3, <3>4
  <2>5. Undecided' /\ EndingsAreExplained'
    BY <1>1, <2>3 DEF RunFacts, Undecided, EndingsAreExplained, Exhausting
  <2> QED
    BY <1>1, <2>3, <2>4, <2>5, RunMoves
<1>4. CASE ~Head(run.batch).parses
  <2>1. CASE run.violations + 1 >= MaxViolations
    <3>1. Fail("protocol_failed")
      BY <1>4, <2>1 DEF SubmitResult, Violation
    <3> QED
      BY <1>1, <3>1, FailNext
  <2>2. CASE ~(run.violations + 1 >= MaxViolations)
    <3>1. run' = [run EXCEPT !.violations = @ + 1, !.batch = Tail(@)]
      BY <1>4, <2>2 DEF SubmitResult, Violation
    <3>2. run' = [run EXCEPT !.pc = "batch", !.violations = run.violations + 1, !.batch = Tail(run.batch)]
      BY <1>1, <3>1 DEF RunState
    <3>3. run.violations + 1 \in 0..MaxViolations
      BY <1>2, <2>2, Bounds
    <3> QED
      BY <1>1, <1>2, <3>2, <3>3, GoesOn
  <2> QED
    BY <2>1, <2>2
<1> QED
  BY <1>3, <1>4

\* A call passed over.
LEMMA RejectNext ==
    ASSUME RunFacts, SameScenario, RejectCall
    PROVE  RunFacts'
<1>1. /\ run \in RunState /\ run.pc = "batch" /\ run.batch # <<>> /\ UNCHANGED <<clock, row, spent>>
      /\ run' = [run EXCEPT !.batch = Tail(@)]
  BY DEF RunFacts, RunOK, RejectCall
<1>2. run.violations \in 0..MaxViolations /\ run.batch \in Seq(Call) /\ Tail(run.batch) \in Seq(Call)
  BY <1>1 DEF RunState
<1>3. run' = [run EXCEPT !.pc = "batch", !.violations = run.violations, !.batch = Tail(run.batch)]
  BY <1>1 DEF RunState
<1> QED
  BY <1>1, <1>2, <1>3, GoesOn

\* A call executed: its result is weighed, and told.
LEMMA ExecuteNext ==
    ASSUME config \in Scenario, VaultOK, IndexOK, MemoryOK, RunFacts, SameScenario, ExecuteCall
    PROVE  RunFacts'
<1> DEFINE call == Head(run.batch)
<1>1. /\ run \in RunState /\ run.pc = "batch" /\ run.batch # <<>> /\ ~run.force
      /\ call.tool \in skill.tools /\ UNCHANGED <<clock, row>>
      /\ run.bytes <= skill.bytes /\ row \in {"none", "running"}
      /\ run.status = "none" /\ run.termination = "error"
  BY DEF RunFacts, RunOK, Undecided, ExecuteCall
<1>2. /\ run.batch \in Seq(Call) /\ Tail(run.batch) \in Seq(Call) /\ call \in Call
      /\ run.calls \in Int /\ run.bytes \in Int
  BY <1>1 DEF RunState
<1>3. PICK result \in Execute(call, skill, expired) :
          /\ run' = [run EXCEPT !.batch = Tail(@), !.calls = run.calls - 1, !.bytes = run.bytes - result.bytes,
                                !.force = Gate(result, run.calls - 1, run.bytes - result.bytes) # "none",
                                !.termination =
                                    IF Gate(result, run.calls - 1, run.bytes - result.bytes) # "none"
                                    THEN Gate(result, run.calls - 1, run.bytes - result.bytes) ELSE @]
          /\ spent' = [failedLast |-> result.err # "none", told |-> spent.told \cup result.told]
  BY DEF ExecuteCall
<1>4. Sound(result, call.tool)
  BY <1>2, ExecuteIsSound
<1> HIDE DEF call
<1> DEFINE calls == run.calls - 1
           bytes == run.bytes - result.bytes
           gate == Gate(result, calls, bytes)
           force == gate # "none"
           termination == IF gate # "none" THEN gate ELSE run.termination
<1>5. calls \in Int /\ bytes \in Int /\ bytes <= run.bytes /\ result.bytes \in Nat
  BY <1>2, <1>4 DEF Sound
<1>6. /\ gate \in Exhausting \cup {"none"}
      /\ gate = "call_count_exceeded" => calls <= 0
      /\ gate = "bytes_exceeded" => bytes <= 0 /\ calls > 0
      /\ gate = "none" /\ (calls <= 0 \/ bytes <= 0) => result.err # "none"
  BY <1>5 DEF Gate, Exhausting
<1>7. run' = [run EXCEPT !.batch = Tail(run.batch), !.calls = calls, !.bytes = bytes, !.force = force,
                         !.termination = termination]
  BY <1>1, <1>3 DEF RunState
<1> HIDE DEF calls, bytes, gate
<1>8. /\ run'.pc = "batch" /\ run'.status = "none" /\ run'.termination = termination
      /\ run'.bytes = bytes /\ run'.calls = calls /\ run'.force = force
  BY <1>1, <1>7 DEF RunState
<1>9. termination \in Endings /\ force \in BOOLEAN
  BY <1>1, <1>6 DEF Endings
<1>10. run' \in RunState
  <2> HIDE DEF termination, force
  <2>1. [run EXCEPT !.batch = Tail(run.batch)] \in RunState
    BY <1>1, <1>2 DEF RunState
  <2>2. [[run EXCEPT !.batch = Tail(run.batch)] EXCEPT !.calls = calls, !.bytes = bytes] \in RunState
    BY <1>5, <2>1 DEF RunState
  <2>3. [[[run EXCEPT !.batch = Tail(run.batch)] EXCEPT !.calls = calls, !.bytes = bytes]
            EXCEPT !.force = force, !.termination = termination] \in RunState
    BY <1>9, <2>2 DEF RunState
  <2>4. run' = [[[run EXCEPT !.batch = Tail(run.batch)] EXCEPT !.calls = calls, !.bytes = bytes]
                  EXCEPT !.force = force, !.termination = termination]
    BY <1>1, <1>7 DEF RunState
  <2> QED
    BY <2>3, <2>4
<1>11. /\ spent' \in [failedLast : BOOLEAN, told : SUBSET Notes]
       /\ spent'.failedLast = (result.err # "none") /\ spent'.told = spent.told \cup result.told
  BY <1>3, <1>4 DEF RunFacts, RunOK, Sound
<1>12. skill' = skill /\ RunState' = RunState
  BY DEF SameScenario, skill, RunState
<1>13. RunOK'
  <2>1. skill.bytes \in Int
    BY DEF Scenario, skill, Skill
  <2> QED
    BY <1>1, <1>2, <1>5, <1>8, <1>10, <1>11, <1>12, <2>1 DEF RunFacts, RunOK
<1>14. Undecided'
  BY <1>1, <1>6, <1>8 DEF Undecided
<1>15. EndingsAreExplained'
  BY <1>1, <1>6, <1>8, <1>11 DEF EndingsAreExplained, Exhausting
<1>16. ToldStaysInScope'
  <2>1. ASSUME NEW n \in spent'.told
        PROVE  pathInScope(PathOf[n].segs, skill) \/ "recall_memory" \in skill.tools
    BY <1>1, <1>4, <1>11, <2>1 DEF RunFacts, ToldStaysInScope, Sound
  <2> QED
    BY <1>12, <2>1 DEF ToldStaysInScope, pathInScope
<1> QED
  BY <1>13, <1>14, <1>15, <1>16 DEF RunFacts

\* The end of a batch.
LEMMA EndBatchNext ==
    ASSUME RunFacts, SameScenario, EndBatch
    PROVE  RunFacts'
<1>1. /\ run \in RunState /\ run.pc = "batch" /\ UNCHANGED <<clock, row, spent>>
  BY DEF RunFacts, RunOK, EndBatch
<1>2. run.violations \in 0..MaxViolations /\ run.batch \in Seq(Call)
  BY <1>1 DEF RunState
<1>3. CASE expired
  <2>1. Fail("wall_clock_exceeded")
    BY <1>3 DEF EndBatch
  <2> QED
    BY <1>1, <2>1, FailNext
<1>4. CASE ~expired
  <2>1. run' = [run EXCEPT !.pc = "turn", !.violations = run.violations, !.batch = run.batch]
    BY <1>1, <1>4 DEF EndBatch, RunState
  <2> QED
    BY <1>1, <1>2, <2>1, GoesOn
<1> QED
  BY <1>3, <1>4

\* The end of a run, and of its row if that can be saved.
LEMMA FinishNext ==
    ASSUME RunFacts, SameScenario, generation \in Nat, NEW saved, Finish(saved)
    PROVE  RunFacts'
<1>1. /\ run \in RunState /\ run.bytes <= skill.bytes /\ run.pc = "finish"
      /\ run.status \in {"done", "partial", "failed"} /\ row \in {"none", "running"}
      /\ UNCHANGED <<clock, spent>>
  BY DEF RunFacts, RunOK, Undecided, Finish
<1> DEFINE version == IF skill.index /\ ~skill.sourcesFail THEN generation ELSE 0
<1>2. version \in Nat
  OBVIOUS
<1>3. run' = [run EXCEPT !.pc = "over", !.version = version]
  BY DEF Finish
<1> HIDE DEF version
<1>4. /\ run' \in RunState
      /\ run'.pc = "over" /\ run'.status = run.status /\ run'.termination = run.termination
      /\ run'.bytes = run.bytes /\ run'.calls = run.calls /\ run'.force = run.force
  BY <1>1, <1>2, <1>3 DEF RunState
<1>5. row' = run.status \/ row' = row
  BY DEF Finish
<1>6. Undecided' /\ EndingsAreExplained'
  BY <1>1, <1>4, <1>5 DEF RunFacts, Undecided, EndingsAreExplained, Exhausting
<1> QED
  BY <1>1, <1>4, <1>5, <1>6, RunMoves

\* Whatever happens, the run keeps its facts.
LEMMA RunNext ==
    ASSUME config \in Scenario, VaultOK, IndexOK, MemoryOK, RunFacts, SameScenario, [Next]_vars
    PROVE  RunFacts'
<1>1. generation \in Nat /\ clock \in Nat
  BY DEF IndexOK, RunFacts, RunOK
<1>2. CASE Begin
  BY <1>1, <1>2, DispatchNext DEF Begin
<1>3. CASE EngineStep
  BY <1>3, TurnNext, SubmitNext, RejectNext, ExecuteNext, EndBatchNext DEF EngineStep
<1>4. CASE Close
  BY <1>1, <1>4, FinishNext DEF Close
<1>5. CASE Tick
  BY <1>1, <1>5, RunStays DEF Tick
<1>6. CASE ScanStep \/ WatchStep \/ MemoryStep \/ MemoryTrouble
  BY <1>1, <1>6, RunStays DEF ScanStep, WatchStep, MemoryStep, MemoryTrouble, runVars
<1>7. CASE Edit \/ Enrich \/ Trouble \/ UNCHANGED vars
  BY <1>1, <1>7, RunStays DEF Edit, Enrich, Trouble, vars, runVars
<1> QED
  BY <1>2, <1>3, <1>4, <1>5, <1>6, <1>7 DEF Next

-----------------------------------------------------------------------------
(***************************************************************************)
(* The theorems.                                                           *)
(***************************************************************************)

\* The first states.
LEMMA AgentInit ==
    ASSUME Init
    PROVE  AgentInv
<1>1. config \in Scenario
  BY ScenariosAssumption DEF Init
<1>2. /\ config.disk \in UNION {[notes -> Contents] : notes \in SUBSET Notes}
      /\ config.dirs \in SUBSET Directories
      /\ config.rescans \in [Processes -> {"idle", "start", "reindex"}]
      /\ skill.bytes \in Nat
  BY <1>1 DEF Scenario, skill, Skill
<1>3. VaultOK
  <2>1. DOMAIN config.disk \subseteq Notes /\ config.disk \in [DOMAIN config.disk -> Contents]
    BY <1>2, Partial
  <2>2. config.disk \in [DOMAIN config.disk -> Held]
    BY <1>1, <2>1, HeldFacts
  <2>3. disk \in Read
    BY <2>1, <2>2, Partial DEF Init, Read
  <2> QED
    BY <1>2, <2>3 DEF Init, VaultOK
<1>4. IndexOK
  <2>1. EmptyIndex \in [{} -> Held] /\ EmptyIndex \in [{} -> SUBSET ResolvedLink]
    BY DEF EmptyIndex
  <2>2. EmptyIndex \in Read /\ EmptyIndex \in LinkMap
    BY <2>1 DEF Read, LinkMap
  <2>3. Idle \in ScanState /\ [Idle EXCEPT !.pc = "start"] \in ScanState
    BY <2>2 DEF Idle, ScanState, ScanPcs
  <2>4. scan \in [Scans -> ScanState]
    BY <2>3 DEF Init, IndexInit
  <2> QED
    BY <2>2, <2>4 DEF Init, IndexInit, IndexOK
<1>5. MemoryOK /\ FilledFirst
  <2>1. \A p \in Processes : [NoRescan EXCEPT !.pc = config.rescans[p]] \in RescanState
    BY <1>2 DEF NoRescan, RescanState, RescanPcs
  <2>2. /\ rescan \in [Processes -> RescanState]
        /\ \A p \in Processes : rescan[p].pc = config.rescans[p]
    BY <2>1 DEF Init, MemoryInit, NoRescan
  <2>3. NoHook \in HookState /\ NoHook.pc = "idle"
    BY DEF NoHook, HookState, HookPcs
  <2>4. \A p \in Processes : rescan[p].pc # "replace"
    BY <1>2, <2>2
  <2> QED
    BY <2>2, <2>3, <2>4 DEF Init, MemoryInit, MemoryOK, FilledFirst
<1>6. NotRunning \in RunState
  BY Bounds, EmptySeq DEF NotRunning, RunState, Endings
<1>7. RunOK /\ Undecided /\ EndingsAreExplained /\ ToldStaysInScope
  <2>1. run.bytes = 0 /\ run.pc = "idle" /\ ~run.force /\ run.status = "none" /\ run.termination = "error"
    BY DEF Init, NotRunning
  <2>2. RunOK
    BY <1>2, <1>6, <2>1 DEF Init, NothingSpent, RunOK
  <2>3. Undecided /\ EndingsAreExplained
    BY <2>1 DEF Init, Undecided, EndingsAreExplained, Exhausting
  <2>4. ToldStaysInScope
    BY DEF Init, NothingSpent, ToldStaysInScope
  <2> QED
    BY <2>2, <2>3, <2>4
<1> QED
  BY <1>1, <1>3, <1>4, <1>5, <1>7 DEF AgentInv, Typing

\* Every step keeps the invariant, and takes no tag out of the daemon's cache.
LEMMA AgentNext ==
    ASSUME AgentInv, [Next]_vars
    PROVE  AgentInv' /\ cache \subseteq cache'
<1>1. config \in Scenario /\ VaultOK /\ IndexOK /\ MemoryOK /\ FilledFirst /\ RunFacts
  BY DEF AgentInv, Typing, RunFacts
<1>2. SameScenario
  BY <1>1, ConfigNext
<1>3. VaultOK'
  BY <1>1, <1>2, VaultNext
<1>4. IndexOK'
  BY <1>1, <1>2, IndexNext
<1>5. MemoryOK' /\ FilledFirst' /\ cache \subseteq cache'
  BY <1>1, <1>2, MemoryNext
<1>6. RunFacts'
  BY <1>1, <1>2, RunNext
<1> QED
  BY <1>2, <1>3, <1>4, <1>5, <1>6 DEF SameScenario, AgentInv, Typing, RunFacts

\* What the invariant says of a state.
LEMMA AgentMeaning ==
    ASSUME AgentInv
    PROVE  RunInv
<1>1. config \in Scenario /\ VaultOK /\ IndexOK /\ MemoryOK /\ RunOK
  BY DEF AgentInv, Typing
<1>2. DOMAIN disk \subseteq Notes /\ disk \in [DOMAIN disk -> Held] /\ DOMAIN links \subseteq Notes
  BY <1>1, Partial DEF VaultOK, IndexOK, Read, LinkMap
<1>3. run.pc \in {"idle", "turn", "batch", "finish", "over"}
  BY <1>1 DEF RunOK, RunState
<1>4. /\ run.status \in {"none", "done", "partial", "failed", "refused"}
      /\ run.violations \in 0..MaxViolations
  BY <1>1 DEF RunOK, RunState
<1>5. TypeOK
  BY <1>1, <1>2, <1>3, <1>4 DEF TypeOK, VaultOK, IndexOK, MemoryOK, RunOK, Held, Tags
<1> QED
  BY <1>5 DEF AgentInv, RunInv

\* A run's end is accounted for by its budgets, its failed calls and its model,
\* and what the model was told lies in its skill's scope, unless it may recall
\* (tool_calling_engine.go, vault_tools.go).
THEOREM RunInvariant == Spec => []RunInv
<1>1. Init => AgentInv
  BY AgentInit
<1>2. AgentInv /\ [Next]_vars => AgentInv'
  BY AgentNext
<1>3. AgentInv => RunInv
  BY AgentMeaning
<1> QED
  BY <1>1, <1>2, <1>3, PTL DEF Spec

\* No rescan, enrichment or failed statement takes a tag out of the daemon's
\* cache (memory/service.go).
THEOREM VocabularyGrows == Spec => VocabularyOnlyGrows
<1>1. Init => AgentInv
  BY AgentInit
<1>2. AgentInv /\ [Next]_vars => AgentInv' /\ (cache \subseteq cache')
  BY AgentNext
<1>3. AgentInv /\ [Next]_vars => [cache \subseteq cache']_vars
  BY <1>2
<1> QED
  BY <1>1, <1>2, <1>3, PTL DEF Spec, VocabularyOnlyGrows
=============================================================================
