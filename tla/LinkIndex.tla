----------------------------- MODULE LinkIndex -----------------------------
(***************************************************************************)
(* The link index of the vault (internal/vault/linkindex): a scan of every *)
(* note, then a watcher that re-reads the notes whose directory reports a  *)
(* change.  Notes lie in directories directly below the root; the user     *)
(* edits them while scans and the watcher run.  A link's text is the       *)
(* segments it is written with; stems and backlinks are functions of the   *)
(* outlinks and are installed with them.  Tags are the memory's.           *)
(***************************************************************************)
EXTENDS Integers, FiniteSets, Functions, VaultPaths

CONSTANTS Notes,        \* the names of PathOf that are notes
          Contents,     \* what a note can hold: links, with where they stand, and tags
          NoNote,
          Scans,        \* the first scan is 0, rebuilds follow
          ReadRoots     \* roots of the index; none: the whole vault

ASSUME NotesAssumption ==
    /\ IsFiniteSet(Notes) /\ Notes \subseteq DOMAIN PathOf /\ NoNote \notin Notes
    /\ \A n \in Notes : Len(PathOf[n].segs) = 2
ASSUME ContentsAssumption ==
    Contents \subseteq [links : SUBSET [text : Seq(STRING), related : BOOLEAN], tags : SUBSET STRING]
ASSUME ScansAssumption == 0 \in Scans /\ Scans \subseteq Nat

VARIABLES disk,      \* the notes that exist and what they hold
          dirs,      \* the directories that exist
          links,     \* ix.outlinks, the texts with what they resolve to
          ready, generation,
          scan,      \* what each scan does next, has still to visit and has read
          watcher,   \* off, registering its directories, or in its loop
          toWatch,   \* those it has still to register
          watched,   \* the directories registered; <<>> is the root
          events,    \* what the watcher will report
          pending,   \* ix.pendingPaths
          lost       \* history: notes that met one of the losses below

vaultVars == <<disk, dirs>>
installedVars == <<links, ready, generation>>
watchVars == <<watcher, toWatch, watched, events, pending>>
indexVars == <<installedVars, scan, watchVars, lost>>

DirOf(n) == Front(PathOf[n].segs)
Stem(n) == Last(PathOf[n].segs)
Directories == {DirOf(n) : n \in Notes}
Texts == {l.text : l \in UNION {c.links : c \in Contents}}
EmptyIndex == [n \in {} |-> {}]
Put(notes, n, content) == [m \in {n} \cup DOMAIN notes |-> IF m = n THEN content ELSE notes[m]]
Idle == [pc |-> "idle", dirs |-> {}, listed |-> {}, read |-> EmptyIndex]

-----------------------------------------------------------------------------
(***************************************************************************)
(* Which files count, and what their links mean.                           *)
(***************************************************************************)
\* Hidden directories, and those of packages.
shouldSkipDir(dir) ==
    dir # <<>> /\ Last(dir) \in HiddenSegments \cup {"node_modules"}

pathInReadRoots(n) == ReadRoots = {} \/ isUnderAnyRoot(PathOf[n].segs, ReadRoots)

\* The path as written, else the one note of that stem.
resolveTarget(text, notePaths) ==
    LET exact == {n \in notePaths : PathOf[n].segs = text}
        stems == {n \in notePaths : text = <<Stem(n)>>}
        found == IF exact # {} THEN exact ELSE stems
    IN  IF Cardinality(found) = 1 THEN CHOOSE n \in found : TRUE ELSE NoNote

\* parseNoteLinks and the resolution of each link; related: in the frontmatter.
Resolve(content, notePaths) ==
    {[text |-> l.text, related |-> l.related, to |-> resolveTarget(l.text, notePaths)] : l \in content.links}
LinksOf(resolved) == {[text |-> l.text, related |-> l.related] : l \in resolved}

Outlinks(n) == IF n \in DOMAIN links THEN links[n] ELSE {}

\* buildBacklinks: the sources that link to n.
Backlinks(n) == {s \in DOMAIN links : \E l \in links[s] : l.to = n}

-----------------------------------------------------------------------------
(***************************************************************************)
(* Build: list each directory, read each note listed, install, then count  *)
(* the change and report ready.  A listed note or directory that is gone   *)
(* when visited ends the walk, a note that goes before it is read is       *)
(* passed over; what was read is installed in both cases.                  *)
(***************************************************************************)
BuildStart(b) ==
    /\ scan[b].pc = "start"
    /\ scan' = [scan EXCEPT ![b].pc = "walk", ![b].dirs = {d \in dirs : ~shouldSkipDir(d)}]
    /\ UNCHANGED <<vaultVars, installedVars, watchVars, lost>>

BuildListDir(b, d) ==
    /\ scan[b].pc = "walk" /\ scan[b].listed = {} /\ d \in scan[b].dirs /\ d \in dirs
    /\ scan' = [scan EXCEPT ![b].dirs = @ \ {d},
                            ![b].listed = {n \in DOMAIN disk : DirOf(n) = d /\ pathInReadRoots(n)}]
    /\ UNCHANGED <<vaultVars, installedVars, watchVars, lost>>

BuildReadNote(b, n) ==
    /\ scan[b].pc = "walk" /\ n \in scan[b].listed
    /\ scan' = [scan EXCEPT ![b].listed = @ \ {n},
                            ![b].read = IF n \in DOMAIN disk THEN Put(@, n, disk[n]) ELSE @]
    /\ UNCHANGED <<vaultVars, installedVars, watchVars, lost>>

BuildBreaksOff(b) ==
    /\ scan[b].pc = "walk"
    /\ \/ scan[b].listed \ DOMAIN disk # {}
       \/ scan[b].listed = {} /\ scan[b].dirs \ dirs # {}
    /\ scan' = [scan EXCEPT ![b].pc = "failed", ![b].dirs = {}, ![b].listed = {}]
    /\ lost' = lost \cup (Notes \ DOMAIN scan[b].read)
    /\ UNCHANGED <<vaultVars, installedVars, watchVars>>

BuildInstall(b) ==
    /\ \/ scan[b].pc = "failed"
       \/ scan[b].pc = "walk" /\ scan[b].dirs = {} /\ scan[b].listed = {}
    /\ links' = [n \in DOMAIN scan[b].read |-> Resolve(scan[b].read[n], DOMAIN scan[b].read)]
    /\ scan' = [scan EXCEPT ![b] = [Idle EXCEPT !.pc = IF scan[b].pc = "walk" THEN "installed" ELSE "part"]]
    /\ UNCHANGED <<vaultVars, ready, generation, watchVars, lost>>

\* The daemon starts the watcher after its first scan, unless that failed.
BuildFinish(b) ==
    /\ scan[b].pc \in {"installed", "part"}
    /\ scan' = [scan EXCEPT ![b] = [Idle EXCEPT !.pc = "over"]]
    /\ generation' = generation + 1
    /\ ready' = TRUE
    /\ watcher' = IF b = 0 /\ scan[b].pc = "installed" THEN "start" ELSE watcher
    /\ UNCHANGED <<vaultVars, links, toWatch, watched, events, pending, lost>>

Build(b) ==
    \/ BuildStart(b)
    \/ \E d \in Directories : BuildListDir(b, d)
    \/ \E n \in Notes : BuildReadNote(b, n)
    \/ BuildBreaksOff(b)
    \/ BuildInstall(b)
    \/ BuildFinish(b)

\* The notes scan b has passed: a later change is not in what it installs.
Passed(b) == {n \in Notes : n \notin scan[b].listed /\ DirOf(n) \notin scan[b].dirs}

\* The notes scan b will install otherwise than they are on disk.
Outdated(b) ==
    IF scan[b].pc \in {"walk", "failed"}
    THEN {n \in Passed(b) : \/ (n \in DOMAIN scan[b].read) # (n \in DOMAIN disk)
                            \/ n \in DOMAIN disk /\ scan[b].read[n].links # disk[n].links}
    ELSE {}

-----------------------------------------------------------------------------
(***************************************************************************)
(* Watch and its loop.  Every change of a registered directory is reported *)
(* in time; reports not yet taken may be dropped with an error, which      *)
(* starts a rebuild beside the loop.  The 200 ms of quiet before a flush   *)
(* may pass after any event.                                               *)
(***************************************************************************)
\* Watch: the root is registered before its directories are listed.
WatchStart ==
    /\ watcher = "start"
    /\ watcher' = "register"
    /\ watched' = {<<>>}
    /\ toWatch' = {d \in dirs : ~shouldSkipDir(d)}
    /\ UNCHANGED <<vaultVars, installedVars, scan, events, pending, lost>>

WatchRegister ==
    /\ watcher = "register"
    /\ \/ /\ toWatch = {}
          /\ watcher' = "loop" /\ UNCHANGED <<toWatch, watched>>
       \/ \E d \in toWatch \cap dirs :
              /\ watched' = watched \cup {d} /\ toWatch' = toWatch \ {d}
              /\ UNCHANGED watcher
    /\ UNCHANGED <<vaultVars, installedVars, scan, events, pending, lost>>

\* Watch returns, nothing is watched.
WatchGivesUp ==
    /\ watcher' = "off" /\ toWatch' = {} /\ watched' = {} /\ events' = {}
    /\ lost' = Notes
    /\ UNCHANGED <<vaultVars, installedVars, scan, pending>>

\* A directory is gone before it is registered ...
WatchMisses == watcher = "register" /\ toWatch \ dirs # {} /\ WatchGivesUp

\* ... or cannot be, or a note listed beside it goes on the way.
WatchRefused == watcher = "register" /\ WatchGivesUp

\* Mutant: a directory created later is not registered.
MarkNoteOnly(e) ==
    /\ pending' = pending \cup {e}
    /\ UNCHANGED watched

\* markPending, and the timer it starts.
markPending(e) ==
    /\ pending' = pending \cup {e}
    /\ watched' = IF e \in dirs /\ ~shouldSkipDir(e) THEN watched \cup {e} ELSE watched

TakeEvent(e) ==
    /\ watcher = "loop" /\ e \in events
    /\ markPending(e)
    /\ events' = events \ {e}
    /\ UNCHANGED <<vaultVars, installedVars, scan, watcher, toWatch, lost>>

\* What flushPending does to the notes that changed: those that are gone leave
\* the index, those it may read are parsed again, the others stay out of it.
Dropped(notes) == {n \in notes : n \notin DOMAIN disk}
Reread(notes) == {n \in notes \cap DOMAIN disk : pathInReadRoots(n)}

\* The notes in the index when the turn of n comes.
IndexedBefore(n, notes, turn) ==
    LET before == {m \in notes : turn[m] < turn[n]}
    IN  (DOMAIN links \ Dropped(before)) \cup Reread(before)

\* The pending map is ranged over in any order, under the lock: a note's own
\* links are resolved, no other note's.
flushPending ==
    /\ watcher = "loop" /\ pending # {}
    /\ pending' = {}
    /\ LET notes == {n \in Notes : PathOf[n].segs \in pending}
       IN  /\ \E turn \in Injection(notes, 1..Cardinality(notes)) :
                  links' = [n \in (DOMAIN links \ Dropped(notes)) \cup Reread(notes) |->
                               IF n \in Reread(notes)
                               THEN Resolve(disk[n], IndexedBefore(n, notes, turn))
                               ELSE links[n]]
           /\ generation' = IF Dropped(notes) \cup Reread(notes) # {} THEN generation + 1 ELSE generation
           /\ lost' = (lost \ notes) \cup (notes \cap UNION {Outdated(b) : b \in Scans})
    /\ UNCHANGED <<vaultVars, ready, scan, watcher, toWatch, watched, events>>

\* An error of the watcher: the index is unready until a rebuild is done.
WatchError(b, kept) ==
    /\ watcher = "loop" /\ b # 0 /\ scan[b].pc = "idle"
    /\ ready' = FALSE
    /\ events' = kept
    /\ scan' = [scan EXCEPT ![b].pc = "start"]
    /\ UNCHANGED <<vaultVars, links, generation, watcher, toWatch, watched, pending, lost>>

WatchLoop == (\E e \in events : TakeEvent(e)) \/ flushPending

-----------------------------------------------------------------------------
(***************************************************************************)
(* The user.                                                               *)
(***************************************************************************)
\* Why a change of n may go unseen when its directory is not registered: there
\* is no loop, it has yet to hear of the directory, or an error may have kept it
\* from hearing.
Unseen(n) ==
    \/ watcher # "loop"
    \/ DirOf(n) \in events
    \/ \E b \in Scans \ {0} : scan[b].pc # "idle"

\* A change is reported, or lost unless the first scan will see it.
Report(n) ==
    IF DirOf(n) \in watched
    THEN events' = events \cup {PathOf[n].segs} /\ UNCHANGED lost
    ELSE /\ UNCHANGED events
         /\ lost' = IF scan[0].pc \in {"start", "walk"} /\ n \notin Passed(0) THEN lost
                    ELSE IF Unseen(n) THEN lost \cup {n} ELSE lost

WriteNote(n, content) ==
    /\ DirOf(n) \in dirs
    /\ n \in DOMAIN disk => disk[n] # content
    /\ disk' = Put(disk, n, content)
    /\ Report(n)
    /\ UNCHANGED <<dirs, installedVars, scan, watcher, toWatch, watched, pending>>

DeleteNote(n) ==
    /\ n \in DOMAIN disk
    /\ disk' = [m \in DOMAIN disk \ {n} |-> disk[m]]
    /\ Report(n)
    /\ UNCHANGED <<dirs, installedVars, scan, watcher, toWatch, watched, pending>>

MakeDir(d) ==
    /\ d \in Directories \ dirs
    /\ dirs' = dirs \cup {d}
    /\ events' = IF <<>> \in watched THEN events \cup {d} ELSE events
    /\ UNCHANGED <<disk, installedVars, scan, watcher, toWatch, watched, pending, lost>>

(***************************************************************************)
(* A directory goes to e, or out of the vault, and its notes with it, of   *)
(* which the watcher hears nothing: only the directory is reported, and it *)
(* is watched no more.                                                     *)
(***************************************************************************)
MoveDir(d, e) ==
    /\ d \in dirs /\ e \in (Directories \ dirs) \cup {<<>>}
    /\ dirs' = (dirs \ {d}) \cup ({e} \ {<<>>})
    /\ LET gone == {n \in DOMAIN disk : DirOf(n) = d}
           source(n) == {m \in gone : Stem(m) = Stem(n)}
           come == {n \in Notes : DirOf(n) = e /\ source(n) # {}}
       IN  /\ disk' = [n \in (DOMAIN disk \ gone) \cup come |->
                           IF n \in come THEN disk[CHOOSE m \in source(n) : TRUE] ELSE disk[n]]
           /\ lost' = lost \cup gone \cup come
    /\ watched' = watched \ {d}
    /\ events' = IF <<>> \in watched THEN events \cup ({d, e} \ {<<>>}) ELSE events
    /\ UNCHANGED <<installedVars, scan, watcher, toWatch, pending>>

UserEdit ==
    \/ \E n \in Notes, content \in Contents : WriteNote(n, content)
    \/ \E n \in Notes : DeleteNote(n)
    \/ \E d \in Directories : MakeDir(d)
    \/ \E d \in Directories, e \in Directories \cup {<<>>} : MoveDir(d, e)

-----------------------------------------------------------------------------
IndexInit ==
    /\ links = EmptyIndex /\ ready = FALSE /\ generation = 0
    /\ scan = [b \in Scans |-> IF b = 0 THEN [Idle EXCEPT !.pc = "start"] ELSE Idle]
    /\ watcher = "off" /\ toWatch = {} /\ watched = {} /\ events = {} /\ pending = {}
    /\ lost = {}

\* n is in the index as it is on disk: there or not, with its links.
IsFresh(n) ==
    /\ (n \in DOMAIN links) <=> (n \in DOMAIN disk /\ pathInReadRoots(n) /\ ~shouldSkipDir(DirOf(n)))
    /\ n \in DOMAIN links => LinksOf(links[n]) = disk[n].links

=============================================================================
