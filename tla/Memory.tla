------------------------------- MODULE Memory -------------------------------
(***************************************************************************)
(* Tags and recall (internal/memory): a table of the notes of each tag, a  *)
(* table of the tags known and the daemon's cache of it.  A rescan walks   *)
(* the notes, when the daemon starts and in every command that needs the   *)
(* service; an enrichment waits for the daemon's, rewrites a note and then *)
(* reports its tags.  The tables are shared, the cache is the daemon's.    *)
(***************************************************************************)
EXTENDS LinkIndex

CONSTANTS ScanDirs,     \* DefaultScanDirs
          SearchDirs,   \* DefaultTextSearchScopeDirs
          ArchiveDir    \* DefaultArchiveScope

VARIABLES rows,      \* memory_tag_index: the tags of each note
          known,     \* memory_known_tags
          cache,     \* the daemon's known tags
          memReady,  \* the daemon's rescan is done
          rescan,    \* the daemon's rescan, and that of a command
          hook       \* an enrichment's apply, and the hook behind it

tableVars == <<rows, known>>
memoryVars == <<tableVars, cache, memReady, rescan, hook>>

Processes == {"daemon", "command"}
NoRescan == [pc |-> "idle", todo |-> {}, note |-> NoNote, tags |-> {}, merged |-> {}]
NoHook == [pc |-> "idle", note |-> NoNote, tags |-> {}, added |-> {}]

-----------------------------------------------------------------------------
(***************************************************************************)
(* RescanAll, one note at a time: read, then replace the note's rows and   *)
(* enter its tags.  An error ends it, and nothing starts it again.         *)
(***************************************************************************)
\* Reindex clears both tables first, one after the other.
ReindexClearRows ==
    /\ rescan["command"].pc = "reindex"
    /\ rows' = [n \in Notes |-> {}]
    /\ rescan' = [rescan EXCEPT !["command"].pc = "clear"]
    /\ UNCHANGED <<known, cache, memReady, hook>>

ReindexClearKnown ==
    /\ rescan["command"].pc = "clear"
    /\ known' = {}
    /\ rescan' = [rescan EXCEPT !["command"].pc = "start"]
    /\ UNCHANGED <<rows, cache, memReady, hook>>

RescanLoad(p) ==
    /\ rescan[p].pc = "start"
    /\ rescan' = [rescan EXCEPT ![p].pc = "walk", ![p].merged = known,
                                ![p].todo = {n \in DOMAIN disk : isUnderAnyRoot(PathOf[n].segs, ScanDirs)}]
    /\ UNCHANGED <<tableVars, cache, memReady, hook>>

\* walkVault: a note listed and gone when its turn comes ends the walk, one that
\* goes before it is read is passed over.
RescanRead(p, n) ==
    /\ rescan[p].pc = "walk" /\ n \in rescan[p].todo
    /\ \/ /\ n \in DOMAIN disk
          /\ rescan' = [rescan EXCEPT ![p].pc = "replace", ![p].todo = @ \ {n},
                                      ![p].note = n, ![p].tags = disk[n].tags]
       \/ /\ n \notin DOMAIN disk
          /\ rescan' = [rescan EXCEPT ![p] = [NoRescan EXCEPT !.pc = "failed"]]
       \/ /\ n \notin DOMAIN disk
          /\ rescan' = [rescan EXCEPT ![p].todo = @ \ {n}]
    /\ UNCHANGED <<tableVars, cache, memReady, hook>>

RescanReplace(p) ==
    /\ rescan[p].pc = "replace"
    /\ rows' = [rows EXCEPT ![rescan[p].note] = rescan[p].tags]
    /\ known' = known \cup rescan[p].tags
    /\ rescan' = [rescan EXCEPT ![p].pc = "walk", ![p].note = NoNote, ![p].tags = {},
                                ![p].merged = @ \cup rescan[p].tags]
    /\ UNCHANGED <<cache, memReady, hook>>

\* A statement fails: the first, that of the rows, or that of a tag after the
\* tags before it.
RescanFails(p) ==
    /\ \/ rescan[p].pc \in {"start", "replace"} /\ UNCHANGED tableVars
       \/ /\ rescan[p].pc = "replace"
          /\ rows' = [rows EXCEPT ![rescan[p].note] = rescan[p].tags]
          /\ \E entered \in (SUBSET rescan[p].tags) \ {rescan[p].tags} : known' = known \cup entered
    /\ rescan' = [rescan EXCEPT ![p] = [NoRescan EXCEPT !.pc = "failed"]]
    /\ UNCHANGED <<cache, memReady, hook>>

\* The end: the new cache takes the place of the old one.
RescanSwap(p) ==
    /\ rescan[p].pc = "walk" /\ rescan[p].todo = {}
    /\ rescan' = [rescan EXCEPT ![p] = [NoRescan EXCEPT !.pc = "over"]]
    /\ cache' = IF p = "daemon" THEN rescan[p].merged ELSE cache
    /\ memReady' = (memReady \/ p = "daemon")
    /\ UNCHANGED <<tableVars, hook>>

RescanAll(p) ==
    \/ RescanLoad(p)
    \/ \E n \in Notes : RescanRead(p, n)
    \/ RescanReplace(p)
    \/ RescanSwap(p)

Reindex == ReindexClearRows \/ ReindexClearKnown

-----------------------------------------------------------------------------
(***************************************************************************)
(* An enrichment: WaitReady, the rewritten note, OnRewriteNote.            *)
(***************************************************************************)
\* Mutant: the enrichment does not wait for the rescan.
NoWait == TRUE

WaitReady == memReady

EnrichApply(n, tags) ==
    /\ hook.pc = "idle" /\ WaitReady
    /\ n \in DOMAIN disk
    /\ WriteNote(n, [disk[n] EXCEPT !.tags = @ \cup tags])
    /\ hook' = [pc |-> "rows", note |-> n, tags |-> disk[n].tags \cup tags, added |-> tags]
    /\ UNCHANGED <<tableVars, cache, memReady, rescan>>

\* RecordForNote: the rows, the cache, then the table of known tags.
RecordRows ==
    /\ hook.pc = "rows"
    /\ rows' = [rows EXCEPT ![hook.note] = hook.tags]
    /\ hook' = [hook EXCEPT !.pc = "cache"]
    /\ UNCHANGED <<known, cache, memReady, rescan>>

\* addToCache: the tags that were new are entered in the table after it.
RecordCache ==
    /\ hook.pc = "cache"
    /\ cache' = cache \cup hook.tags
    /\ hook' = IF hook.tags \subseteq cache THEN NoHook
               ELSE [hook EXCEPT !.pc = "known", !.tags = @ \ cache]
    /\ UNCHANGED <<tableVars, memReady, rescan>>

\* One statement for each.
RecordKnown ==
    /\ hook.pc = "known"
    /\ \E tag \in hook.tags :
          /\ known' = known \cup {tag}
          /\ hook' = IF hook.tags = {tag} THEN NoHook ELSE [hook EXCEPT !.tags = @ \ {tag}]
    /\ UNCHANGED <<rows, cache, memReady, rescan>>

\* An error of the hook is dropped with what it had still to do; the service's
\* own Record of the tags it added comes after it.
RecordFails ==
    /\ \/ /\ hook.pc = "rows"
          /\ hook' = [hook EXCEPT !.pc = "cache", !.tags = hook.added]
       \/ /\ hook.pc = "known"
          /\ hook' = NoHook
    /\ UNCHANGED <<tableVars, cache, memReady, rescan>>

RecordForNote == RecordRows \/ RecordCache \/ RecordKnown

-----------------------------------------------------------------------------
(***************************************************************************)
(* Recall: by tags when the rescan is done, by text, then one hop along    *)
(* the related links when the index is ready.                              *)
(***************************************************************************)
NotesForTags(tags) == {n \in Notes : rows[n] \cap tags # {}}

TextSearch(query, scope) ==
    {n \in DOMAIN disk : /\ isUnderAnyRoot(PathOf[n].segs, IF scope = {} THEN SearchDirs ELSE scope)
                         /\ DirOf(n) # ArchiveDir
                         /\ query \in {l.text : l \in disk[n].links}}

OutlinksRelated(n) == {l.to : l \in {k \in Outlinks(n) : k.related}} \ {NoNote}
BacklinksRelated(n) == {s \in Backlinks(n) : n \in OutlinksRelated(s)}

expandRelated(items) ==
    items \cup UNION {OutlinksRelated(n) \cup BacklinksRelated(n) : n \in items}

\* filterScope: without directories, all but the archive.
filterScope(items, scope) ==
    {n \in items : IF scope = {} THEN DirOf(n) # ArchiveDir ELSE isUnderAnyRoot(PathOf[n].segs, scope)}

\* The notes a recall may find: how many hits of the text are taken, and which
\* notes score best, is left to the caller's choice among them.
Recall(query, tags, scope, graph) ==
    LET tagged == IF memReady THEN NotesForTags(tags) ELSE {}
        primary == tagged \cup TextSearch(query, scope)
    IN  filterScope(IF graph /\ ready THEN expandRelated(primary) ELSE primary, scope)

MemoryInit(starts) ==
    /\ rescan = [p \in Processes |-> [NoRescan EXCEPT !.pc = starts[p]]]
    /\ rows = [n \in Notes |-> {}] /\ known = {} /\ cache = {} /\ memReady = FALSE
    /\ hook = NoHook
=============================================================================
