----------------------------- MODULE VaultTools -----------------------------
(***************************************************************************)
(* The read-only tools a model may call (internal/agent/vault_tools.go).   *)
(* A call names a tool and its arguments; a result is an error or what the *)
(* model is shown: notes it reads or sees listed (told), and notes it only *)
(* sees named as a link's target (named).  A result weighs one more than   *)
(* the notes it shows.                                                     *)
(***************************************************************************)
EXTENDS Memory

CONSTANTS MaxEntries,   \* maxListVaultDirEntries
          MaxHits,      \* maxTextSearchHits
          RecallLimit   \* recallMemoryDefaultLimit

ASSUME ToolLimitsAssumption == {MaxEntries, MaxHits, RecallLimit} \subseteq Nat \ {0}

\* newToolError.
Refused(kind) == [err |-> kind, told |-> {}, named |-> {}, bytes |-> 0]

\* finalize.
Result(told, named) ==
    [err |-> "none", told |-> told, named |-> named, bytes |-> 1 + Cardinality(told \cup named)]

\* At most k of the notes, whichever the order of the names puts first.
Cut(notes, k) ==
    IF Cardinality(notes) <= k THEN {notes} ELSE {few \in SUBSET notes : Cardinality(few) = k}

pathInScope(segs, skill) == segs # <<>> /\ isUnderAnyRoot(segs, skill.scope)

\* resolveAndCheckPath: the cleaned path, or none.
resolveAndCheckPath(name, skill) ==
    IF name \notin DOMAIN PathOf \/ IsForbiddenScopePath(PathOf[name]) THEN {}
    ELSE {p \in CleanRelativePattern(PathOf[name]) : pathInScope(p, skill)}

\* The path of a tool that takes one, and why it is refused, "none" for not.
PathOfCall(name, skill) == CHOOSE p \in resolveAndCheckPath(name, skill) : TRUE
PathError(name, skill) == IF resolveAndCheckPath(name, skill) = {} THEN "bad_path" ELSE "none"

NotesAt(path) == {n \in DOMAIN disk : PathOf[n].segs = path}

listVaultDir(name, skill) ==
    LET path == PathOfCall(name, skill)
    IN  IF PathError(name, skill) # "none" THEN {Refused("bad_path")}
        ELSE IF NotesAt(path) # {} THEN {Refused("not_a_directory")}
        ELSE IF path \notin dirs THEN {Refused("not_found")}
        ELSE {Result(few, {}) : few \in Cut({n \in DOMAIN disk : DirOf(n) = path}, MaxEntries)}

readVaultNote(name, skill) ==
    LET path == PathOfCall(name, skill)
    IN  IF PathError(name, skill) # "none" THEN {Refused("bad_path")}
        ELSE IF NotesAt(path) = {} THEN {Refused("io")}
        ELSE {Result(NotesAt(path), {})}

\* The link tools need an index, a path, and that the index is ready.
IndexError(name, skill) ==
    IF ~skill.index THEN "link_index_not_ready"
    ELSE IF PathError(name, skill) = "none" /\ ~ready THEN "link_index_not_ready"
    ELSE PathError(name, skill)

IndexedAt(path) == {n \in DOMAIN links : PathOf[n].segs = path}

\* vaultOutlinks: the targets are named wherever they lie.
vaultOutlinks(name, skill) ==
    IF IndexError(name, skill) # "none" THEN {Refused(IndexError(name, skill))}
    ELSE LET sources == IndexedAt(PathOfCall(name, skill))
         IN  {Result({}, {l.to : l \in UNION {Outlinks(n) : n \in sources}} \ {NoNote})}

\* vaultBacklinks: only sources in the scope.
vaultBacklinks(name, skill) ==
    IF IndexError(name, skill) # "none" THEN {Refused(IndexError(name, skill))}
    ELSE LET targets == {n \in Notes : PathOf[n].segs = PathOfCall(name, skill)}
         IN  {Result({s \in UNION {Backlinks(n) : n \in targets} : pathInScope(PathOf[s].segs, skill)}, {})}

\* The roots a search or a recall asks for: all of them must be in the scope.
CleanSubset(names, skill) ==
    {p \in UNION {cleanRelativePath(PathOf[n]) : n \in names} : pathInScope(p, skill)}

SubsetRefused(names, skill) ==
    \E n \in names : \/ n \notin DOMAIN PathOf
                     \/ {p \in cleanRelativePath(PathOf[n]) : pathInScope(p, skill)} = {}

\* vaultTextSearch: the query is a link's text, which a line of the note holds.
vaultTextSearch(query, names, skill) ==
    LET roots == IF names = {} THEN skill.scope ELSE CleanSubset(names, skill)
        hits == {n \in DOMAIN disk : /\ isUnderAnyRoot(PathOf[n].segs, roots)
                                     /\ ~IsForbiddenScopePath(PathOf[n])
                                     /\ query \in {l.text : l \in disk[n].links}}
    IN  IF query \notin Texts THEN {Refused("query_too_short")}
        ELSE IF \E n \in names \cap DOMAIN PathOf : IsForbiddenScopePath(PathOf[n])
             THEN {Refused("forbidden_prefix")}
        ELSE IF SubsetRefused(names, skill) THEN {Refused("scope_violation")}
        ELSE IF \E r \in roots : r \notin dirs /\ NotesAt(r) = {} THEN {Refused("io")}
        ELSE {Result(few, {}) : few \in Cut(hits, MaxHits)}

\* recallMemory: entries that are empty are passed over; without directories
\* the memory looks at the whole vault.
recallMemory(call, skill) ==
    LET names == {n \in call.names : n \in DOMAIN PathOf => PathOf[n].segs # <<>>}
        scope == CleanSubset(names, skill)
        query == IF call.query \in Texts THEN call.query ELSE <<>>
    IN  IF ~skill.memory THEN {Refused("memory_unavailable")}
        ELSE IF query = <<>> /\ call.tags = {} THEN {Refused("bad_args")}
        ELSE IF SubsetRefused(names, skill) THEN {Refused("scope_violation")}
        ELSE {Result(few, {}) : few \in Cut(Recall(query, call.tags, scope, skill.index), RecallLimit)}

\* Execute: the results a call may have.
Execute(call, skill, expired) ==
    IF expired THEN {Refused("context")}
    ELSE IF ~call.parses THEN {Refused("bad_args")}
    ELSE CASE call.tool = "list_vault_dir" -> listVaultDir(call.path, skill)
           [] call.tool = "read_vault_note" -> readVaultNote(call.path, skill)
           [] call.tool = "vault_outlinks" -> vaultOutlinks(call.path, skill)
           [] call.tool = "vault_backlinks" -> vaultBacklinks(call.path, skill)
           [] call.tool = "vault_text_search" -> vaultTextSearch(call.query, call.names, skill)
           [] call.tool = "recall_memory" -> recallMemory(call, skill)
           [] OTHER -> {Refused("unknown_tool")}
=============================================================================
