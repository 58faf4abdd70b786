---------------------------- MODULE VaultPaths ----------------------------
(***************************************************************************)
(* Vault-relative paths as the checks of this program see them: the        *)
(* segments of a name, and whether it is absolute.  Links on the file      *)
(* system are not part of it.                                              *)
(***************************************************************************)
EXTENDS Sequences, SequencesExt

CONSTANT PathOf  \* of the names that are paths: abs and segs

ASSUME PathsAssumption == \A n \in DOMAIN PathOf : PathOf[n] \in [abs : BOOLEAN, segs : Seq(STRING)]

ForbiddenSegments == {".obsidian", ".git", ".trash"}
HiddenSegments == ForbiddenSegments \cup {".DS_Store", ".hidden"}

\* IsForbiddenScopePath: hidden directories anywhere, .DS_Store at the end.
IsForbiddenScopePath(path) ==
    /\ path.segs # <<>>
    /\ \/ ToSet(path.segs) \cap ForbiddenSegments # {}
       \/ Last(path.segs) = ".DS_Store"

\* path.Clean where there is no "..": the segments but ".", in their order.
withoutDots(segs) ==
    LET kept == {i \in DOMAIN segs : segs[i] # "."}
    IN  [k \in 1..Cardinality(kept) |-> segs[CHOOSE i \in kept : Cardinality(kept \cap 1..i) = k]]

\* CleanRelativePattern: the cleaned segments, or none.
CleanRelativePattern(path) ==
    LET clean == withoutDots(path.segs)
    IN  IF path.segs = <<>> \/ path.abs \/ ".." \in ToSet(path.segs) THEN {}
        ELSE {IF clean = <<>> THEN <<".">> ELSE clean}

\* cleanRelativePath, CleanRelativeDir: no wildcards either.
cleanRelativePath(path) == {p \in CleanRelativePattern(path) : "*" \notin ToSet(p)}

isUnderAnyRoot(path, roots) == \E root \in roots : IsPrefix(root, path)

\* validateRelativeVaultPath: relative, clean already, nothing hidden.
validateRelativeVaultPath(name) ==
    /\ name \in DOMAIN PathOf
    /\ PathOf[name].segs # <<>> /\ ~PathOf[name].abs
    /\ ToSet(PathOf[name].segs) \cap ({".", ".."} \cup HiddenSegments) = {}

\* hasDirPrefix: the directory itself counts.
hasDirPrefix(name, dir) == IsPrefix(dir, PathOf[name].segs)
=============================================================================
