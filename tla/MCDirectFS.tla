---------------------------- MODULE MCDirectFS ----------------------------
(***************************************************************************)
(* Two paths, with a note at the first: an operation of each kind, two of  *)
(* which want the second path.                                             *)
(***************************************************************************)
EXTENDS DirectFS, TLC

CONSTANTS raw, done, i1, i2, i3

MCOps == {[kind |-> "append", path |-> raw, dest |-> raw],
          [kind |-> "rewrite", path |-> raw, dest |-> raw],
          [kind |-> "create", path |-> done, dest |-> done],
          [kind |-> "move", path |-> raw, dest |-> done]}

\* Free inode numbers are interchangeable.
InodeSymmetry == Permutations({i1, i2, i3})
=============================================================================
