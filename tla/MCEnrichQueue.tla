--------------------------- MODULE MCEnrichQueue ---------------------------
(***************************************************************************)
(* One raw note, the daemon's worker and one run of the command.           *)
(***************************************************************************)
EXTENDS EnrichQueue

CONSTANTS n1, cli
=============================================================================
