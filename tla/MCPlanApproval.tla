-------------------------- MODULE MCPlanApproval --------------------------
(***************************************************************************)
(* Two plans for the same raw note, as two calls of OrganizeLast give, a   *)
(* second planner that extends an existing note before it moves the raw    *)
(* one away, and a high-risk plan.                                         *)
(***************************************************************************)
EXTENDS PlanApproval

CONSTANTS p1, p2, h1, a1, a2, raw, done, draft, note, prop

NewDraft == [kind |-> "create", path |-> draft, dest |-> draft]
MoveRaw  == [kind |-> "move", path |-> raw, dest |-> done]
Extend   == [kind |-> "append", path |-> note, dest |-> note]
Proposal == [kind |-> "create", path |-> prop, dest |-> prop]

MCPlanOps == [p \in Plans |->
    CASE p = p1 -> <<NewDraft, MoveRaw>>
      [] p = p2 -> <<Extend, MoveRaw>>
      [] p = h1 -> <<Proposal>>]
=============================================================================
