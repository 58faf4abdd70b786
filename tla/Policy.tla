------------------------------- MODULE Policy -------------------------------
(***************************************************************************)
(* The policy checker (policy/checker.go) on whole plans: what is applied  *)
(* without being asked for, what may be put up for approval and applied    *)
(* then, what only becomes a proposal, and of which kind; and the guard of *)
(* an enrichment plan (policy/enrich.go).  A plan has the set of its       *)
(* required texts that are missing; a path is a name of VaultPaths.        *)
(***************************************************************************)
EXTENDS Frontmatter, VaultPaths

CONSTANT BulkAffects  \* model.ProposalBulkAffectsThreshold

ASSUME PolicyAssumption == BulkAffects \in Nat

(***************************************************************************)
(* Conventions.                                                            *)
(***************************************************************************)
DefaultConventions ==
    [RawInboxDir |-> <<"Raw", "Inbox">>, RawProcessedDir |-> <<"Raw", "Processed">>,
     KnowledgeDir |-> <<"Knowledge">>, KnowledgeDraftDir |-> <<"Knowledge", "Drafts">>,
     AgentReportsDir |-> <<"Meta", "Reports">>, RequiredDraftTags |-> {}]

KnowledgeVaultConventions ==
    [DefaultConventions EXCEPT !.RequiredDraftTags = {"type/knowledge", "status/draft", "status/needs-review"}]

ConventionsForProfile(profile) ==
    IF profile = "knowledge-vault" THEN KnowledgeVaultConventions ELSE DefaultConventions

\* Normalize: what is left empty is the default; drafts are below Knowledge.
Normalize(c) ==
    [f \in DOMAIN DefaultConventions |->
        IF f = "RequiredDraftTags" \/ c[f] # <<>> THEN c[f]
        ELSE IF f = "KnowledgeDraftDir" /\ c.KnowledgeDir # <<>> THEN Append(c.KnowledgeDir, "Drafts")
        ELSE DefaultConventions[f]]

-----------------------------------------------------------------------------
(***************************************************************************)
(* Operations.                                                             *)
(***************************************************************************)
\* validateMutatingBeforeHash.
validateMutatingBeforeHash(op) == op.hash = "sha256"

Mutating == {"append_note", "rewrite_note", "move_note"}

\* A body refers to a path by a line with a link to it.
LinksTo(body, name) == \E i \in DOMAIN body : body[i].kind = "text" /\ body[i].key = name

\* validateKnowledgeDraftPayload: the note says where it comes from.
validateKnowledgeDraftPayload(payload, c) ==
    LET note == SplitFrontmatter(payload.file)
        processed == ScalarOf(note.block, "processed_path")
    IN  /\ note.found
        /\ \A key \in {"title", "tags", "related", "openwhisker", "job_id", "raw_job_id", "processed_path"} :
               Has(note.block, key)
        /\ validateRelativeVaultPath(processed)
        /\ hasDirPrefix(processed, c.RawProcessedDir)
        /\ \A tag \in c.RequiredDraftTags : HasListValue(note.block, "tags", tag)
        /\ LinksTo(note.body, processed)

\* validateProcessingNote: it refers to where the note goes and to what was
\* made of it.
validateProcessingNote(payload, knowledgeTargets) ==
    payload.dest \in payload.refs /\ knowledgeTargets \cap payload.refs # {}

-----------------------------------------------------------------------------
(***************************************************************************)
(* Check: what is applied at once.                                         *)
(***************************************************************************)
Check(plan, conventions) ==
    LET c == Normalize(conventions)
        within(op) == CASE op.type \in {"create_note", "append_note", "rewrite_note"} ->
                               hasDirPrefix(op.target, c.RawInboxDir)
                        [] op.type = "write_agent_report" -> hasDirPrefix(op.target, c.AgentReportsDir)
                        [] OTHER -> FALSE
        ok(op) == /\ op.risk = "low"
                  /\ validateRelativeVaultPath(op.target)
                  /\ within(op)
                  /\ op.type \in {"append_note", "rewrite_note"} =>
                         validateMutatingBeforeHash(op) /\ op.payload.ok /\ op.payload.text
    IN  /\ plan.risk = "low" /\ ~plan.approval
        /\ plan.ops # <<>>
        /\ \A i \in DOMAIN plan.ops : ok(plan.ops[i])

-----------------------------------------------------------------------------
(***************************************************************************)
(* Plans somebody approves.                                                *)
(***************************************************************************)
\* The head of a plan, for both kinds of risk.
HeadOk(plan, risk) ==
    /\ plan.risk = risk /\ plan.approval
    /\ plan.missing \cap {"id", "job_id", "summary", "source_refs"} = {}
    /\ plan.targets # {} /\ \A name \in plan.targets : validateRelativeVaultPath(name)
    /\ plan.ops # <<>>

OperationOk(op, risk) ==
    /\ op.missing \cap {"id", "reason", "payload"} = {}
    /\ op.risk = risk
    /\ validateRelativeVaultPath(op.target)

\* Mutant: the destination of a move need not be a target.
MoveOkAnywhere(plan, op, c) ==
    /\ hasDirPrefix(op.target, c.RawInboxDir)
    /\ op.payload.ok
    /\ validateRelativeVaultPath(op.payload.dest)
    /\ hasDirPrefix(op.payload.dest, c.RawProcessedDir)

\* move_note: from the inbox to the processed notes, both declared.
MoveOk(plan, op, c) ==
    /\ hasDirPrefix(op.target, c.RawInboxDir)
    /\ op.payload.ok
    /\ validateRelativeVaultPath(op.payload.dest)
    /\ hasDirPrefix(op.payload.dest, c.RawProcessedDir)
    /\ op.payload.dest \in plan.targets
    /\ validateProcessingNote(op.payload, {t \in plan.targets : hasDirPrefix(t, c.KnowledgeDir)})

\* CheckForApproval.
CheckForApproval(plan, conventions) ==
    LET c == Normalize(conventions)
        ok(op) == CASE op.type = "create_note" -> /\ hasDirPrefix(op.target, c.KnowledgeDraftDir)
                                                  /\ op.payload.ok
                                                  /\ validateKnowledgeDraftPayload(op.payload, c)
                    [] op.type = "append_note" -> /\ hasDirPrefix(op.target, c.KnowledgeDir)
                                                  /\ op.payload.ok /\ op.payload.text
                    [] op.type = "move_note" -> MoveOk(plan, op, c)
                    [] OTHER -> FALSE
    IN  /\ HeadOk(plan, "medium")
        /\ \A i \in DOMAIN plan.ops : /\ OperationOk(plan.ops[i], "medium")
                                      /\ plan.ops[i].target \in plan.targets
                                      /\ ok(plan.ops[i])

\* CheckApproved: and nothing existing is changed unless its hash is known.
CheckApproved(plan, conventions) ==
    /\ plan.status \in {"approved", "applying"}
    /\ CheckForApproval(plan, conventions)
    /\ \A i \in DOMAIN plan.ops : plan.ops[i].type \in Mutating => validateMutatingBeforeHash(plan.ops[i])

-----------------------------------------------------------------------------
(***************************************************************************)
(* Plans that only become proposals.                                       *)
(***************************************************************************)
RenameOk(op, c) ==
    /\ op.payload.ok
    /\ validateRelativeVaultPath(op.payload.source) /\ validateRelativeVaultPath(op.payload.dest)
    /\ hasDirPrefix(op.payload.source, c.KnowledgeDir)
    /\ ~hasDirPrefix(op.payload.source, c.KnowledgeDraftDir)
    /\ op.payload.source = op.target

BulkOk(op) ==
    /\ op.payload.ok
    /\ Len(op.payload.affected) >= BulkAffects
    /\ \A name \in ToSet(op.payload.affected) : validateRelativeVaultPath(name)
    /\ IF op.type = "bulk_retag" THEN op.payload.retags
       ELSE validateRelativeVaultPath(op.payload.source) /\ validateRelativeVaultPath(op.payload.dest)

\* CheckForApprovalHighRisk.
CheckForApprovalHighRisk(plan, conventions) ==
    LET c == Normalize(conventions)
        ok(op) == CASE op.type = "rename_note" -> RenameOk(op, c)
                    [] op.type \in {"bulk_retag", "bulk_link_rewrite"} -> BulkOk(op)
                    [] OTHER -> FALSE
    IN  /\ HeadOk(plan, "high")
        /\ \A i \in DOMAIN plan.ops : OperationOk(plan.ops[i], "high") /\ ok(plan.ops[i])

ProposalKinds == {"split", "merge", "rename", "bulk_retag", "bulk_link_rewrite"}

\* mergeOrSplitKind.
mergeOrSplitKind(plan) ==
    LET renames == {i \in DOMAIN plan.ops : plan.ops[i].type = "rename_note"}
    IN  IF Cardinality({plan.ops[i].payload.dest : i \in renames}) = 1 THEN "merge" ELSE "split"

\* ClassifyProposalKind: what the purpose says in brackets, or else the
\* operations tell; or none.
ClassifyProposalKind(plan) ==
    LET count(type) == Cardinality({i \in DOMAIN plan.ops : plan.ops[i].type = type})
        renames == count("rename_note")
        retags == count("bulk_retag")
        rewrites == count("bulk_link_rewrite")
    IN  IF plan.risk # "high" THEN {}
        ELSE IF plan.purpose \in ProposalKinds THEN {plan.purpose}
        ELSE IF renames + retags + rewrites = 0 THEN {}
        ELSE IF renames = 0 /\ rewrites = 0 THEN {"bulk_retag"}
        ELSE IF renames = 0 /\ retags = 0 THEN {"bulk_link_rewrite"}
        ELSE IF renames > 1 /\ retags = 0 /\ rewrites = 0 THEN {mergeOrSplitKind(plan)}
        ELSE {"rename"}

-----------------------------------------------------------------------------
(***************************************************************************)
(* CheckEnrichPlan: one rewrite of the note the job is about, the body the *)
(* same, the fields as the guard allows.                                   *)
(***************************************************************************)
CheckEnrichPlan(plan, expected, before, vocab) ==
    /\ plan.risk = "low" /\ ~plan.approval
    /\ Len(plan.ops) = 1
    /\ LET op == plan.ops[1]
       IN  /\ op.type = "rewrite_note" /\ op.risk = "low"
           /\ op.target = expected /\ validateRelativeVaultPath(op.target)
           /\ validateMutatingBeforeHash(op)
           /\ op.payload.ok
           /\ CheckEnrichContent(before, op.payload.file, vocab)
=============================================================================
