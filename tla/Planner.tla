------------------------------ MODULE Planner ------------------------------
(***************************************************************************)
(* How answers become plans: the raw organizer and the knowledge expander  *)
(* (agent/openai_raw_organizer.go, openai_knowledge_expander.go) and the   *)
(* plan of an enrichment (enrich/enrich.go).  An answer is the fields of   *)
(* the JSON object a language model returned; of its texts only what the   *)
(* checks look at is kept: whether one is blank, whether it is one line.   *)
(***************************************************************************)
EXTENDS Policy

\* The name of a note, joinVaultPath of its directory and its file.
NoteIn(dir, base) == CHOOSE n \in DOMAIN PathOf : PathOf[n] = [abs |-> FALSE, segs |-> Append(dir, base)]

BaseOf(name) == Last(PathOf[name].segs)

-----------------------------------------------------------------------------
(***************************************************************************)
(* Asking.  Replies are what the service sends, one to each request: an    *)
(* answer, a blank one, or none (unreachable, refused, undecodable).       *)
(***************************************************************************)
\* CreateResponse: an answer without text is an error.
CreateResponse(reply) == IF reply.kind = "answer" THEN {reply} ELSE {}

\* createResponseWithRetry: the outputs; an error is final, and only a
\* blank text would be asked for once more.
createResponseWithRetry(replies) ==
    LET first == CreateResponse(replies[1])
        blank == \E r \in first : r.kind = "blank"
    IN  {r.output : r \in IF blank THEN CreateResponse(replies[2]) ELSE first}

-----------------------------------------------------------------------------
(***************************************************************************)
(* The raw organizer.                                                      *)
(***************************************************************************)
RawKinds == {"concept-seed", "web-clip", "todo-list", "llm-chat", "mixed"}

validateRawOrganizerOutput(output) ==
    output.title # NoText /\ output.rawKind \in RawKinds /\ output.summary /\ output.body

\* mergeKnowledgeDraftTags, renderYAMLList.
DraftTags(required) ==
    LET tags == <<"type/knowledge-draft", "status/needs-review">>
    IN  tags \o SetToSeq(required \ ToSet(tags))

\* Mutant: the link to the source is not written.
renderLLMKnowledgeDraftUnlinked(output, processed, required) ==
    <<Fence, Scalar("title", Bare(output.title)), Scalar("tags", Bare("type/knowledge-draft")), Fence>>

\* renderLLMKnowledgeDraft: a title of more than one line brings its lines
\* into the frontmatter.
renderLLMKnowledgeDraft(output, processed, required) ==
    LET tags == DraftTags(required)
    IN  <<Fence, Scalar("title", Written("double", Word(output.title)))>>
        \o output.titleRest
        \o <<Open("tags")>> \o [i \in DOMAIN tags |-> Item(TRUE, Bare(tags[i]))]
        \o <<Open("related"), Item(TRUE, Written("double", Link(processed))), Open("openwhisker")>>
        \o <<SubKey("job_id", Bare("job")), SubKey("raw_job_id", Bare("raw job")),
             SubKey("processed_path", Bare(processed)), Fence, Text("heading"), Text(processed)>>

\* renderLLMProcessedRawNote: the paths the note at the end refers to.
renderLLMProcessedRawNote(processed, outputs) == outputs \cup {processed}

\* buildLLMOrganizePlan: a draft is created, then the raw note moved.
buildLLMOrganizePlan(raw, conventions, output) ==
    LET c == Normalize(conventions)
        knowledge == NoteIn(c.KnowledgeDraftDir, BaseOf(raw))
        processed == NoteIn(c.RawProcessedDir, BaseOf(raw))
        draft == renderLLMKnowledgeDraft(output, processed, c.RequiredDraftTags)
    IN  [risk |-> "medium", approval |-> TRUE, status |-> "proposed", missing |-> {}, purpose |-> NoText,
         targets |-> {knowledge, raw, processed},
         ops |-> <<[type |-> "create_note", risk |-> "medium", missing |-> {}, target |-> knowledge, hash |-> NoText,
                    payload |-> [ok |-> TRUE, file |-> [plain |-> TRUE, lines |-> draft]]],
                   [type |-> "move_note", risk |-> "medium", missing |-> {}, target |-> raw, hash |-> NoText,
                    payload |-> [ok |-> TRUE, dest |-> processed,
                                 refs |-> renderLLMProcessedRawNote(processed, {knowledge})]]>>]

\* OrganizeRaw: the plan, or none.
OrganizeRaw(raw, conventions, replies) ==
    {buildLLMOrganizePlan(raw, conventions, output) :
        output \in {o \in createResponseWithRetry(replies) : validateRawOrganizerOutput(o)}}

-----------------------------------------------------------------------------
(***************************************************************************)
(* The knowledge expander.                                                 *)
(***************************************************************************)
\* validateKnowledgeExpanderOutput, allowedProposalKind.
validateKnowledgeExpanderOutput(output) ==
    /\ output.title # NoText /\ output.summary
    /\ CASE output.kind = "append" -> output.append /\ output.restructure = "none"
         [] output.kind = "propose_restructure" ->
                /\ output.restructure \in {"split", "merge", "rename"}
                /\ Len(output.affected) >= (IF output.restructure = "rename" THEN 1 ELSE 2)
                /\ ~output.append
         [] OTHER -> FALSE

buildKnowledgeAppendPlan(target, output) ==
    [risk |-> "medium", approval |-> TRUE, status |-> "proposed", missing |-> {}, purpose |-> NoText,
     targets |-> {target},
     ops |-> <<[type |-> "append_note", risk |-> "medium", missing |-> {}, target |-> target, hash |-> NoText,
                payload |-> [ok |-> TRUE, text |-> output.append]]>>]

\* buildKnowledgeRestructureRenameOp: to the second of the affected paths,
\* to the note itself when there is none.
buildKnowledgeRestructureRenameOp(target, output) ==
    [type |-> "rename_note", risk |-> "high", missing |-> {}, target |-> target, hash |-> NoText,
     payload |-> [ok |-> TRUE, source |-> target,
                  dest |-> IF Len(output.affected) >= 2 THEN output.affected[2] ELSE target]]

\* buildKnowledgeRestructurePlan: the kind is told in the purpose.
buildKnowledgeRestructurePlan(target, output) ==
    [risk |-> "high", approval |-> TRUE, status |-> "proposed", missing |-> {}, purpose |-> output.restructure,
     targets |-> {target} \cup ToSet(output.affected),
     ops |-> <<buildKnowledgeRestructureRenameOp(target, output)>>]

\* buildKnowledgeExpanderPlan, ExpandKnowledge: the plan, or none.
ExpandKnowledge(target, replies) ==
    {IF o.kind = "append" THEN buildKnowledgeAppendPlan(target, o) ELSE buildKnowledgeRestructurePlan(target, o) :
        o \in {o \in createResponseWithRetry(replies) : validateKnowledgeExpanderOutput(o)}}

-----------------------------------------------------------------------------
(***************************************************************************)
(* Enrichment.                                                             *)
(***************************************************************************)
\* The related entries of an answer, as many as an enrichment may add.
RelatedKept(related) == SubSeq(related, 1, IF Len(related) < RelatedMax THEN Len(related) ELSE RelatedMax)

\* buildPlan: the rewritten note as a plan, or none.
buildPlan(raw, before, answer) ==
    LET tags == answer.tags \o (IF answer.review THEN <<Word("status/needs-review")>> ELSE <<>>)
        related == RelatedKept(answer.related)
        fields == {"enriched_at", "enrich_run_id", "enrich_attempts"}
                      \cup (IF answer.route THEN {"route_suggestion"} ELSE {})
                      \cup (IF answer.candidates THEN {"new_tag_candidates"} ELSE {})
        stamps == [f \in fields |-> "this run"]
    IN  {[risk |-> "low", approval |-> FALSE, status |-> "proposed", missing |-> {}, purpose |-> NoText,
          targets |-> {raw},
          ops |-> <<[type |-> "rewrite_note", risk |-> "low", missing |-> {}, target |-> raw, hash |-> "sha256",
                     payload |-> [ok |-> TRUE, file |-> after]]>>] :
            after \in applyEnrichToFrontmatter(before, tags, related, stamps)}

\* The plan of an answer that passes the guard, or none.
EnrichedNote(raw, before, answer, vocab) ==
    {plan.ops[1].payload.file : plan \in {plan \in buildPlan(raw, before, answer) :
                                             CheckEnrichPlan(plan, raw, before, vocab)}}
=============================================================================
