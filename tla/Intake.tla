------------------------------- MODULE Intake -------------------------------
(***************************************************************************)
(* What comes from outside and is either taken or refused before anything  *)
(* is done with it: the declarations of skills and their cron expressions, *)
(* the answers of language models as plans, plans themselves.  One request *)
(* at a time; each action is one call into the packages scheduler, policy, *)
(* agent and enrich, and verdict is what the call returns.                 *)
(***************************************************************************)
EXTENDS Registry, Planner

CONSTANTS Windows,      \* requests: an expression, a zone and a time
          Vaults,       \* requests: a vault with skills and a profile
          BudgetCaps,   \* DefaultToolBudgetDefaults
          Organizings,  \* requests: a raw note, conventions and replies
          Expansions,   \* requests: a note, conventions and replies
          Plans,        \* requests: a plan and conventions
          Enrichments,  \* requests: a note, an answer and the tags known
          RawPath       \* the note that is enriched

\* A plan's operations are a sequence, and the conventions are those of a
\* profile (cmd/openwhisker/main.go:1883).
ASSUME PlansAssumption ==
    \A p \in Plans :
        /\ p.plan.ops \in Seq(ToSet(p.plan.ops))
        /\ \E profile \in {"default", "knowledge-vault"} : p.conventions = ConventionsForProfile(profile)

\* Profiles: roots are paths, limits numbers, and no engine with tools is the
\* default (profile/profile.go DefaultSchedulerProfile); what a document
\* lists as its scope are names of paths.
ASSUME VaultsAssumption ==
    /\ BudgetCaps \in [DOMAIN NoBudget -> Nat \ {0}]
    /\ \A v \in Vaults :
          /\ DOMAIN v.vault \subseteq Seq(STRING) \ {<<>>}
          /\ v.profile.engine # "tool-calling"
          /\ v.profile.caps \in [DOMAIN NoBudget -> Int]
          /\ \A root \in v.profile.readRoots : root.segs \in Seq(STRING)
          /\ \A f \in DOMAIN v.vault :
                \A doc \in UNION {parseFrontmatterDoc(b) : b \in splitFrontmatter(v.vault[f])} :
                   list(doc, "vault_scope") \subseteq DOMAIN PathOf

\* A raw note that is organized lies in the inbox, and what is made of it has
\* names; drafts lie below the knowledge notes.
ASSUME OrganizingsAssumption ==
    \A o \in Organizings :
        LET c == Normalize(o.conventions)
        IN  /\ c.KnowledgeDir \in Seq(STRING) /\ IsPrefix(c.KnowledgeDir, c.KnowledgeDraftDir)
            /\ validateRelativeVaultPath(o.raw) /\ hasDirPrefix(o.raw, c.RawInboxDir)
            /\ \A dir \in {c.KnowledgeDraftDir, c.RawProcessedDir} :
                  /\ dir \in Seq(STRING)
                  /\ \E n \in DOMAIN PathOf : PathOf[n] = [abs |-> FALSE, segs |-> Append(dir, BaseOf(o.raw))]
                  /\ validateRelativeVaultPath(NoteIn(dir, BaseOf(o.raw)))
            /\ IsFiniteSet(c.RequiredDraftTags)
            /\ LET rest == o.replies[1].output.titleRest IN rest \in Seq(ToSet(rest))

\* A note is expanded that was found in the vault (core/plans.go
\* ExpandKnowledge, executor/path_guard.go ResolveVaultPath).
ASSUME ExpansionsAssumption ==
    \A x \in Expansions :
        /\ validateRelativeVaultPath(x.target)
        /\ LET paths == x.replies[1].output.affected IN paths \in Seq(ToSet(paths))

\* Lines of notes: a value is one entry, what stands in brackets is a list,
\* and what a user or a model wrote is whole.  The note was found in the vault
\* (enrich/enrich.go readVaultFile, executor/path_guard.go ResolveVaultPath), and the
\* tag that asks for a review is what it says.
ASSUME EnrichmentsAssumption ==
    \A e \in Enrichments :
        LET lines == e.file.lines
        IN  /\ e.file = [plain |-> e.file.plain, lines |-> lines]
            /\ lines \in Seq(ToSet(lines)) /\ \A line \in ToSet(lines) : WellFormed(line)
            /\ \A added \in {e.answer.tags, e.answer.related} :
                  added \in Seq(ToSet(added)) /\ \A entry \in ToSet(added) : entry.cut = "no"
            /\ validateRelativeVaultPath(RawPath) /\ TagClass["status/needs-review"] = "needs-review"

VARIABLES request, verdict

vars == <<request, verdict>>

Nothing == [kind |-> "none"]

Ask(kind, subject, answer) ==
    /\ request = Nothing
    /\ request' = [kind |-> kind, subject |-> subject]
    /\ verdict' = answer

\* A schedule's windows, as Tick asks for them.
FindWindow ==
    \E w \in Windows :
        LET c == ParseCron(w.expr)
        IN  Ask("window", w, IF ~c.ok THEN {}
                             ELSE {[current |-> CurrentWindow(c, w.zone, w.at), next |-> NextAfter(c, w.zone, w.at)]})

\* The registry of a vault, and the lint of its agent skills one by one.
LoadSkills ==
    \E v \in Vaults :
        LET dirs == {DirOf(f) : f \in {f \in DOMAIN v.vault : Last(f) = "SKILL.md"}}
        IN  Ask("skills", v, [loaded |-> LoadRegistry(v.vault, v.profile, BudgetCaps),
                              lint |-> [d \in dirs |-> Lint(v.vault, d, v.profile, BudgetCaps)]])

\* A raw note is organized into a plan that is put up for approval.
Organize ==
    \E o \in Organizings :
        LET plans == OrganizeRaw(o.raw, o.conventions, o.replies)
        IN  Ask("organize", o, [built |-> plans, taken |-> {p \in plans : CheckForApproval(p, o.conventions)}])

\* A knowledge note is expanded; a plan of high risk is one of a proposal.
Expand ==
    \E x \in Expansions :
        LET plans == ExpandKnowledge(x.target, x.replies)
            ok(p) == IF p.risk = "high" THEN CheckForApprovalHighRisk(p, x.conventions)
                     ELSE CheckForApproval(p, x.conventions)
        IN  Ask("expand", x, [built |-> plans, taken |-> {p \in plans : ok(p)},
                              kinds |-> UNION {ClassifyProposalKind(p) : p \in plans}])

\* A plan is checked: at once, once it is approved, as a proposal.
CheckPlan ==
    \E p \in Plans :
        Ask("plan", p, [auto |-> Check(p.plan, p.conventions),
                        approved |-> CheckApproved(p.plan, p.conventions),
                        proposal |-> CheckForApprovalHighRisk(p.plan, p.conventions),
                        kind |-> ClassifyProposalKind(p.plan)])

\* The answer to an enrichment.
Enrich == \E e \in Enrichments : Ask("enrich", e, EnrichedNote(RawPath, e.file, e.answer, e.vocab))

Forget ==
    /\ request # Nothing
    /\ request' = Nothing
    /\ verdict' = {}

Init == request = Nothing /\ verdict = {}

Next == FindWindow \/ LoadSkills \/ Organize \/ Expand \/ CheckPlan \/ Enrich \/ Forget

Spec == Init /\ [][Next]_vars

-----------------------------------------------------------------------------
(***************************************************************************)
(* Properties.                                                             *)
(***************************************************************************)
\* The search by days finds what a search minute by minute would: the next
\* window is the least later minute the expression matches, whatever the
\* zone's offset does in the meantime, and there is a window now exactly if
\* the search from the minute before stops here (scheduler/cron.go).
CronIsFirstMatch ==
    request.kind = "window" =>
        LET w == request.subject
            c == ParseCron(w.expr)
        IN  \A answer \in verdict :
                /\ answer.next = FirstMatch(c, w.zone, w.at)
                /\ (answer.current = w.at) <=> (NextAfter(c, w.zone, w.at - 1) = w.at)

\* Whatever documents a vault has, a registry that loads only has skills
\* that stay in the roots the profile names, ask for tools there are, run on
\* an engine that fits them and spend no more than the caps; and no two with
\* one id (scheduler/registry.go LoadRegistry).
LoadedSkillsAreBounded ==
    request.kind = "skills" =>
        LET profile == request.subject.profile
            caps == ResolveCaps(profile.caps, BudgetCaps)
            within(path) == \E root \in profile.readRoots : IsPrefix(withoutDots(root.segs), path.segs)
            bounded(s) ==
                /\ \A path \in s.scope : within(path) /\ ToSet(path.segs) \cap {"..", "*", ".git"} = {}
                /\ s.tools \subseteq AllowedVaultTools
                /\ s.engine = "tool-calling" <=> s.tools # {}
                /\ \A f \in DOMAIN caps : 0 < s.budget[f] /\ s.budget[f] <= caps[f]
                /\ s.hasSchedule => CronOk(s.cron)
        IN  \A skills \in verdict.loaded :
                /\ \A m \in DOMAIN skills : bounded(skills[m])
                /\ \A m, n \in DOMAIN skills : m # n => skills[m].id # skills[n].id

\* A profile that is in order, over a vault whose SKILL.md lie under its
\* roots and are each found by one of its patterns, which find nothing else;
\* no schedules of the old layout.
InOrder(v) ==
    LET profile == v.profile
        found(f) == {i \in DOMAIN profile.agentPaths :
                        \E p \in CleanRelativePattern(profile.agentPaths[i]) : f \in Glob(v.vault, p)}
    IN  /\ profile.enabled /\ profile.roots = {} /\ profile.agentRoots # {}
        /\ RootsOk(profile.agentRoots \cup profile.readRoots)
        /\ \A root \in profile.readRoots : ~IsForbiddenScopePath(root)
        /\ DeliveryDefault(profile) \subseteq {"outbox", "matrix"}
        /\ PatternsOk(profile.agentPaths)
        /\ \A f \in DOMAIN v.vault :
              /\ Last(f) = "SKILL.md" =>
                     isUnderAnyRoot(DirOf(f), cleanRootSet(profile.agentRoots)) /\ found(f) # {}
              /\ \A i, j \in found(f) : i = j /\ Last(f) = "SKILL.md"

\* An author whose directory lints clean can rely on it: a vault that has no
\* other directory, under a profile that is in order, loads, unless the
\* skill asks for a source the profile does not name; and what loads lints
\* clean (scheduler/registry.go LintAgentSkillDir, LoadRegistry).
LintTellsWhatLoads ==
    request.kind = "skills" =>
        LET v == request.subject
            alone == \A d, e \in DOMAIN verdict.lint : d = e
            clean == \A d \in DOMAIN verdict.lint : verdict.lint[d] = {}
            sources(file) == UNION {s.sources : s \in parseAgentSkillMarkdown(file, DeliveryDefault(v.profile))}
            known == \A f \in DOMAIN v.vault : sources(v.vault[f]) \subseteq v.profile.sources
        IN  InOrder(v) => /\ alone /\ clean /\ known => verdict.loaded # {}
                          /\ verdict.loaded # {} => clean

\* A plan that may be applied touches nothing it does not declare, and the
\* executor locks what is declared: what it creates are drafts, what it
\* changes is known by its hash, what it moves leaves the inbox for the
\* processed notes and is referred to where it went.  No plan passes two of
\* the checks, and every plan that passes as a proposal has a kind
\* (policy/checker.go, executor/direct_fs.go).
ApprovedStaysInside ==
    request.kind = "plan" =>
        LET plan == request.subject.plan
            ops == ToSet(plan.ops)
            touched == UNION {IF op.type = "move_note" THEN {op.target, op.payload.dest} ELSE {op.target} : op \in ops}
            home(name) == Head(PathOf[name].segs)
        IN  /\ verdict.approved =>
                   /\ touched \subseteq plan.targets
                   /\ \A name \in touched : home(name) \in {"Raw", "Knowledge"}
                   /\ \A op \in ops : op.type = "create_note" \/ op.hash = "sha256"
                   /\ \A op \in ops : op.type = "move_note" => op.payload.dest \in op.payload.refs
            /\ Cardinality({a \in {"auto", "approved", "proposal"} : verdict[a]}) <= 1
            /\ verdict.proposal => verdict.kind # {}

\* What a reader of YAML finds under a key: the entries in brackets, the
\* value, or the items down to the next key.
EntriesOf(file, key) ==
    LET block == SplitFrontmatter(file).block
        k == LastIndex({i \in DOMAIN block : IsTopKey(block[i]) /\ block[i].key = key})
        below == {i \in (k + 1)..Len(block) : \A j \in (k + 1)..i : ~IsTopKey(block[j])}
    IN  IF k = 0 THEN {}
        ELSE IF block[k].style # "none" THEN {w.entry : w \in ToSet(block[k].items)}
        ELSE {block[i].items[1].entry : i \in {i \in below : block[i].kind = "item"}}

KeysOf(file) == LET block == SplitFrontmatter(file).block
                IN  {block[i].key : i \in {i \in DOMAIN block : IsTopKey(block[i])}}

LinksInBrackets(file) ==
    \E i \in DOMAIN file.lines : \E w \in ToSet(file.lines[i].items) : file.lines[i].style = "flow" /\ w.entry.link

\* An enrichment that is applied loses nothing of the user's: no entry of a
\* list, no other key, no line of the text; however the frontmatter is laid
\* out, except for links in brackets (enrich/render.go, policy/enrich.go).
EnrichKeepsUserFields ==
    request.kind = "enrich" =>
        LET before == request.subject.file
        IN  \A after \in verdict :
                /\ SplitFrontmatter(after).body = SplitFrontmatter(before).body
                /\ KeysOf(before) \subseteq KeysOf(after)
                /\ KeysOf(after) \subseteq KeysOf(before) \cup EnrichWritableFields
                /\ \A key \in KeysOf(before) \ ToSet(privateKeyOrder) :
                       LinksInBrackets(before) \/ EntriesOf(before, key) \subseteq EntriesOf(after, key)

\* Below the keys of the lists there are their items only.
OnlyItems(block) ==
    \A i, j \in DOMAIN block :
        /\ IsTopKey(block[i]) /\ block[i].key \in {"tags", "related"}
        /\ i < j /\ \A k \in (i + 1)..j : ~IsTopKey(block[k])
        => block[j].kind = "item"

\* A note as this program writes it: lists item by item, without comments.
Canonical(file) ==
    /\ file.plain /\ SplitFrontmatter(file).found
    /\ OnlyItems(SplitFrontmatter(file).block)
    /\ \A i \in DOMAIN file.lines : /\ file.lines[i].kind \in {"fence", "key", "item", "text"}
                                    /\ file.lines[i].kind = "fence" => ~file.lines[i].indent
    /\ \A i \in DOMAIN file.lines : file.lines[i].key \in {"tags", "related"} => file.lines[i].style = "none"
    /\ file.lines[2].kind = "key"

\* A draft of a title in one line passes the checks; a title that would end
\* the frontmatter is refused (agent/openai_raw_organizer.go against
\* policy/checker.go).
OrganizedPlansPass ==
    request.kind = "organize" =>
        LET rest == request.subject.replies[1].output.titleRest
        IN  \A p \in verdict.built :
                /\ rest = <<>> => p \in verdict.taken
                /\ rest # <<>> /\ Head(rest) = Fence => p \notin verdict.taken

\* A section added to a knowledge note passes them, and a restructuring of a
\* finished one does, which is then of the kind that was asked for; nothing
\* else is proposed for any note of the vault
\* (agent/openai_knowledge_expander.go against policy/checker.go).
ExpandedPlansPass ==
    request.kind = "expand" =>
        LET x == request.subject
            c == Normalize(x.conventions)
            output == x.replies[1].output
            inside == hasDirPrefix(x.target, c.KnowledgeDir)
            finished == inside /\ ~hasDirPrefix(x.target, c.KnowledgeDraftDir)
        IN  \A p \in verdict.built :
                IF output.kind = "append" THEN (p \in verdict.taken) <=> inside
                ELSE /\ (p \in verdict.taken) <=> (finished /\ \A n \in ToSet(output.affected) : validateRelativeVaultPath(n))
                     /\ verdict.kinds = {output.restructure}

\* An answer that adds to the fields of a note as this program writes it
\* passes the guard, enriched before or not (enrich/render.go against
\* policy/enrich.go).
EnrichedNotesPass ==
    request.kind = "enrich" =>
        LET e == request.subject
            allowed == /\ \A tag \in ToSet(e.answer.tags) \ EntriesOf(e.file, "tags") : MayAdd(tag, e.vocab)
                       /\ \A entry \in ToSet(e.answer.related) \ EntriesOf(e.file, "related") : entry.link
        IN  Canonical(e.file) /\ allowed => verdict # {}

\* What the program itself makes of a valid answer passes its own checks.
BuiltPlansPass == OrganizedPlansPass /\ ExpandedPlansPass /\ EnrichedNotesPass

\* Entries the user had under related are still there once an enrichment
\* was applied, in whatever style they were written: docs/30-design/
\* inbox-enrichment.md:129 has "after is a superset of before" for related.
RelatedIsAppendOnly ==
    request.kind = "enrich" =>
        \A after \in verdict : EntriesOf(request.subject.file, "related") \subseteq EntriesOf(after, "related")
=============================================================================
