----------------------------- MODULE Registry -----------------------------
(***************************************************************************)
(* The declarations of skills (scheduler/registry.go): what a vault's      *)
(* SKILL.md and SCHEDULE.md say, what is refused, and the check of one     *)
(* directory that authors run (openwhisker skill lint).  A vault is a      *)
(* function from paths to files; an error of one file refuses them all.    *)
(***************************************************************************)
EXTENDS Frontmatter, Cron, VaultPaths

CONSTANTS NumberOf,  \* of the names that are integers, their value
          CronText,  \* of the names that are cron expressions, their fields
          Zones      \* the names time.LoadLocation knows

ASSUME RegistryAssumption == \A n \in DOMAIN NumberOf : NumberOf[n] \in Int

AllowedVaultTools ==
    {"list_vault_dir", "read_vault_note", "vault_outlinks", "vault_backlinks", "vault_text_search"}
allowedCapabilities ==
    {"vault_read", "external_info_read", "scheduler_run_log_write", "outbox_notify",
     "vault_link_graph_read", "vault_text_search", "agent_run_log_write"}
Engines == {"static", "openai-compatible", "tool-calling"}

-----------------------------------------------------------------------------
\* cleanRootSet: the roots, if all of them are clean.
cleanRootSet(paths) == UNION {cleanRelativePath(p) : p \in paths}
RootsOk(paths) == \A p \in paths : cleanRelativePath(p) # {}

\* The files of a pattern.
Glob(vault, pattern) ==
    {f \in DOMAIN vault : /\ Len(f) = Len(pattern)
                          /\ \A i \in DOMAIN f : pattern[i] \in {f[i], "*"}}

DirOf(file) == Front(file)

-----------------------------------------------------------------------------
(***************************************************************************)
(* Frontmatter as the registry reads it: strict, unlike markdown.Doc.      *)
(***************************************************************************)
Opens(line, listKeys, mapKeys) ==
    /\ IsTopKey(line)
    /\ line.key \in mapKeys \cup (IF line.style = "none" THEN listKeys ELSE {})

\* parseIndentedList, parseIndentedMap: the lines that belong to an open
\* key, blank and indented ones up to the first that is neither.
Absorbed(block, k) ==
    {i \in (k + 1)..Len(block) :
        \A j \in (k + 1)..i : block[j].kind = "blank" \/ block[j].indent}

\* What a list in brackets is where a text is read: its own text.
Brackets == "[...]"

\* What parseFrontmatterDoc and parseSimpleFrontmatter make of a block, or
\* none: scalars, lists and maps by key, the last of a name.
ParseBlock(block, listKeys, mapKeys) ==
    LET openers == {k \in DOMAIN block : Opens(block[k], listKeys, mapKeys)}
        owned == UNION {Absorbed(block, k) : k \in openers}
        stray == {i \in DOMAIN block \ owned : ~(block[i].kind \in {"blank", "comment"} \/ IsTopKey(block[i]))}
        inMaps == UNION {Absorbed(block, k) : k \in {k \in openers : block[k].key \in mapKeys}}
        bad == stray \cup {i \in inMaps : block[i].kind \notin {"blank", "key"}}
        keyLines == {k \in DOMAIN block : IsTopKey(block[k])}
        lineOf(key) == LastIndex({k \in keyLines : block[k].key = key})
        keys == {block[k].key : k \in keyLines}
        name(line) == IF line.kind = "comment" THEN "#"
                      ELSE IF line.style = "flow" THEN Brackets ELSE line.items[1].entry.name
        list(k) == IF block[k].style # "none" THEN {w.entry.name : w \in ToSet(block[k].items)}
                   ELSE {name(block[i]) : i \in {i \in Absorbed(block, k) : block[i].kind # "blank"}}
        subs(k) == {i \in Absorbed(block, k) : block[i].kind = "key"}
        map(k) == [key \in {block[i].key : i \in subs(k)} |->
                      name(block[LastIndex({i \in subs(k) : block[i].key = key})])]
        scalar(k) == IF block[k].style = "none" THEN NoText ELSE name(block[k])
    IN  IF bad # {} THEN {}
        ELSE {[scalars |-> [key \in keys \ (listKeys \cup mapKeys) |-> scalar(lineOf(key))],
               lists |-> [key \in keys \cap listKeys |-> list(lineOf(key))],
               maps |-> [key \in keys \cap mapKeys |-> map(lineOf(key))]]}

\* parseFrontmatterDoc: the keys of SKILL.md.
parseFrontmatterDoc(block) ==
    ParseBlock(block, {"delivery", "capabilities", "vault_context", "external_info_sources", "vault_tools",
                       "vault_scope"}, {"skill_config", "budget"})

\* parseSimpleFrontmatter: the keys of a SCHEDULE.md of the old layout.
parseSimpleFrontmatter(block) ==
    ParseBlock(block, {"delivery", "capabilities", "vault_context", "external_info_sources"}, {"skill_config"})

hasKey(doc, key) == key \in DOMAIN doc.scalars \cup DOMAIN doc.lists \cup DOMAIN doc.maps
scalar(doc, key) == IF key \in DOMAIN doc.scalars THEN doc.scalars[key] ELSE NoText
list(doc, key) == IF key \in DOMAIN doc.lists THEN doc.lists[key] ELSE {}
subMap(doc, key) == IF key \in DOMAIN doc.maps THEN doc.maps[key] ELSE [k \in {} |-> NoText]

\* splitFrontmatter: the block, which has to be there.
splitFrontmatter(file) ==
    LET split == SplitFrontmatter(file)
    IN  IF split.found THEN {split.block} ELSE {}

-----------------------------------------------------------------------------
(***************************************************************************)
(* The checks.                                                             *)
(***************************************************************************)
\* validateCapabilities.
CapabilitiesOk(skill) == skill.capabilities \subseteq allowedCapabilities

\* Mutant: a scope may lie outside of the roots.
validateVaultScopeAnywhere(scope, readRoots) ==
    \A path \in scope : ~IsForbiddenScopePath(path) /\ cleanRelativePath(path) # {}

validateVaultScope(scope, readRoots) ==
    \A path \in scope :
        /\ ~IsForbiddenScopePath(path)
        /\ \E clean \in cleanRelativePath(path) : isUnderAnyRoot(clean, readRoots)

validateVaultContext(paths, readRoots) ==
    \A path \in paths : \E clean \in cleanRelativePath(path) : isUnderAnyRoot(clean, readRoots)

validateVaultTools(tools) == tools \subseteq AllowedVaultTools

validateExternalSources(sources, allowed) == sources \subseteq allowed

\* inferEngine.
inferEngine(tools, defaultEngine) ==
    IF tools # {} THEN "tool-calling" ELSE IF defaultEngine = NoText THEN "static" ELSE defaultEngine

\* resolveEngine: what is declared has to fit the tools; or none.
resolveEngine(explicit, tools, defaultEngine) ==
    IF explicit = NoText THEN {inferEngine(tools, defaultEngine)}
    ELSE {e \in Engines : e = explicit /\ (e = "tool-calling") = (tools # {})}

\* Resolve: a cap that is not set is the built-in one.
ResolveCaps(caps, defaults) == [f \in DOMAIN caps |-> IF caps[f] <= 0 THEN defaults[f] ELSE caps[f]]

\* resolveBudget: what is not declared is the cap, what exceeds it refused.
resolveBudget(budget, caps) ==
    IF \E f \in DOMAIN caps : budget[f] > caps[f] THEN {}
    ELSE {[f \in DOMAIN caps |-> IF budget[f] = 0 THEN caps[f] ELSE budget[f]]}

\* parseBudgetMap: positive integers of the three fields; or none.
NoBudget == [max_tool_calls |-> 0, max_total_bytes |-> 0, max_wall_clock_seconds |-> 0]
parseBudgetMap(values) ==
    IF \E key \in DOMAIN values : \/ key \notin DOMAIN NoBudget \/ values[key] \notin DOMAIN NumberOf
    THEN {}
    ELSE IF \E key \in DOMAIN values : NumberOf[values[key]] <= 0 THEN {}
    ELSE {[key \in DOMAIN NoBudget |-> IF key \in DOMAIN values THEN NumberOf[values[key]] ELSE 0]}

canonicalizeCapabilities(caps) ==
    {IF c = "scheduler_run_log_write" THEN "agent_run_log_write" ELSE c : c \in caps}

\* normalizeScopeList: cleaned where that is possible.
normalizeScopeList(names) ==
    LET clean(p) == IF CleanRelativePattern(p) = {} THEN p
                    ELSE [p EXCEPT !.segs = CHOOSE s \in CleanRelativePattern(p) : TRUE]
    IN  {clean(PathOf[n]) : n \in names}

DeliveryOk(doc, default, targets) ==
    (IF list(doc, "delivery") = {} THEN default ELSE list(doc, "delivery")) \subseteq targets

CronOk(expr) == expr \in DOMAIN CronText /\ ParseCron(CronText[expr]).ok
ZoneOk(name) == name \in Zones \cup {"UTC"}

-----------------------------------------------------------------------------
(***************************************************************************)
(* The two kinds of documents.                                             *)
(***************************************************************************)
\* parseAgentSkillMarkdown: SKILL.md; or none.
parseAgentSkillMarkdown(file, defaultDelivery) ==
    LET docs == UNION {parseFrontmatterDoc(b) : b \in splitFrontmatter(file)}
        ok(doc) == /\ scalar(doc, "id") # NoText
                   /\ DeliveryOk(doc, defaultDelivery, {"outbox", "matrix"})
                   /\ list(doc, "vault_context") = {}
                   /\ scalar(doc, "cron_expr") = NoText /\ scalar(doc, "timezone") = NoText
                   /\ parseBudgetMap(subMap(doc, "budget")) # {}
        skill(doc) ==
            [id |-> scalar(doc, "id"), enabled |-> TRUE, cron |-> NoText, zone |-> NoText, hasSchedule |-> FALSE,
             capabilities |-> canonicalizeCapabilities(list(doc, "capabilities")) \cup {"vault_read"}
                 \cup (IF list(doc, "external_info_sources") = {} THEN {} ELSE {"external_info_read"}),
             context |-> {}, sources |-> list(doc, "external_info_sources"),
             tools |-> list(doc, "vault_tools"), scope |-> normalizeScopeList(list(doc, "vault_scope")),
             explicit |-> scalar(doc, "engine"), engine |-> NoText,
             budget |-> CHOOSE b \in parseBudgetMap(subMap(doc, "budget")) : TRUE, hash |-> file]
    IN  {skill(doc) : doc \in {doc \in docs : ok(doc)}}

\* applyAgentSchedule: the SCHEDULE.md beside a SKILL.md, with the fields
\* that belong to SKILL.md refused; or none.
applyAgentSchedule(skill, file) ==
    LET ok(doc) == /\ ~\E key \in {"vault_tools", "vault_scope", "engine", "budget", "vault_context"} : hasKey(doc, key)
                   /\ scalar(doc, "id") \in {NoText, skill.id}
                   /\ scalar(doc, "enabled") \in {NoText, "true", "false"}
                   /\ scalar(doc, "cron_expr") # NoText
        zone(doc) == IF scalar(doc, "timezone") = NoText THEN "UTC" ELSE scalar(doc, "timezone")
    IN  {[skill EXCEPT !.enabled = scalar(doc, "enabled") # "false", !.cron = scalar(doc, "cron_expr"),
                       !.zone = zone(doc)] :
            doc \in {doc \in UNION {parseFrontmatterDoc(b) : b \in splitFrontmatter(file)} : ok(doc)}}

\* parseScheduleMarkdown: a SCHEDULE.md of the old layout; or none.
parseScheduleMarkdown(file, defaultDelivery) ==
    LET ok(doc) == /\ ~hasKey(doc, "enabled") \/ scalar(doc, "enabled") \in {"true", "false"}
                   /\ DeliveryOk(doc, defaultDelivery, {"outbox"})
                   /\ scalar(doc, "id") # NoText /\ scalar(doc, "cron_expr") # NoText
        capabilities(doc) == IF list(doc, "capabilities") = {}
                             THEN {"vault_read", "scheduler_run_log_write", "outbox_notify"}
                             ELSE list(doc, "capabilities")
        sources(doc) == list(doc, "external_info_sources")
        skill(doc) ==
            [id |-> scalar(doc, "id"), enabled |-> scalar(doc, "enabled") # "false",
             cron |-> scalar(doc, "cron_expr"),
             zone |-> IF scalar(doc, "timezone") = NoText THEN "UTC" ELSE scalar(doc, "timezone"),
             hasSchedule |-> TRUE,
             capabilities |-> capabilities(doc) \cup (IF sources(doc) = {} THEN {} ELSE {"external_info_read"}),
             context |-> {PathOf[n] : n \in list(doc, "vault_context")}, sources |-> sources(doc),
             tools |-> {}, scope |-> {}, explicit |-> NoText, engine |-> NoText, budget |-> NoBudget, hash |-> file]
    IN  {skill(doc) : doc \in {doc \in UNION {parseSimpleFrontmatter(b) : b \in splitFrontmatter(file)} : ok(doc)}}

-----------------------------------------------------------------------------
(***************************************************************************)
(* Loading.                                                                *)
(***************************************************************************)
DeliveryDefault(profile) == IF profile.delivery = {} THEN {"outbox"} ELSE profile.delivery

\* loadLegacyScheduleSkills, of one file; or none.
LoadLegacy(vault, file, profile, caps) ==
    LET roots == cleanRootSet(profile.roots)
        readRoots == cleanRootSet(profile.readRoots)
        ok(skill) == /\ CronOk(skill.cron) /\ ZoneOk(skill.zone)
                     /\ CapabilitiesOk(skill)
                     /\ validateVaultContext(skill.context, readRoots)
                     /\ validateExternalSources(skill.sources, profile.sources)
    IN  IF Last(file) = "SCHEDULE.md" /\ isUnderAnyRoot(DirOf(file), roots)
              /\ Append(DirOf(file), "SKILL.md") \in DOMAIN vault
        THEN {[skill EXCEPT !.engine = inferEngine({}, profile.engine), !.budget = caps] :
                 skill \in {skill \in parseScheduleMarkdown(vault[file], DeliveryDefault(profile)) : ok(skill)}}
        ELSE {}

\* What of a SKILL.md's engine and budget comes from the profile; or none.
WithEngine(skill, engine, budget) == [skill EXCEPT !.engine = engine, !.budget = budget]
ResolvedSkills(skill, profile, caps) ==
    {WithEngine(skill, e, b) : e \in resolveEngine(skill.explicit, skill.tools, profile.engine),
                               b \in resolveBudget(skill.budget, caps)}

\* With the SCHEDULE.md of the directory, if it has one; or none.
ScheduledSkills(skill, vault, file) ==
    LET schedule == Append(DirOf(file), "SCHEDULE.md")
    IN  IF schedule \notin DOMAIN vault THEN {skill}
        ELSE {[s EXCEPT !.hasSchedule = TRUE] :
                 s \in {s \in applyAgentSchedule(skill, vault[schedule]) : CronOk(s.cron) /\ ZoneOk(s.zone)}}

\* loadAgentSkills, of one file; or none.
AgentSkillOk(skill, profile) ==
    /\ CapabilitiesOk(skill)
    /\ validateVaultScope(skill.scope, cleanRootSet(profile.readRoots))
    /\ validateVaultTools(skill.tools)
    /\ validateExternalSources(skill.sources, profile.sources)
LoadAgent(vault, file, profile, caps) ==
    LET parsed == {skill \in parseAgentSkillMarkdown(vault[file], DeliveryDefault(profile)) :
                      AgentSkillOk(skill, profile)}
    IN  IF Last(file) = "SKILL.md" /\ isUnderAnyRoot(DirOf(file), cleanRootSet(profile.agentRoots))
        THEN UNION {ScheduledSkills(s, vault, file) :
                       s \in UNION {ResolvedSkills(skill, profile, caps) : skill \in parsed}}
        ELSE {}

\* Each match of each pattern, the patterns themselves being valid.
Matched(vault, patterns) ==
    UNION {{<<i, f>> : f \in UNION {Glob(vault, p) : p \in CleanRelativePattern(patterns[i])}} :
              i \in DOMAIN patterns}

PatternsOk(patterns) == \A i \in DOMAIN patterns : CleanRelativePattern(patterns[i]) # {}

DistinctIds(skills) == \A m, n \in DOMAIN skills : skills[m].id = skills[n].id => m = n

\* LoadRegistry: the skills of both layouts, by what matched them; or none.
LoadRegistry(vault, profile, defaults) ==
    LET caps == ResolveCaps(profile.caps, defaults)
        legacy == IF profile.roots = {} THEN {} ELSE {<<"legacy", m[1], m[2]>> : m \in Matched(vault, profile.paths)}
        agent == IF profile.agentRoots = {} THEN {}
                 ELSE {<<"agent", m[1], m[2]>> : m \in Matched(vault, profile.agentPaths)}
        load(m) == IF m[1] = "legacy" THEN LoadLegacy(vault, m[3], profile, caps)
                   ELSE LoadAgent(vault, m[3], profile, caps)
        skills == [m \in legacy \cup agent |-> CHOOSE s \in load(m) : TRUE]
    IN  IF ~profile.enabled THEN {[m \in {} |-> NoBudget]}
        ELSE IF \/ \E root \in profile.readRoots : IsForbiddenScopePath(root)
                \/ ~RootsOk(profile.roots \cup profile.agentRoots \cup profile.readRoots)
                \/ profile.roots \cup profile.agentRoots = {}
                \/ ~(DeliveryDefault(profile) \subseteq {"outbox", "matrix"})
                \/ profile.roots # {} /\ ~PatternsOk(profile.paths)
                \/ profile.agentRoots # {} /\ ~PatternsOk(profile.agentPaths)
             THEN {}
        ELSE IF \E m \in legacy \cup agent : load(m) = {} THEN {}
        ELSE IF ~DistinctIds(skills) THEN {} ELSE {skills}

-----------------------------------------------------------------------------
(***************************************************************************)
(* LintAgentSkillDir: the fields of one directory that have errors; the    *)
(* roots and the sources of the profile are not its subject.               *)
(***************************************************************************)
\* Mutant: the budget is not looked at.
LintChecksButBudget(skill, schedules, profile, defaults) ==
    [capabilities |-> CapabilitiesOk(skill), vault_tools |-> validateVaultTools(skill.tools),
     engine |-> resolveEngine(skill.explicit, skill.tools, profile.engine) # {}]

\* What is checked of a document that parses.
LintChecks(skill, schedules, profile, defaults) ==
    LET readRoots == IF RootsOk(profile.readRoots) THEN cleanRootSet(profile.readRoots) ELSE {}
        applied == {applyAgentSchedule(skill, file) : file \in schedules}
    IN  [capabilities |-> CapabilitiesOk(skill),
         vault_scope |-> validateVaultScope(skill.scope, readRoots),
         vault_tools |-> validateVaultTools(skill.tools),
         engine |-> resolveEngine(skill.explicit, skill.tools, profile.engine) # {},
         budget |-> resolveBudget(skill.budget, ResolveCaps(profile.caps, defaults)) # {},
         schedule |-> {} \notin applied,
         cron_expr |-> \A s \in UNION applied : CronOk(s.cron),
         timezone |-> \A s \in UNION applied : ZoneOk(s.zone)]

Lint(vault, dir, profile, defaults) ==
    LET at(name) == {vault[f] : f \in DOMAIN vault \cap {Append(dir, name)}}
        skills == UNION {parseAgentSkillMarkdown(file, DeliveryDefault(profile)) : file \in at("SKILL.md")}
        checks(skill) == LintChecks(skill, at("SCHEDULE.md"), profile, defaults)
    IN  IF skills = {} THEN {"SKILL.md"}
        ELSE UNION {{f \in DOMAIN checks(skill) : ~checks(skill)[f]} : skill \in skills}
=============================================================================
