------------------------------ MODULE MCIntake ------------------------------
(***************************************************************************)
(* Requests, most of them one step away from one that is in order.         *)
(***************************************************************************)
EXTENDS Intake

(***************************************************************************)
(* Cron: days of four hours of two minutes, from January 29 on, a Thursday;*)
(* clocks are moved by an hour.                                            *)
(***************************************************************************)
MCDays == [d \in 0..14 |-> [month |-> IF d < 3 THEN 1 ELSE 2,
                            dayOfMonth |-> IF d < 3 THEN 29 + d ELSE d - 2,
                            dayOfWeek |-> (d + 4) % 7]]
MCInstants == 0..99

Shift(before, at, after) == [t \in MCInstants |-> IF t < at THEN before ELSE after]
\* Fixed, ahead, forward at noon, back at noon, back at midnight in the west.
CalmZones == {Shift(0, 0, 0), Shift(4, 0, 4), Shift(0, 28, 2), Shift(4, 39, 2), Shift(-2, 36, -4)}
\* Forward at midnight, west and east.
MidnightZones == {Shift(-4, 36, -2), Shift(4, 28, 6)}

P(from, to, step) == [from |-> from, to |-> to, step |-> step]
At(n) == <<P(n, n, 1)>>
Each == <<P(Star, Star, 1)>>
Exprs ==
    {<<At(0), At(1), Each, Each, Each>>, <<At(1), At(0), Each, Each, Each>>,
     <<Each, <<P(0, 3, 2)>>, Each, Each, Each>>, <<<<P(Star, Star, 2)>>, At(2), Each, Each, At(7)>>,
     <<At(1), At(3), <<P(31, 31, 1), P(1, 2, 1)>>, Each, Each>>, <<At(0), At(0), At(1), At(2), Each>>,
     <<At(0), At(0), At(30), At(2), Each>>, <<At(0), At(NoNumber), Each, Each, Each>>,
     <<At(0), At(1), Each, Each, <<P(0, 6, 0)>>>>, <<At(0), At(1), Each, Each>>,
     <<At(1), At(2), Each, Each, <<P(5, 7, 1)>>>>, <<Each, At(3), At(20), Each, Each>>}

Search(zones) == [expr : Exprs, zone : zones, at : 17..48]
CalmWindows == Search(CalmZones)
AllWindows == Search(CalmZones \cup MidnightZones)

\* What WindowsAreFound asks of the windows holds of the calm ones, and not
\* of those at midnight.
ASSUME CalmAssumption ==
    /\ \A w \in CalmWindows : DaysInOrder(w.zone, w.at) /\ DaysInOrder(w.zone, w.at + 1)
    /\ \A zone \in MidnightZones : \E at \in 17..48 : ~DaysInOrder(zone, at)

-----------------------------------------------------------------------------
(***************************************************************************)
(* Paths.                                                                  *)
(***************************************************************************)
Rel(segs) == [abs |-> FALSE, segs |-> segs]
MCPathOf ==
    [n \in {"Knowledge", "Secret", "Knowledge/.git", "Knowledge/*", "../Knowledge", "/Knowledge", "./Knowledge",
            "in", "in2", "done", "done2", "draft", "draft2", "note", "note2", "note3", "report", ".obsidian/x", "odd"} |->
        CASE n = "Knowledge" -> Rel(<<"Knowledge">>)
          [] n = "Secret" -> Rel(<<"Secret">>)
          [] n = "Knowledge/.git" -> Rel(<<"Knowledge", ".git">>)
          [] n = "Knowledge/*" -> Rel(<<"Knowledge", "*">>)
          [] n = "../Knowledge" -> Rel(<<"..", "Knowledge">>)
          [] n = "/Knowledge" -> [abs |-> TRUE, segs |-> <<"Knowledge">>]
          [] n = "./Knowledge" -> Rel(<<".", "Knowledge", "a">>)
          [] n = "in" -> Rel(<<"Raw", "Inbox", "a">>)
          [] n = "in2" -> Rel(<<"Raw", "Inbox", "b">>)
          [] n = "done" -> Rel(<<"Raw", "Processed", "a">>)
          [] n = "done2" -> Rel(<<"Raw", "Processed", "b">>)
          [] n = "draft" -> Rel(<<"Knowledge", "Drafts", "a">>)
          [] n = "draft2" -> Rel(<<"Knowledge", "Drafts", "b">>)
          [] n = "note" -> Rel(<<"Knowledge", "a">>)
          [] n = "note2" -> Rel(<<"Knowledge", "b">>)
          [] n = "note3" -> Rel(<<"Knowledge", "c">>)
          [] n = "report" -> Rel(<<"Meta", "Reports", "a">>)
          [] n = ".obsidian/x" -> Rel(<<".obsidian", "x">>)
          [] OTHER -> Rel(<<"Knowledge", "..", "odd">>)]

-----------------------------------------------------------------------------
(***************************************************************************)
(* Skills.                                                                 *)
(***************************************************************************)
MCNumberOf == [n \in {"0", "2", "9"} |-> IF n = "0" THEN 0 ELSE IF n = "2" THEN 2 ELSE 9]
MCCronText == [n \in {"daily", "never"} |->
                  IF n = "daily" THEN <<At(0), At(1), Each, Each, Each>> ELSE <<At(0), At(0), At(30), At(2), Each>>]

Doc(lines) == [plain |-> TRUE, lines |-> <<Fence>> \o lines \o <<Fence, Text("goal")>>]
Listing(key, names) == <<Open(key)>> \o [i \in DOMAIN names |-> Item(TRUE, Bare(names[i]))]
Mapping(key, sub, value) == <<Open(key), SubKey(sub, Bare(value))>>
IdIs(id) == <<Scalar("id", Bare(id))>>
Tools(names) == Listing("vault_tools", names)
ScopeOf(name) == <<Flow("vault_scope", <<Bare(name)>>)>>

Skill == IdIs("a") \o Tools(<<"read_vault_note">>) \o ScopeOf("Knowledge")
Skills ==
    {Doc(d) : d \in
        {Skill, IdIs("a"), <<Flow("id", <<Bare("a")>>)>>, Tools(<<"read_vault_note">>), Skill \o <<Text("stray")>>,
         Skill \o <<Comment(FALSE), Blank>>,
         IdIs("a") \o <<Scalar("vault_scope", Bare("Secret"))>>, Skill \o Mapping("skill_config", "max", "9")}
        \cup {IdIs("a") \o ScopeOf(n) : n \in {"Secret", "Knowledge/.git", "Knowledge/*", "../Knowledge", "./Knowledge"}}
        \cup {IdIs("a") \o Tools(names) : names \in {<<"recall_memory">>, <<"vault_outlinks", "vault_backlinks">>}}
        \cup {IdIs("a") \o <<Open("capabilities"), Comment(TRUE), Item(TRUE, Bare("vault_read"))>>}
        \cup {Skill \o <<Scalar("engine", Bare(e))>> : e \in {"static", "tool-calling", "other"}}
        \cup {IdIs("a") \o <<Scalar("engine", Bare(e))>> : e \in {"openai-compatible", "tool-calling"}}
        \cup {Skill \o Mapping("budget", f, n) : f \in {"max_tool_calls", "max_depth"}, n \in {"0", "2", "9", "many"}}
        \cup {Skill \o Listing(key, <<n>>) : key \in {"delivery", "capabilities", "external_info_sources"},
                                             n \in {"matrix", "outbox_notify", "feed"}}
        \cup {Skill \o <<Scalar(key, Bare("daily"))>> : key \in {"cron_expr", "timezone", "vault_context"}}}
        \cup {[plain |-> TRUE, lines |-> <<Text("goal")>>]}

Daily == <<Scalar("cron_expr", Bare("daily"))>>
Schedules ==
    {Doc(d) : d \in {Daily, Daily \o IdIs("a"), Daily \o IdIs("b"), IdIs("a"), <<Scalar("cron_expr", Bare("never"))>>,
                     Daily \o <<Scalar("timezone", Bare("Mars"))>>, Daily \o <<Scalar("enabled", Bare("maybe"))>>,
                     Daily \o <<Scalar("enabled", Bare("false"))>>, Daily \o ScopeOf("Knowledge")}}

LegacyDocs ==
    {Doc(IdIs("a") \o Daily \o d) : d \in {<<>>, <<Flow("vault_context", <<Bare("Knowledge")>>)>>,
                                           <<Flow("vault_context", <<Bare("Secret")>>)>>, <<Open("delivery"), Item(TRUE, Bare("matrix"))>>,
                                           <<Scalar("enabled", Bare(""))>>, Listing("external_info_sources", <<"feed">>)}}

Pattern(dir) == Rel(<<dir, "*", IF dir = "Agents" THEN "SKILL.md" ELSE "SCHEDULE.md">>)
Profile ==
    [enabled |-> TRUE, paths |-> <<Pattern("Jobs")>>, roots |-> {}, agentPaths |-> <<Pattern("Agents")>>,
     agentRoots |-> {Rel(<<"Agents">>)}, readRoots |-> {Rel(<<"Knowledge">>)}, sources |-> {"feed"}, delivery |-> {},
     engine |-> "static", caps |-> [max_tool_calls |-> 3, max_total_bytes |-> 0, max_wall_clock_seconds |-> 0]]
Legacy == [Profile EXCEPT !.roots = {Rel(<<"Jobs">>)}]

File(dir, name) == <<dir, "a", name>>
One(file) == [f \in {File("Agents", "SKILL.md")} |-> file]
Two(file, schedule) == [f \in {File("Agents", "SKILL.md"), File("Agents", "SCHEDULE.md")} |->
                           IF Last(f) = "SKILL.md" THEN file ELSE schedule]
Asking(vault, profile) == [vault |-> vault, profile |-> profile]

MCVaults ==
    {Asking(One(s), Profile) : s \in Skills}
    \cup {Asking(Two(Doc(Skill), s), Profile) : s \in Schedules}
    \* Two of a kind, by a copy and by patterns that overlap.
    \cup {Asking([f \in {<<"Agents", d, "SKILL.md">> : d \in {"a", "b"}} |->
                     IF f[2] = "a" THEN Doc(Skill) ELSE Doc(IdIs(id))], Profile) : id \in {"a", "b"}}
    \cup {Asking(One(Doc(Skill)), [Profile EXCEPT !.agentPaths = <<Pattern("Agents"), Pattern("Agents")>>])}
    \* The old layout, alone and beside the new one.
    \cup {Asking([f \in {File("Jobs", "SCHEDULE.md"), File("Jobs", "SKILL.md")} |->
                     IF Last(f) = "SKILL.md" THEN Doc(<<>>) ELSE s], Legacy) : s \in LegacyDocs}
    \cup {Asking([f \in {File("Jobs", "SCHEDULE.md")} |-> Doc(IdIs("a") \o Daily)], Legacy)}
    \cup {Asking([f \in {File("Jobs", "SCHEDULE.md"), File("Jobs", "SKILL.md"), File("Agents", "SKILL.md")} |->
                     IF Last(f) = "SCHEDULE.md" THEN Doc(IdIs("a") \o Daily) ELSE Doc(IdIs(id))], Legacy) : id \in {"a", "b"}}
    \* Profiles out of order.
    \cup {Asking(One(Doc(Skill)), p) : p \in
             {[Profile EXCEPT !.enabled = FALSE], [Profile EXCEPT !.agentRoots = {}],
              [Profile EXCEPT !.agentRoots = {Rel(<<"Other">>)}], [Profile EXCEPT !.delivery = {"mail"}],
              [Profile EXCEPT !.agentPaths = <<Rel(<<"..", "SKILL.md">>)>>]}
             \cup {[Profile EXCEPT !.readRoots = {r}] : r \in {Rel(<<".git">>), Rel(<<".">>), MCPathOf["/Knowledge"]}}}

MCCaps == [max_tool_calls |-> 5, max_total_bytes |-> 5, max_wall_clock_seconds |-> 5]

-----------------------------------------------------------------------------
(***************************************************************************)
(* Answers.                                                                *)
(***************************************************************************)
Answer(output) == [kind |-> "answer", output |-> output]
Failing(kind, output) == [kind |-> kind, output |-> output]

Organized == [title |-> "T", titleRest |-> <<>>, rawKind |-> "mixed", summary |-> TRUE, body |-> TRUE]
RawOutputs == {Organized, [Organized EXCEPT !.titleRest = <<Fence, Text("more")>>], [Organized EXCEPT !.title = ""],
               [Organized EXCEPT !.rawKind = "poem"], [Organized EXCEPT !.summary = FALSE]}
SparseConventions == [DefaultConventions EXCEPT !.KnowledgeDraftDir = <<>>, !.RawProcessedDir = <<>>]
MCOrganizings ==
    [raw : {"in", "in2"}, conventions : {DefaultConventions, KnowledgeVaultConventions, SparseConventions},
     replies : {<<Answer(o)>> : o \in RawOutputs} \cup {<<Failing(k, Organized), Answer(Organized)>> : k \in {"blank", "none"}}]

Expanded(kind, restructure, append, affected) ==
    [title |-> "T", summary |-> TRUE, kind |-> kind, restructure |-> restructure, append |-> append, affected |-> affected]
Restructured(affected) == {Expanded("propose_restructure", k, FALSE, affected) : k \in {"split", "merge", "rename", "other"}}
MCExpansions ==
    [target : {"note", "draft", "in"}, conventions : {DefaultConventions},
     replies : {<<Answer(o)>> : o \in {Expanded("append", "none", TRUE, <<>>), Expanded("append", "none", FALSE, <<>>),
                                       Expanded("append", "split", TRUE, <<>>), Expanded("other", "none", TRUE, <<>>)}
                                      \cup UNION {Restructured(a) : a \in {<<>>, <<"note">>, <<"note", "note2">>, <<"note", "odd">>}}}]

-----------------------------------------------------------------------------
(***************************************************************************)
(* Plans: one that is in order of each kind, and every one of its fields   *)
(* changed.                                                                *)
(***************************************************************************)
Sealed(plan) == [plan EXCEPT !.ops = [i \in DOMAIN plan.ops |-> [plan.ops[i] EXCEPT !.hash = "sha256"]],
                             !.status = "approved"]
Medium == Sealed(buildLLMOrganizePlan("in", DefaultConventions, Organized))
Op(type, risk, target, payload) ==
    [type |-> type, risk |-> risk, missing |-> {}, target |-> target, hash |-> "sha256", payload |-> payload]
PlanOf(risk, purpose, targets, ops) ==
    [risk |-> risk, approval |-> risk # "low", status |-> "approved", missing |-> {}, purpose |-> purpose,
     targets |-> targets, ops |-> ops]
Texted == [ok |-> TRUE, text |-> TRUE]
Rename(source, dest) == Op("rename_note", "high", source, [ok |-> TRUE, source |-> source, dest |-> dest])
Retag(affected) == Op("bulk_retag", "high", "note", [ok |-> TRUE, affected |-> affected, retags |-> TRUE])
Relink(affected) == Op("bulk_link_rewrite", "high", "note",
                       [ok |-> TRUE, affected |-> affected, source |-> "note", dest |-> "note2"])
Three == <<"note", "note2", "note3">>
HighOps == {<<Rename("note", "note2")>>, <<Rename("note", "note2"), Rename("note3", "note2")>>,
            <<Rename("note", "note2"), Rename("note", "note3")>>, <<Retag(Three)>>, <<Relink(Three)>>,
            <<Retag(Three), Relink(Three)>>, <<Retag(<<"note">>)>>, <<Rename("draft", "note")>>, <<Rename("in", "note")>>,
            <<Rename("note", "odd")>>}
MediumPlans ==
    {Medium}
    \cup {[Medium EXCEPT !.targets = @ \ {n}] : n \in Medium.targets}
    \cup {[Medium EXCEPT !.missing = {f}] : f \in {"id", "source_refs"}}
    \cup {[Medium EXCEPT !.status = s] : s \in {"proposed", "applying"}}
    \cup {[Medium EXCEPT !.approval = FALSE], [Medium EXCEPT !.risk = "low"], [Medium EXCEPT !.ops = <<>>],
          [Medium EXCEPT !.targets = {}], [Medium EXCEPT !.ops[1].missing = {"reason"}], [Medium EXCEPT !.ops[2].hash = ""],
          [Medium EXCEPT !.ops[1].risk = "low"], [Medium EXCEPT !.ops[2].payload.refs = {"done"}],
          [Medium EXCEPT !.ops[2].payload.ok = FALSE], [Medium EXCEPT !.ops[1].payload.file = Doc(Skill)]}
    \cup {[Medium EXCEPT !.ops[1].target = n] : n \in DOMAIN MCPathOf}
    \cup {[Medium EXCEPT !.ops[2].target = n, !.targets = @ \cup {n}] : n \in {"in2", "note", "odd"}}
    \cup {[Medium EXCEPT !.ops[2].payload.dest = n] : n \in {"done2", "note", "odd", ".obsidian/x"}}
    \cup {[Medium EXCEPT !.ops[2].payload.dest = "done2", !.ops[2].payload.refs = {"done2", "draft"}]}
    \cup {PlanOf("medium", "", {"note"}, <<Op("append_note", "medium", n, Texted)>>) : n \in {"note", "note2"}}
    \cup {PlanOf("medium", "", {"note"}, <<Op(t, "medium", "note", Texted)>>) : t \in {"rewrite_note", "delete_note"}}
LowPlans ==
    {PlanOf("low", "", {n}, <<Op(t, "low", n, Texted)>>) :
        t \in {"create_note", "append_note", "rewrite_note", "write_agent_report", "delete_note"}, n \in {"in", "note", "report", "odd"}}
HighPlans == {PlanOf("high", p, {"note", "note2"}, ops) : p \in {"", "split", "other"}, ops \in HighOps}
MCPlans == [plan : MediumPlans \cup LowPlans \cup HighPlans, conventions : {DefaultConventions}]

-----------------------------------------------------------------------------
(***************************************************************************)
(* Notes to enrich.                                                        *)
(***************************************************************************)
MCTagClass == [t \in {"go", "new", "raw/chat", "status/needs-review", "status/final", "mine", "theirs", "#"} |->
                  CASE t \in {"go", "new"} -> "topic" [] t = "raw/chat" -> "raw"
                    [] t = "status/needs-review" -> "needs-review" [] t = "status/final" -> "status" [] OTHER -> "other"]

Note(lines) == [plain |-> TRUE, lines |-> <<Fence>> \o lines \o <<Fence, Text("body"), Fence>>]
Title == <<Scalar("title", Bare("T"))>>
TagLines ==
    {<<>>, Listing("tags", <<"mine", "theirs">>), <<Flow("tags", <<Bare("mine"), Written("single", Word("theirs"))>>)>>,
     <<Open("tags"), Item(FALSE, Bare("mine"))>>, <<Scalar("tags", Bare("mine"))>>, <<Flow("tags", <<>>)>>,
     <<Open("tags"), Item(TRUE, Bare("mine")), Comment(TRUE), Item(TRUE, Bare("theirs"))>>,
     <<Open("tags"), Item(TRUE, Bare("mine")), Blank, Item(TRUE, Bare("theirs"))>>,
     <<Open("tags"), Item(TRUE, Bare("mine")), Space, Item(TRUE, Bare("theirs"))>>,
     Listing("tags", <<"mine">>) \o Listing("tags", <<"theirs">>), Listing("tags", <<"go", "go">>)}
Linked(quote) == Written(quote, Link("x"))
BlockLinks == {<<>>, <<Open("related"), Item(TRUE, Linked("double"))>>, <<Scalar("related", Linked("double"))>>,
               <<Open("related"), Item(TRUE, Bare("x"))>>}
FlowLinks == {<<Flow("related", <<Linked(q), Written(q, Link("y"))>>)>> : q \in {"single", "double"}}
Rest == {<<>>, <<Scalar("enriched_at", Bare("then")), Open("openwhisker"), SubKey("job_id", Bare("job"))>>,
         <<Blank, Comment(FALSE), Scalar("enrich_attempts", Bare("one")), Scalar("mine", Bare("yes"))>>, <<Rule>>}
Notes(links) == {Note(Title \o t \o l \o r) : t \in TagLines, l \in links, r \in Rest}
OddNotes == {[plain |-> FALSE, lines |-> Note(Title).lines], [plain |-> TRUE, lines |-> <<Text("body")>>],
             Note(Listing("tags", <<"mine">>)), Note(<<>>), Note(<<Rule>> \o Title)}

Enriched(tags, related, review) ==
    [tags |-> tags, related |-> related, review |-> review, route |-> review, candidates |-> ~review]
Links(n) == [i \in 1..n |-> Link(<<"x", "y", "z">>[i])]
Answers == {Enriched(<<>>, <<>>, FALSE), Enriched(<<Word("go"), Word("raw/chat")>>, Links(1), TRUE),
            Enriched(<<Word("new")>>, <<>>, FALSE), Enriched(<<Word("status/final")>>, Links(2), TRUE),
            Enriched(<<Word("mine")>>, Links(3), FALSE), Enriched(<<>>, Links(3), TRUE)}
MCEnrichments == [file : Notes(BlockLinks \cup FlowLinks) \cup OddNotes, answer : Answers, vocab : {{"go"}}]
=============================================================================
