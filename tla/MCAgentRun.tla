----------------------------- MODULE MCAgentRun -----------------------------
(***************************************************************************)
(* A vault of three notes in two directories, of which the skill may read  *)
(* one; a model that answers well and badly; few other events at a time.   *)
(***************************************************************************)
EXTENDS AgentRun

CONSTANTS none

Rel(segs) == [abs |-> FALSE, segs |-> segs]
K == <<"Knowledge">>
J == <<"Journal">>
MCPathOf ==
    [n \in {"k1", "k2", "j1", "Knowledge", "Journal", "Knowledge/*", "Knowledge/.git", "../Knowledge", "", "/Knowledge"} |->
        CASE n = "k1" -> Rel(<<"Knowledge", "one">>)
          [] n = "k2" -> Rel(<<"Knowledge", "two">>)
          [] n = "j1" -> Rel(<<"Journal", "one">>)
          [] n = "Knowledge" -> Rel(K)
          [] n = "Journal" -> Rel(J)
          [] n = "Knowledge/*" -> Rel(<<"Knowledge", "*">>)
          [] n = "Knowledge/.git" -> Rel(<<"Knowledge", ".git">>)
          [] n = "../Knowledge" -> Rel(<<"..", "Knowledge">>)
          [] n = "" -> Rel(<<>>)
          [] OTHER -> [abs |-> TRUE, segs |-> K]]
MCArchive == <<"Archive">>
MCScanDirs == {K}
MCReadRoots == {K, J}
MCNotes == {"k1", "k2", "j1"}
Link(text, related) == [text |-> text, related |-> related]
Empty == [links |-> {}, tags |-> {}]
ToTwo == [links |-> {Link(<<"two">>, TRUE)}, tags |-> {"old"}]
Others == [links |-> {Link(<<"one">>, FALSE), Link(<<"Knowledge", "two">>, FALSE)}, tags |-> {}]
MCContents == {Empty, ToTwo, Others}

-----------------------------------------------------------------------------
Plain(tool) == [NoCall EXCEPT !.tool = tool]
With(tool, path) == [NoCall EXCEPT !.tool = tool, !.path = path]
Ask(tool, query, names) == [NoCall EXCEPT !.tool = tool, !.query = query, !.names = names]
Tagged(names) == [NoCall EXCEPT !.tool = "recall_memory", !.tags = {"old"}, !.names = names]
Done == Plain(Submit)
Garbled(call) == [call EXCEPT !.parses = FALSE]
Calls(calls) == [kind |-> "calls", calls |-> calls]
Says(kind) == [kind |-> kind, calls |-> <<>>]

Finishing == {Calls(<<Done>>), Calls(<<Garbled(Done)>>), Calls(<<Garbled(Done), Garbled(Done)>>)}
Talking == {Says("text"), Says("empty"), Says("error")}
Reading == {Calls(<<With("read_vault_note", "k1"), With("read_vault_note", "j1"), With("list_vault_dir", "k1")>>),
            Calls(<<With("list_vault_dir", "Knowledge"), Plain("exec"), Done>>),
            Calls(<<With("read_vault_note", "/Knowledge"), Garbled(With("read_vault_note", "k1")),
                    With("list_vault_dir", "../Knowledge")>>)}
Linking == {Calls(<<With("vault_outlinks", "k1"), With("vault_backlinks", "k2")>>),
            Calls(<<With("vault_backlinks", "j1"), With("vault_backlinks", "k2"), Done>>)}
Searching == {Calls(<<Ask("vault_text_search", <<"two">>, {"Knowledge"}), Ask("vault_text_search", <<>>, {})>>),
              Calls(<<Ask("vault_text_search", <<"two">>, {"Journal"}), Ask("vault_text_search", <<"two">>, {})>>),
              Calls(<<Ask("vault_text_search", <<"two">>, {"Knowledge/.git"}), Done>>)}
Recalling == {Calls(<<Ask("recall_memory", <<"two">>, {}), Ask("recall_memory", <<>>, {})>>),
              Calls(<<Tagged({"Knowledge", ""}), Tagged({"Journal"})>>)}

ReadTools == {"list_vault_dir", "read_vault_note"}
LinkTools == {"vault_outlinks", "vault_backlinks"}

ReadSkill == [runs |-> TRUE, trigger |-> "adhoc", scope |-> {K}, tools |-> ReadTools, calls |-> 3, bytes |-> 5,
          sourcesFail |-> FALSE, index |-> TRUE, memory |-> TRUE]
NoSkill == [ReadSkill EXCEPT !.runs = FALSE]

MCDisk == [n \in {"k1", "j1"} |-> ToTwo]
Full == [n \in MCNotes |-> IF n = "k2" THEN Others ELSE ToTwo]
Never == [p \in Processes |-> "idle"]
Calm == [skill |-> ReadSkill, answers |-> {}, disk |-> Full, dirs |-> {K, J},
         rescans |-> Never, newTags |-> {"new"}, enrichments |-> 0,
         turns |-> 0, edits |-> 0, errors |-> 0, faults |-> 0]
Asked(skill_, answers) == [Calm EXCEPT !.skill = skill_, !.answers = answers, !.turns = 3]

MCScenarios ==
    {[Calm EXCEPT !.skill = NoSkill, !.disk = MCDisk, !.edits = 3],
     [Calm EXCEPT !.skill = NoSkill, !.dirs = {J}, !.disk = [n \in {"j1"} |-> Empty], !.edits = 3],
     [Calm EXCEPT !.skill = NoSkill, !.disk = MCDisk, !.edits = 2, !.errors = 1],
     [Asked(ReadSkill, Finishing \cup Talking \cup Reading) EXCEPT !.faults = 1],
     [Asked([ReadSkill EXCEPT !.trigger = "scheduler", !.calls = 7, !.bytes = 2], Finishing \cup Reading) EXCEPT !.faults = 1],
     [Asked([ReadSkill EXCEPT !.tools = LinkTools], Linking) EXCEPT !.edits = 1, !.turns = 1],
     Asked([ReadSkill EXCEPT !.tools = LinkTools, !.index = FALSE], Finishing \cup Linking),
     Asked([ReadSkill EXCEPT !.tools = {"vault_text_search"}], Finishing \cup Searching),
     [Asked([ReadSkill EXCEPT !.tools = {"recall_memory"}], Recalling)
         EXCEPT !.rescans["daemon"] = "start", !.turns = 1],
     [Calm EXCEPT !.skill = NoSkill, !.rescans["daemon"] = "start", !.newTags = {"new", "newer"},
                  !.enrichments = 2, !.faults = 1],
     [Calm EXCEPT !.skill = NoSkill, !.rescans = [p \in Processes |-> IF p = "daemon" THEN "start" ELSE "reindex"],
                  !.enrichments = 1, !.disk = MCDisk],
     [Calm EXCEPT !.skill = NoSkill, !.rescans["daemon"] = "start", !.disk = MCDisk, !.edits = 1],
     Asked([ReadSkill EXCEPT !.tools = {"recall_memory"}, !.memory = FALSE], Finishing \cup Recalling),
     Asked([ReadSkill EXCEPT !.sourcesFail = TRUE], Finishing)}
=============================================================================
