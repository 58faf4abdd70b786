------------------------------ MODULE AgentRun ------------------------------
(***************************************************************************)
(* A run of an agent on a skill (internal/agent/agent_runner.go and        *)
(* tool_calling_engine.go, internal/agentdispatch): a model is asked, turn *)
(* by turn, until it calls submit_result, within budgets of tool calls,    *)
(* bytes and time, while the index behind its tools is maintained.  The    *)
(* model is external: it answers any of a set of messages.                 *)
(***************************************************************************)
EXTENDS VaultTools

CONSTANTS Scenarios,     \* a skill and its trigger, what the model may answer, the
                         \* notes there are, and how much may happen meanwhile
          MaxViolations, \* MaxProtocolViolations, 2 in the code
          SchedulerCap,  \* the most calls of a tick without a query, 4 in the code
          WallClock      \* the skill's seconds, in ticks of the clock

ASSUME RunLimitsAssumption == {MaxViolations, SchedulerCap, WallClock} \subseteq Nat \ {0}

\* A budget has at least one call and one byte (parseBudgetMap, resolveBudget).
Skill == [runs : BOOLEAN, trigger : {"adhoc", "scheduler"}, scope : SUBSET Seq(STRING), tools : SUBSET STRING,
          calls : Nat \ {0}, bytes : Nat \ {0}, sourcesFail : BOOLEAN, index : BOOLEAN, memory : BOOLEAN]
Call == [tool : STRING, parses : BOOLEAN, path : STRING, query : Seq(STRING), names : SUBSET STRING,
         tags : SUBSET STRING]
Answer == [kind : {"error", "empty", "text", "calls"}, calls : Seq(Call)]
Scenario == [skill : Skill, answers : SUBSET Answer,
             disk : UNION {[notes -> Contents] : notes \in SUBSET Notes}, dirs : SUBSET Directories,
             rescans : [Processes -> {"idle", "start", "reindex"}], newTags : SUBSET STRING,
             enrichments : Nat, turns : Nat, edits : Nat, errors : Nat, faults : Nat]
ASSUME ScenariosAssumption == Scenarios \subseteq Scenario

VARIABLES config,   \* the scenario; its counters go down as their events happen
          clock,
          run,      \* the engine's state and the result it will return
          row,      \* the status of the run's row in agent_runs
          spent     \* history: how the last executed call went, what the model was told

runVars == <<config, clock, run, row, spent>>
vars == <<vaultVars, indexVars, memoryVars, runVars>>

skill == config.skill
Submit == "submit_result"
NoCall == [tool |-> "", parses |-> TRUE, path |-> "", query |-> <<>>, names |-> {}, tags |-> {}]
Exhausting == {"call_count_exceeded", "bytes_exceeded"}
Min2(a, b) == IF a <= b THEN a ELSE b

-----------------------------------------------------------------------------
(***************************************************************************)
(* The start: DispatchAdHoc writes a row of its own, DispatchScheduler     *)
(* runs under the scheduler's.                                             *)
(***************************************************************************)
\* tightenSchedulerBudget.
tightenSchedulerBudget(s) ==
    IF s.trigger = "scheduler" /\ s.calls > 1 THEN Min2(s.calls \div 2, SchedulerCap) ELSE s.calls

\* Mutant: the run's context has no deadline.
NoDeadline(now) == now + 1000

\* Run: runCtx ends MaxWallClockSeconds after the request.
Deadline(now) == now + WallClock

expired == clock >= run.deadline

NotRunning == [pc |-> "idle", deadline |-> 0, calls |-> 0, bytes |-> 0, force |-> FALSE, violations |-> 0,
               batch |-> <<>>, status |-> "none", termination |-> "error", version |-> 0]
NothingSpent == [failedLast |-> FALSE, told |-> {}]

\* Run's validations and the external sources come before the first turn.
Dispatch(accepted) ==
    /\ run.pc = "idle"
    /\ IF ~accepted /\ skill.trigger = "adhoc"
       THEN run' = [run EXCEPT !.pc = "over", !.status = "refused"] /\ UNCHANGED row
       ELSE /\ run' = [run EXCEPT
                          !.pc = IF skill.sourcesFail THEN "finish" ELSE "turn",
                          !.status = IF skill.sourcesFail THEN "failed" ELSE "none",
                          !.deadline = Deadline(clock),
                          !.calls = tightenSchedulerBudget(skill),
                          !.bytes = skill.bytes]
            /\ row' = IF skill.trigger = "adhoc" THEN "running" ELSE row
    /\ UNCHANGED <<clock, spent, vaultVars, indexVars, memoryVars>>

-----------------------------------------------------------------------------
(***************************************************************************)
(* Turns.                                                                  *)
(***************************************************************************)
Fail(termination) ==
    run' = [run EXCEPT !.pc = "finish", !.status = "failed", !.termination = termination, !.batch = <<>>]

\* One more reply that is not a call of a tool; Otherwise is the retry.
Violation(Otherwise) ==
    IF run.violations + 1 >= MaxViolations THEN Fail("protocol_failed") ELSE Otherwise

\* The loop's top, CreateChatCompletion and its answer; when the model has
\* given its answers, it lets the run wait.
Turn(answer) ==
    /\ run.pc = "turn"
    /\ expired \/ config.turns > 0
    /\ IF expired THEN Fail("wall_clock_exceeded")
       ELSE CASE answer.kind = "error" -> Fail("error")
              [] answer.kind = "empty" -> Fail("protocol_failed")
              [] answer.kind = "text" ->
                    Violation(run' = [run EXCEPT !.violations = @ + 1])
              [] answer.kind = "calls" ->
                    run' = [run EXCEPT !.pc = "batch", !.violations = 0, !.batch = answer.calls]
    /\ config' = IF expired THEN config ELSE [config EXCEPT !.turns = @ - 1]
    /\ UNCHANGED <<clock, row, spent, vaultVars, indexVars, memoryVars>>

\* submit_result; the calls behind it are not looked at.
SubmitResult ==
    LET call == Head(run.batch)
    IN  /\ run.pc = "batch" /\ run.batch # <<>> /\ call.tool = Submit
        /\ IF call.parses
           THEN run' = [run EXCEPT !.pc = "finish", !.batch = <<>>,
                                   !.status = IF run.force THEN "partial" ELSE "done",
                                   !.termination = IF run.force THEN @ ELSE "natural"]
           ELSE Violation(run' = [run EXCEPT !.violations = @ + 1, !.batch = Tail(@)])
        /\ UNCHANGED <<config, clock, row, spent, vaultVars, indexVars, memoryVars>>

\* A call that is not executed: the budget is spent, or the tool not allowed.
RejectCall ==
    LET call == Head(run.batch)
    IN  /\ run.pc = "batch" /\ run.batch # <<>> /\ call.tool # Submit
        /\ run.force \/ call.tool \notin skill.tools
        /\ run' = [run EXCEPT !.batch = Tail(@)]
        /\ UNCHANGED <<config, clock, row, spent, vaultVars, indexVars, memoryVars>>

\* Mutant: one call more than the budget has.
GateBelowZero(result, calls, bytes) ==
    IF result.err # "none" THEN "none" ELSE IF calls < 0 THEN "call_count_exceeded"
    ELSE IF bytes <= 0 THEN "bytes_exceeded" ELSE "none"

\* The budget gate; a failed call goes on to the next before it.
Gate(result, calls, bytes) ==
    IF result.err # "none" THEN "none" ELSE IF calls <= 0 THEN "call_count_exceeded"
    ELSE IF bytes <= 0 THEN "bytes_exceeded" ELSE "none"

ExecuteCall ==
    LET call == Head(run.batch)
    IN  /\ run.pc = "batch" /\ run.batch # <<>> /\ call.tool # Submit
        /\ ~run.force /\ call.tool \in skill.tools
        /\ \E result \in Execute(call, skill, expired) :
              LET calls == run.calls - 1
                  bytes == run.bytes - result.bytes
                  gate == Gate(result, calls, bytes)
              IN  /\ run' = [run EXCEPT !.batch = Tail(@), !.calls = calls, !.bytes = bytes,
                                        !.force = gate # "none",
                                        !.termination = IF gate # "none" THEN gate ELSE @]
                  /\ spent' = [failedLast |-> result.err # "none", told |-> spent.told \cup result.told]
        /\ UNCHANGED <<config, clock, row, vaultVars, indexVars, memoryVars>>

\* After the batch: the clock between turns.
EndBatch ==
    /\ run.pc = "batch" /\ run.batch = <<>>
    /\ IF expired THEN Fail("wall_clock_exceeded") ELSE run' = [run EXCEPT !.pc = "turn"]
    /\ UNCHANGED <<config, clock, row, spent, vaultVars, indexVars, memoryVars>>

\* The runner notes the index's generation, the dispatcher closes its row;
\* an error of FinishAgentRun is not looked at.
Finish(saved) ==
    /\ run.pc = "finish"
    /\ run' = [run EXCEPT !.pc = "over",
                          !.version = IF skill.index /\ ~skill.sourcesFail THEN generation ELSE 0]
    /\ row' = IF skill.trigger = "adhoc" /\ saved THEN run.status ELSE row
    /\ UNCHANGED <<clock, spent, vaultVars, indexVars, memoryVars>>

EngineStep ==
    \/ \E answer \in config.answers : Turn(answer)
    \/ SubmitResult
    \/ RejectCall
    \/ ExecuteCall
    \/ EndBatch

-----------------------------------------------------------------------------
(***************************************************************************)
(* The run, the index and the user together.                               *)
(***************************************************************************)
Init ==
    /\ config \in Scenarios
    /\ disk = config.disk /\ dirs = config.dirs
    /\ IndexInit
    /\ MemoryInit(config.rescans)
    /\ clock = 0 /\ run = NotRunning /\ row = "none" /\ spent = NothingSpent

StoreWorks == UNCHANGED config
StoreFails == config.faults > 0 /\ config' = [config EXCEPT !.faults = @ - 1]

Begin ==
    /\ skill.runs
    /\ \/ Dispatch(TRUE) /\ StoreWorks
       \/ Dispatch(FALSE) /\ skill.trigger = "adhoc" /\ StoreFails

Close ==
    \/ Finish(TRUE) /\ StoreWorks
    \/ Finish(FALSE) /\ StoreFails

\* Time matters to a run only.
Tick ==
    /\ run.pc \in {"turn", "batch"} /\ clock < 2 * WallClock
    /\ clock' = clock + 1
    /\ UNCHANGED <<config, run, row, spent, vaultVars, indexVars, memoryVars>>

ScanStep == (\E b \in Scans : Build(b)) /\ UNCHANGED <<memoryVars, runVars>>
WatchStep == (WatchStart \/ WatchRegister \/ WatchMisses \/ WatchLoop) /\ UNCHANGED <<memoryVars, runVars>>

MemoryStep ==
    /\ (\E p \in Processes : RescanAll(p)) \/ Reindex \/ RecordForNote
    /\ UNCHANGED <<vaultVars, indexVars, runVars>>

\* The enrichment's own steps are another model's; this is what it applies.
Enrich ==
    /\ config.enrichments > 0
    /\ \E n \in Notes : EnrichApply(n, config.newTags)
    /\ config' = [config EXCEPT !.enrichments = @ - 1]
    /\ UNCHANGED <<clock, run, row, spent>>

MemoryTrouble ==
    /\ (\E p \in Processes : RescanFails(p)) \/ RecordFails
    /\ StoreFails
    /\ UNCHANGED <<clock, run, row, spent, vaultVars, indexVars>>

Edit ==
    /\ config.edits > 0
    /\ UserEdit
    /\ config' = [config EXCEPT !.edits = @ - 1]
    /\ UNCHANGED <<clock, run, row, spent, memoryVars>>

Trouble ==
    /\ config.errors > 0
    /\ \/ WatchRefused
       \/ \E b \in Scans, kept \in SUBSET events : WatchError(b, kept)
    /\ config' = [config EXCEPT !.errors = @ - 1]
    /\ UNCHANGED <<clock, run, row, spent, memoryVars>>

Next ==
    \/ Begin \/ EngineStep \/ Close \/ Tick
    \/ ScanStep \/ WatchStep \/ MemoryStep
    \/ Edit \/ Enrich \/ Trouble \/ MemoryTrouble

Spec == Init /\ [][Next]_vars

\* Goroutines run on, time passes; nobody has to ask, to edit or to fail.
Fairness ==
    /\ WF_vars(EngineStep) /\ WF_vars(Close) /\ WF_vars(Tick)
    /\ \A b \in Scans : WF_vars(Build(b) /\ UNCHANGED <<memoryVars, runVars>>)
    /\ WF_vars((WatchStart \/ WatchRegister \/ WatchMisses) /\ UNCHANGED <<memoryVars, runVars>>)
    /\ WF_vars((\E e \in events : TakeEvent(e)) /\ UNCHANGED <<memoryVars, runVars>>)
    /\ WF_vars(flushPending /\ UNCHANGED <<memoryVars, runVars>>)

FairSpec == Spec /\ Fairness

-----------------------------------------------------------------------------
(***************************************************************************)
(* Properties.                                                             *)
(***************************************************************************)
TypeOK ==
    /\ disk \in [DOMAIN disk -> Contents \cup {[c EXCEPT !.tags = @ \cup config.newTags] : c \in Contents}]
    /\ DOMAIN disk \subseteq Notes /\ dirs \subseteq Directories
    /\ DOMAIN links \subseteq Notes /\ ready \in BOOLEAN /\ generation \in Nat
    /\ watcher \in {"off", "start", "register", "loop"} /\ watched \subseteq Directories \cup {<<>>}
    /\ rows \in [Notes -> SUBSET (config.newTags \cup UNION {c.tags : c \in Contents})]
    /\ run.pc \in {"idle", "turn", "batch", "finish", "over"}
    /\ run.status \in {"none", "done", "partial", "failed", "refused"}
    /\ run.violations \in 0..MaxViolations /\ run.bytes <= skill.bytes
    /\ row \in {"none", "running", "done", "partial", "failed"}

\* How a run ended tells what became of its budgets: partial goes with a budget
\* that is spent and named, done with a run that was not cut short, and a run
\* goes on unforced beyond a budget only while its last executed call failed.
\* A row that is closed says what the run returned.
EndingsAreExplained ==
    /\ run.status = "partial" => run.force /\ run.termination \in Exhausting
    /\ run.status = "done" => ~run.force /\ run.termination = "natural"
    /\ run.termination = "call_count_exceeded" => run.calls <= 0
    /\ run.termination = "bytes_exceeded" => run.bytes <= 0 /\ run.calls > 0
    /\ run.pc \in {"turn", "batch"} /\ ~run.force /\ (run.calls <= 0 \/ run.bytes <= 0)
          => spent.failedLast
    /\ row \notin {"none", "running"} => row = run.status

\* What the model was told lies in the skill's scope, however stale the index
\* it was told from; only a recall that names no directories looks further.
ToldStaysInScope ==
    \A n \in spent.told : pathInScope(PathOf[n].segs, skill) \/ "recall_memory" \in skill.tools

\* A run's end is accounted for, and what it was told is the skill's to know.
RunInv == TypeOK /\ EndingsAreExplained /\ ToldStaysInScope

\* Whatever the model answers, a run that was begun ends.
RunEnds == run.pc \in {"turn", "batch", "finish"} ~> run.pc \in {"idle", "over"}

\* The daemon's vocabulary only grows: what an enrichment entered stays, though
\* the rescan at the end puts a set in the cache's place that it began to
\* collect before.
VocabularyOnlyGrows == [][cache \subseteq cache']_vars

\* A note that changes where the watcher sees it comes to be in the index as it
\* is on disk, whatever scans, errors and other changes come between, unless
\* the change was lost to a scan under way or to a place not watched.
ChangesArrive ==
    LET backlog == \E n \in Notes \ lost : ~IsFresh(n)
    IN  backlog ~> ~backlog
=============================================================================
