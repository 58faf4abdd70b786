----------------------------- MODULE Scheduler -----------------------------
(***************************************************************************)
(* The scheduler (core/scheduler.go, scheduler_status.go and               *)
(* scheduler_suggestions.go, agentdispatch/dispatcher.go and the loop of   *)
(* cmd/openwhisker/main.go): the daemon ticks, `scheduler tick` is a       *)
(* process of its own, a chat starts an agent by hand.  A tick walks       *)
(* through the registry; each statement it sends to the store is a step.   *)
(* Time is the number of minutes at which some schedule is due; what a     *)
(* cron expression matches is Windows (module Cron computes it).           *)
(***************************************************************************)
EXTENDS Naturals, Sequences, FiniteSets

CONSTANTS Schedules,
          Windows,       \* of each schedule, the minutes its cron expression matches
          Daemon, Once,  \* the processes: openwhisker daemon, openwhisker scheduler tick
          Scenarios,     \* the values of config
          MaxFailures,   \* schedulerMaxConsecutiveFailures
          MaxClock       \* bound: minutes

ASSUME SchedulerAssumption ==
    /\ Windows \in [Schedules -> SUBSET (0..MaxClock)]
    /\ Daemon # Once
    /\ MaxFailures \in Nat \ {0}
    /\ MaxClock \in Nat
ASSUME ScenariosAssumption ==
    \A c \in Scenarios : c.registry \in Seq(Schedules) /\ c.outcomes \subseteq {"done", "partial", "failed"}

VARIABLES config,    \* the registry in its order, the schedules of it whose next occurrence
                     \* is more than five years away, the ways the skills end; and bounds:
                     \* edits of declarations and overrides, ticks of the second process,
                     \* agents started by hand, SIGTERMs, suggestions accepted, faults
          clock,
          files,     \* SCHEDULE.md: its hash and its enabled field
          overrides, \* scheduler_overrides
          runtime,   \* scheduler_runtime
          runs,      \* agent_runs and the wiki_job of each, by creation
          notices,   \* the outbox messages of runs
          proc,      \* the processes that tick
          byHand,    \* the run an agent started by hand works on, 0 for none
          cancelled, \* whether the daemon's context is cancelled
          failures,  \* consecutive ticks that failed
          captured,  \* runs whose suggestion was ingested
          edits, ticks, agents, stops, faults

vars == <<config, clock, files, overrides, runtime, runs, notices, proc, byHand, cancelled,
          failures, captured, edits, ticks, agents, stops, faults>>

budgets == <<edits, ticks, agents, stops, faults>>
world == <<config, clock, files, overrides, byHand, cancelled, captured>>

Processes == {Daemon, Once}
Present == {config.registry[i] : i \in DOMAIN config.registry}
Never == MaxClock + 1
NoRow == [hash |-> 0, next |-> Never, last |-> Never]
NoRegistry == [s \in {} |-> 0]
Idle == [pc |-> "idle", left |-> <<>>, seen |-> NoRegistry, now |-> 0, row |-> NoRow,
         run |-> 0, status |-> "", ended |-> 0]
Gone == [Idle EXCEPT !.pc = "out"]

Finished == {"done", "partial", "failed", "cancelled", "skipped"}
Effective == {"done", "partial", "failed"}

-----------------------------------------------------------------------------
(***************************************************************************)
(* What a schedule's declaration says at a time.                           *)
(***************************************************************************)
\* NextAfter: the first occurrence strictly later.
NextAfter(s, t) == LET later == {w \in Windows[s] : w > t} \cup {Never}
                   IN  CHOOSE w \in later : \A v \in later : w <= v

\* CurrentWindow, or else the next one.
FirstWindow(s, t) == IF t \in Windows[s] THEN t ELSE NextAfter(s, t)

EnabledNow(s) == IF overrides[s] = "unset" THEN files[s].enabled ELSE overrides[s] = "on"

\* LoadRegistry and schedulerSchedulesWithOverrides.
Declared == [s \in Schedules |-> [hash |-> files[s].hash, enabled |-> EnabledNow(s)]]

\* Mutant: every tick computes the next run anew.
ReconciledAnew(s, decl, row, now) ==
    IF row = NoRow THEN [hash |-> decl.hash, next |-> FirstWindow(s, now), last |-> Never]
    ELSE [row EXCEPT !.hash = decl.hash, !.next = NextAfter(s, now)]

\* reconcileSchedule: the row as the registry now says it; an edited
\* declaration starts at its next occurrence.
Reconciled(s, decl, row, now) ==
    IF row = NoRow THEN [hash |-> decl.hash, next |-> FirstWindow(s, now), last |-> Never]
    ELSE IF row.hash = decl.hash THEN row
    ELSE [row EXCEPT !.hash = decl.hash, !.next = NextAfter(s, now)]

\* advanceRuntime, on the row the tick has in memory.
Advanced(s, row, t) == [row EXCEPT !.next = NextAfter(s, t), !.last = t]

\* Mutant: nobody looks.
HasRunningBlind(s) == FALSE

\* HasRunningSchedulerRun: every kind of run counts.
HasRunning(s) == \E i \in DOMAIN runs : runs[i].schedule = s /\ runs[i].status = "running"

-----------------------------------------------------------------------------
(***************************************************************************)
(* Processes.                                                              *)
(***************************************************************************)
Fault == faults < config.faults /\ faults' = faults + 1
NoFault == faults' = faults

Become(p, r) == proc' = [proc EXCEPT ![p] = r]
At(p, label) == proc[p].pc = label
Subject(p) == Head(proc[p].left)

\* The loop goes on to the next schedule.
NextSchedule(p) ==
    Become(p, [Idle EXCEPT !.pc = "read", !.left = Tail(proc[p].left), !.seen = proc[p].seen, !.now = proc[p].now])

Goto(p, label) == Become(p, [proc[p] EXCEPT !.pc = label])

\* The end of a tick; the daemon's loop counts the errors in a row.  A
\* second process prints the result and is gone.
EndTick(p, n) ==
    /\ failures' = IF p = Once THEN failures ELSE n
    /\ Become(p, IF p = Daemon /\ (n >= MaxFailures \/ cancelled) THEN Gone ELSE Idle)

TickError(p) == Fault /\ EndTick(p, failures + 1)

\* CreateJob, CreateSchedulerRun.
NewRun(s, kind, status, window, job) ==
    [schedule |-> s, kind |-> kind, status |-> status, window |-> window, job |-> job, linked |-> FALSE]

SetRun(i, status, job, linked) ==
    runs' = [runs EXCEPT ![i].status = status, ![i].job = job, ![i].linked = linked]

-----------------------------------------------------------------------------
(***************************************************************************)
(* A tick.                                                                 *)
(***************************************************************************)
\* The beginning of Tick: the clock, the registry and the overrides.
TickStart(p) ==
    /\ At(p, "idle")
    /\ IF p = Once THEN ticks < config.ticks /\ ticks' = ticks + 1 ELSE ticks' = ticks
    /\ \/ /\ Become(p, [Idle EXCEPT !.pc = "read", !.left = config.registry, !.seen = Declared, !.now = clock])
          /\ NoFault /\ failures' = failures
       \/ TickError(p)
    /\ UNCHANGED <<world, runtime, runs, notices, edits, agents, stops>>

\* GetSchedulerRuntime; a schedule without an occurrence ends the tick for
\* every schedule behind it.
ReadRuntime(p) ==
    /\ At(p, "read") /\ proc[p].left # <<>>
    /\ LET s == Subject(p)
       IN  \/ /\ s \notin config.barren
              /\ Become(p, [proc[p] EXCEPT !.pc = "save",
                                           !.row = Reconciled(s, proc[p].seen[s], runtime[s], proc[p].now)])
              /\ NoFault /\ failures' = failures
           \/ s \in config.barren /\ EndTick(p, failures + 1) /\ NoFault
           \/ TickError(p)
    /\ UNCHANGED <<world, runtime, runs, notices, edits, ticks, agents, stops>>

\* SaveSchedulerRuntime; a schedule that is disabled or not yet due is done.
SaveRuntime(p) ==
    /\ At(p, "save")
    /\ LET s == Subject(p)
       IN  \/ /\ runtime' = [runtime EXCEPT ![s] = proc[p].row]
              /\ IF proc[p].seen[s].enabled /\ proc[p].row.next <= proc[p].now
                 THEN Goto(p, "check") ELSE NextSchedule(p)
              /\ NoFault /\ failures' = failures
           \/ TickError(p) /\ UNCHANGED runtime
    /\ UNCHANGED <<world, runs, notices, edits, ticks, agents, stops>>

CheckRunning(p) ==
    /\ At(p, "check")
    /\ \/ /\ Goto(p, IF HasRunning(Subject(p)) THEN "skip" ELSE "job")
          /\ NoFault /\ failures' = failures
       \/ TickError(p)
    /\ UNCHANGED <<world, runtime, runs, notices, edits, ticks, agents, stops>>

\* Mutant: a skip leaves no trace, neither a row nor a later window.
RecordSkipNothing(p) ==
    /\ At(p, "skip")
    /\ NextSchedule(p)
    /\ NoFault /\ failures' = failures
    /\ UNCHANGED <<world, runtime, runs, notices, edits, ticks, agents, stops>>

\* skipSchedule: the row of a run that did not take place.
RecordSkip(p) ==
    /\ At(p, "skip")
    /\ \/ /\ runs' = Append(runs, NewRun(Subject(p), "schedule", "skipped", proc[p].row.next, "none"))
          /\ Become(p, [proc[p] EXCEPT !.pc = "advance", !.ended = proc[p].now])
          /\ NoFault /\ failures' = failures
       \/ TickError(p) /\ UNCHANGED runs
    /\ UNCHANGED <<world, runtime, notices, edits, ticks, agents, stops>>

\* runSchedule: the job, then the run's row; without a row the job has failed.
CreateJob(p) ==
    /\ At(p, "job")
    /\ \/ /\ runs' = Append(runs, NewRun(Subject(p), "schedule", "none", proc[p].row.next, "applying"))
          /\ Become(p, [proc[p] EXCEPT !.pc = "row", !.run = Len(runs) + 1])
          /\ NoFault /\ failures' = failures
       \/ TickError(p) /\ UNCHANGED runs
    /\ UNCHANGED <<world, runtime, notices, edits, ticks, agents, stops>>

CreateRun(p) ==
    /\ At(p, "row")
    /\ LET i == proc[p].run
       IN  \/ /\ SetRun(i, "running", "applying", FALSE)
              /\ Goto(p, "dispatch")
              /\ NoFault /\ failures' = failures
           \/ TickError(p) /\ \E job \in {"failed", "applying"} : SetRun(i, "none", job, FALSE)
    /\ UNCHANGED <<world, runtime, notices, edits, ticks, agents, stops>>

\* What the skill's run ends as; a cancelled context is preferred to a
\* result, a tool loop that was cancelled can report a failure of its own.
Outcomes(p) == IF p = Daemon /\ cancelled THEN {"cancelled", "failed"} ELSE config.outcomes

Dispatch(p) ==
    /\ At(p, "dispatch")
    /\ \E status \in Outcomes(p) :
          Become(p, [proc[p] EXCEPT !.pc = "notify", !.status = status, !.ended = clock])
    /\ UNCHANGED <<world, runtime, runs, notices, failures, budgets>>

\* AddOutboxMessage; a run nobody can be told of has failed, as far as the
\* next two statements reach.
Notify(p) ==
    /\ At(p, "notify")
    /\ LET i == proc[p].run
           kind == IF proc[p].status \in {"done", "partial"} THEN "result" ELSE "error"
       IN  \/ /\ notices' = notices \cup {[run |-> i, kind |-> kind]}
              /\ Goto(p, "finish")
              /\ NoFault /\ failures' = failures
              /\ UNCHANGED runs
           \/ /\ TickError(p)
              /\ \E status \in {"failed", "running"}, job \in {"failed", "applying"} :
                    SetRun(i, status, job, FALSE)
              /\ UNCHANGED notices
    /\ UNCHANGED <<world, runtime, edits, ticks, agents, stops>>

\* Mutant: a cancelled tick leaves at once.
FinishRunUnlessCancelled(p) ==
    /\ At(p, "finish")
    /\ IF proc[p].status = "cancelled" THEN EndTick(p, 0) /\ UNCHANGED runs
       ELSE SetRun(proc[p].run, proc[p].status, "applying", TRUE) /\ Goto(p, "job_status") /\ failures' = failures
    /\ NoFault
    /\ UNCHANGED <<world, runtime, notices, edits, ticks, agents, stops>>

\* FinishAgentRun
FinishRun(p) ==
    /\ At(p, "finish")
    /\ LET i == proc[p].run
       IN  \/ /\ SetRun(i, proc[p].status, "applying", TRUE)
              /\ Goto(p, "job_status")
              /\ NoFault /\ failures' = failures
           \/ TickError(p) /\ \E job \in {"failed", "applying"} : SetRun(i, "running", job, FALSE)
    /\ UNCHANGED <<world, runtime, notices, edits, ticks, agents, stops>>

\* Mutant: a failed run keeps its window as well.
FinishJobRetries(p) ==
    /\ At(p, "job_status")
    /\ SetRun(proc[p].run, proc[p].status, "done", TRUE)
    /\ IF proc[p].status \in {"failed", "cancelled"} THEN NextSchedule(p) ELSE Goto(p, "advance")
    /\ NoFault /\ failures' = failures
    /\ UNCHANGED <<world, runtime, notices, edits, ticks, agents, stops>>

\* UpdateJobStatus; a cancelled run keeps its window for the next start.
FinishJob(p) ==
    /\ At(p, "job_status")
    /\ LET i == proc[p].run
           job == IF proc[p].status \in {"failed", "cancelled"} THEN "failed" ELSE "done"
       IN  \/ /\ SetRun(i, proc[p].status, job, TRUE)
              /\ IF proc[p].status = "cancelled" THEN NextSchedule(p) ELSE Goto(p, "advance")
              /\ NoFault /\ failures' = failures
           \/ TickError(p) /\ UNCHANGED runs
    /\ UNCHANGED <<world, runtime, notices, edits, ticks, agents, stops>>

Advance(p) ==
    /\ At(p, "advance")
    /\ LET s == Subject(p)
       IN  \/ /\ runtime' = [runtime EXCEPT ![s] = Advanced(s, proc[p].row, proc[p].ended)]
              /\ NextSchedule(p)
              /\ NoFault /\ failures' = failures
           \/ TickError(p) /\ UNCHANGED runtime
    /\ UNCHANGED <<world, runs, notices, edits, ticks, agents, stops>>

\* runSchedulerDaemonTick: the outbox is delivered when the schedules are
\* done (module Delivery); a delivery that fails counts as a failed tick.
FinishTick(p) ==
    /\ At(p, "read") /\ proc[p].left = <<>>
    /\ \/ EndTick(p, 0) /\ NoFault
       \/ p = Daemon /\ TickError(p)
    /\ UNCHANGED <<world, runtime, runs, notices, edits, ticks, agents, stops>>

-----------------------------------------------------------------------------
(***************************************************************************)
(* The rest of the daemon, its users, crashes.                             *)
(***************************************************************************)
\* DispatchAdHoc: a row of its own under the schedule's id, finished by
\* nobody else.
StartByHand(s) ==
    /\ byHand = 0 /\ ~At(Daemon, "out")
    /\ agents < config.agents
    /\ agents' = agents + 1
    /\ runs' = Append(runs, NewRun(s, "by_hand", "running", Never, "none"))
    /\ byHand' = Len(runs) + 1
    /\ UNCHANGED <<config, clock, files, overrides, runtime, notices, proc, cancelled, failures,
                   captured, edits, ticks, stops, faults>>

EndByHand ==
    /\ byHand # 0
    /\ \/ \E status \in config.outcomes : SetRun(byHand, status, "none", FALSE) /\ NoFault
       \/ UNCHANGED runs /\ Fault
    /\ byHand' = 0
    /\ UNCHANGED <<config, clock, files, overrides, runtime, notices, proc, cancelled, failures,
                   captured, edits, ticks, agents, stops>>

\* SIGTERM: the context is cancelled; between two ticks the loop leaves.
Stop ==
    /\ ~cancelled /\ ~At(Daemon, "out")
    /\ stops < config.stops
    /\ stops' = stops + 1
    /\ cancelled' = TRUE
    /\ proc' = IF At(Daemon, "idle") THEN [proc EXCEPT ![Daemon] = Gone] ELSE proc
    /\ UNCHANGED <<config, clock, files, overrides, runtime, runs, notices, byHand, failures,
                   captured, edits, ticks, agents, faults>>

\* launchd or systemd starts the daemon again when all its loops have left.
Restart ==
    /\ At(Daemon, "out") /\ byHand = 0
    /\ Become(Daemon, Idle)
    /\ cancelled' = FALSE /\ failures' = 0
    /\ UNCHANGED <<config, clock, files, overrides, runtime, runs, notices, byHand, captured, budgets>>

Crash(p) ==
    /\ proc[p].pc \notin {"idle", "out"} \/ (p = Daemon /\ byHand # 0)
    /\ Fault
    /\ Become(p, IF p = Daemon THEN Gone ELSE Idle)
    /\ byHand' = IF p = Daemon THEN 0 ELSE byHand
    /\ UNCHANGED <<config, clock, files, overrides, runtime, runs, notices, cancelled, failures,
                   captured, edits, ticks, agents, stops>>

Tock ==
    /\ clock < MaxClock
    /\ clock' = clock + 1
    /\ UNCHANGED <<config, files, overrides, runtime, runs, notices, proc, byHand, cancelled, failures,
                   captured, budgets>>

EditFile(s) ==
    /\ edits < config.edits /\ edits' = edits + 1
    /\ \E enabled \in BOOLEAN : files' = [files EXCEPT ![s] = [hash |-> @.hash + 1, enabled |-> enabled]]
    /\ UNCHANGED <<config, clock, overrides, runtime, runs, notices, proc, byHand, cancelled, failures,
                   captured, ticks, agents, stops, faults>>

\* SetScheduleEnabled; there is no way back to the file's own field.
SetScheduleEnabled(s, value) ==
    /\ edits < config.edits /\ edits' = edits + 1
    /\ overrides[s] # value
    /\ overrides' = [overrides EXCEPT ![s] = value]
    /\ UNCHANGED <<config, clock, files, runtime, runs, notices, proc, byHand, cancelled, failures,
                   captured, ticks, agents, stops, faults>>

\* AcceptRawCapture: only a run that is done; nothing notes that it was
\* accepted, so the same item is ingested as often as it is asked for.
AcceptRawCapture(i) ==
    /\ Len(captured) < config.accepts
    /\ runs[i].status = "done"
    /\ captured' = Append(captured, i)
    /\ UNCHANGED <<config, clock, files, overrides, runtime, runs, notices, proc, byHand, cancelled,
                   failures, budgets>>

-----------------------------------------------------------------------------
Init ==
    /\ config \in Scenarios
    /\ edits = 0 /\ ticks = 0 /\ agents = 0 /\ stops = 0 /\ faults = 0
    /\ clock = 0
    /\ files = [s \in Schedules |-> [hash |-> 1, enabled |-> TRUE]]
    /\ overrides = [s \in Schedules |-> "unset"]
    /\ runtime = [s \in Schedules |-> NoRow]
    /\ runs = <<>> /\ notices = {} /\ captured = <<>>
    /\ proc = [p \in Processes |-> Idle]
    /\ byHand = 0 /\ cancelled = FALSE /\ failures = 0

TickStep(p) ==
    \/ TickStart(p) \/ ReadRuntime(p) \/ SaveRuntime(p) \/ CheckRunning(p) \/ RecordSkip(p)
    \/ CreateJob(p) \/ CreateRun(p) \/ Dispatch(p) \/ Notify(p) \/ FinishRun(p) \/ FinishJob(p)
    \/ Advance(p) \/ FinishTick(p)

Next ==
    \/ \E p \in Processes : TickStep(p) \/ Crash(p)
    \/ \E s \in Present : \/ StartByHand(s) \/ EditFile(s)
                          \/ \E value \in {"on", "off"} : SetScheduleEnabled(s, value)
    \/ \E i \in DOMAIN runs : AcceptRawCapture(i)
    \/ EndByHand \/ Stop \/ Restart \/ Tock

Spec == Init /\ [][Next]_vars

\* A process that is in a tick goes on, the daemon's timer fires, the
\* supervisor restarts it, and an agent's run has a deadline.
Fairness ==
    /\ WF_vars(TickStep(Daemon))
    /\ WF_vars(TickStep(Once) /\ ~At(Once, "idle"))
    /\ WF_vars(EndByHand)
    /\ WF_vars(Restart)

FairSpec == Spec /\ Fairness

-----------------------------------------------------------------------------
(***************************************************************************)
(* Properties.                                                             *)
(***************************************************************************)
Alone == ticks = 0

WorkedOn(i) == byHand = i \/ \E p \in Processes : proc[p].run = i

\* The rows are what their columns allow; the time of the next run is
\* always an occurrence of the schedule (SaveSchedulerRuntime).
TypeOK ==
    /\ clock \in 0..MaxClock /\ failures \in 0..MaxFailures /\ cancelled \in BOOLEAN
    /\ overrides \in [Schedules -> {"unset", "on", "off"}]
    /\ \A s \in Schedules : /\ runtime[s].next \in Windows[s] \cup {Never}
                            /\ runtime[s].last \in 0..MaxClock \cup {Never}
    /\ \A i \in DOMAIN runs : /\ runs[i].status \in Finished \cup {"running", "none"}
                              /\ runs[i].job \in {"none", "applying", "done", "failed"}
    /\ notices \subseteq [run : DOMAIN runs, kind : {"result", "error"}]
    /\ byHand \in 0..Len(runs)

\* The next run is after the last one (reconcileSchedule, advanceRuntime); one
\* process ticks: of two, one that had read the declarations before an edit
\* goes back to a time before the other's run.
NextIsLater ==
    Alone => \A s \in Schedules : runtime[s].last # Never => runtime[s].next > runtime[s].last

\* A schedule has at most one run of the scheduler in progress, also when a
\* crash left one behind (HasRunningSchedulerRun before CreateSchedulerRun);
\* one process ticks.
OneRunAtATime ==
    Alone => \A i, j \in DOMAIN runs :
                /\ i # j /\ runs[i].schedule = runs[j].schedule
                /\ runs[i].kind = "schedule" /\ runs[j].kind = "schedule"
                => ~(runs[i].status = "running" /\ runs[j].status = "running")

\* A run recorded as ended well, and a suggestion taken from one, was
\* announced in the outbox first (AddOutboxMessage before FinishAgentRun).
DoneWasAnnounced ==
    \A i \in DOMAIN runs :
        runs[i].kind = "schedule" /\ runs[i].status \in Finished \ {"skipped", "failed"}
        => runs[i].linked /\ \E n \in notices : n.run = i

\* Nothing is left running and no job applying without a process that works
\* on it, unless a process crashed or a statement failed: not by SIGTERM.
NothingLeftBehind ==
    faults = 0 => \A i \in DOMAIN runs :
                     runs[i].status = "running" \/ runs[i].job = "applying" => WorkedOn(i)

\* The rows of the scheduler fit together: the next run is an occurrence,
\* what is recorded as done was announced, and what is recorded as running is.
SchedulerInv == TypeOK /\ NextIsLater /\ DoneWasAnnounced /\ NothingLeftBehind

Attempts(s, w) == {i \in DOMAIN runs : /\ runs[i].kind = "schedule" /\ runs[i].schedule = s
                                       /\ runs[i].window = w /\ runs[i].status \in Effective}

\* Every further run of a window is the price of a crash or of a failed
\* statement (runSchedule advances the row last); one process ticks.
RepeatsAreExplained ==
    Alone => \A s \in Schedules, w \in 0..MaxClock : Cardinality(Attempts(s, w)) <= 1 + faults

\* The next run moves on from a window that was due only when a row tells
\* what became of it, or when its declaration was edited (reconcileSchedule,
\* skipSchedule, runSchedule); one process ticks.
WindowsAreAccountedFor ==
    [][\A s \in Schedules :
          LET w == runtime[s].next
          IN  Alone /\ runtime[s] # NoRow /\ runtime'[s].next # w /\ w <= clock
              => \/ runtime'[s].hash # runtime[s].hash
                 \/ \E i \in DOMAIN runs : /\ runs[i].schedule = s /\ runs[i].window = w
                                           /\ runs[i].status \in Finished \ {"cancelled"}]_vars

\* The schedules a tick reaches.
Reached(s) == \A i \in DOMAIN config.registry :
                 config.registry[i] \in config.barren => \E j \in 1..(i - 1) : config.registry[j] = s

Waiting(s) == s \in Present /\ EnabledNow(s) /\ Reached(s) /\ (runtime[s] = NoRow \/ runtime[s].next <= clock)

\* An enabled schedule that is due, or new, is not for ever: a run, a
\* failure or a skip moves it on, whatever crashed before (Tick).
DueIsServed == \A s \in Schedules : Waiting(s) ~> ~Waiting(s)
=============================================================================
