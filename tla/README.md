# A TLA+ model of OpenWhisker

OpenWhisker keeps an Obsidian vault with the help of a language model: it captures raw notes
from Matrix or the command line, lets the model propose plans for them, shows the plans to the
user, and applies what the user approves. The program is a daemon with several goroutines and a
command line tool; they share a SQLite store and the vault, which Obsidian, Obsidian Sync and
the user change at the same time. Almost every handler is a sequence of store statements and
file operations with nothing around them but the `vault_locks` table, so its correctness is a
matter of which of these steps of which process come in which order, and of where a process dies.

This directory holds TLA+ modules translated from the code, TLC runs over small instances, and
proofs for every value of the constants. `PROJECT.json` says for each definition which lines of
the source it stands for.

    tlc -workers 2 -config MCPlanRaces.cfg MCPlanApproval     # one run
    tlapm Delivery_proofs.tla                                 # one proof module

## 1. The system

Paths are below `internal/` unless they start with `cmd/`. "Right when" is what makes the
component correct; what of it is stated as a property is in section 4.

| Component | State it keeps | Operations | Hard because | Right when |
|---|---|---|---|---|
| Plan approval, `core/plans.go` | rows of `vault_plans`, `wiki_jobs`, `outbox_messages`, `vault_operation_logs` | organize, diff, approve, reject, apply | status is tested in one statement and set in another; any error path must close plan, job and outbox; daemon and CLI at once; crashes | nothing is written before approval; completion is never reported falsely; a rejected plan leaves no trace; plans settle |
| Vault executor, `executor/direct_fs.go`, `proposal_note.go` | `vault_locks`, `vault_operation_logs`, the vault | Prepare, Apply, ApplyAsProposal | several operations, no rollback; the note changes between diff and apply; locks outlive a crash | plans that share a path exclude each other; an operation is applied once; every effect is in the audit log |
| File primitives, `executor/path_guard.go` | names, inodes, temporary files | guarded read, create, replace, move | the editor works on the same file between any two calls | no note is overwritten unseen, doubled by a move or seen half-written |
| Sync client, `executor/sync_client.go` | none | pre-sync, post-sync | brings edits into the vault between approval and apply | a failed pre-sync stops the approval |
| Store, `storage` | all tables | transactions | updates do not compare the old value; `ORDER BY` on formatted times | each statement is atomic; locks expire |
| Ingestion and capture buckets, `core/ingest.go` | `capture_buckets`, raw notes | capture, open, append, close, expire | a bucket is read, a note is written, the whole row is saved | a text that was acknowledged is in a note, once; nothing is written behind the user's edit |
| Enrichment, `enrich` | `enrich_jobs`, jobs and plans of attempts | enqueue, scan, claim, one attempt, finish, reset | worker, scanner, CLI and user on the same note; retries with a ceiling | a note is enriched once, no edit is lost, every note is enriched or given up |
| Adapter and intent router, `core/adapter.go`, `intent_router.go` | `adapter_events`, `clarifications` | handle a message, ask back, resolve | the event is recorded before it is handled, a clarification before its action | a message has its effect once |
| Matrix adapter, `adapters/matrix` | `since` token, outbox | poll, deliver | sending and marking as sent are two steps | a message is carried out at most once and never passed over; a notice arrives; the bots do not answer themselves |
| Scheduler, `core/scheduler.go` | `scheduler_runs`, `scheduler_runtime` | tick, run, skip, misfire | the test for a running row and its creation are two steps; crashes leave rows | a window is run again only after a failure and dropped only with a row that says so; the schedule goes on |
| Registry, cron, runners, `scheduler` | none | parse, next time, fetch | calendar boundaries | the next time is the least later match |
| Policy, `policy` | none | check a plan | many rules | refuses what a plan may not do |
| Memory and recall, `memory` | `memory_tag_index`, `memory_known_tags`, a cache | rescan, reindex, record, recall | a rescan beside the hook of an enrichment | known tags are not forgotten |
| Link index, `vault/linkindex` | maps in memory, pending paths | scan, watch, flush, rebuild, query | scans and the watcher read while the user writes | a change that is seen comes to be in the index |
| Agents, `agent`, `agentdispatch` | `agent_runs` | tool loop, tools, answers into plans | a model that answers anything; three budgets and several ways to end | a run ends, its ending is accounted for, it is told nothing outside of its scope |
| Daemon and CLI, `cmd/openwhisker` | processes and goroutines | start, stop, commands | all of the above at once | shutdown leaves no half state that blocks |
| Text helpers, `markdown`, `sanitize`, `profile`, `model`, rendering | none | parse, format | - | pure |

How they interact: a message or command reaches ingestion or the intent router; ingestion writes
a raw note through the executor and enqueues it for enrichment; organizing makes a plan through
an agent, the policy and the executor's Prepare; approval applies it through the executor; the
worker applies enrichments through the same executor and the same `vault_locks`; results go to
the outbox and from there to Matrix. No component calls another process: they meet in the store
and in the vault.

## 2. Modules

| Module | Models | Built on |
|---|---|---|
| `Vault` | a note as a set of marks (who contributed text), the four operation kinds, when one is ready, what it leaves | |
| `VaultLocks` | the statements on `vault_locks`: reap, acquire all or nothing, release by plan | |
| `PlanApproval` | organize, approve, reject and apply, statement by statement, with store errors, crashes and edits | `Vault`, `VaultLocks` |
| `PlanPromise` | what approval promises, in three variables and three actions | |
| `EnrichQueue` | capture hook, scanner, worker, command and one enrichment attempt | `Vault`, `VaultLocks` |
| `DirectFS` | the executor's operations as file system calls, with the user's editor between them | `Vault` |
| `Delivery` | the daemon's Matrix loop and scheduler loop, the homeserver, the outbox, the sync token | |
| `DeliveryPromise` | what delivery promises: a stage per message and per notice | |
| `Conversation` | a source's messages: router, clarifications, capture buckets, organizing | |
| `Scheduler` | ticks of the daemon and of a command, agents by hand, overrides, restarts | |
| `Cron`, `VaultPaths`, `Frontmatter` | pure: cron expressions and their search; checks of paths; notes as lines, their readers, renderer and guard | |
| `Registry`, `Policy`, `Planner` | pure: declarations of skills and their lint; checks of plans; answers of models as plans | the three above |
| `Intake` | one request to one of these at a time | `Registry`, `Planner` |
| `LinkIndex` | scan, watcher, flush and rebuild of the link index, the user's files | `VaultPaths` |
| `Memory` | rescan, reindex, the hook of an enrichment, recall | `LinkIndex` |
| `VaultTools` | the tools a model may call, on the notes and the index as they are | `Memory` |
| `AgentRun` | a run of an agent: turns, budgets, endings, its row; composes all of these four | `VaultTools` |
| `PlanApproval_proofs` | typing, the lock rows and exclusion, outcome and refinement, the audit trail, what is written once | `PlanApproval` |
| `EnrichQueue_proofs` | the queue's invariant, its two step properties, the order of its rows and the count of attempts | `EnrichQueue` |
| `DirectFS_proofs` | files and names between calls, what is lost, the one step of `Vault` | `DirectFS` |
| `Delivery_proofs` | loops and store, the sync token, echoes, refinement | `Delivery` |
| `Scheduler_proofs` | rows and ticks, one run at a time, repeats, windows | `Scheduler` |
| `Conversation_proofs` | what handlers have in hand, rows and notes, questions, copies of a text | `Conversation` |
| `AgentRun_proofs` | types, endings and budgets of a run, what a model is told, the cache | `AgentRun` |
| `Intake_proofs` | the checks of plans, the search of cron expressions, loaded skills and their lint, plans the agents build | `Intake` |
| `MC*` | instances for TLC | |

How they meet. `PlanApproval` and `EnrichQueue` take one operation on the vault as one step,
`OpApplied`; `DirectFS` takes it apart and `OneStepAsInVault`, proved by `CallsAreOneStep`, says
when that is right. `DirectFS`
has one executor per path; `PlansExclude` proves that of `PlanApproval`. `Conversation` takes an
approval as one step whose outcome `PlanApproval` details, and a message as received, which
`Delivery` makes it be at most once. `Scheduler` takes the windows of a cron expression as a
constant, which `Cron` computes, and a skill's outcome as a choice, which `AgentRun` details; the
outbox it writes to is delivered in `Delivery`.

### Plan approval

An actor is a handler: a command in the Matrix loop of the daemon or in a CLI process. `pc[a]`
is the next store statement or file operation, `cmd[a]` its plan, `idx[a]` the operation of
Apply's loop, `verdict[a]` the error Apply will return. `planStatus`, `approvedAt`, `jobStatus`,
`opLog`, `outbox`, `owner` and `lapsed` are the columns they are named after; `beforeHash` holds
what Prepare recorded.

- Organizing: `BeginOrganize` (CreateJob), `PlanProposed` or `PlannerFails` (planner and policy),
  `SavePlan`, `PrepareOp` once per operation, `PublishPlan`, `OrganizeSetJob`,
  `OrganizeAnnounce`, which a handler told to be quiet leaves out or not (OrganizeLast does not
  ask, `core/plans.go:234`); the error path is `OrganizeFailPlan`, `OrganizeFailJob`.
- Approving: `BeginApprove` tests the status, `MarkApproved` sets it, then the policy once more,
  the job, the plan, `PreSync`, and Apply: `AcquireLocks` or `LocksRefused`, `Preflight` (which
  looks at all operations before any is applied), per operation `ApplyOperation` and `LogApplied`
  or `OperationRefused` and `LogFailed`, and the deferred `ReleaseLocks`. A high-risk plan goes
  through `ProposalCheck` and writes its proposal note instead. `FinishPlan`, `FinishJob`,
  `AnnounceResult`, or `FailPlan`, `FailJob`, `AnnounceFailure`, end it.
- Rejecting: `BeginReject`, `MarkRejected`, `RejectSetJob`, `RejectAnnounce`.
- Trouble: `StoreError` at every statement, with what the code does about it (some errors are
  returned, some ignored); `ApplyFails`, `MoveHalfDone`, `PreSyncFails`, `ApprovalRefused`;
  `Crash`, which runs no deferred call; `UserEdit` at any time; `LocksLapse` and `OpenStore`.

`LocksLapse` needs a plan nobody is applying: `storage/store.go:18` chooses `DefaultLockTTL` to
be longer than any healthy Apply, and the model takes it at its word. An Apply that outlives the
thirty minutes is outside of the model.

`KeepsPromise` is the refinement: with `approved` as `approved_at`, `logged` as the applied rows
of the audit log and `reported` as the places that say "complete" (plan, job, outbox), every step
of every handler is a step of `PlanPromise` or none.

### Enrichment

`row` is `enrich_jobs` (state and attempts by path) and `line` the order of its `enqueued_at`.
Runners are the daemon's worker and processes of `openwhisker enrich`; `pc`, `note` (the claimed
path), `seen` (beforeContent), `result` (what Finish will be told) and `records` (job and plan of
the attempt) are theirs. `hook` is IngestRaw between the note and the enqueue, `quiet` the mtime
window of the scanner, `vocab` the daemon's first RescanAll, for which attempts wait.

Points where the model is coarser than the code, and why nothing is lost by it: the two updates
that close an attempt's plan and job are one step, `CloseRecords`, since nobody else reads those
rows; the attempt's rows in the operation log are not repeated here; locks of other plans on the
note appear as a lock error (`RunFails`). One point where it is wider: `Requeued` lets a row
come up last or last but one, because `formatTime` drops trailing zeros of the fraction
(`storage/store.go:1173`) and two stamps of one second may sort either way as text.

### File primitives

`dir` maps paths to inodes and `file` inodes to text and size; `temp` is the executor's temporary
file, `litter` those left by a crash. One action is one system call (Lstat, open with
fstat, ReadAll, CreateTemp, the write of it, link, unlink, Lstat with `sameFile`, rename). A freed
inode number may be used again. The user saves in place or by replacing the file, with or without
a change of size (ticking a checkbox keeps it), creates, deletes and moves notes. `late` collects
the text of edits that no check to come can show: the file then has the inode and size the
executor remembers, or the call that replaces or unlinks the path comes next. Such a set is needed
because the code does lose these edits, and the property says that it loses no others. Not in the
model: symbolic links and path resolution, writes through descriptors opened before the note was
replaced, and what a loss of power does to unsynced directories.

### Delivery

`pc["matrix"]` and `pc["scheduler"]` are the two goroutines of the daemon. `room` is the timeline,
`since` and `sinceFile` the sync token in memory and on disk, `recorded` is `adapter_events`,
`outbox` with `delivered` is `outbox_messages`, `queue[l]` the positions of the rows loop l has
pulled and not yet delivered, which it takes in their order. A poll is
`Sync`, per accepted message `Take` (TryRecordAdapterEvent), `Handle`, `Notify` or `Answer`, then
`Pull`, `Send` and `Mark` per notice, and `StoreToken`. The scheduler loop is `Tick` and the same
delivery. A request that fails may have been carried out (`AnswerFails`, `SendFails`); statements
fail; after `MaxFailures` failed ticks in a row, or when the token cannot be written, both loops
stop (`Down`); `Restart` reads the token from disk. Credentials decide who posts (`Account`) and
who is ignored (`IgnoredUsers`), and need not agree: an access token is not asked whose it is.
What a message does is `Conversation`'s; here it happens once, `effects` counts it.

### Conversation

A handler `hs[h]` is a process in HandleText, with the row, hash and note it has read. Bucket b
writes note b, a sequence of the texts and edits in it, which is its own hash. `Receive` starts a
message of a kind (what the rules of the router make of its wording); `ReadQuestion` and `Settle`
come first, then `Classify` by rule or model, then the action: `Ingest`, `FinishIngest`, `Store`
for a new group; `Find`, `Get`, `Compare`, `ApplyAppend`, `Store` for an append; the like for
close and organize, with `Shut` for a row past its deadline or with another hash. `told` holds
the texts reported as saved, `slipped` and `torn` what a failure left undone. The rows are
numbered by `updated_at`, since `ORDER BY` is all the code asks of the time; the stamp is taken
before the statement (`core/ingest.go:210`), so that with two processes a row may come in at any
place (`Places`). `Decide` and `DecideNamed` approve or reject a plan (`Approved`, `Rejected`); an
applied one has moved the raw note (`Moved`), and later appends and plans find it gone.

### Scheduler

`proc` holds the processes that tick, with the registry as read and the row in memory (`seen`,
`row`); `runtime`, `overrides`, `runs`, `notices` are tables. A tick is `TickStart`, and for each
schedule `ReadRuntime` (with reconcileSchedule), `SaveRuntime`, `CheckRunning`, then `RecordSkip`
or `CreateJob`, `CreateRun`, `Dispatch`, `Notify`, `FinishRun`, `FinishJob`, and `Advance`. An
error ends the tick for the schedules behind it, as does a schedule without an occurrence.
`Stop` is SIGTERM, `Restart` the supervisor. Time is the minutes at which something is due.

That a row's next time is later than its last run (`NextIsLater`) holds while the daemon alone
ticks: a `scheduler tick` that read a declaration before it was edited, and that the daemon's
tick then overtakes, writes back the old hash and a next time that has already been served.

### Intake

One request, one answer. `FindWindow` parses an expression and searches; `LoadSkills` loads a vault's
declarations and lints each directory; `Organize` and `Expand` make plans of a model's answers
and check them; `CheckPlan` puts a plan to the three checks; `Enrich` renders an answer into a
note and guards it. Documents are data of fields and lines, not text: what the three parsers of
frontmatter make differently of the same lines (where a list ends, what a comment, a cut
bracket or a line of spaces is) is kept, because it decides what survives. A line of spaces
(`Space`) ends the items of a list but not its block, which an empty line (`Blank`) ends too. Where
a declaration has a list in brackets for a text, the text is the brackets (`Brackets`).

The requests are constants, and what the
code guarantees about them before the call is stated as assumptions: conventions are those of a
profile (`PlansAssumption`); profiles are built in the code, so that their roots are paths and
their default engine is none with tools (`VaultsAssumption`); a raw note that is organized lies in
the inbox (`OrganizingsAssumption`); a note that is expanded was found in the vault
(`ExpansionsAssumption`); a line of a note has one value, a list or neither, what the user
or the model wrote in it is whole, the note was found in the vault, and the tag that asks for a
review is of the class of that name (`EnrichmentsAssumption`). `BuiltPlansPass` has a part for each of the three builders of plans.

### Link index, memory, tools, agent

`disk` is the vault; `links` the installed outlinks; `scan[b]` a Build in progress, one for the
start and one for a rebuild after a watcher error; `events`, `pending`, `watched` the watcher's.
`lost` is history: the notes whose change the code cannot come to know of (changed under a scan
that had passed them or that broke off before them, in a directory not yet registered, moved or
removed along with their directory, of which only the directory is reported (`MoveDir`), or any
note once the watcher failed to start or gave up). Such a set is needed because the code does lose
these; `ChangesArrive` is about every other change, and a later change of a note takes it out
again. `rows`, `known`, `cache` are the memory's two
tables and its cache, `rescan` the daemon's RescanAll and that of a command, `hook` an enrichment
from its apply through RecordForNote, with one statement for
each tag. A listed note that is gone ends a rescan, or is passed over if it goes between lstat and
the read. `VaultTools` gives the result of a call on the state as it is: an error, or the notes it shows, with their weight. `AgentRun` is the loop: `Turn`,
`SubmitResult`, `RejectCall`, `ExecuteCall`, `EndBatch`, and `Dispatch` and `Finish` around it.
Coarser than the code: one query of a recall is one step, and scores and order are a choice.

## 3. Fairness

- `PlanApproval`: weak fairness of `Step(a)`, a handler that was called goes on, and of
  `LocksLapse`, time passes. Nothing makes a command arrive, a process fail or a user edit.
- `EnrichQueue`: weak fairness of the steps of worker and command, of the scanner's content and
  enqueue steps, of the quiet window, of the first rescan and of lapsing locks. Strong fairness of
  `ScanRow(n)`: each tick walks all files, so a note that is eligible again and again is met,
  even if it was busy when earlier ticks came by. None for capture hooks, edits, commands, faults.
- `Delivery`: weak fairness of each loop (they poll and tick for ever) and of `Restart`, which
  launchd or systemd does. The faults are bounded: with a homeserver that fails for ever nothing
  arrives.
- `Scheduler`: weak fairness of the daemon's tick, of a command's tick once begun, of the end of
  an agent started by hand (its run has a deadline) and of `Restart`. Time may stand still.
- `AgentRun`: weak fairness of the engine, of the closing of the row, of the clock (a deadline
  comes), of each scan, of the watcher's start, of its events and of its timer. The model may
  let a run wait; nothing makes a run begin or a user edit.
- `DirectFS`, `Conversation` and `Intake` have safety properties only.

## 4. Runs

| Run | Configuration | Shows |
|---|---|---|
| `plan_approval` | an ordinary plan (create, move) or a high-risk one, organized in the run, two handlers, of which one syncs and one is quiet, one fault, one edit; fair | `NoEffectBeforeApproval`; `AuditInv`: every effect is in the audit log and every lock has a holder or a crash behind it; plans settle (`ApprovalSettles`), locks come free (`LocksComeFree`) |
| `plan_races` | two prepared plans for the same raw note, two handlers, one fault | `ApprovalInv` with `MutualExclusion` and `CompletionIsReal`, `NoDoubleEffect`, and the refinement `KeepsPromise` |
| `reject_race` | one prepared plan, two handlers | fails: `RejectedLeavesNoTrace` |
| `enrich_queue` | one note, worker, scanner, one command, two attempts, one fault, one edit; fair | `NoEditLost`, `EnrichedOnce`, `WaitingHasAttempts`, `RunningHasRunner`, `RecordsClosed`, and `EnrichmentSettles` |
| `direct_fs` | all four kinds on two paths, four inode numbers, one fault, two edits | `OnlyLateEditsAreLost`, `OneStepAsInVault`; `FilesInv`: notes are whole, moves do not copy |
| `delivery` | four settings of credentials and allowlist; one user, one or two messages, one notice of the scheduler and those of messages, one or two faults, a pull of one row, two failed ticks to give up; fair | the refinement `KeepsPromise`; `DeliveryInv` with `NoEcho` and `NothingSkipped`; `MessagesAreTaken`, `NoticesArrive` |
| `conversation` | one process with five messages, an edit and a fault, or with four messages, an edit, a deadline and two faults; two processes with three messages; the router switched off | `SavedOnce`, `NoTextAfterEdit`, `AnswerGoesWhereAsked`; `BucketsInv` with `MismatchMeansChanged` |
| `scheduler` | one or two schedules with windows at minutes 1 and 2, in nine scenarios of edits, SIGTERM, an agent by hand, a second process, failing skills, a schedule without an occurrence, one or two faults; fair | `WindowsAreAccountedFor`, `RepeatsAreExplained`, `OneRunAtATime`; `SchedulerInv` with `NextIsLater`, `DoneWasAnnounced` and `NothingLeftBehind`; `DueIsServed` |
| `intake` | days of four hours of two minutes, zones that move their clocks at noon and back at midnight; vaults, answers, plans and notes one step away from one that is in order | `CronIsFirstMatch`, `LoadedSkillsAreBounded`, `LintTellsWhatLoads`, `BuiltPlansPass`, `ApprovedStaysInside`, `EnrichKeepsUserFields` |
| `cron_midnight` | zones that move forward at midnight as well | fails: `CronIsFirstMatch` |
| `related_lost` | links in brackets, in quotes | fails: `RelatedIsAppendOnly` |
| `assistant` | three notes in two directories, three edits (of notes, or moves of a directory), one error of the watcher; agents with four sets of tools, up to three answers of the model; two enrichments, a reindex or an edit beside a rescan; fair | `RunInv` with `EndingsAreExplained` and `ToldStaysInScope`; `RunEnds`, `VocabularyOnlyGrows`, `ChangesArrive` |

Every passing run also checks the `TypeOK` of its module, most as a part of the invariant named
after it (`AuditInv`, `ApprovalInv`, `FilesInv`, ...). Each property of a passing run comes with a mutant
of a modelled definition (a dropped check, a swapped order, a missing release) under which TLC
finds it violated.

Why the bounds are enough. The hazards of plan approval are between two handlers, on one plan or
on two plans that share a path; two handlers and two plans of two operations (so that there is a
before, a between and an after) contain all such pairs, and a third handler could only repeat
what one of the two does. One fault reaches every single failure, including a crash with locks
held followed by another approval. What the runs cannot show, several faults and longer plans, is
covered for the safety properties by the proofs, which have no bounds. The enrichment needs two
attempts to see both a retry and the ceiling, and one command to see reset against the worker.
Two edits are what it takes to reuse an inode number. Delivery with a pull of one row has more
rows than a pull takes, with two failed ticks the daemon gives up within the faults; one message
replayed is enough for a duplicate. A conversation needs a group, a question about it, a message
in between and an answer, that is four messages, and a fifth for a second group. Two windows make
one that is passed over and one that follows. Days of eight minutes, with months that end and
zones that move by a fourth of a day, have every case the search distinguishes. `CHECK_DEADLOCK FALSE` where
with all commands given, or all bounds used, the system may stop.

### Where code and documents disagree

With a run:

- `reject_race`. Reject and Approve test the status (`core/plans.go`), then set it without
  comparing (`storage/store.go:163`). If both test first, the plan can end as `rejected` with its
  operations in the vault, contrary to what the tests of rejection state.
- `cron_midnight`. The cursor of the search (`scheduler/cron.go:110`) is meant to stand at
  midnight. Where the clocks skip midnight it comes to stand at one o'clock and stays there:
  hours before it are skipped on every later day.
- `related_lost`. `docs/30-design/inbox-enrichment.md:129` has `related` only grow. A list of
  links in brackets is cut at the first `]` by the renderer and by the guard alike, so the loss
  passes.

Found violated by the model, no run kept:

- `docs/30-design/inbox-enrichment.md:69` counts on the scan to notice that the user removed
  `openwhisker_enriched_at`. A row that is `done` is passed over (`enrich/scan.go:155`) and not
  revived by the enqueue (`storage/store.go:899`).
- `cmd/openwhisker/main.go:511` says that of the command and a worker only one wins the claim. The
  command's Reset makes a running row pending before it claims (`storage/store.go:924`), so both
  run the note. It stays harmless: `NoEditLost` and `EnrichedOnce` hold with the command in the
  model. The command claims the oldest row, which need not be the one it reset, and prints the
  result under its own path (`main.go:576`).
- `README.md:74` says concurrent changes are refused. Between `sameFile` and rename they are
  overwritten. `executor/path_guard.go:145` says any concurrent edit of the source rides along;
  one made by replacing the file between link and unlink is unlinked.
- `docs/30-design/matrix-adapter.md:447` has no duplicates from retried deliveries: a notice sent
  and not marked is sent again under a new transaction id. `:583` has events that were not
  committed kept and retried: the token moves past a message whose handling failed.
- An organized bucket is written back as active by an append that had read it before, when two
  processes serve the source (`storage/store.go:436`).
- `docs/30-design/scheduler.md:207`: one schedule does not run concurrently, which two processes
  that tick can make it do (`core/scheduler.go:166`); a tick's error does not end the process,
  which the third in a row does.

Seen while translating:

- a failed first RescanAll leaves the worker waiting for good (`memory/service.go:162`;
  `EnrichmentSettles` excuses it), while `main.go:1163` has the vocabulary block until it is
  there; a row left `running` by a crash is taken up only by the command;
  `inbox-enrichment.md:144` has a skipped row wait while ClaimNext takes it at once.
- a note that vanishes during the first scan fails Build, and the daemon never starts the watcher
  (`main.go:1120`); a file made in a new directory before the loop has registered it is not seen;
  a directory that is renamed or removed leaves its notes in
  the index under their old paths (`vault/linkindex/linkindex.go:396`); a link whose
  target appears or goes is not resolved anew in other notes; maps are installed
  before `generation` counts them; `docs/30-design/agent-tooling.md:147` has the generation
  recorded per call, the runner notes it once, at the end.
- `agent-tooling.md:152` has a run stop at whichever budget is met first; after a failed call the
  gate is skipped (`agent/tool_calling_engine.go:236`) and the next call runs beyond it.
  DispatchAdHoc ignores errors of FinishAgentRun, whose row stays `running`.
- `createResponseWithRetry`'s second request for a blank answer is unreachable: CreateResponse
  makes a blank answer an error (`agent/openai_raw_organizer.go:137`). A rename with one affected
  path builds a move onto itself (`agent/openai_knowledge_expander.go:249`).
- LintAgentSkillDir does not check external sources, and `recall_memory` is no tool a skill can
  declare (`scheduler/registry.go`); a refusal by the policy of an enrichment sends no debug
  notice; a recall for all of several tags that repeats one, or writes one in capitals, finds
  nothing (`memory/recall.go`); a command's rescan can write older tags over the hook's rows.

## 5. Proofs

All theorems are for arbitrary constants, from the named ASSUMEs of the modules: plans are
non-empty sequences of operations, a high-risk plan stands for one create, `NoPlan` and `Absent`
are not plans or paths, bounds are naturals. The bounds on faults, edits and commands are
constants, so "for every value" means any number of them.

- `TypeCorrect`: `TypeOK`, which is inductive alone. It carries more than types: a handler has a
  plan, stands at one of its operations, and has an error when it is on an error path.
- `PlansExclude`: `MutualExclusion`. That two appliers never share a path does not follow from
  itself; it needs `HoldsLocks` (an applier has an unexpired row under its plan's id for each
  target) and `OnePerPlan` (two appliers have different plans). The latter two and typing are
  inductive: acquisition fails on any taken row, also on one of the same plan, release by plan id
  takes nobody else's rows as plan ids of appliers differ, and lapsing spares plans being applied.
- `ApprovalInvariant`: adds `LogKeepsUp` (how far the log is, from where a handler stands),
  `CompletionIsReal` and `ApprovedFirst`. `CompletionsAreReal` and `ApprovalKeepsPromise` follow:
  initial states map to initial states, and each action is matched with the step of `PlanPromise`
  it implements, given the invariant. `ApprovalComesFirst` is `NoEffectBeforeApproval`.
- `AuditInvariant` (`AuditInv`): an effect gets its mark in the vault only in the step that leaves
  its handler at the log, and a handler leaves the log with the row or with a fault (`MarksStep`,
  `AuditNext`); a lock row whose holder leaves the vault is released in that step, or a fault was
  counted (`HoldersNext`).
- `TextIsWrittenOnce` (`NoDoubleEffect`): `DraftInv` says that until a plan is published nothing
  of it stands in the vault, so no `before_hash` of it is the hash of a note with its text
  (`HashInv`); as an operation goes ahead only on the note with that hash, it finds none of its
  own text there. The property is about one note. Over the whole vault it would be false: a create
  compares no hash, so a plan approved twice creates its note again when another plan has moved
  the first one away in between. TLC shows this with two plans of one operation each.
- `EnrichInvariant`: typing, `FreshRows` (no row, no attempts), `WaitingHasAttempts`,
  `RunningHasRunner`, `SeenIsBare` and `ClosedAtRest`. `FreshRows` is needed for the insert;
  `SeenIsBare` (what an attempt holds between first read and write is not enriched) is what makes
  `EnrichedOnce` a consequence of the hash comparison; `ClosedAtRest` extends `RecordsClosed` to
  the places between Claim and CreateJob, and to the command's. From it `RetriesAreLeft`,
  `RunnersOwnRows`, `AttemptsClose`, and for the steps `RewritesKeepNotes`: `NoEditLost` and
  `EnrichedOnce`.
- `QueueInvariant` adds to it what `TypeOK` says of the rows. `LineInv`: the line holds the paths
  that have a row, each once; a requeue takes a path out of the line before it puts it back
  (`RequeuedLine`, on lemmas about `RemoveAt` and `InsertAt`), and `ClaimedRows` is needed for
  Finish, which must not make a row that is not in line. `TallyInv`: the attempts of a row and
  those under way on it are together at most the ceiling and one for each command. The bound is
  not the ceiling, since the command may reset a row a stale attempt is still going to finish;
  counting what is under way makes it inductive: Finish moves an attempt from the runner to the
  row, Claim finds one left, and after a reset there are no more than there are runners. From it
  `RowsStandInLine`, which is `TypeOK`. Assumed is that the commands are finitely many.

- `FilesInvariant`, from `FilesIInv` of `DirectFS_proofs`, which says between any two system calls
  and whatever the user has saved, deleted and moved: what the executor has in hand fits the call
  it stands at (`Hand`); every file with a name is written out, the temporary file has none and
  holds what `NoteAfter` says (`Texts`); a file that still passes `sameFile` has the text that was
  read, late edits aside (`Guarded`); what a move is about to unlink is at the other name too, or
  late (`Taken`); and two names share a file only within a move (`Apart`). `Guarded` needs that the
  text of an edit is new to the executor, which `Texts` provides by counting edits.
  `OnlyLateTextIsLost` and `CallsAreOneStep` look at the call that replaces or unlinks, given the
  invariant; both need that `Absent` is no text, which TLC cannot evaluate as an ASSUME and which
  is a hypothesis of the theorems.
- `DeliveryInvariant` (`LoopsInv`): where each loop stands against the store and the room. A
  message that is being handled is recorded and not yet carried out (the same message cannot come
  again, as only the Matrix loop polls), and a loop that goes to mark a row has shown it. Given
  that, `DeliveryKeepsPromise` maps each step to a change of one stage of `DeliveryPromise` or to
  none. `TokenSkipsNothing` adds what the poll in progress has dealt with, up to its place, since
  the token moves to where the poll began to read, not to where it stands. `BotsDoNotEcho`, and
  with it all of `DeliveryInv`, has a hypothesis on the settings, `BotsKeptOut`: each account the
  bots post with is ignored or outside of an allowlist. Credentials that name their account (a
  session, a password, a token with a user id) imply it, `NamedTokensSuffice`; with a bare token
  it is the operator's to keep, and without it the bots do answer themselves.
- `TicksInvariant` (`TicksInv`), for both processes that tick: the row a process has in memory,
  the run it works on and the row of that run are what a tick at its place has written, and no
  two processes work on the same run. `AloneInvariant` (`AloneInv`), while no `scheduler tick`
  has begun: the row in memory is the one in the table (`RowIsCurrent`, the table changes only by
  the owner of the row), the only unfinished run of a schedule is the tick's own (`NoOtherRun`),
  runs belong to due windows (`RunsAreDue`), and each attempt at a window but one has cost a
  fault (`AttemptsArePaid`). The last is stronger than the property it is for: a window that has
  not been passed has as many attempts as faults, and the one that comes for free is the one
  that passes it. `RowsFitTogether` (`SchedulerInv`), `OneRunOfASchedule` and `RepeatsArePaid`
  follow; `NoWindowIsLost` is `WindowsAreAccountedFor`, a property of each step given both.
- `ChatInvariant` (`ChatInv`), for any number of processes in HandleText: what a handler has in
  hand fits its place (`HandlerOK`), no two handlers have the same message, and a handler that is
  past its write finds the text in the note. `NoTextAfterEdit` is inductive given the types: the
  hash Apply compares with is a sequence of texts, so an equal note holds no edit.
  `NothingAfterAnEdit` needs no more, whoever else writes the note or the row.
- `SoleInvariant` (`SoleInv`), while one process serves the source. Two of them overwrite each
  other's rows and both take an answer for theirs, so each part is only true of one: the row in
  the table has the hash of its note, unless the user or a cut-off append has changed that
  (`Clean`) or the append in hand has written the note and not yet the row (`RowsMatch`); the row
  in hand is that row, or the next (`RowInHand`); a pending question that no statement failed on
  is the latest, is about the active group, and lasts no longer than the message that settles it
  (`QuestionsOK`), which is why an answer still finds that group active (`AnswerInHand`); a text
  has one copy, and none while its question is open or a handler has it waiting (`CopiesOK`).
  The last two need each other: a text is waiting only because its question has just been
  resolved. `AnswersGoWhereAsked`, `TextsAreSavedOnce` and `BucketsTellTheTruth` follow.
- `RunInvariant` and `VocabularyGrows`, from `AgentInv` of `AgentRun_proofs`: the types of the vault,
  the index, the memory and the run with each other (a link resolves to a note or to none, a row
  of tags names a note, a result weighs a natural number because there are finitely many notes).
  `Undecided` is what makes `EndingsAreExplained` inductive: until a run ends, a budget is named
  when, and only when, it has forced the run. `ExecuteIsSound` goes through the tools one by one:
  whatever the arguments and however stale the index, what a tool tells lies below a root of the
  skill's scope; only `recall_memory` is exempt, which without directories looks at the whole
  vault. `FilledFirst` is the reason why the cache only grows: until the daemon's rescan is over
  the cache is empty and no enrichment has begun, and that rescan is not begun again. Assumed are
  the shapes of notes, paths and scenarios, finitely many notes, and budgets above zero, as
  `parseBudgetMap` and `resolveBudget` leave them.

- `Intake` has one request at a time, so its theorems (in `Intake_proofs`) are about its pure
  definitions; the invariants (`PlanInv`, `WindowInv`, `SkillsInv`, `BuiltInv`, `EnrichInv`) say
  that a verdict is that of a request there is.
  - `PlansStayInside` (`ApprovedStaysInside`) goes through the checks of each kind of operation;
    that no plan passes two of them rests on what each asks of risk, approval and operations.
  - `WindowsAreFound` (`CronIsFirstMatch`) has a hypothesis, `DaysInOrder`: within the horizon each
    day has a first minute, at which the clock shows midnight, and the days follow each other. It
    is what the search by days relies on, and `cron_midnight` shows that the property fails
    without it. Under it a day that does not match has no matching minute, and the hours and
    minutes of one that does are tried in order, with the zone's offset moving in between.
  - `SkillsStayBounded` (`LoadedSkillsAreBounded`): whatever a document says, the checks it passes
    bound it; ids are unique since a document with an id that is taken refuses the registry.
  - `LintIsReliable` (`LintTellsWhatLoads`): the lint of a directory and the walk of the registry
    find the same documents under a profile that is in order, and then ask the same of them,
    but for the sources.
  - `BuiltPlansFit` (the first two parts of `BuiltPlansPass`): line by line through the draft that
    is rendered, where its block closes and what each reader finds in it; and for an expander's
    plan, the conjuncts of the check that the builder makes true for any answer.
  - `WhatIsBuiltPasses` (`BuiltPlansPass`) adds the third part, that an enrichment of a note as
    this program writes it (`Canonical`) always passes. The pieces the renderer made stand side by
    side (`CanonicalIsLaid`, `StandAt`), so that the field of a key is found where its piece begins
    (`FieldMoves`) and no key has come from anywhere else (`KeyIsFrom`). A field the enrichment
    may not write is copied line by line (`FieldCopied`), a list the note has is read back as
    what it was and then what was added (`ListWritten`), and a list it did not have as what was
    added (`ListAdded`). From these, conjunct by conjunct, `GuardPasses` and `CanonicalPasses`;
    `CheckEnrichPlan` has nothing else to refuse once the path is one of the vault. That the
    lists end where their items do (`OnlyItems`) is needed: the readers end a list differently
    at a comment or a blank line, which the program itself does not write there.
  - `UserFieldsAreKept` (`EnrichKeepsUserFields`) takes the file before and after apart into the
    pieces the renderer made of each line (`FlattenPlaces`, `RenderedAs`) and puts the blocks the
    guard sees beside each other (`BlockKept`). The renderer and the guard need not agree on where
    a block ends: if the guard's ends later, the lines behind are copied (`LateBlock`); if it ends
    earlier, at an indented fence, that fence must have been copied, as otherwise the bodies, which
    the guard compares, would differ in their number of fences (`DroppedFence`). What the renderer
    loses of a list that it reads to its first line that is no item, the guard refuses (`ListKept`).

Model-checked only: the liveness properties (`ApprovalSettles`, `LocksComeFree`,
`EnrichmentSettles`, `MessagesAreTaken`, `NoticesArrive`, `DueIsServed`, `RunEnds`,
`ChangesArrive`), which need fairness and so are outside of the prover. Every invariant and
every action property of the passing runs that is not one of these is stated by a theorem; what
the violated runs refute is of course stated by none.

## 6. Plan

The modules are written, and the safety properties of all of them are proved. What could be
added are the parts of §7 and properties for the six hazards of the list that have none. One is
outside of the modules: an Apply that outlives its lock. Five are in them, and the code does not
prevent them: a scan that trusts a done row more than the note, the wait for a first RescanAll
that failed, a row left running by a crash, a bucket opened again by a second process, and a
schedule that two processes run at once. The properties above are stated so as to hold beside
these, and section 4 tells what the documents say of them.

## 7. Not modelled, and why

Layout and wording of notes, prompts and messages have no state a property here is about;
content hashes are taken to be injective and ids to be unique. What a language model or a remote
server answers is a choice. Which wording a router's rule knows is a choice too. Containment of
symbolic links, the external sync command, fetching RSS, the static runner, login and the HTTP
encoding, migrations, flag parsing, printing, listings and status reports are input and output.
Of two lists in brackets read as texts it is not told whether they are the same.
Of recall, scores, their order and the `since` filter are left out; of a run, its trace. An Apply
that outlives `DefaultLockTTL` (`storage/store.go:18`) is outside of the model, and so is the
order of formatted times within a second, except where `Requeued` lets a row sort either way.
