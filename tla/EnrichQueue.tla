---------------------------- MODULE EnrichQueue ----------------------------
(***************************************************************************)
(* The inbox enrichment pipeline (internal/enrich): captured raw notes get *)
(* a row in enrich_jobs, the daemon's worker claims rows and rewrites the  *)
(* notes through the vault executor, a scanner finds notes without a row,  *)
(* and `openwhisker enrich` resets a row and runs one claim of its own in  *)
(* another process.  The store and the vault are all they share.           *)
(***************************************************************************)
EXTENDS Vault, VaultLocks, FiniteSets, SequencesExt

CONSTANTS Worker,      \* the worker goroutine of the daemon
          Clis,        \* processes that run `openwhisker enrich`
          Gone,        \* the plan of an attempt that died
          Base,        \* the text a raw note is captured with
          Enriched,    \* the fields an enrichment writes, openwhisker_enriched_at first
          AttemptsMax, \* EnrichAttemptsMax
          MaxRuns,     \* bound: runs of the command
          MaxFaults,   \* bound: crashes and failed statements
          MaxEdits     \* bound: edits by the user

Runners == {Worker} \cup Clis

ASSUME RunnersAssumption == IsFiniteSet(Clis) /\ Worker \notin Clis /\ NoPlan \notin Runners \cup {Gone}
ASSUME MarksAssumption == Base # Enriched /\ {Base, Enriched} \cap Nat = {}
ASSUME AttemptsAssumption == AttemptsMax \in Nat \ {0}
ASSUME BoundsAssumption == MaxRuns \in Nat /\ MaxFaults \in Nat /\ MaxEdits \in Nat

VARIABLES row,     \* enrich_jobs by raw_path: state and attempts
          line,    \* the raw_paths of the rows by enqueued_at
          vault,   \* the notes under Raw/Inbox
          quiet,   \* notes whose mtime lies before the quiet window
          hook,    \* captured notes, and whether their enqueue is still to come
          owner,   \* vault_locks
          lapsed,
          vocab,   \* the daemon's first scan of the tag vocabulary
          scan,    \* the scanner: what it does next, with which note
          pc,      \* what each runner does next
          note,    \* the raw_path each runner claimed, or is asked to reset
          seen,    \* beforeContent, whose hash is the plan's before_hash
          result,  \* the state the runner will give to Finish
          records, \* wiki_jobs and vault_plans status of the attempt
          runs, faults, edits

lockVars == <<owner, lapsed>>
queueVars == <<row, line>>
envVars == <<quiet, hook, vocab, scan>>
ctrVars == <<runs, faults, edits>>
runVars == <<pc, note, seen, result, records>>
vars == <<queueVars, vault, envVars, lockVars, runVars, ctrVars>>

RowStates == {"none", "pending", "running", "done", "skipped_concurrent_edit", "failed",
              "attempts_exhausted"}
Outcomes == {"done", "skipped_concurrent_edit", "failed"}
Marks == {Base, Enriched} \cup Nat
Notes == (SUBSET Marks) \cup {Absent}
ApplyPcs == {"preflight", "write", "log", "release"}
RunPcs == {"run", "read", "agent", "reread", "plan", "lock"} \cup ApplyPcs \cup {"close", "finish"}
CliPcs == {"cli_reset", "cli_insert", "cli_claim"}

\* openwhisker_enriched_at is in the note's frontmatter.
IsEnriched(n) == vault[n] # Absent /\ Enriched \in vault[n]

\* The runner's plan: one rewrite_note of the note it claimed.
Rewrite(r) == [kind |-> "rewrite", path |-> note[r], dest |-> note[r]]

NoRecords == [job |-> "none", plan |-> "none"]

Init ==
    /\ row = [n \in Paths |-> [state |-> "none", attempts |-> 0]]
    /\ line = << >>
    /\ vault = [n \in Paths |-> Absent]
    /\ quiet = {}
    /\ hook = [n \in Paths |-> "none"]
    /\ owner = [n \in Paths |-> NoPlan]
    /\ lapsed = {}
    /\ vocab = "scanning"
    /\ scan = [at |-> "walk", note |-> NoPlan]
    /\ pc = [r \in Runners |-> "idle"]
    /\ note = [r \in Runners |-> NoPlan]
    /\ seen = [r \in Runners |-> Absent]
    /\ result = [r \in Runners |-> "failed"]
    /\ records = [r \in Runners |-> NoRecords]
    /\ runs = 0
    /\ faults = 0
    /\ edits = 0

-----------------------------------------------------------------------------
(***************************************************************************)
(* The statements on enrich_jobs (internal/storage/store.go).              *)
(***************************************************************************)
\* Mutant: raw_path is not the primary key.
RequeuedTwice(n) == {line \o <<n>>}

\* A row's new enqueued_at is the latest, or the latest but one: formatTime
\* trims zeros, so stamps of the same second may compare either way as text.
Requeued(n) ==
    LET places == {i \in DOMAIN line : line[i] = n}
        rest == IF places = {} THEN line ELSE RemoveAt(line, CHOOSE i \in places : TRUE)
    IN  {InsertAt(rest, k, n) : k \in {Len(rest), Len(rest) + 1} \ {0}}

SetRow(n, st, att) == row' = [row EXCEPT ![n] = [state |-> st, attempts |-> att]]

\* Mutant: a failed row waits for the command.
EnqueueSkippedOnly(n) ==
    IF \/ row[n].state = "none"
       \/ row[n].state = "skipped_concurrent_edit" /\ row[n].attempts < AttemptsMax
    THEN SetRow(n, "pending", row[n].attempts) /\ line' \in Requeued(n)
    ELSE UNCHANGED queueVars

\* EnqueueEnrichJob: insert, or revive a row that failed or was skipped.
Enqueue(n) ==
    IF \/ row[n].state = "none"
       \/ /\ row[n].state \in {"failed", "skipped_concurrent_edit"}
          /\ row[n].attempts < AttemptsMax
    THEN SetRow(n, "pending", row[n].attempts) /\ line' \in Requeued(n)
    ELSE UNCHANGED queueVars

Claimable == {n \in Paths : /\ row[n].state \in {"pending", "skipped_concurrent_edit"}
                            /\ row[n].attempts < AttemptsMax}

\* ClaimNextEnrichJob: the oldest such row, whoever asks.
OldestClaimable(n) ==
    \E i \in 1..Len(line) : /\ line[i] = n /\ n \in Claimable
                            /\ \A j \in 1..(i - 1) : line[j] \notin Claimable

\* Mutant: the ceiling is compared with the attempts before this one.
FinishOneTooMany(n, st) ==
    IF st = "done" THEN SetRow(n, "done", row[n].attempts)
    ELSE SetRow(n, IF row[n].attempts > AttemptsMax THEN "attempts_exhausted" ELSE st,
                row[n].attempts + 1)

\* FinishEnrichJob, whatever the row's state is by now.
FinishRow(n, st) ==
    IF st = "done" THEN SetRow(n, "done", row[n].attempts)
    ELSE SetRow(n, IF row[n].attempts + 1 >= AttemptsMax THEN "attempts_exhausted" ELSE st,
                row[n].attempts + 1)

-----------------------------------------------------------------------------
(***************************************************************************)
(* Where notes come from.                                                  *)
(***************************************************************************)

\* IngestRaw without a bucket has written the note and comes to its hook.
Capture(n) ==
    /\ hook[n] = "none"
    /\ vault[n] = Absent
    /\ vault' = [vault EXCEPT ![n] = {Base}]
    /\ hook' = [hook EXCEPT ![n] = "due"]
    /\ UNCHANGED <<queueVars, quiet, vocab, scan, lockVars, runVars, ctrVars>>

\* The hook enqueues ...
HookEnqueue(n) ==
    /\ hook[n] = "due"
    /\ Enqueue(n)
    /\ hook' = [hook EXCEPT ![n] = "past"]
    /\ UNCHANGED <<vault, quiet, vocab, scan, lockVars, runVars, ctrVars>>

\* ... or not: /no-enrich, an error of the store, a crash before it.
HookLost(n) ==
    /\ hook[n] = "due"
    /\ hook' = [hook EXCEPT ![n] = "past"]
    /\ UNCHANGED <<queueVars, vault, quiet, vocab, scan, lockVars, runVars, ctrVars>>

\* The user saves a note with more text, takes the enrichment fields out, or
\* deletes the note.
UserEdit(n) ==
    /\ edits < MaxEdits
    /\ vault[n] # Absent
    /\ \E new \in {vault[n] \cup {edits + 1}, vault[n] \ {Enriched}, Absent} :
          new # vault[n] /\ vault' = [vault EXCEPT ![n] = new]
    /\ quiet' = quiet \ {n}
    /\ edits' = edits + 1
    /\ UNCHANGED <<queueVars, hook, vocab, scan, lockVars, runVars, runs, faults>>

\* Ten minutes without a write to the note.
QuietWindow(n) ==
    /\ vault[n] # Absent /\ n \notin quiet
    /\ quiet' = quiet \cup {n}
    /\ UNCHANGED <<queueVars, vault, hook, vocab, scan, lockVars, runVars, ctrVars>>

-----------------------------------------------------------------------------
(***************************************************************************)
(* Scanner.Tick, one file of the walk: mtime, row, content, enqueue.       *)
(***************************************************************************)
ScanRow(n) ==
    /\ scan.at = "walk"
    /\ n \in quiet
    /\ row[n].attempts < AttemptsMax
    /\ row[n].state \notin {"running", "done", "attempts_exhausted"}
    /\ scan' = [at |-> "content", note |-> n]
    /\ UNCHANGED <<queueVars, vault, quiet, hook, vocab, lockVars, runVars, ctrVars>>

ScanContent ==
    LET n == scan.note
    IN  /\ scan.at = "content"
        /\ scan' = IF vault[n] = Absent \/ IsEnriched(n)
                   THEN [at |-> "walk", note |-> NoPlan]
                   ELSE [at |-> "enqueue", note |-> n]
        /\ UNCHANGED <<queueVars, vault, quiet, hook, vocab, lockVars, runVars, ctrVars>>

ScanEnqueue ==
    /\ scan.at = "enqueue"
    /\ Enqueue(scan.note)
    /\ scan' = [at |-> "walk", note |-> NoPlan]
    /\ UNCHANGED <<vault, quiet, hook, vocab, lockVars, runVars, ctrVars>>

-----------------------------------------------------------------------------
(***************************************************************************)
(* runEnrich: Reset, a scan of its own, one Claim.                         *)
(***************************************************************************)
Goto(r, l) == pc' = [pc EXCEPT ![r] = l] /\ UNCHANGED <<note, seen, result, records>>

Conclude(r, l, res, job, plan) ==
    /\ pc' = [pc EXCEPT ![r] = l]
    /\ result' = [result EXCEPT ![r] = res]
    /\ records' = [records EXCEPT ![r] = [job |-> job, plan |-> plan]]
    /\ UNCHANGED <<note, seen>>

Return(r) ==
    /\ pc' = [pc EXCEPT ![r] = "idle"]
    /\ note' = [note EXCEPT ![r] = NoPlan]
    /\ seen' = [seen EXCEPT ![r] = Absent]
    /\ result' = [result EXCEPT ![r] = "failed"]

BeginCli(r, n) ==
    /\ r \in Clis /\ pc[r] = "idle" /\ runs < MaxRuns
    /\ hook[n] # "none"
    /\ runs' = runs + 1
    /\ pc' = [pc EXCEPT ![r] = "cli_reset"]
    /\ note' = [note EXCEPT ![r] = n]
    /\ UNCHANGED <<queueVars, vault, envVars, lockVars, seen, result, records, faults, edits>>

\* ResetEnrichJob's UPDATE: any state goes back to pending.
CliReset(r) ==
    LET n == note[r]
    IN  /\ pc[r] = "cli_reset"
        /\ IF row[n].state = "none"
           THEN Goto(r, "cli_insert") /\ UNCHANGED queueVars
           ELSE Goto(r, "cli_claim") /\ SetRow(n, "pending", 0) /\ line' \in Requeued(n)
        /\ UNCHANGED <<vault, envVars, lockVars, ctrVars>>

\* Its INSERT, which fails when a row has come up since.
CliInsert(r) ==
    LET n == note[r]
    IN  /\ pc[r] = "cli_insert"
        /\ IF row[n].state = "none"
           THEN Goto(r, "cli_claim") /\ SetRow(n, "pending", 0) /\ line' \in Requeued(n)
           ELSE Return(r) /\ UNCHANGED <<records, queueVars>>
        /\ UNCHANGED <<vault, envVars, lockVars, ctrVars>>

\* Nothing to claim: the command ends with an error.
CliEmpty(r) ==
    /\ pc[r] = "cli_claim"
    /\ Claimable = {}
    /\ Return(r)
    /\ UNCHANGED <<records, queueVars, vault, envVars, lockVars, ctrVars>>

\* Worker.Run and runEnrich claim alike: not necessarily the note asked for.
Claim(r, n) ==
    /\ pc[r] = IF r = Worker THEN "idle" ELSE "cli_claim"
    /\ OldestClaimable(n)
    /\ SetRow(n, "running", row[n].attempts)
    /\ pc' = [pc EXCEPT ![r] = "run"]
    /\ note' = [note EXCEPT ![r] = n]
    /\ records' = [records EXCEPT ![r] = NoRecords]
    /\ UNCHANGED <<line, vault, envVars, lockVars, seen, result, ctrVars>>

-----------------------------------------------------------------------------
(***************************************************************************)
(* RunOne.  Conclude is an UpdateJobStatus whose error is ignored; nobody  *)
(* but the attempt itself touches its job and its plan.                    *)
(***************************************************************************)

\* WaitReady, then CreateJob.  The command has scanned before it claims.
StartRun(r) ==
    /\ pc[r] = "run"
    /\ r = Worker => vocab = "ready"
    /\ pc' = [pc EXCEPT ![r] = "read"]
    /\ records' = [records EXCEPT ![r].job = "applying"]
    /\ UNCHANGED <<note, seen, result, queueVars, vault, envVars, lockVars, ctrVars>>

\* Mutant: the marker is not looked for.
ReadNoteAnyway(r) ==
    LET n == note[r]
    IN  /\ pc[r] = "read"
        /\ IF vault[n] = Absent
           THEN Conclude(r, "finish", "done", "done", "none")
           ELSE /\ pc' = [pc EXCEPT ![r] = "agent"]
                /\ seen' = [seen EXCEPT ![r] = vault[n]]
                /\ UNCHANGED <<note, result, records>>
        /\ UNCHANGED <<queueVars, vault, envVars, lockVars, ctrVars>>

\* A note that is missing or enriched already needs nothing.
ReadNote(r) ==
    LET n == note[r]
    IN  /\ pc[r] = "read"
        /\ IF vault[n] = Absent \/ IsEnriched(n)
           THEN Conclude(r, "finish", "done", "done", "none")
           ELSE /\ pc' = [pc EXCEPT ![r] = "agent"]
                /\ seen' = [seen EXCEPT ![r] = vault[n]]
                /\ UNCHANGED <<note, result, records>>
        /\ UNCHANGED <<queueVars, vault, envVars, lockVars, ctrVars>>

\* The agent answers, or it fails, runs out of its budget or makes no sense.
AgentRuns(r) ==
    /\ pc[r] = "agent"
    /\ \/ Goto(r, "reread")
       \/ Conclude(r, "finish", "failed", "failed", "none")
    /\ UNCHANGED <<queueVars, vault, envVars, lockVars, ctrVars>>

\* Mutant: an error of the second read returns without Finish.
RereadNoteReturning(r) ==
    /\ pc[r] = "reread"
    /\ CASE vault[note[r]] = seen[r] -> Goto(r, "plan")
         [] vault[note[r]] = Absent -> Return(r) /\ UNCHANGED records
         [] OTHER -> Conclude(r, "finish", "skipped_concurrent_edit", "failed", "none")
    /\ UNCHANGED <<queueVars, vault, envVars, lockVars, ctrVars>>

\* The second read and the comparison with pre_hash.
RereadNote(r) ==
    /\ pc[r] = "reread"
    /\ CASE vault[note[r]] = seen[r] -> Goto(r, "plan")
         [] vault[note[r]] = Absent -> Conclude(r, "finish", "failed", "failed", "none")
         [] OTHER -> Conclude(r, "finish", "skipped_concurrent_edit", "failed", "none")
    /\ UNCHANGED <<queueVars, vault, envVars, lockVars, ctrVars>>

\* Mutant: a refused plan keeps its status.
MakePlanKeeping(r) ==
    /\ pc[r] = "plan"
    /\ \/ Conclude(r, "lock", "failed", "applying", "proposed")
       \/ Conclude(r, "finish", "failed", "failed", "proposed")
    /\ UNCHANGED <<queueVars, vault, envVars, lockVars, ctrVars>>

\* buildPlan, SavePlan and CheckEnrichPlan, which accepts or rejects.
MakePlan(r) ==
    /\ pc[r] = "plan"
    /\ \/ Conclude(r, "lock", "failed", "applying", "proposed")
       \/ Conclude(r, "finish", "failed", "failed", "rejected")
    /\ UNCHANGED <<queueVars, vault, envVars, lockVars, ctrVars>>

(***************************************************************************)
(* DirectFS.Apply of the plan.                                             *)
(***************************************************************************)
AcquireLock(r) ==
    /\ pc[r] = "lock"
    /\ IF Acquirable(owner, lapsed, {note[r]})
       THEN /\ owner' = Acquired(owner, lapsed, {note[r]}, r)
            /\ lapsed' = {}
            /\ Goto(r, "preflight")
       ELSE Goto(r, "close") /\ UNCHANGED lockVars
    /\ UNCHANGED <<queueVars, vault, envVars, ctrVars>>

Preflight(r) ==
    /\ pc[r] = "preflight"
    /\ Goto(r, IF OpReady(vault, Rewrite(r), seen[r]) THEN "write" ELSE "release")
    /\ UNCHANGED <<queueVars, vault, envVars, lockVars, ctrVars>>

\* Mutant: safeWriteReplace without the guarded read before it.
WriteUnguarded(r) ==
    /\ pc[r] = "write"
    /\ vault' = [vault EXCEPT ![note[r]] = seen[r] \cup {Enriched}]
    /\ quiet' = quiet \ {note[r]}
    /\ Goto(r, "log")
    /\ UNCHANGED <<hook, vocab, scan, queueVars, lockVars, ctrVars>>

\* rewriteNote: the payload is rendered from the content seen at first.
Write(r) ==
    /\ pc[r] = "write"
    /\ IF OpReady(vault, Rewrite(r), seen[r])
       THEN /\ vault' = [vault EXCEPT ![note[r]] = seen[r] \cup {Enriched}]
            /\ quiet' = quiet \ {note[r]}
            /\ Goto(r, "log")
       ELSE Goto(r, "release") /\ UNCHANGED <<vault, quiet>>
    /\ UNCHANGED <<hook, vocab, scan, queueVars, lockVars, ctrVars>>

\* recordApplied; from here on the attempt is a success.
LogApplied(r) ==
    /\ pc[r] = "log"
    /\ pc' = [pc EXCEPT ![r] = "release"]
    /\ result' = [result EXCEPT ![r] = "done"]
    /\ UNCHANGED <<note, seen, records, queueVars, vault, envVars, lockVars, ctrVars>>

ReleaseLock(r) ==
    /\ pc[r] = "release"
    /\ owner' = Released(owner, r)
    /\ lapsed' = lapsed \ RowsOf(owner, r)
    /\ Goto(r, "close")
    /\ UNCHANGED <<queueVars, vault, envVars, ctrVars>>

\* UpdatePlanStatus and UpdateJobStatus after Apply.
CloseRecords(r) ==
    /\ pc[r] = "close"
    /\ IF result[r] = "done" THEN Conclude(r, "finish", "done", "done", "applied")
                             ELSE Conclude(r, "finish", "failed", "failed", "failed")
    /\ UNCHANGED <<queueVars, vault, envVars, lockVars, ctrVars>>

Finish(r) ==
    /\ pc[r] = "finish"
    /\ FinishRow(note[r], result[r])
    /\ Return(r)
    /\ UNCHANGED <<line, records, vault, envVars, lockVars, ctrVars>>

-----------------------------------------------------------------------------
(***************************************************************************)
(* What goes wrong.                                                        *)
(***************************************************************************)
Failing(r) == faults < MaxFaults /\ faults' = faults + 1

\* A read, a statement of the store or a file operation gives an error.
RunFails(r) ==
    /\ Failing(r)
    /\ \/ pc[r] = "run" /\ Conclude(r, "finish", "failed", "none", "none")
       \/ pc[r] \in {"read", "reread", "plan"} /\ Conclude(r, "finish", "failed", "failed", "none")
       \/ pc[r] \in {"preflight", "write", "log"} /\ Goto(r, "release")
       \/ pc[r] = "lock" /\ Goto(r, "close")
       \/ pc[r] = "close" /\ Goto(r, "finish")
    /\ UNCHANGED <<queueVars, vault, envVars, lockVars, runs, edits>>

\* Finish's UPDATE fails: the runner goes on, the row stays as it is.
FinishLost(r) ==
    /\ Failing(r)
    /\ pc[r] = "finish"
    /\ Return(r)
    /\ UNCHANGED <<queueVars, records, vault, envVars, lockVars, runs, edits>>

\* The process of r dies; the daemon takes its scanner along and is restarted.
Crash(r) ==
    /\ Failing(r)
    /\ pc[r] # "idle"
    /\ Return(r)
    /\ owner' = [n \in Paths |-> IF owner[n] = r THEN Gone ELSE owner[n]]
    /\ IF r = Worker THEN vocab' = "scanning" /\ scan' = [at |-> "walk", note |-> NoPlan]
                     ELSE UNCHANGED <<vocab, scan>>
    /\ UNCHANGED <<queueVars, records, vault, quiet, hook, lapsed, runs, edits>>

\* The daemon's RescanAll ends; when it fails nobody runs it again.
VocabReady ==
    /\ vocab = "scanning"
    /\ vocab' = "ready"
    /\ UNCHANGED <<queueVars, vault, quiet, hook, scan, lockVars, runVars, ctrVars>>

VocabFails ==
    /\ vocab = "scanning"
    /\ Failing(Worker)
    /\ vocab' = "failed"
    /\ UNCHANGED <<queueVars, vault, quiet, hook, scan, lockVars, runVars, runs, edits>>

\* The lock rows of a dead attempt pass their expires_at.
LocksLapse ==
    /\ RowsOf(owner, Gone) \ lapsed # {}
    /\ lapsed' = lapsed \cup RowsOf(owner, Gone)
    /\ UNCHANGED <<queueVars, vault, envVars, owner, runVars, ctrVars>>

-----------------------------------------------------------------------------
CliStep(r) == CliReset(r) \/ CliInsert(r) \/ CliEmpty(r)
RunStep(r) ==
    \/ StartRun(r) \/ ReadNote(r) \/ AgentRuns(r) \/ RereadNote(r) \/ MakePlan(r)
    \/ AcquireLock(r) \/ Preflight(r) \/ Write(r) \/ LogApplied(r) \/ ReleaseLock(r)
    \/ CloseRecords(r) \/ Finish(r)
ClaimStep(r) == \E n \in Paths : Claim(r, n)

Next ==
    \/ \E n \in Paths : \/ Capture(n) \/ HookEnqueue(n) \/ HookLost(n) \/ UserEdit(n)
                        \/ QuietWindow(n) \/ ScanRow(n)
    \/ ScanContent \/ ScanEnqueue
    \/ \E r \in Runners : \/ \E n \in Paths : BeginCli(r, n)
                          \/ CliStep(r) \/ ClaimStep(r) \/ RunStep(r)
                          \/ RunFails(r) \/ FinishLost(r) \/ Crash(r)
    \/ VocabReady \/ VocabFails \/ LocksLapse

(***************************************************************************)
(* The daemon's goroutines and the command are scheduled, time passes, and *)
(* the walk of every tick comes by every note, which makes ScanRow fair    *)
(* for each note that is eligible again and again.                         *)
(***************************************************************************)
Fairness ==
    /\ \A r \in Runners : WF_vars(CliStep(r)) /\ WF_vars(ClaimStep(r)) /\ WF_vars(RunStep(r))
    /\ \A n \in Paths : WF_vars(QuietWindow(n)) /\ SF_vars(ScanRow(n))
    /\ WF_vars(ScanContent) /\ WF_vars(ScanEnqueue)
    /\ WF_vars(VocabReady) /\ WF_vars(LocksLapse)

Spec == Init /\ [][Next]_vars
FairSpec == Spec /\ Fairness

-----------------------------------------------------------------------------
(***************************************************************************)
(* Properties.                                                             *)
(***************************************************************************)

\* Every variable has a value of its type; the rows stand in line once each.
TypeOK ==
    /\ row \in [Paths -> [state : RowStates, attempts : 0..(AttemptsMax + Cardinality(Clis))]]
    /\ line \in Seq(Paths)
    /\ \A n \in Paths : Cardinality({i \in DOMAIN line : line[i] = n})
                        = IF row[n].state = "none" THEN 0 ELSE 1
    /\ vault \in [Paths -> Notes]
    /\ quiet \subseteq Paths
    /\ hook \in [Paths -> {"none", "due", "past"}]
    /\ owner \in [Paths -> Runners \cup {Gone, NoPlan}]
    /\ lapsed \subseteq Paths
    /\ vocab \in {"scanning", "ready", "failed"}
    /\ scan \in [at : {"walk", "content", "enqueue"}, note : Paths \cup {NoPlan}]
    /\ pc \in [Runners -> {"idle"} \cup CliPcs \cup RunPcs]
    /\ note \in [Runners -> Paths \cup {NoPlan}]
    /\ seen \in [Runners -> Notes]
    /\ result \in [Runners -> Outcomes]
    /\ records \in [Runners -> [job : {"none", "applying", "done", "failed"},
                                plan : {"none", "proposed", "rejected", "failed", "applied"}]]
    /\ runs \in 0..MaxRuns /\ faults \in 0..MaxFaults /\ edits \in 0..MaxEdits

(***************************************************************************)
(* No enrichment takes away what stands in the note when it writes: an     *)
(* edit made while the agent was thinking, or between the checks of the    *)
(* executor, makes it give up.                                             *)
(***************************************************************************)
NoEditLost ==
    [][\A r \in Runners : pc[r] = "write" /\ pc'[r] = "log" =>
          vault[note[r]] # Absent /\ vault[note[r]] \subseteq vault'[note[r]]]_vars

(***************************************************************************)
(* A note that carries the enrichment is not enriched on top of it, even   *)
(* when the command and the worker run on the same note at the same time.  *)
(***************************************************************************)
EnrichedOnce ==
    [][\A r \in Runners : pc[r] = "write" /\ pc'[r] = "log" =>
          ~IsEnriched(note[r])]_vars

(***************************************************************************)
(* A row that waits for an attempt has one left, however stale finishes,   *)
(* resets and enqueues were interleaved: no waiting row is unclaimable.    *)
(***************************************************************************)
WaitingHasAttempts ==
    \A n \in Paths : row[n].state \in {"pending", "skipped_concurrent_edit", "failed"} =>
        row[n].attempts < AttemptsMax

Orphaned(n) ==
    row[n].state = "running" /\ \A r \in Runners : ~(pc[r] \in RunPcs /\ note[r] = n)

(***************************************************************************)
(* A running row has a runner, unless something failed; the code has no    *)
(* way to take up a row whose runner died, except the command.             *)
(***************************************************************************)
RunningHasRunner == \A n \in Paths : Orphaned(n) => faults > 0

(***************************************************************************)
(* When RunOne returns without a failure of the store, the attempt's job   *)
(* and plan say how it ended, and they say it alike.                       *)
(***************************************************************************)
RecordsClosed ==
    \A r \in Runners :
        faults = 0 /\ pc[r] \in {"idle", "finish"} =>
            /\ records[r].job # "applying"
            /\ records[r].plan # "proposed"
            /\ records[r].plan \in {"rejected", "failed"} => records[r].job = "failed"
            /\ records[r].plan = "applied" => records[r].job = "done"

GivenUp(n) ==
    \/ vault[n] = Absent
    \/ row[n].state = "attempts_exhausted"
    \/ Orphaned(n)
    \/ vocab = "failed"

(***************************************************************************)
(* A captured note is enriched in the end, or its row is done or out of    *)
(* attempts: neither a lost enqueue nor a failed attempt forgets it.       *)
(***************************************************************************)
EnrichmentSettles ==
    \A n \in Paths : vault[n] # Absent ~>
        IsEnriched(n) \/ row[n].state = "done" \/ GivenUp(n)
=============================================================================
