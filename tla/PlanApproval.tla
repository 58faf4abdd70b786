---------------------------- MODULE PlanApproval ----------------------------
(***************************************************************************)
(* Preparing, approving, rejecting and applying vault plans                *)
(* (internal/core/plans.go, internal/executor).  The actors are command    *)
(* handlers: the Matrix loop of the daemon and CLI processes.  They share  *)
(* the SQLite store and the vault and nothing else, so a handler is a      *)
(* sequence of store statements and file operations, each one action here, *)
(* between which any other handler, the user's editor or a crash may come. *)
(* No status update of the store compares the old status.                  *)
(***************************************************************************)
EXTENDS Vault, VaultLocks, FiniteSets

CONSTANTS Plans,      \* the plans the planners may come up with
          Actors,     \* handlers that may run at the same time
          PlanOps,    \* the operations of each plan
          HighRisk,   \* the plans whose approval only writes a proposal note
          Syncs,      \* actors that run with SyncModeOn (the CLI)
          Quiet,      \* actors with SuppressOutbox (the intent router)
          InitialNotes, \* the paths that hold a note at the start
          Prepared,   \* the plans that await approval at the start
          MaxOrganized, \* bound: plans organized after the start
          MaxFaults,  \* bound: crashes, store errors, late failures
          MaxEdits    \* bound: edits by the user or by Obsidian Sync

ASSUME PlanOpsAssumption ==
    /\ PlanOps \in [Plans -> Seq(Op)]
    /\ \A p \in Plans : Len(PlanOps[p]) > 0
\* A high-risk plan changes one path only: that of its proposal note.
ASSUME HighRiskAssumption ==
    /\ HighRisk \subseteq Plans
    /\ \A p \in HighRisk : Len(PlanOps[p]) = 1 /\ PlanOps[p][1].kind = "create"
ASSUME PathsAssumption == Absent \notin Paths /\ NoPlan \notin Plans
ASSUME ActorsAssumption == Syncs \subseteq Actors /\ Quiet \subseteq Actors
ASSUME BoundsAssumption == MaxOrganized \in Nat /\ MaxFaults \in Nat /\ MaxEdits \in Nat

VARIABLES planStatus,  \* vault_plans.status ("none": no row)
          approvedAt,  \* vault_plans.approved_at is set
          beforeHash,  \* before_hash of a plan's operations, by path
          jobStatus,   \* wiki_jobs.status of the plan's job
          opLog,       \* vault_operation_logs: <<operation, status>> rows
          outbox,      \* kinds of the outbox messages written for the plan
          owner,       \* vault_locks.plan_id by target_path
          lapsed,      \* locked paths whose expires_at has passed
          vault,       \* the notes
          pc,          \* what each actor does next
          cmd,         \* the plan each actor works on
          idx,         \* the operation each actor has come to
          verdict,     \* how the actor's Apply went so far
          faults,      \* crashes and errors so far
          edits        \* user edits so far

planVars == <<planStatus, approvedAt>>
lockVars == <<owner, lapsed>>
ctrVars  == <<faults, edits>>
vars == <<planStatus, approvedAt, beforeHash, jobStatus, opLog, outbox, owner, lapsed,
          vault, pc, cmd, idx, verdict, faults, edits>>

OpIdx(p) == 1..Len(PlanOps[p])
OpMark(p, i) == <<"op", p, i>>
UserMark(n)  == <<"user", n>>
BaseMark(f)  == <<"base", f>>
Marks == ({"op"} \X Plans \X Nat) \cup ({"user"} \X Nat) \cup ({"base"} \X Paths)
Notes == (SUBSET Marks) \cup {Absent}

\* plan.TargetPaths, what AcquireLocks is called with.
Targets(p) == UNION {OpPaths(PlanOps[p][i]) : i \in OpIdx(p)}

PlanStatuses == {"none", "proposed", "awaiting_approval", "approved", "applying", "applied",
                 "rejected", "failed", "conflict", "proposal_written"}
JobStatuses  == {"none", "pending", "awaiting_approval", "applying", "done", "failed", "rejected"}
Verdicts     == {"ok", "failed", "conflict"}
OutboxKinds  == {"approval", "result", "error", "conflict", "rejected"}

OrganizePcs == {"org_plan", "org_save", "org_prepare", "org_publish", "org_job", "org_announce",
                "org_fail_plan", "org_fail_job"}
ApplyPcs    == {"preflight", "op", "log", "log_failed", "release"}
ApprovePcs  == {"app_mark", "app_check", "app_job", "app_plan", "sync", "prop_check", "lock"}
               \cup ApplyPcs
               \cup {"done_plan", "done_job", "done_announce", "err_plan", "err_job",
                     "err_announce"}
FailingPcs  == {"log_failed", "err_plan", "err_job", "err_announce"}
RejectPcs   == {"rej_mark", "rej_job", "rej_announce"}
Pcs == {"idle"} \cup OrganizePcs \cup ApprovePcs \cup RejectPcs

\* Between AcquireLocks and the deferred ReleaseLocks of Apply.
Applying(a) == pc[a] \in ApplyPcs
Approving(a, p) == pc[a] \in ApprovePcs /\ cmd[a] = p

Init ==
    /\ planStatus = [p \in Plans |-> IF p \in Prepared THEN "awaiting_approval" ELSE "none"]
    /\ approvedAt = [p \in Plans |-> FALSE]
    /\ beforeHash = [p \in Plans |->
                        [f \in Paths |-> IF p \in Prepared /\ f \in InitialNotes
                                         THEN {BaseMark(f)} ELSE Absent]]
    /\ jobStatus  = [p \in Plans |-> IF p \in Prepared THEN "awaiting_approval" ELSE "none"]
    /\ opLog  = [p \in Plans |-> {}]
    /\ outbox = [p \in Plans |-> {}]
    /\ owner  = [f \in Paths |-> NoPlan]
    /\ lapsed = {}
    /\ vault = [f \in Paths |-> IF f \in InitialNotes THEN {BaseMark(f)} ELSE Absent]
    /\ pc  = [a \in Actors |-> "idle"]
    /\ cmd = [a \in Actors |-> NoPlan]
    /\ idx = [a \in Actors |-> 1]
    /\ verdict = [a \in Actors |-> "ok"]
    /\ faults = 0
    /\ edits = 0

-----------------------------------------------------------------------------
(***************************************************************************)
(* Control of a handler: go on at l, go on with operation i and verdict v, *)
(* start working on a plan, return to the caller.                          *)
(***************************************************************************)
Goto(a, l) == pc' = [pc EXCEPT ![a] = l] /\ UNCHANGED <<cmd, idx, verdict>>

GotoWith(a, l, i, v) ==
    /\ pc' = [pc EXCEPT ![a] = l]
    /\ idx' = [idx EXCEPT ![a] = i]
    /\ verdict' = [verdict EXCEPT ![a] = v]
    /\ UNCHANGED cmd

Begin(a, p, l) ==
    /\ pc[a] = "idle"
    /\ pc' = [pc EXCEPT ![a] = l]
    /\ cmd' = [cmd EXCEPT ![a] = p]
    /\ UNCHANGED <<idx, verdict>>

Return(a) ==
    /\ pc' = [pc EXCEPT ![a] = "idle"]
    /\ cmd' = [cmd EXCEPT ![a] = NoPlan]
    /\ idx' = [idx EXCEPT ![a] = 1]
    /\ verdict' = [verdict EXCEPT ![a] = "ok"]

\* UPDATE vault_plans SET status = ... WHERE id = p, whatever it was before.
SetPlan(p, st) == planStatus' = [planStatus EXCEPT ![p] = st] /\ UNCHANGED approvedAt
\* UPDATE wiki_jobs SET status = ... for the plan's job.
SetJob(p, st) == jobStatus' = [jobStatus EXCEPT ![p] = st]

\* AddOutboxMessage, unless the service was built with SuppressOutbox.
Announce(a, kind) ==
    outbox' = [outbox EXCEPT ![cmd[a]] = IF a \in Quiet THEN @ ELSE @ \cup {kind}]

-----------------------------------------------------------------------------
(***************************************************************************)
(* OrganizeLast / prepareApprovalPlan / prepareHighRiskApprovalPlan.       *)
(***************************************************************************)

\* CreateJob for a plan nobody asked for yet.
BeginOrganize(a, p) ==
    /\ jobStatus[p] = "none"
    /\ Cardinality({q \in Plans \ Prepared : jobStatus[q] # "none"}) < MaxOrganized
    /\ Begin(a, p, "org_plan")
    /\ SetJob(p, "pending")
    /\ UNCHANGED <<planVars, beforeHash, opLog, outbox, lockVars, vault, ctrVars>>

\* The organizer returned a plan and CheckForApproval accepts it ...
PlanProposed(a) ==
    /\ pc[a] = "org_plan"
    /\ Goto(a, "org_save")
    /\ UNCHANGED <<planVars, beforeHash, jobStatus, opLog, outbox, lockVars, vault, ctrVars>>

\* ... or one of the two fails, which failPlanJob records.
PlannerFails(a) ==
    /\ pc[a] = "org_plan"
    /\ faults < MaxFaults
    /\ Goto(a, "org_fail_job")
    /\ faults' = faults + 1
    /\ UNCHANGED <<planVars, beforeHash, jobStatus, opLog, outbox, lockVars, vault, edits>>

\* SavePlan; a high-risk plan has nothing to prepare and awaits approval.
SavePlan(a) ==
    /\ pc[a] = "org_save"
    /\ IF cmd[a] \in HighRisk
       THEN SetPlan(cmd[a], "awaiting_approval") /\ Goto(a, "org_job")
       ELSE SetPlan(cmd[a], "proposed") /\ Goto(a, "org_prepare")
    /\ UNCHANGED <<beforeHash, jobStatus, opLog, outbox, lockVars, vault, ctrVars>>

(***************************************************************************)
(* One operation of Prepare: record the hash of the note it changes, or    *)
(* refuse when the note is missing or the new path is taken.               *)
(***************************************************************************)
PrepareOp(a) ==
    LET p  == cmd[a]
        op == PlanOps[p][idx[a]]
    IN  /\ pc[a] = "org_prepare"
        /\ IF OpReady(vault, op, vault[op.path])
           THEN /\ beforeHash' = [beforeHash EXCEPT ![p][op.path] = vault[op.path]]
                /\ IF idx[a] = Len(PlanOps[p])
                   THEN GotoWith(a, "org_publish", 1, "ok")
                   ELSE GotoWith(a, "org_prepare", idx[a] + 1, "ok")
           ELSE GotoWith(a, "org_fail_plan", 1, "ok") /\ UNCHANGED beforeHash
        /\ UNCHANGED <<planVars, jobStatus, opLog, outbox, lockVars, vault, ctrVars>>

\* MarkPlanFailed(failed), then failPlanJob.
OrganizeFailPlan(a) ==
    /\ pc[a] = "org_fail_plan"
    /\ SetPlan(cmd[a], "failed")
    /\ Goto(a, "org_fail_job")
    /\ UNCHANGED <<beforeHash, jobStatus, opLog, outbox, lockVars, vault, ctrVars>>

OrganizeFailJob(a) ==
    /\ pc[a] = "org_fail_job"
    /\ SetJob(cmd[a], "failed")
    /\ Return(a)
    /\ UNCHANGED <<planVars, beforeHash, opLog, outbox, lockVars, vault, ctrVars>>

\* UpdatePlanPrepared.
PublishPlan(a) ==
    /\ pc[a] = "org_publish"
    /\ SetPlan(cmd[a], "awaiting_approval")
    /\ Goto(a, "org_job")
    /\ UNCHANGED <<beforeHash, jobStatus, opLog, outbox, lockVars, vault, ctrVars>>

OrganizeSetJob(a) ==
    /\ pc[a] = "org_job"
    /\ SetJob(cmd[a], "awaiting_approval")
    /\ Goto(a, "org_announce")
    /\ UNCHANGED <<planVars, beforeHash, opLog, outbox, lockVars, vault, ctrVars>>

\* Where the plan is made decides: OrganizeLast writes the row whatever
\* service it is called on, the two prepare functions ask suppressOutbox.
OrganizeAnnounce(a) ==
    /\ pc[a] = "org_announce"
    /\ \/ Announce(a, "approval")
       \/ outbox' = [outbox EXCEPT ![cmd[a]] = @ \cup {"approval"}]
    /\ Return(a)
    /\ UNCHANGED <<planVars, beforeHash, jobStatus, opLog, lockVars, vault, ctrVars>>

-----------------------------------------------------------------------------
(***************************************************************************)
(* Approve, up to the executor.                                            *)
(***************************************************************************)

\* resolvePlan and the test of the status it read; a plan in any other
\* status is an error that changes nothing.
BeginApprove(a, p) ==
    /\ planStatus[p] = "awaiting_approval"
    /\ Begin(a, p, "app_mark")
    /\ UNCHANGED <<planVars, beforeHash, jobStatus, opLog, outbox, lockVars, vault, ctrVars>>

\* Mutant: the approval is an UpdatePlanStatus that leaves approved_at out.
MarkApprovedUndated(a) ==
    /\ pc[a] = "app_mark"
    /\ SetPlan(cmd[a], "approved")
    /\ Goto(a, "app_check")
    /\ UNCHANGED <<beforeHash, jobStatus, opLog, outbox, lockVars, vault, ctrVars>>

\* ApprovePlan.
MarkApproved(a) ==
    /\ pc[a] = "app_mark"
    /\ planStatus' = [planStatus EXCEPT ![cmd[a]] = "approved"]
    /\ approvedAt' = [approvedAt EXCEPT ![cmd[a]] = TRUE]
    /\ Goto(a, "app_check")
    /\ UNCHANGED <<beforeHash, jobStatus, opLog, outbox, lockVars, vault, ctrVars>>

\* CheckApproved, or CheckForApprovalHighRisk, on the plan in memory.
ApprovalChecked(a) ==
    /\ pc[a] = "app_check"
    /\ Goto(a, "app_job")
    /\ UNCHANGED <<planVars, beforeHash, jobStatus, opLog, outbox, lockVars, vault, ctrVars>>

\* The same check under the conventions of a process that runs with another
\* vault profile may refuse what the preparing process accepted.
ApprovalRefused(a) ==
    /\ pc[a] = "app_check"
    /\ faults < MaxFaults
    /\ SetPlan(cmd[a], "failed")
    /\ Return(a)
    /\ faults' = faults + 1
    /\ UNCHANGED <<beforeHash, jobStatus, opLog, outbox, lockVars, vault, edits>>

ApproveSetJob(a) ==
    /\ pc[a] = "app_job"
    /\ SetJob(cmd[a], "applying")
    /\ Goto(a, "app_plan")
    /\ UNCHANGED <<planVars, beforeHash, opLog, outbox, lockVars, vault, ctrVars>>

ApproveSetPlan(a) ==
    /\ pc[a] = "app_plan"
    /\ SetPlan(cmd[a], "applying")
    /\ Goto(a, IF cmd[a] \in HighRisk THEN "prop_check"
               ELSE IF a \in Syncs THEN "sync" ELSE "lock")
    /\ UNCHANGED <<beforeHash, jobStatus, opLog, outbox, lockVars, vault, ctrVars>>

\* Sync(before): what it brings into the vault are edits like the user's.
PreSync(a) ==
    /\ pc[a] = "sync"
    /\ Goto(a, "lock")
    /\ UNCHANGED <<planVars, beforeHash, jobStatus, opLog, outbox, lockVars, vault, ctrVars>>

PreSyncFails(a) ==
    /\ pc[a] = "sync"
    /\ faults < MaxFaults
    /\ GotoWith(a, "err_plan", 1, "failed")
    /\ faults' = faults + 1
    /\ UNCHANGED <<planVars, beforeHash, jobStatus, opLog, outbox, lockVars, vault, edits>>

\* ApplyAsProposal looks whether the proposal note exists before it locks.
ProposalCheck(a) ==
    /\ pc[a] = "prop_check"
    /\ IF vault[PlanOps[cmd[a]][1].path] = Absent
       THEN Goto(a, "lock")
       ELSE GotoWith(a, "err_plan", 1, "conflict")
    /\ UNCHANGED <<planVars, beforeHash, jobStatus, opLog, outbox, lockVars, vault, ctrVars>>

-----------------------------------------------------------------------------
(***************************************************************************)
(* DirectFS.Apply and ApplyAsProposal.                                     *)
(***************************************************************************)

\* AcquireLocks: one transaction reaps what has expired and inserts.
AcquireLocks(a) ==
    LET p == cmd[a]
    IN  /\ pc[a] = "lock"
        /\ Acquirable(owner, lapsed, Targets(p))
        /\ owner' = Acquired(owner, lapsed, Targets(p), p)
        /\ lapsed' = {}
        /\ Goto(a, IF p \in HighRisk THEN "op" ELSE "preflight")
        /\ UNCHANGED <<planVars, beforeHash, jobStatus, opLog, outbox, vault, ctrVars>>

\* Mutant: defer ReleaseLocks stands before the error check of AcquireLocks.
LocksRefusedReleasing(a) ==
    /\ pc[a] = "lock"
    /\ ~Acquirable(owner, lapsed, Targets(cmd[a]))
    /\ GotoWith(a, "release", 1, "failed")
    /\ UNCHANGED <<planVars, beforeHash, jobStatus, opLog, outbox, lockVars, vault, ctrVars>>

\* A path is locked: an error, not a conflictError, and nothing to release.
LocksRefused(a) ==
    /\ pc[a] = "lock"
    /\ ~Acquirable(owner, lapsed, Targets(cmd[a]))
    /\ GotoWith(a, "err_plan", 1, "failed")
    /\ UNCHANGED <<planVars, beforeHash, jobStatus, opLog, outbox, lockVars, vault, ctrVars>>

\* The operations of p the vault would refuse now.
Refused(p) == {i \in OpIdx(p) : ~OpReady(vault, PlanOps[p][i], beforeHash[p][PlanOps[p][i].path])}
VerdictOn(p, i) == OpVerdict(vault, PlanOps[p][i], beforeHash[p][PlanOps[p][i].path])

\* Mutant: Apply resumes at the first operation that can still be applied.
PreflightResumes(a) ==
    LET p == cmd[a]
        ready == OpIdx(p) \ Refused(p)
    IN  /\ pc[a] = "preflight"
        /\ \/ \E i \in ready : (\A j \in ready : i <= j) /\ GotoWith(a, "op", i, "ok")
           \/ ready = {} /\ GotoWith(a, "release", 1, VerdictOn(p, 1))
        /\ UNCHANGED <<planVars, beforeHash, jobStatus, opLog, outbox, lockVars, vault, ctrVars>>

\* preflightApply stops at the first operation that would be refused; then
\* nothing has been written, and nothing is logged.
Preflight(a) ==
    LET p == cmd[a]
    IN  /\ pc[a] = "preflight"
        /\ \/ Refused(p) = {} /\ GotoWith(a, "op", 1, "ok")
           \/ \E i \in Refused(p) : /\ \A j \in Refused(p) : i <= j
                                   /\ GotoWith(a, "release", 1, VerdictOn(p, i))
        /\ UNCHANGED <<planVars, beforeHash, jobStatus, opLog, outbox, lockVars, vault, ctrVars>>

\* applyOperation, up to the write into the vault.
ApplyOperation(a) ==
    LET p == cmd[a]
        i == idx[a]
    IN  /\ pc[a] = "op"
        /\ VerdictOn(p, i) = "ok"
        /\ vault' = OpApplied(vault, PlanOps[p][i], OpMark(p, i))
        /\ Goto(a, "log")
        /\ UNCHANGED <<planVars, beforeHash, jobStatus, opLog, outbox, lockVars, ctrVars>>

\* The vault changed since the preflight.  ApplyAsProposal does not log this.
OperationRefused(a) ==
    LET p == cmd[a]
        i == idx[a]
    IN  /\ pc[a] = "op"
        /\ VerdictOn(p, i) # "ok"
        /\ GotoWith(a, IF p \in HighRisk THEN "release" ELSE "log_failed", i, VerdictOn(p, i))
        /\ UNCHANGED <<planVars, beforeHash, jobStatus, opLog, outbox, lockVars, vault, ctrVars>>

\* moveNote moved the note and could not append the processing note.
MoveHalfDone(a) ==
    LET p == cmd[a]
        i == idx[a]
    IN  /\ pc[a] = "op"
        /\ PlanOps[p][i].kind = "move"
        /\ VerdictOn(p, i) = "ok"
        /\ faults < MaxFaults
        /\ vault' = MoveHalfApplied(vault, PlanOps[p][i])
        /\ \E v \in {"failed", "conflict"} : GotoWith(a, "log_failed", i, v)
        /\ faults' = faults + 1
        /\ UNCHANGED <<planVars, beforeHash, jobStatus, opLog, outbox, lockVars, edits>>

\* The daemon is shutting down (ctx.Err()), or a file operation of the
\* executor fails and has changed nothing.
ApplyFails(a) ==
    /\ faults < MaxFaults
    /\ faults' = faults + 1
    /\ \/ pc[a] = "prop_check" /\ GotoWith(a, "err_plan", 1, "failed")
       \/ pc[a] = "preflight" /\ GotoWith(a, "release", 1, "failed")
       \/ pc[a] = "op" /\ cmd[a] \in HighRisk /\ GotoWith(a, "release", 1, "failed")
       \/ pc[a] = "op" /\ cmd[a] \notin HighRisk /\ GotoWith(a, "log_failed", idx[a], "failed")
    /\ UNCHANGED <<planVars, beforeHash, jobStatus, opLog, outbox, lockVars, vault, edits>>

\* Mutant: the audit rows are written once, after the last operation.
LogAppliedAtEnd(a) ==
    LET p == cmd[a]
        i == idx[a]
    IN  /\ pc[a] = "log"
        /\ opLog' = [opLog EXCEPT ![p] = IF i < Len(PlanOps[p]) THEN @
                                         ELSE {<<j, "applied">> : j \in OpIdx(p)}]
        /\ IF i = Len(PlanOps[p]) THEN Goto(a, "release") ELSE GotoWith(a, "op", i + 1, "ok")
        /\ UNCHANGED <<planVars, beforeHash, jobStatus, outbox, lockVars, vault, ctrVars>>

\* AppendOperationLog(applied), then the next operation or the end of Apply.
LogApplied(a) ==
    LET p == cmd[a]
        i == idx[a]
    IN  /\ pc[a] = "log"
        /\ opLog' = [opLog EXCEPT ![p] = @ \cup {<<i, "applied">>}]
        /\ IF i = Len(PlanOps[p]) THEN Goto(a, "release") ELSE GotoWith(a, "op", i + 1, "ok")
        /\ UNCHANGED <<planVars, beforeHash, jobStatus, outbox, lockVars, vault, ctrVars>>

\* logRemainingFailed, row by row.
LogFailed(a) ==
    LET p == cmd[a]
        i == idx[a]
    IN  /\ pc[a] = "log_failed"
        /\ opLog' = [opLog EXCEPT ![p] = @ \cup {<<i, "failed">>}]
        /\ IF i = Len(PlanOps[p])
           THEN Goto(a, "release")
           ELSE GotoWith(a, "log_failed", i + 1, verdict[a])
        /\ UNCHANGED <<planVars, beforeHash, jobStatus, outbox, lockVars, vault, ctrVars>>

\* The deferred ReleaseLocks deletes every row of the plan.
ReleaseLocks(a) ==
    /\ pc[a] = "release"
    /\ owner' = Released(owner, cmd[a])
    /\ lapsed' = lapsed \ RowsOf(owner, cmd[a])
    /\ Goto(a, IF verdict[a] = "ok" THEN "done_plan" ELSE "err_plan")
    /\ UNCHANGED <<planVars, beforeHash, jobStatus, opLog, outbox, vault, ctrVars>>

-----------------------------------------------------------------------------
(***************************************************************************)
(* Approve, after the executor; Sync(after) can only add a warning.        *)
(***************************************************************************)
FinishPlan(a) ==
    /\ pc[a] = "done_plan"
    /\ SetPlan(cmd[a], IF cmd[a] \in HighRisk THEN "proposal_written" ELSE "applied")
    /\ Goto(a, "done_job")
    /\ UNCHANGED <<beforeHash, jobStatus, opLog, outbox, lockVars, vault, ctrVars>>

FinishJob(a) ==
    /\ pc[a] = "done_job"
    /\ SetJob(cmd[a], "done")
    /\ Goto(a, "done_announce")
    /\ UNCHANGED <<planVars, beforeHash, opLog, outbox, lockVars, vault, ctrVars>>

AnnounceResult(a) ==
    /\ pc[a] = "done_announce"
    /\ Announce(a, "result")
    /\ Return(a)
    /\ UNCHANGED <<planVars, beforeHash, jobStatus, opLog, lockVars, vault, ctrVars>>

\* Mutant: a conflict leaves the plan to the user, as it is.
FailPlanUnlessConflict(a) ==
    /\ pc[a] = "err_plan"
    /\ IF verdict[a] = "conflict" THEN UNCHANGED planVars ELSE SetPlan(cmd[a], "failed")
    /\ Goto(a, "err_job")
    /\ UNCHANGED <<beforeHash, jobStatus, opLog, outbox, lockVars, vault, ctrVars>>

\* MarkPlanFailed; the proposal flow knows no conflict status.
FailPlan(a) ==
    /\ pc[a] = "err_plan"
    /\ SetPlan(cmd[a], IF cmd[a] \in HighRisk THEN "failed" ELSE verdict[a])
    /\ Goto(a, "err_job")
    /\ UNCHANGED <<beforeHash, jobStatus, opLog, outbox, lockVars, vault, ctrVars>>

FailJob(a) ==
    /\ pc[a] = "err_job"
    /\ SetJob(cmd[a], "failed")
    /\ Goto(a, "err_announce")
    /\ UNCHANGED <<planVars, beforeHash, opLog, outbox, lockVars, vault, ctrVars>>

AnnounceFailure(a) ==
    /\ pc[a] = "err_announce"
    /\ Announce(a, IF verdict[a] = "conflict" /\ cmd[a] \notin HighRisk THEN "conflict"
                   ELSE "error")
    /\ Return(a)
    /\ UNCHANGED <<planVars, beforeHash, jobStatus, opLog, lockVars, vault, ctrVars>>

-----------------------------------------------------------------------------
(***************************************************************************)
(* Reject.                                                                 *)
(***************************************************************************)
BeginReject(a, p) ==
    /\ planStatus[p] = "awaiting_approval"
    /\ Begin(a, p, "rej_mark")
    /\ UNCHANGED <<planVars, beforeHash, jobStatus, opLog, outbox, lockVars, vault, ctrVars>>

MarkRejected(a) ==
    /\ pc[a] = "rej_mark"
    /\ SetPlan(cmd[a], "rejected")
    /\ Goto(a, "rej_job")
    /\ UNCHANGED <<beforeHash, jobStatus, opLog, outbox, lockVars, vault, ctrVars>>

RejectSetJob(a) ==
    /\ pc[a] = "rej_job"
    /\ SetJob(cmd[a], "rejected")
    /\ Goto(a, "rej_announce")
    /\ UNCHANGED <<planVars, beforeHash, opLog, outbox, lockVars, vault, ctrVars>>

RejectAnnounce(a) ==
    /\ pc[a] = "rej_announce"
    /\ Announce(a, "rejected")
    /\ Return(a)
    /\ UNCHANGED <<planVars, beforeHash, jobStatus, opLog, lockVars, vault, ctrVars>>

-----------------------------------------------------------------------------
(***************************************************************************)
(* What goes wrong.                                                        *)
(***************************************************************************)

\* Store errors that are ignored (_ = s.store...) or only logged ...
Swallows == {"org_fail_plan", "log_failed", "release", "err_plan", "err_job"}
\* ... those that end the handler with the error ...
Propagates == {"org_fail_job", "org_job", "org_announce", "app_mark", "app_job", "app_plan",
               "done_plan", "done_job", "done_announce", "err_announce", "rej_mark", "rej_job",
               "rej_announce"}

\* Where a handler goes on after a failed statement it does not give up on.
AfterStoreError(a) ==
    CASE pc[a] \in {"org_save", "org_publish", "org_fail_plan"} -> "org_fail_job"
      [] pc[a] = "lock" -> "err_plan"
      [] pc[a] = "log" -> IF cmd[a] \in HighRisk THEN "release" ELSE "log_failed"
      [] pc[a] = "log_failed" -> IF idx[a] = Len(PlanOps[cmd[a]]) THEN "release" ELSE "log_failed"
      [] pc[a] = "release" -> IF verdict[a] = "ok" THEN "done_plan" ELSE "err_plan"
      [] pc[a] = "err_plan" -> "err_job"
      [] pc[a] = "err_job" -> "err_announce"

\* A store statement of the handler fails (SQLITE_BUSY, a full disk).
StoreError(a) ==
    /\ faults < MaxFaults
    /\ faults' = faults + 1
    /\ \/ pc[a] \in Propagates /\ Return(a)
       \/ /\ pc[a] \in Swallows
          /\ GotoWith(a, AfterStoreError(a),
                      IF AfterStoreError(a) = "log_failed" THEN idx[a] + 1 ELSE idx[a],
                      verdict[a])
       \/ pc[a] \in {"org_save", "org_publish"} /\ Goto(a, AfterStoreError(a))
       \/ pc[a] \in {"lock", "log"} /\ GotoWith(a, AfterStoreError(a), idx[a], "failed")
    /\ UNCHANGED <<planVars, beforeHash, jobStatus, opLog, outbox, lockVars, vault, edits>>

\* The process dies; no deferred call runs, so its lock rows stay.
Crash(a) ==
    /\ pc[a] # "idle"
    /\ faults < MaxFaults
    /\ Return(a)
    /\ faults' = faults + 1
    /\ UNCHANGED <<planVars, beforeHash, jobStatus, opLog, outbox, lockVars, vault, edits>>

\* Mutant: ApplyAsProposal takes its lock without a TTL.
LocksLapseButProposals(p) ==
    /\ p \notin HighRisk
    /\ RowsOf(owner, p) \ lapsed # {}
    /\ \A a \in Actors : ~(Applying(a) /\ cmd[a] = p)
    /\ lapsed' = lapsed \cup RowsOf(owner, p)
    /\ UNCHANGED <<planVars, beforeHash, jobStatus, opLog, outbox, owner, vault, pc, cmd, idx,
                   verdict, ctrVars>>

\* The rows of p pass their expires_at.  DefaultLockTTL is longer than any
\* healthy Apply, so no handler is between AcquireLocks and ReleaseLocks.
LocksLapse(p) ==
    /\ RowsOf(owner, p) \ lapsed # {}
    /\ \A a \in Actors : ~(Applying(a) /\ cmd[a] = p)
    /\ lapsed' = lapsed \cup RowsOf(owner, p)
    /\ UNCHANGED <<planVars, beforeHash, jobStatus, opLog, outbox, owner, vault, pc, cmd, idx,
                   verdict, ctrVars>>

\* A process opens the store: Open sweeps the expired rows.
OpenStore ==
    /\ lapsed # {}
    /\ owner' = Reaped(owner, lapsed)
    /\ lapsed' = {}
    /\ UNCHANGED <<planVars, beforeHash, jobStatus, opLog, outbox, vault, pc, cmd, idx, verdict,
                   ctrVars>>

\* The user, or Obsidian Sync, writes, creates or deletes a note.
UserEdit(f) ==
    /\ edits < MaxEdits
    /\ edits' = edits + 1
    /\ \/ vault' = [vault EXCEPT ![f] = IF @ = Absent THEN {UserMark(edits + 1)}
                                        ELSE @ \cup {UserMark(edits + 1)}]
       \/ vault[f] # Absent /\ vault' = [vault EXCEPT ![f] = Absent]
    /\ UNCHANGED <<planVars, beforeHash, jobStatus, opLog, outbox, lockVars, pc, cmd, idx,
                   verdict, faults>>

-----------------------------------------------------------------------------
OrganizeStep(a) ==
    \/ PlanProposed(a) \/ SavePlan(a) \/ PrepareOp(a) \/ OrganizeFailPlan(a)
    \/ OrganizeFailJob(a) \/ PublishPlan(a) \/ OrganizeSetJob(a) \/ OrganizeAnnounce(a)
ApproveStep(a) ==
    \/ MarkApproved(a) \/ ApprovalChecked(a) \/ ApproveSetJob(a) \/ ApproveSetPlan(a)
    \/ PreSync(a) \/ ProposalCheck(a) \/ AcquireLocks(a) \/ LocksRefused(a)
ExecutorStep(a) ==
    \/ Preflight(a) \/ ApplyOperation(a) \/ OperationRefused(a) \/ LogApplied(a)
    \/ LogFailed(a) \/ ReleaseLocks(a)
OutcomeStep(a) ==
    \/ FinishPlan(a) \/ FinishJob(a) \/ AnnounceResult(a)
    \/ FailPlan(a) \/ FailJob(a) \/ AnnounceFailure(a)
RejectStep(a) == MarkRejected(a) \/ RejectSetJob(a) \/ RejectAnnounce(a)

\* A handler that has been called goes on.
Step(a) == OrganizeStep(a) \/ ApproveStep(a) \/ ExecutorStep(a) \/ OutcomeStep(a) \/ RejectStep(a)
\* A command arrives.
Command(a) ==
    \E p \in Plans : BeginOrganize(a, p) \/ BeginApprove(a, p) \/ BeginReject(a, p)
\* Something fails.
Fault(a) ==
    \/ PlannerFails(a) \/ ApprovalRefused(a) \/ PreSyncFails(a) \/ MoveHalfDone(a)
    \/ ApplyFails(a) \/ StoreError(a) \/ Crash(a)

Next ==
    \/ \E a \in Actors : Command(a) \/ Step(a) \/ Fault(a)
    \/ \E p \in Plans : LocksLapse(p)
    \/ OpenStore
    \/ \E f \in Paths : UserEdit(f)

(***************************************************************************)
(* A handler that runs keeps running (goroutines and processes are         *)
(* scheduled) and time passes; nobody has to give a command, and nothing   *)
(* has to fail.                                                            *)
(***************************************************************************)
Fairness ==
    /\ \A a \in Actors : WF_vars(Step(a))
    /\ \A p \in Plans : WF_vars(LocksLapse(p))

Spec == Init /\ [][Next]_vars
FairSpec == Spec /\ Fairness

-----------------------------------------------------------------------------
(***************************************************************************)
(* Properties.                                                             *)
(***************************************************************************)
LoggedOps(p) == {i \in OpIdx(p) : <<i, "applied">> \in opLog[p]}
Reports(p) == {r \in {"plan", "job", "outbox"} :
                 \/ r = "plan" /\ planStatus[p] \in {"applied", "proposal_written"}
                 \/ r = "job" /\ jobStatus[p] = "done"
                 \/ r = "outbox" /\ "result" \in outbox[p]}

DataTypeOK ==
    /\ planStatus \in [Plans -> PlanStatuses]
    /\ approvedAt \in [Plans -> BOOLEAN]
    /\ beforeHash \in [Plans -> [Paths -> Notes]]
    /\ jobStatus \in [Plans -> JobStatuses]
    /\ opLog \in [Plans -> SUBSET (Nat \X {"applied", "failed"})]
    /\ outbox \in [Plans -> SUBSET OutboxKinds]
    /\ owner \in [Paths -> Plans \cup {NoPlan}]
    /\ lapsed \in SUBSET Paths
    /\ vault \in [Paths -> Notes]
    /\ faults \in Nat
    /\ edits \in Nat

\* A handler that runs has a plan and stands at one of its operations, and
\* one that cleans up after an error has an error.
HandlerTypeOK(a) ==
    /\ IF pc[a] = "idle" THEN cmd[a] = NoPlan /\ idx[a] = 1 /\ verdict[a] = "ok"
       ELSE cmd[a] \in Plans /\ idx[a] \in OpIdx(cmd[a])
    /\ pc[a] \in FailingPcs => verdict[a] # "ok"

ControlTypeOK ==
    /\ pc \in [Actors -> Pcs]
    /\ cmd \in [Actors -> Plans \cup {NoPlan}]
    /\ idx \in [Actors -> Nat]
    /\ verdict \in [Actors -> Verdicts]
    /\ \A a \in Actors : HandlerTypeOK(a)

(***************************************************************************)
(* Every variable has a value of the type the code gives it, and a handler *)
(* that runs never steps over the end of its plan's operations.            *)
(***************************************************************************)
TypeOK == DataTypeOK /\ ControlTypeOK

(***************************************************************************)
(* Two handlers never work at the same time in the vault on plans that     *)
(* share a target path, in particular not on the same plan, even when      *)
(* crashed handlers left locks behind that were taken over.                *)
(***************************************************************************)
MutualExclusion ==
    \A a, b \in Actors :
        a # b /\ Applying(a) /\ Applying(b) => Targets(cmd[a]) \cap Targets(cmd[b]) = {}

\* A handler at work in the vault holds the row of every path it may change,
\* and is the only one that works for its plan.
HoldsLocks ==
    \A a \in Actors : Applying(a) =>
        \A f \in Targets(cmd[a]) : owner[f] = cmd[a] /\ f \notin lapsed
OnePerPlan ==
    \A a, b \in Actors : a # b /\ Applying(a) /\ Applying(b) => cmd[a] # cmd[b]

(***************************************************************************)
(* Whoever says that a plan is complete (its status, the status of its     *)
(* job, the result message in the outbox) is right: all of its operations  *)
(* are in the audit log as applied.  Handlers that race on a plan may      *)
(* overwrite each other's status but never with a false success.           *)
(***************************************************************************)
CompletionIsReal ==
    \A p \in Plans : Reports(p) # {} => LoggedOps(p) = OpIdx(p)

\* How far the log is, from where a handler of the plan stands.
LogKeepsUp(a) ==
    /\ pc[a] \in {"op", "log"} => 1..(idx[a] - 1) \subseteq LoggedOps(cmd[a])
    /\ pc[a] = "release" /\ verdict[a] = "ok" => LoggedOps(cmd[a]) = OpIdx(cmd[a])
    /\ pc[a] \in {"done_plan", "done_job", "done_announce"} =>
          LoggedOps(cmd[a]) = OpIdx(cmd[a])

\* A handler past ApprovePlan works on an approved plan, and only approved
\* plans have log rows.
ApprovedFirst ==
    /\ \A a \in Actors : pc[a] \in ApprovePcs \ {"app_mark"} => approvedAt[cmd[a]]
    /\ \A p \in Plans : LoggedOps(p) # {} => approvedAt[p]

(***************************************************************************)
(* Nothing a plan writes is in the vault before ApprovePlan ran for it,    *)
(* so a plan that was only ever rejected, or failed, leaves no trace.      *)
(***************************************************************************)
NoEffectBeforeApproval ==
    \A p \in Plans : \A i \in OpIdx(p) : OpMark(p, i) \in MarksIn(vault) => approvedAt[p]

(***************************************************************************)
(* The audit trail is complete: unless something failed, an operation that *)
(* stands in the vault is logged, or its handler is about to log it.       *)
(***************************************************************************)
EffectAudited ==
    faults = 0 => \A p \in Plans : \A i \in OpIdx(p) :
        OpMark(p, i) \in MarksIn(vault) =>
            \/ i \in LoggedOps(p)
            \/ \E a \in Actors : pc[a] = "log" /\ cmd[a] = p /\ idx[a] = i

\* A lock row without a handler that holds it is the trace of a failure.
LocksHaveHolders ==
    \A f \in Paths : owner[f] # NoPlan =>
        faults > 0 \/ \E a \in Actors : Applying(a) /\ cmd[a] = owner[f]

(***************************************************************************)
(* The store agrees with the vault and with who is at work: the values are *)
(* of their types, what stands in the vault is in the audit log, and only  *)
(* a handler at work holds locks.                                          *)
(***************************************************************************)
AuditInv == TypeOK /\ EffectAudited /\ LocksHaveHolders

\* The note at f carries text that an operation of plan p wrote.
CarriesTextOf(f, p) ==
    vault[f] # Absent /\ \E i \in OpIdx(p) : OpMark(p, i) \in vault[f]

(***************************************************************************)
(* No operation changes a note that already carries text of its own plan:  *)
(* not when two handlers approve the same plan, and not when a plan is     *)
(* applied again after a crash half-way through.  before_hash was taken    *)
(* before the plan had written anything, so it refuses such a note.  (A    *)
(* create whose note another plan has moved away since is not refused: it  *)
(* compares no hash.)                                                      *)
(***************************************************************************)
NoDoubleEffect ==
    [][\A a \in Actors : pc[a] = "op" /\ pc'[a] = "log" =>
          ~CarriesTextOf(PlanOps[cmd[a]][idx[a]].path, cmd[a])]_vars

(***************************************************************************)
(* TestRejectPlanDoesNotWriteVault, for every schedule: once all handlers  *)
(* have returned, without any failure, the vault holds nothing of a plan   *)
(* whose status is rejected.  Reject and Approve both test the status      *)
(* before they set it, so the later UPDATE wins over what the other did.   *)
(***************************************************************************)
RejectedLeavesNoTrace ==
    \A p \in Plans :
        /\ planStatus[p] = "rejected"
        /\ faults = 0
        /\ \A a \in Actors : pc[a] = "idle"
        => \A i \in OpIdx(p) : OpMark(p, i) \notin MarksIn(vault)

\* The promise to the user, with the store's columns as its variables.
Promise == INSTANCE PlanPromise WITH
    Length <- [p \in Plans |-> Len(PlanOps[p])],
    approved <- approvedAt,
    logged <- [p \in Plans |-> LoggedOps(p)],
    reported <- [p \in Plans |-> Reports(p)]
\* Approval implements PlanPromise, racing handlers and crashes included.
KeepsPromise == Promise!PromiseSpec

(***************************************************************************)
(* Together these are inductive: each holds initially, and every step of a *)
(* handler, a crash or the clock preserves them.                           *)
(***************************************************************************)
ApprovalInv ==
    /\ TypeOK
    /\ HoldsLocks
    /\ OnePerPlan
    /\ \A a \in Actors : LogKeepsUp(a)
    /\ CompletionIsReal
    /\ ApprovedFirst

(***************************************************************************)
(* An approved plan comes to an end: the handler that took it on leads it  *)
(* out of approved and applying, unless something fails.                   *)
(***************************************************************************)
ApprovalSettles ==
    \A p \in Plans :
        planStatus[p] \in {"approved", "applying"} ~>
            faults > 0 \/ planStatus[p] \notin {"approved", "applying"}

(***************************************************************************)
(* A lock never blocks a path for ever: its row is released, or becomes    *)
(* one that the next AcquireLocks reaps, whatever its handler died of.     *)
(***************************************************************************)
LocksComeFree ==
    \A f \in Paths : owner[f] # NoPlan ~> owner[f] = NoPlan \/ f \in lapsed
=============================================================================
