------------------------ MODULE PlanApproval_proofs ------------------------
(***************************************************************************)
(* Proofs about PlanApproval for every set of plans, actors and paths: the *)
(* types, and who holds the lock rows of a plan while it is applied; that  *)
(* whoever reports a plan complete is right and plan approval implements   *)
(* PlanPromise; what the audit log tells, and what is written once.        *)
(***************************************************************************)
EXTENDS PlanApproval, TLAPS

(***************************************************************************)
(* Every plan has a first operation, and an operation of a plan is one of  *)
(* the kinds the executor knows, on paths of the vault.                    *)
(***************************************************************************)
LEMMA PlanOpsTyping ==
    /\ \A p \in Plans : 1 \in OpIdx(p) /\ Len(PlanOps[p]) \in OpIdx(p)
    /\ \A p \in Plans : \A i \in OpIdx(p) :
          PlanOps[p][i].path \in Paths /\ PlanOps[p][i].dest \in Paths
<1>1. ASSUME NEW p \in Plans
      PROVE  PlanOps[p] \in Seq(Op) /\ Len(PlanOps[p]) \in Nat /\ Len(PlanOps[p]) > 0
  BY PlanOpsAssumption
<1>2. ASSUME NEW p \in Plans, NEW i \in OpIdx(p)
      PROVE  PlanOps[p][i] \in Op
  BY <1>1 DEF OpIdx
<1> QED
  BY <1>1, <1>2 DEF OpIdx, Op

(***************************************************************************)
(* What an operation that is ready leaves behind is a vault again.         *)
(***************************************************************************)
LEMMA OpAppliedTyping ==
    ASSUME NEW v \in [Paths -> Notes], NEW p \in Plans, NEW i \in OpIdx(p), NEW h,
           OpReady(v, PlanOps[p][i], h)
    PROVE  /\ OpApplied(v, PlanOps[p][i], OpMark(p, i)) \in [Paths -> Notes]
           /\ MoveHalfApplied(v, PlanOps[p][i]) \in [Paths -> Notes]
<1> DEFINE op == PlanOps[p][i]
<1>1. op.path \in Paths /\ op.dest \in Paths
  BY PlanOpsTyping
<1>2. OpMark(p, i) \in Marks
  BY DEF OpMark, Marks, OpIdx
<1>3. op.kind # "create" => v[op.path] \in SUBSET Marks
  BY <1>1 DEF OpReady, Notes
<1>4. NoteAfter(v[op.path], op, OpMark(p, i)) \in Notes
  BY <1>2, <1>3 DEF NoteAfter, Notes
<1>5. Absent \in Notes
  BY DEF Notes
<1> QED
  BY <1>1, <1>4, <1>5 DEF OpApplied, MoveHalfApplied

\* Recording one before_hash keeps the table of them a table.
LEMMA NestedUpdate ==
    ASSUME NEW A, NEW B, NEW C, NEW f \in [A -> [B -> C]], NEW x \in A, NEW y \in B, NEW z \in C
    PROVE  [f EXCEPT ![x][y] = z] \in [A -> [B -> C]]
OBVIOUS

\* A verdict on an operation is "ok" exactly when the operation is ready.
LEMMA VerdictTyping ==
    ASSUME NEW p, NEW i
    PROVE  /\ VerdictOn(p, i) \in Verdicts
           /\ VerdictOn(p, i) = "ok" <=>
                OpReady(vault, PlanOps[p][i], beforeHash[p][PlanOps[p][i].path])
BY DEF VerdictOn, OpVerdict, Verdicts

\* The state in which the handlers start is well typed.
LEMMA TypeInit == Init => TypeOK
<1> SUFFICES ASSUME Init PROVE TypeOK
  OBVIOUS
<1>1. \A f \in Paths : {BaseMark(f)} \in Notes /\ Absent \in Notes
  BY DEF BaseMark, Marks, Notes
<1>2. vault \in [Paths -> Notes] /\ beforeHash \in [Plans -> [Paths -> Notes]]
  BY <1>1 DEF Init
<1>3. DataTypeOK
  BY <1>2 DEF Init, DataTypeOK, PlanStatuses, JobStatuses
<1>4. ControlTypeOK
  BY DEF Init, ControlTypeOK, HandlerTypeOK, Pcs, Verdicts, FailingPcs
<1> QED
  BY <1>3, <1>4 DEF TypeOK

(***************************************************************************)
(* The four moves of a handler keep the control state well typed.          *)
(***************************************************************************)
LEMMA BeginTyping ==
    ASSUME ControlTypeOK, NEW a \in Actors, NEW p \in Plans, NEW l \in Pcs \ {"idle"},
           l \notin FailingPcs, Begin(a, p, l)
    PROVE  ControlTypeOK'
BY PlanOpsTyping DEF ControlTypeOK, HandlerTypeOK, Begin

\* Likewise going on elsewhere, with an error in hand where one is due,
LEMMA GotoTyping ==
    ASSUME ControlTypeOK, NEW a \in Actors, NEW l \in Pcs \ {"idle"},
           pc[a] # "idle", Goto(a, l), l \in FailingPcs => verdict[a] # "ok"
    PROVE  ControlTypeOK'
BY DEF ControlTypeOK, HandlerTypeOK, Goto

\* going on with another operation or verdict,
LEMMA GotoWithTyping ==
    ASSUME ControlTypeOK, NEW a \in Actors, NEW l \in Pcs \ {"idle"},
           NEW i \in OpIdx(cmd[a]), NEW v \in Verdicts,
           pc[a] # "idle", GotoWith(a, l, i, v), l \in FailingPcs => v # "ok"
    PROVE  ControlTypeOK'
<1>1. i \in Nat
  BY DEF OpIdx
<1> QED
  BY <1>1 DEF ControlTypeOK, HandlerTypeOK, GotoWith

\* returning to the caller,
LEMMA ReturnTyping ==
    ASSUME ControlTypeOK, NEW a \in Actors, Return(a)
    PROVE  ControlTypeOK'
BY DEF ControlTypeOK, HandlerTypeOK, Return, Pcs, Verdicts, FailingPcs

\* and a step of something that is not a handler.
LEMMA StayTyping ==
    ASSUME ControlTypeOK, UNCHANGED <<pc, cmd, idx, verdict>>
    PROVE  ControlTypeOK'
BY DEF ControlTypeOK, HandlerTypeOK

\* What a handler that runs knows about its plan.
LEMMA RunningTyping ==
    ASSUME ControlTypeOK, NEW a \in Actors, pc[a] # "idle"
    PROVE  /\ cmd[a] \in Plans /\ idx[a] \in OpIdx(cmd[a]) /\ 1 \in OpIdx(cmd[a])
           /\ idx[a] # Len(PlanOps[cmd[a]]) => idx[a] + 1 \in OpIdx(cmd[a])
           /\ verdict[a] \in Verdicts
           /\ pc[a] \in FailingPcs => verdict[a] # "ok"
<1>1. /\ cmd[a] \in Plans /\ idx[a] \in OpIdx(cmd[a]) /\ verdict[a] \in Verdicts
      /\ pc[a] \in FailingPcs => verdict[a] # "ok"
  BY DEF ControlTypeOK, HandlerTypeOK
<1>2. 1 \in OpIdx(cmd[a]) /\ Len(PlanOps[cmd[a]]) \in OpIdx(cmd[a])
  BY <1>1, PlanOpsTyping
<1> QED
  BY <1>1, <1>2 DEF OpIdx

\* Accepting a command keeps the state well typed.
LEMMA TypeCommand ==
    ASSUME TypeOK, NEW a \in Actors, NEW p \in Plans,
           \/ BeginOrganize(a, p) \/ BeginApprove(a, p) \/ BeginReject(a, p)
    PROVE  TypeOK'
<1> USE DEF Pcs, FailingPcs, PlanStatuses, JobStatuses, OutboxKinds, Verdicts, planVars, lockVars, ctrVars,
           SetPlan, SetJob, Announce, OrganizePcs, ApprovePcs, RejectPcs
<1>0. DataTypeOK /\ ControlTypeOK
  BY DEF TypeOK
<1>1. CASE BeginOrganize(a, p)
  <2>1. ControlTypeOK'
    BY <1>1, <1>0, BeginTyping DEF BeginOrganize
  <2>2. DataTypeOK'
    BY <1>1, <1>0, RunningTyping DEF BeginOrganize, DataTypeOK
  <2> QED
    BY <2>1, <2>2 DEF TypeOK
<1>2. CASE BeginApprove(a, p)
  <2>1. ControlTypeOK'
    BY <1>2, <1>0, BeginTyping DEF BeginApprove
  <2>2. DataTypeOK'
    BY <1>2, <1>0, RunningTyping DEF BeginApprove, DataTypeOK
  <2> QED
    BY <2>1, <2>2 DEF TypeOK
<1>3. CASE BeginReject(a, p)
  <2>1. ControlTypeOK'
    BY <1>3, <1>0, BeginTyping DEF BeginReject
  <2>2. DataTypeOK'
    BY <1>3, <1>0, RunningTyping DEF BeginReject, DataTypeOK
  <2> QED
    BY <2>1, <2>2 DEF TypeOK
<1> QED
  BY <1>1, <1>2, <1>3

\* So does organizing.
LEMMA TypeOrganize ==
    ASSUME TypeOK, NEW a \in Actors,
           \/ PlanProposed(a) \/ PlannerFails(a) \/ SavePlan(a) \/ PrepareOp(a)
           \/ OrganizeFailPlan(a) \/ OrganizeFailJob(a) \/ PublishPlan(a) \/ OrganizeSetJob(a)
           \/ OrganizeAnnounce(a)
    PROVE  TypeOK'
<1> USE DEF Pcs, FailingPcs, PlanStatuses, JobStatuses, OutboxKinds, Verdicts, planVars, lockVars, ctrVars,
           SetPlan, SetJob, Announce, OrganizePcs
<1>0. DataTypeOK /\ ControlTypeOK
  BY DEF TypeOK
<1>1. CASE PlanProposed(a)
  <2>1. ControlTypeOK'
    BY <1>1, <1>0, GotoTyping DEF PlanProposed
  <2>2. DataTypeOK'
    BY <1>1, <1>0, RunningTyping DEF PlanProposed, DataTypeOK
  <2> QED
    BY <2>1, <2>2 DEF TypeOK
<1>2. CASE PlannerFails(a)
  <2>1. ControlTypeOK'
    BY <1>2, <1>0, GotoTyping DEF PlannerFails
  <2>2. DataTypeOK'
    BY <1>2, <1>0, RunningTyping DEF PlannerFails, DataTypeOK
  <2> QED
    BY <2>1, <2>2 DEF TypeOK
<1>3. CASE SavePlan(a)
  <2>1. ControlTypeOK'
    BY <1>3, <1>0, GotoTyping DEF SavePlan
  <2>2. DataTypeOK'
    BY <1>3, <1>0, RunningTyping DEF SavePlan, DataTypeOK
  <2> QED
    BY <2>1, <2>2 DEF TypeOK
<1>4. CASE PrepareOp(a)
  <2>1. ControlTypeOK'
    <3>1. \/ GotoWith(a, "org_publish", 1, "ok")
          \/ idx[a] # Len(PlanOps[cmd[a]]) /\ GotoWith(a, "org_prepare", idx[a] + 1, "ok")
          \/ GotoWith(a, "org_fail_plan", 1, "ok")
      BY <1>4 DEF PrepareOp
    <3>2. pc[a] = "org_prepare"
      BY <1>4 DEF PrepareOp
    <3> QED
      BY <1>0, <3>1, <3>2, RunningTyping, GotoWithTyping
  <2>2. DataTypeOK'
    <3> DEFINE q == cmd[a]
               op == PlanOps[q][idx[a]]
    <3>1. q \in Plans /\ op.path \in Paths /\ vault[op.path] \in Notes
      BY <1>4, <1>0, RunningTyping, PlanOpsTyping DEF PrepareOp, DataTypeOK
    <3>2. \/ beforeHash' = beforeHash
          \/ beforeHash' = [beforeHash EXCEPT ![q][op.path] = vault[op.path]]
      BY <1>4 DEF PrepareOp
    <3>3. [beforeHash EXCEPT ![q][op.path] = vault[op.path]] \in [Plans -> [Paths -> Notes]]
      BY <1>0, <3>1, NestedUpdate DEF DataTypeOK
    <3>4. beforeHash' \in [Plans -> [Paths -> Notes]]
      BY <1>0, <3>2, <3>3 DEF DataTypeOK
    <3> QED
      BY <1>4, <1>0, <3>4 DEF PrepareOp, DataTypeOK
  <2> QED
    BY <2>1, <2>2 DEF TypeOK
<1>5. CASE OrganizeFailPlan(a)
  <2>1. ControlTypeOK'
    BY <1>5, <1>0, GotoTyping DEF OrganizeFailPlan
  <2>2. DataTypeOK'
    BY <1>5, <1>0, RunningTyping DEF OrganizeFailPlan, DataTypeOK
  <2> QED
    BY <2>1, <2>2 DEF TypeOK
<1>6. CASE OrganizeFailJob(a)
  <2>1. ControlTypeOK'
    BY <1>6, <1>0, ReturnTyping DEF OrganizeFailJob
  <2>2. DataTypeOK'
    BY <1>6, <1>0, RunningTyping DEF OrganizeFailJob, DataTypeOK
  <2> QED
    BY <2>1, <2>2 DEF TypeOK
<1>7. CASE PublishPlan(a)
  <2>1. ControlTypeOK'
    BY <1>7, <1>0, GotoTyping DEF PublishPlan
  <2>2. DataTypeOK'
    BY <1>7, <1>0, RunningTyping DEF PublishPlan, DataTypeOK
  <2> QED
    BY <2>1, <2>2 DEF TypeOK
<1>8. CASE OrganizeSetJob(a)
  <2>1. ControlTypeOK'
    BY <1>8, <1>0, GotoTyping DEF OrganizeSetJob
  <2>2. DataTypeOK'
    BY <1>8, <1>0, RunningTyping DEF OrganizeSetJob, DataTypeOK
  <2> QED
    BY <2>1, <2>2 DEF TypeOK
<1>9. CASE OrganizeAnnounce(a)
  <2>1. ControlTypeOK'
    BY <1>9, <1>0, ReturnTyping DEF OrganizeAnnounce
  <2>2. PICK kinds : outbox' = [outbox EXCEPT ![cmd[a]] = kinds] /\ kinds \in {outbox[cmd[a]], outbox[cmd[a]] \cup {"approval"}}
    BY <1>9 DEF OrganizeAnnounce
  <2>3. DataTypeOK'
    BY <1>9, <1>0, <2>2, RunningTyping DEF OrganizeAnnounce, DataTypeOK
  <2> QED
    BY <2>1, <2>3 DEF TypeOK
<1> QED
  BY <1>1, <1>2, <1>3, <1>4, <1>5, <1>6, <1>7, <1>8, <1>9

\* So does approving, up to the executor.
LEMMA TypeApprove ==
    ASSUME TypeOK, NEW a \in Actors,
           \/ MarkApproved(a) \/ ApprovalChecked(a) \/ ApprovalRefused(a) \/ ApproveSetJob(a)
           \/ ApproveSetPlan(a) \/ PreSync(a) \/ PreSyncFails(a) \/ ProposalCheck(a)
           \/ AcquireLocks(a) \/ LocksRefused(a)
    PROVE  TypeOK'
<1> USE DEF Pcs, FailingPcs, PlanStatuses, JobStatuses, OutboxKinds, Verdicts, planVars, lockVars, ctrVars,
           SetPlan, SetJob, Announce, ApprovePcs, ApplyPcs
<1>0. DataTypeOK /\ ControlTypeOK
  BY DEF TypeOK
<1>1. CASE MarkApproved(a)
  <2>1. ControlTypeOK'
    BY <1>1, <1>0, GotoTyping DEF MarkApproved
  <2>2. DataTypeOK'
    BY <1>1, <1>0, RunningTyping DEF MarkApproved, DataTypeOK
  <2> QED
    BY <2>1, <2>2 DEF TypeOK
<1>2. CASE ApprovalChecked(a)
  <2>1. ControlTypeOK'
    BY <1>2, <1>0, GotoTyping DEF ApprovalChecked
  <2>2. DataTypeOK'
    BY <1>2, <1>0, RunningTyping DEF ApprovalChecked, DataTypeOK
  <2> QED
    BY <2>1, <2>2 DEF TypeOK
<1>3. CASE ApprovalRefused(a)
  <2>1. ControlTypeOK'
    BY <1>3, <1>0, ReturnTyping DEF ApprovalRefused
  <2>2. DataTypeOK'
    BY <1>3, <1>0, RunningTyping DEF ApprovalRefused, DataTypeOK
  <2> QED
    BY <2>1, <2>2 DEF TypeOK
<1>4. CASE ApproveSetJob(a)
  <2>1. ControlTypeOK'
    BY <1>4, <1>0, GotoTyping DEF ApproveSetJob
  <2>2. DataTypeOK'
    BY <1>4, <1>0, RunningTyping DEF ApproveSetJob, DataTypeOK
  <2> QED
    BY <2>1, <2>2 DEF TypeOK
<1>5. CASE ApproveSetPlan(a)
  <2>1. ControlTypeOK'
    BY <1>5, <1>0, GotoTyping DEF ApproveSetPlan
  <2>2. DataTypeOK'
    BY <1>5, <1>0, RunningTyping DEF ApproveSetPlan, DataTypeOK
  <2> QED
    BY <2>1, <2>2 DEF TypeOK
<1>6. CASE PreSync(a)
  <2>1. ControlTypeOK'
    BY <1>6, <1>0, GotoTyping DEF PreSync
  <2>2. DataTypeOK'
    BY <1>6, <1>0, RunningTyping DEF PreSync, DataTypeOK
  <2> QED
    BY <2>1, <2>2 DEF TypeOK
<1>7. CASE PreSyncFails(a)
  <2>1. ControlTypeOK'
    BY <1>7, <1>0, RunningTyping, GotoWithTyping DEF PreSyncFails
  <2>2. DataTypeOK'
    BY <1>7, <1>0, RunningTyping DEF PreSyncFails, DataTypeOK
  <2> QED
    BY <2>1, <2>2 DEF TypeOK
<1>8. CASE ProposalCheck(a)
  <2>1. ControlTypeOK'
    BY <1>8, <1>0, RunningTyping, GotoTyping, GotoWithTyping DEF ProposalCheck
  <2>2. DataTypeOK'
    BY <1>8, <1>0, RunningTyping DEF ProposalCheck, DataTypeOK
  <2> QED
    BY <2>1, <2>2 DEF TypeOK
<1>9. CASE AcquireLocks(a)
  <2>1. ControlTypeOK'
    BY <1>9, <1>0, GotoTyping DEF AcquireLocks
  <2>2. DataTypeOK'
    BY <1>9, <1>0, RunningTyping DEF AcquireLocks, DataTypeOK, Acquired, Reaped
  <2> QED
    BY <2>1, <2>2 DEF TypeOK
<1>10. CASE LocksRefused(a)
  <2>1. ControlTypeOK'
    BY <1>10, <1>0, RunningTyping, GotoWithTyping DEF LocksRefused
  <2>2. DataTypeOK'
    BY <1>10, <1>0, RunningTyping DEF LocksRefused, DataTypeOK
  <2> QED
    BY <2>1, <2>2 DEF TypeOK
<1> QED
  BY <1>1, <1>2, <1>3, <1>4, <1>5, <1>6, <1>7, <1>8, <1>9, <1>10

\* So does the executor.
LEMMA TypeExecutor ==
    ASSUME TypeOK, NEW a \in Actors,
           \/ Preflight(a) \/ ApplyOperation(a) \/ OperationRefused(a) \/ MoveHalfDone(a)
           \/ ApplyFails(a) \/ LogApplied(a) \/ LogFailed(a) \/ ReleaseLocks(a)
    PROVE  TypeOK'
<1> USE DEF Pcs, FailingPcs, PlanStatuses, JobStatuses, OutboxKinds, Verdicts, planVars, lockVars, ctrVars,
           SetPlan, SetJob, Announce, ApprovePcs, ApplyPcs
<1>0. DataTypeOK /\ ControlTypeOK
  BY DEF TypeOK
<1>1. CASE Preflight(a)
  <2>1. ControlTypeOK'
    BY <1>1, <1>0, RunningTyping, VerdictTyping, GotoWithTyping DEF Preflight
  <2>2. DataTypeOK'
    BY <1>1, <1>0, RunningTyping DEF Preflight, DataTypeOK
  <2> QED
    BY <2>1, <2>2 DEF TypeOK
<1>2. CASE ApplyOperation(a)
  <2>1. ControlTypeOK'
    BY <1>2, <1>0, GotoTyping DEF ApplyOperation
  <2>2. DataTypeOK'
    <3>1. vault' \in [Paths -> Notes]
      BY <1>2, <1>0, RunningTyping, VerdictTyping, OpAppliedTyping DEF ApplyOperation, DataTypeOK
    <3> QED
      BY <1>2, <1>0, <3>1 DEF ApplyOperation, DataTypeOK
  <2> QED
    BY <2>1, <2>2 DEF TypeOK
<1>3. CASE OperationRefused(a)
  <2>1. ControlTypeOK'
    BY <1>3, <1>0, RunningTyping, VerdictTyping, GotoWithTyping DEF OperationRefused
  <2>2. DataTypeOK'
    BY <1>3, <1>0, RunningTyping DEF OperationRefused, DataTypeOK
  <2> QED
    BY <2>1, <2>2 DEF TypeOK
<1>4. CASE MoveHalfDone(a)
  <2>1. ControlTypeOK'
    BY <1>4, <1>0, RunningTyping, GotoWithTyping DEF MoveHalfDone
  <2>2. DataTypeOK'
    <3>1. vault' \in [Paths -> Notes]
      BY <1>4, <1>0, RunningTyping, VerdictTyping, OpAppliedTyping DEF MoveHalfDone, DataTypeOK
    <3> QED
      BY <1>4, <1>0, <3>1 DEF MoveHalfDone, DataTypeOK
  <2> QED
    BY <2>1, <2>2 DEF TypeOK
<1>5. CASE ApplyFails(a)
  <2>1. ControlTypeOK'
    BY <1>5, <1>0, RunningTyping, GotoWithTyping DEF ApplyFails
  <2>2. DataTypeOK'
    BY <1>5, <1>0, RunningTyping DEF ApplyFails, DataTypeOK
  <2> QED
    BY <2>1, <2>2 DEF TypeOK
<1>6. CASE LogApplied(a)
  <2>1. ControlTypeOK'
    BY <1>6, <1>0, RunningTyping, GotoTyping, GotoWithTyping DEF LogApplied
  <2>2. DataTypeOK'
    <3>1. <<idx[a], "applied">> \in Nat \X {"applied", "failed"}
      BY <1>6, <1>0, RunningTyping DEF LogApplied, OpIdx
    <3> QED
      BY <1>6, <1>0, <3>1, RunningTyping DEF LogApplied, DataTypeOK
  <2> QED
    BY <2>1, <2>2 DEF TypeOK
<1>7. CASE LogFailed(a)
  <2>1. ControlTypeOK'
    BY <1>7, <1>0, RunningTyping, GotoTyping, GotoWithTyping DEF LogFailed
  <2>2. DataTypeOK'
    <3>1. <<idx[a], "failed">> \in Nat \X {"applied", "failed"}
      BY <1>7, <1>0, RunningTyping DEF LogFailed, OpIdx
    <3> QED
      BY <1>7, <1>0, <3>1, RunningTyping DEF LogFailed, DataTypeOK
  <2> QED
    BY <2>1, <2>2 DEF TypeOK
<1>8. CASE ReleaseLocks(a)
  <2>1. ControlTypeOK'
    BY <1>8, <1>0, GotoTyping DEF ReleaseLocks
  <2>2. DataTypeOK'
    BY <1>8, <1>0, RunningTyping DEF ReleaseLocks, DataTypeOK, Released
  <2> QED
    BY <2>1, <2>2 DEF TypeOK
<1> QED
  BY <1>1, <1>2, <1>3, <1>4, <1>5, <1>6, <1>7, <1>8

\* So does recording the outcome.
LEMMA TypeOutcome ==
    ASSUME TypeOK, NEW a \in Actors,
           \/ FinishPlan(a) \/ FinishJob(a) \/ AnnounceResult(a) \/ FailPlan(a)
           \/ FailJob(a) \/ AnnounceFailure(a)
    PROVE  TypeOK'
<1> USE DEF Pcs, FailingPcs, PlanStatuses, JobStatuses, OutboxKinds, Verdicts, planVars, lockVars, ctrVars,
           SetPlan, SetJob, Announce, ApprovePcs, ApplyPcs
<1>0. DataTypeOK /\ ControlTypeOK
  BY DEF TypeOK
<1>1. CASE FinishPlan(a)
  <2>1. ControlTypeOK'
    BY <1>1, <1>0, GotoTyping DEF FinishPlan
  <2>2. DataTypeOK'
    BY <1>1, <1>0, RunningTyping DEF FinishPlan, DataTypeOK
  <2> QED
    BY <2>1, <2>2 DEF TypeOK
<1>2. CASE FinishJob(a)
  <2>1. ControlTypeOK'
    BY <1>2, <1>0, GotoTyping DEF FinishJob
  <2>2. DataTypeOK'
    BY <1>2, <1>0, RunningTyping DEF FinishJob, DataTypeOK
  <2> QED
    BY <2>1, <2>2 DEF TypeOK
<1>3. CASE AnnounceResult(a)
  <2>1. ControlTypeOK'
    BY <1>3, <1>0, ReturnTyping DEF AnnounceResult
  <2>2. DataTypeOK'
    BY <1>3, <1>0, RunningTyping DEF AnnounceResult, DataTypeOK
  <2> QED
    BY <2>1, <2>2 DEF TypeOK
<1>4. CASE FailPlan(a)
  <2>1. ControlTypeOK'
    BY <1>4, <1>0, RunningTyping, GotoTyping DEF FailPlan
  <2>2. DataTypeOK'
    BY <1>4, <1>0, RunningTyping DEF FailPlan, DataTypeOK
  <2> QED
    BY <2>1, <2>2 DEF TypeOK
<1>5. CASE FailJob(a)
  <2>1. ControlTypeOK'
    BY <1>5, <1>0, RunningTyping, GotoTyping DEF FailJob
  <2>2. DataTypeOK'
    BY <1>5, <1>0, RunningTyping DEF FailJob, DataTypeOK
  <2> QED
    BY <2>1, <2>2 DEF TypeOK
<1>6. CASE AnnounceFailure(a)
  <2>1. ControlTypeOK'
    BY <1>6, <1>0, ReturnTyping DEF AnnounceFailure
  <2>2. DataTypeOK'
    BY <1>6, <1>0, RunningTyping DEF AnnounceFailure, DataTypeOK
  <2> QED
    BY <2>1, <2>2 DEF TypeOK
<1> QED
  BY <1>1, <1>2, <1>3, <1>4, <1>5, <1>6

\* So does rejecting.
LEMMA TypeReject ==
    ASSUME TypeOK, NEW a \in Actors,
           \/ MarkRejected(a) \/ RejectSetJob(a) \/ RejectAnnounce(a)
    PROVE  TypeOK'
<1> USE DEF Pcs, FailingPcs, PlanStatuses, JobStatuses, OutboxKinds, Verdicts, planVars, lockVars, ctrVars,
           SetPlan, SetJob, Announce, RejectPcs
<1>0. DataTypeOK /\ ControlTypeOK
  BY DEF TypeOK
<1>1. CASE MarkRejected(a)
  <2>1. ControlTypeOK'
    BY <1>1, <1>0, GotoTyping DEF MarkRejected
  <2>2. DataTypeOK'
    BY <1>1, <1>0, RunningTyping DEF MarkRejected, DataTypeOK
  <2> QED
    BY <2>1, <2>2 DEF TypeOK
<1>2. CASE RejectSetJob(a)
  <2>1. ControlTypeOK'
    BY <1>2, <1>0, GotoTyping DEF RejectSetJob
  <2>2. DataTypeOK'
    BY <1>2, <1>0, RunningTyping DEF RejectSetJob, DataTypeOK
  <2> QED
    BY <2>1, <2>2 DEF TypeOK
<1>3. CASE RejectAnnounce(a)
  <2>1. ControlTypeOK'
    BY <1>3, <1>0, ReturnTyping DEF RejectAnnounce
  <2>2. DataTypeOK'
    BY <1>3, <1>0, RunningTyping DEF RejectAnnounce, DataTypeOK
  <2> QED
    BY <2>1, <2>2 DEF TypeOK
<1> QED
  BY <1>1, <1>2, <1>3

\* So do a failed store statement and the end of a process.
LEMMA TypeFaults ==
    ASSUME TypeOK, NEW a \in Actors,
           \/ StoreError(a) \/ Crash(a)
    PROVE  TypeOK'
<1> USE DEF Pcs, FailingPcs, PlanStatuses, JobStatuses, OutboxKinds, Verdicts, planVars, lockVars, ctrVars,
           SetPlan, SetJob, Announce, OrganizePcs, ApprovePcs, ApplyPcs, RejectPcs
<1>0. DataTypeOK /\ ControlTypeOK
  BY DEF TypeOK
<1>1. CASE StoreError(a)
  <2>1. ControlTypeOK'
    <3> DEFINE l == AfterStoreError(a)
               i == IF l = "log_failed" THEN idx[a] + 1 ELSE idx[a]
    <3>1. CASE pc[a] \in Propagates /\ Return(a)
      BY <1>0, <3>1, ReturnTyping
    <3>2. CASE pc[a] \in Swallows /\ GotoWith(a, l, i, verdict[a])
      <4>1. pc[a] # "idle" /\ l \in Pcs \ {"idle"}
        BY <3>2 DEF Swallows, AfterStoreError
      <4>2. l = "log_failed" => idx[a] # Len(PlanOps[cmd[a]])
        BY <3>2 DEF Swallows, AfterStoreError
      <4>3. i \in OpIdx(cmd[a]) /\ verdict[a] \in Verdicts
        BY <1>0, <4>1, <4>2, RunningTyping
      <4>4. l \in FailingPcs => verdict[a] # "ok"
        BY <1>0, <3>2, <4>1, RunningTyping DEF Swallows, AfterStoreError
      <4> HIDE DEF l, i
      <4> QED
        BY <1>0, <3>2, <4>1, <4>3, <4>4, GotoWithTyping
    <3>3. CASE pc[a] \in {"org_save", "org_publish"} /\ Goto(a, l)
      <4>1. pc[a] # "idle" /\ l \in Pcs \ {"idle"} /\ l \notin FailingPcs
        BY <3>3 DEF AfterStoreError
      <4> QED
        BY <1>0, <3>3, <4>1, GotoTyping
    <3>4. CASE pc[a] \in {"lock", "log"} /\ GotoWith(a, l, idx[a], "failed")
      <4>1. pc[a] # "idle" /\ l \in Pcs \ {"idle"}
        BY <3>4 DEF AfterStoreError
      <4> HIDE DEF l
      <4> QED
        BY <1>0, <3>4, <4>1, RunningTyping, GotoWithTyping
    <3> QED
      BY <1>1, <3>1, <3>2, <3>3, <3>4 DEF StoreError
  <2>2. DataTypeOK'
    BY <1>1, <1>0, RunningTyping DEF StoreError, DataTypeOK
  <2> QED
    BY <2>1, <2>2 DEF TypeOK
<1>2. CASE Crash(a)
  <2>1. ControlTypeOK'
    BY <1>2, <1>0, ReturnTyping DEF Crash
  <2>2. DataTypeOK'
    BY <1>2, <1>0, RunningTyping DEF Crash, DataTypeOK
  <2> QED
    BY <2>1, <2>2 DEF TypeOK
<1> QED
  BY <1>1, <1>2

\* So do the clock, a process that starts and the user.
LEMMA TypeWorld ==
    ASSUME TypeOK,
           \/ \E p \in Plans : LocksLapse(p)
           \/ OpenStore
           \/ \E f \in Paths : UserEdit(f)
    PROVE  TypeOK'
<1>0. DataTypeOK /\ ControlTypeOK
  BY DEF TypeOK
<1>1. ControlTypeOK'
  BY <1>0, StayTyping DEF LocksLapse, OpenStore, UserEdit
<1>2. CASE \E p \in Plans : LocksLapse(p)
  <2>1. DataTypeOK'
    BY <1>0, <1>2 DEF LocksLapse, DataTypeOK, planVars, ctrVars, RowsOf
  <2> QED
    BY <1>1, <2>1 DEF TypeOK
<1>3. CASE OpenStore
  <2>1. DataTypeOK'
    BY <1>0, <1>3 DEF OpenStore, DataTypeOK, planVars, ctrVars, Reaped
  <2> QED
    BY <1>1, <2>1 DEF TypeOK
<1>4. ASSUME NEW f \in Paths, UserEdit(f)
      PROVE  DataTypeOK'
  <2>1. UserMark(edits + 1) \in Marks
    BY <1>0 DEF DataTypeOK, UserMark, Marks
  <2>2. PICK n \in Notes : vault' = [vault EXCEPT ![f] = n]
    <3>1. vault[f] = Absent \/ vault[f] \in SUBSET Marks
      BY <1>0 DEF DataTypeOK, Notes
    <3>2. CASE vault' = [vault EXCEPT ![f] = IF @ = Absent THEN {UserMark(edits + 1)}
                                             ELSE @ \cup {UserMark(edits + 1)}]
      BY <2>1, <3>1, <3>2 DEF Notes
    <3>3. CASE vault' = [vault EXCEPT ![f] = Absent]
      BY <3>3 DEF Notes
    <3> QED
      BY <1>4, <3>2, <3>3 DEF UserEdit
  <2>3. vault' \in [Paths -> Notes]
    BY <1>0, <2>2 DEF DataTypeOK
  <2> QED
    BY <1>0, <1>4, <2>3 DEF UserEdit, DataTypeOK, planVars, lockVars
<1> QED
  BY <1>1, <1>2, <1>3, <1>4 DEF TypeOK

\* No step of the system leaves the typed states.
LEMMA TypeNext == TypeOK /\ [Next]_vars => TypeOK'
<1> SUFFICES ASSUME TypeOK, [Next]_vars PROVE TypeOK'
  OBVIOUS
<1>1. CASE UNCHANGED vars
  BY <1>1 DEF vars, TypeOK, DataTypeOK, ControlTypeOK, HandlerTypeOK
<1>2. CASE \E a \in Actors : Command(a)
  BY <1>2, TypeCommand DEF Command
<1>3. ASSUME NEW a \in Actors, Step(a) PROVE TypeOK'
  <2>2. CASE OrganizeStep(a)
    BY <2>2, TypeOrganize DEF OrganizeStep
  <2>3. CASE ApproveStep(a)
    BY <2>3, TypeApprove DEF ApproveStep
  <2>4. CASE ExecutorStep(a)
    BY <2>4, TypeExecutor DEF ExecutorStep
  <2>5. CASE OutcomeStep(a)
    BY <2>5, TypeOutcome DEF OutcomeStep
  <2>6. CASE RejectStep(a)
    BY <2>6, TypeReject DEF RejectStep
  <2> QED
    BY <1>3, <2>2, <2>3, <2>4, <2>5, <2>6 DEF Step
<1>4. CASE \E a \in Actors : Fault(a)
  BY <1>4, TypeOrganize, TypeApprove, TypeExecutor, TypeFaults DEF Fault
<1>5. CASE \/ \E p \in Plans : LocksLapse(p)
           \/ OpenStore
           \/ \E f \in Paths : UserEdit(f)
  BY <1>5, TypeWorld
<1> QED
  BY <1>1, <1>2, <1>3, <1>4, <1>5 DEF Next

(***************************************************************************)
(* Every state the handlers reach is well typed: no handler steps beyond   *)
(* the operations of its plan, and none reports success as an error.       *)
(***************************************************************************)
THEOREM TypeCorrect == Spec => []TypeOK
BY TypeInit, TypeNext, PTL DEF Spec

-----------------------------------------------------------------------------
(***************************************************************************)
(* The lock rows.                                                          *)
(***************************************************************************)
LockInv == HoldsLocks /\ OnePerPlan

\* A step that leaves the rows alone and starts nobody in the vault.
LocksUntouched ==
    /\ UNCHANGED lockVars
    /\ \A b \in Actors : Applying(b)' => Applying(b) /\ cmd'[b] = cmd[b]

\* Such a step keeps LockInv.
LEMMA UntouchedKeepsLocks ==
    ASSUME LockInv, LocksUntouched
    PROVE  LockInv'
<1> USE DEF LockInv, LocksUntouched, lockVars
<1>1. \A b \in Actors : Applying(b)' => Targets(cmd[b])' = Targets(cmd[b])
  BY DEF Targets, OpIdx
<1>2. HoldsLocks'
  BY <1>1 DEF HoldsLocks
<1>3. OnePerPlan'
  BY DEF OnePerPlan
<1> QED
  BY <1>2, <1>3

(***************************************************************************)
(* Only AcquireLocks, ReleaseLocks, the clock and Open touch the rows, and *)
(* only AcquireLocks lets a handler into the vault.                        *)
(***************************************************************************)
LEMMA ElsewhereUntouched ==
    ASSUME TypeOK, NEW a \in Actors,
           \/ Command(a) \/ OrganizeStep(a) \/ OutcomeStep(a) \/ RejectStep(a) \/ Fault(a)
           \/ ApproveStep(a) /\ ~AcquireLocks(a)
           \/ ExecutorStep(a) /\ ~ReleaseLocks(a)
    PROVE  LocksUntouched
<1> USE DEF TypeOK, ControlTypeOK, LocksUntouched, Applying, ApplyPcs, lockVars,
            Begin, Goto, GotoWith, Return
<1>1. CASE Command(a)
  BY <1>1 DEF Command, BeginOrganize, BeginApprove, BeginReject
<1>2. CASE OrganizeStep(a)
  BY <1>2 DEF OrganizeStep, PlanProposed, SavePlan, PrepareOp, OrganizeFailPlan, OrganizeFailJob,
              PublishPlan, OrganizeSetJob, OrganizeAnnounce
<1>3. CASE OutcomeStep(a)
  BY <1>3 DEF OutcomeStep, FinishPlan, FinishJob, AnnounceResult, FailPlan, FailJob,
              AnnounceFailure
<1>4. CASE RejectStep(a)
  BY <1>4 DEF RejectStep, MarkRejected, RejectSetJob, RejectAnnounce
<1>5. CASE Fault(a)
  <2>1. CASE StoreError(a)
    <3>1. UNCHANGED lockVars /\ \A b \in Actors : b # a => pc'[b] = pc[b] /\ cmd'[b] = cmd[b]
      BY <2>1 DEF StoreError
    <3>2. pc'[a] \in {"idle", AfterStoreError(a)} /\ (pc'[a] # "idle" => cmd'[a] = cmd[a])
      BY <2>1 DEF StoreError
    <3>3. pc[a] \notin ApplyPcs => pc'[a] \notin ApplyPcs
      BY <2>1 DEF StoreError, Swallows, AfterStoreError
    <3> QED
      BY <3>1, <3>2, <3>3
  <2>2. CASE ApplyFails(a)
    BY <2>2 DEF ApplyFails
  <2>3. CASE PlannerFails(a) \/ ApprovalRefused(a) \/ PreSyncFails(a) \/ MoveHalfDone(a) \/ Crash(a)
    BY <2>3 DEF PlannerFails, ApprovalRefused, PreSyncFails, MoveHalfDone, Crash
  <2> QED
    BY <1>5, <2>1, <2>2, <2>3 DEF Fault
<1>6. CASE ApproveStep(a) /\ ~AcquireLocks(a)
  BY <1>6 DEF ApproveStep, MarkApproved, ApprovalChecked, ApproveSetJob, ApproveSetPlan, PreSync,
              ProposalCheck, LocksRefused
<1>7. CASE ExecutorStep(a) /\ ~ReleaseLocks(a)
  BY <1>7 DEF ExecutorStep, Preflight, ApplyOperation, OperationRefused, LogApplied, LogFailed
<1> QED
  BY <1>1, <1>2, <1>3, <1>4, <1>5, <1>6, <1>7

(***************************************************************************)
(* Who acquires the rows of a plan finds all of them free, so nobody works *)
(* for that plan, or holds one of its paths for another plan.              *)
(***************************************************************************)
LEMMA AcquireKeepsLocks ==
    ASSUME TypeOK, LockInv, NEW a \in Actors, AcquireLocks(a)
    PROVE  LockInv'
<1> DEFINE p == cmd[a]
<1> USE DEF LockInv
<1>1. p \in Plans /\ pc[a] = "lock" /\ ~Applying(a)
  BY RunningTyping DEF TypeOK, AcquireLocks, Applying, ApplyPcs
<1>2. UNCHANGED cmd /\ \A b \in Actors : b # a => (Applying(b)' <=> Applying(b))
  BY DEF AcquireLocks, Goto, Applying, TypeOK, ControlTypeOK
<1>3. Targets(p) # {} /\ Targets(p) \subseteq Paths
  <2>1. PlanOps[p][1].path \in Targets(p)
    BY <1>1, PlanOpsTyping DEF Targets, OpPaths
  <2> QED
    BY <1>1, <2>1, PlanOpsTyping DEF Targets, OpPaths
<1>4. DOMAIN owner = Paths /\ lapsed' = {}
  BY DEF TypeOK, DataTypeOK, AcquireLocks
<1>5. \A f \in Targets(p) : f \in lapsed \/ owner[f] = NoPlan
  BY <1>3, <1>4 DEF AcquireLocks, Acquirable, Reaped
<1>6. \A f \in Paths : owner'[f] = IF f \in Targets(p) THEN p
                                  ELSE IF f \in lapsed THEN NoPlan ELSE owner[f]
  BY <1>4 DEF AcquireLocks, Acquired, Reaped
<1>7. \A b \in Actors : b # a /\ Applying(b) => cmd[b] \in Plans /\ Targets(cmd[b]) \subseteq Paths
  BY RunningTyping, PlanOpsTyping DEF TypeOK, Applying, ApplyPcs, Targets, OpPaths
<1>8. \A b \in Actors : b # a /\ Applying(b) => Targets(cmd[b]) \cap Targets(p) = {} /\ cmd[b] # p
  BY <1>3, <1>5, <1>7, PathsAssumption DEF HoldsLocks
<1>9. \A q : Targets(q)' = Targets(q)
  BY DEF Targets, OpIdx
<1>10. HoldsLocks'
  BY <1>2, <1>3, <1>4, <1>6, <1>7, <1>8, <1>9 DEF HoldsLocks
<1>11. OnePerPlan'
  BY <1>2, <1>8 DEF OnePerPlan
<1> QED
  BY <1>10, <1>11

\* ReleaseLocks deletes the rows of one plan, whose only handler leaves.
LEMMA ReleaseKeepsLocks ==
    ASSUME TypeOK, LockInv, NEW a \in Actors, ReleaseLocks(a)
    PROVE  LockInv'
<1> USE DEF LockInv
<1>1. /\ pc[a] = "release" /\ Applying(a) /\ ~Applying(a)' /\ UNCHANGED cmd
      /\ \A b \in Actors : b # a => (Applying(b)' <=> Applying(b))
  BY DEF ReleaseLocks, Goto, Applying, ApplyPcs, TypeOK, ControlTypeOK
<1>2. \A b \in Actors : Applying(b)' => b # a /\ Applying(b) /\ cmd[b] # cmd[a]
  BY <1>1 DEF OnePerPlan
<1>3. \A b \in Actors : Applying(b) => Targets(cmd[b]) \subseteq Paths
  BY RunningTyping, PlanOpsTyping DEF TypeOK, Applying, ApplyPcs, Targets, OpPaths
<1>4. \A f \in Paths : owner[f] # cmd[a] /\ f \notin lapsed => owner'[f] = owner[f] /\ f \notin lapsed'
  BY DEF ReleaseLocks, Released, TypeOK, DataTypeOK
<1>5. \A q : Targets(q)' = Targets(q)
  BY DEF Targets, OpIdx
<1>6. HoldsLocks'
  BY <1>1, <1>2, <1>3, <1>4, <1>5 DEF HoldsLocks
<1>7. OnePerPlan'
  BY <1>1, <1>2 DEF OnePerPlan
<1> QED
  BY <1>6, <1>7

\* Rows lapse only while nobody works for their plan; Open removes lapsed ones.
LEMMA ClockKeepsLocks ==
    ASSUME TypeOK, LockInv, (\E p \in Plans : LocksLapse(p)) \/ OpenStore
    PROVE  LockInv'
<1> USE DEF LockInv
<1>1. UNCHANGED <<pc, cmd>> /\ \A b \in Actors : Applying(b)' <=> Applying(b)
  BY DEF LocksLapse, OpenStore, Applying
<1>2. \A b \in Actors : Applying(b) => Targets(cmd[b]) \subseteq Paths
  BY RunningTyping, PlanOpsTyping DEF TypeOK, Applying, ApplyPcs, Targets, OpPaths
<1>3. \A b \in Actors, f \in Paths :
         Applying(b) /\ owner[f] = cmd[b] /\ f \notin lapsed => owner'[f] = cmd[b] /\ f \notin lapsed'
  <2>1. CASE \E p \in Plans : LocksLapse(p)
    BY <2>1 DEF LocksLapse, RowsOf
  <2>2. CASE OpenStore
    BY <2>2 DEF OpenStore, Reaped, TypeOK, DataTypeOK
  <2> QED
    BY <2>1, <2>2
<1>4. \A q : Targets(q)' = Targets(q)
  BY DEF Targets, OpIdx
<1>5. HoldsLocks'
  BY <1>1, <1>2, <1>3, <1>4 DEF HoldsLocks
<1>6. OnePerPlan'
  BY <1>1 DEF OnePerPlan
<1> QED
  BY <1>5, <1>6

\* No step of the system breaks LockInv.
LEMMA LocksNext == TypeOK /\ LockInv /\ [Next]_vars => LockInv'
<1> SUFFICES ASSUME TypeOK, LockInv, [Next]_vars PROVE LockInv'
  OBVIOUS
<1>1. CASE UNCHANGED vars \/ \E f \in Paths : UserEdit(f)
  <2>1. LocksUntouched
    BY <1>1 DEF vars, UserEdit, LocksUntouched, lockVars, Applying
  <2> QED
    BY <2>1, UntouchedKeepsLocks
<1>2. ASSUME NEW a \in Actors, Command(a) \/ Step(a) \/ Fault(a)
      PROVE  LockInv'
  BY <1>2, ElsewhereUntouched, UntouchedKeepsLocks, AcquireKeepsLocks, ReleaseKeepsLocks DEF Step
<1>3. CASE (\E p \in Plans : LocksLapse(p)) \/ OpenStore
  BY <1>3, ClockKeepsLocks
<1> QED
  BY <1>1, <1>2, <1>3 DEF Next

\* Nobody is in the vault at the start.
LEMMA LocksInit == Init => LockInv
BY DEF Init, LockInv, HoldsLocks, OnePerPlan, Applying, ApplyPcs

\* Whoever holds a row for its plan shares the path with no other plan.
LEMMA LocksExclude == LockInv => MutualExclusion
BY DEF LockInv, HoldsLocks, OnePerPlan, MutualExclusion

(***************************************************************************)
(* Two handlers that work in the vault at the same time work on plans with *)
(* no path in common, whatever crashed handlers left in vault_locks.       *)
(***************************************************************************)
THEOREM PlansExclude == Spec => []MutualExclusion
<1>1. Init => TypeOK /\ LockInv
  BY TypeInit, LocksInit
<1>2. TypeOK /\ LockInv /\ [Next]_vars => (TypeOK /\ LockInv)'
  BY TypeNext, LocksNext
<1> QED
  BY <1>1, <1>2, LocksExclude, PTL DEF Spec

-----------------------------------------------------------------------------
(***************************************************************************)
(* Reports, and the promise.                                               *)
(***************************************************************************)
OutcomeInv ==
    /\ \A a \in Actors : LogKeepsUp(a)
    /\ CompletionIsReal
    /\ ApprovedFirst

\* A step that touches at most what is reported of p, and takes a report
\* back unless p is complete.
ReportStep(p) ==
    /\ UNCHANGED approvedAt
    /\ \A q \in Plans : LoggedOps(q)' = LoggedOps(q)
    /\ \A q \in Plans \ {p} : Reports(q)' = Reports(q)
    /\ Reports(p)' \subseteq Reports(p) \/ LoggedOps(p) = OpIdx(p)

\* The operations that are logged depend on the log alone.
LEMMA LogUnchanged ==
    ASSUME UNCHANGED opLog
    PROVE  \A q \in Plans : LoggedOps(q)' = LoggedOps(q)
BY DEF LoggedOps, OpIdx

\* What such a step does to the store: columns of p only, and none of them
\* gets a value that reports success.
NothingReported(p) ==
    /\ UNCHANGED <<approvedAt, opLog>>
    /\ \A q \in Plans \ {p} :
          planStatus'[q] = planStatus[q] /\ jobStatus'[q] = jobStatus[q] /\ outbox'[q] = outbox[q]
    /\ planStatus'[p] \in {"applied", "proposal_written"} =>
          planStatus[p] \in {"applied", "proposal_written"}
    /\ jobStatus'[p] = "done" => jobStatus[p] = "done"
    /\ "result" \in outbox'[p] => "result" \in outbox[p]

\* Such a step is a ReportStep.
LEMMA NothingReportedStep ==
    ASSUME NEW p \in Plans, NothingReported(p)
    PROVE  ReportStep(p)
BY LogUnchanged DEF NothingReported, ReportStep, Reports

\* A command that is accepted reports nothing.
LEMMA CommandReports ==
    ASSUME TypeOK, NEW a \in Actors, NEW p \in Plans,
           BeginOrganize(a, p) \/ BeginApprove(a, p) \/ BeginReject(a, p)
    PROVE  ReportStep(p)
<1>1. NothingReported(p)
  BY DEF TypeOK, DataTypeOK, NothingReported, BeginOrganize, BeginApprove, BeginReject, SetJob, planVars
<1> QED
  BY <1>1, NothingReportedStep

\* Organizing reports nothing.
LEMMA OrganizeReports ==
    ASSUME TypeOK, NEW a \in Actors, NEW p \in Plans, cmd[a] = p, OrganizeStep(a)
    PROVE  ReportStep(p)
<1>1. NothingReported(p)
  BY DEF TypeOK, DataTypeOK, NothingReported, SetPlan, SetJob, Announce, planVars,
              OrganizeStep, PlanProposed, SavePlan, PrepareOp, OrganizeFailPlan,
              OrganizeFailJob, PublishPlan, OrganizeSetJob, OrganizeAnnounce
<1> QED
  BY <1>1, NothingReportedStep

\* Rejecting reports nothing, and may take a report back.
LEMMA RejectReports ==
    ASSUME TypeOK, NEW a \in Actors, NEW p \in Plans, cmd[a] = p, RejectStep(a)
    PROVE  ReportStep(p)
<1>1. NothingReported(p)
  BY DEF TypeOK, DataTypeOK, NothingReported, SetPlan, SetJob, Announce, planVars,
              RejectStep, MarkRejected, RejectSetJob, RejectAnnounce
<1> QED
  BY <1>1, NothingReportedStep

\* MarkApproved aside, nothing before the executor concerns the promise.
LEMMA ApproveReports ==
    ASSUME TypeOK, NEW a \in Actors, NEW p \in Plans, cmd[a] = p,
           ApproveStep(a), ~MarkApproved(a)
    PROVE  ReportStep(p)
<1>1. NothingReported(p)
  BY DEF TypeOK, DataTypeOK, NothingReported, SetPlan, SetJob, planVars, ApproveStep,
              ApprovalChecked, ApproveSetJob, ApproveSetPlan, PreSync, ProposalCheck,
              AcquireLocks, LocksRefused
<1> QED
  BY <1>1, NothingReportedStep

\* The executor reports nothing; LogApplied aside, it logs no success.
LEMMA ExecutorReports ==
    ASSUME TypeOK, NEW a \in Actors, NEW p \in Plans, cmd[a] = p,
           ExecutorStep(a), ~LogApplied(a)
    PROVE  ReportStep(p)
<1>1. CASE ~LogFailed(a)
  <2>1. NothingReported(p)
    BY <1>1 DEF NothingReported, planVars, ExecutorStep, Preflight, ApplyOperation,
                OperationRefused, ReleaseLocks
  <2> QED
    BY <2>1, NothingReportedStep
<1>2. CASE LogFailed(a)
  <2>1. \A q \in Plans : LoggedOps(q)' = LoggedOps(q)
    BY <1>2 DEF LogFailed, LoggedOps, OpIdx, TypeOK, DataTypeOK
  <2> QED
    BY <1>2, <2>1 DEF LogFailed, ReportStep, Reports, planVars
<1> QED
  BY <1>1, <1>2

\* A success is reported by a handler that finds every operation logged.
LEMMA OutcomeReports ==
    ASSUME TypeOK, NEW a \in Actors, NEW p \in Plans, cmd[a] = p, LogKeepsUp(a), OutcomeStep(a)
    PROVE  ReportStep(p)
<1>1. CASE FinishPlan(a) \/ FinishJob(a) \/ AnnounceResult(a)
  <2>1. LoggedOps(p) = OpIdx(p)
    BY <1>1 DEF LogKeepsUp, FinishPlan, FinishJob, AnnounceResult
  <2>2. /\ UNCHANGED <<approvedAt, opLog>>
        /\ \A q \in Plans \ {p} : /\ planStatus'[q] = planStatus[q]
                                  /\ jobStatus'[q] = jobStatus[q]
                                  /\ outbox'[q] = outbox[q]
    BY <1>1 DEF TypeOK, DataTypeOK, FinishPlan, FinishJob, AnnounceResult, SetPlan, SetJob,
                Announce, planVars
  <2> QED
    BY <2>1, <2>2, LogUnchanged DEF ReportStep, Reports
<1>2. CASE FailPlan(a) \/ FailJob(a) \/ AnnounceFailure(a)
  <2>1. verdict[a] \in Verdicts
    BY DEF TypeOK, ControlTypeOK
  <2>2. NothingReported(p)
    BY <1>2, <2>1 DEF TypeOK, DataTypeOK, NothingReported, FailPlan, FailJob, AnnounceFailure,
                      SetPlan, SetJob, Announce, planVars, Verdicts
  <2> QED
    BY <2>2, NothingReportedStep
<1> QED
  BY <1>1, <1>2 DEF OutcomeStep

\* Nothing is reported by a failing statement, file operation or process.
LEMMA FaultReports ==
    ASSUME TypeOK, NEW a \in Actors, NEW p \in Plans, cmd[a] = p, Fault(a)
    PROVE  ReportStep(p)
<1>1. NothingReported(p)
  BY DEF TypeOK, DataTypeOK, NothingReported, SetPlan, planVars, Fault, PlannerFails,
         ApprovalRefused, PreSyncFails, MoveHalfDone, ApplyFails, StoreError, Crash
<1> QED
  BY <1>1, NothingReportedStep

\* Only a handler that runs takes a step or fails.
LEMMA BusyHandler ==
    ASSUME NEW a \in Actors, Step(a) \/ Fault(a)
    PROVE  pc[a] # "idle"
<1>1. CASE OrganizeStep(a) \/ RejectStep(a)
  BY <1>1 DEF OrganizeStep, PlanProposed, SavePlan, PrepareOp, OrganizeFailPlan, OrganizeFailJob,
              PublishPlan, OrganizeSetJob, OrganizeAnnounce, RejectStep, MarkRejected,
              RejectSetJob, RejectAnnounce
<1>2. CASE ApproveStep(a)
  BY <1>2 DEF ApproveStep, MarkApproved, ApprovalChecked, ApproveSetJob, ApproveSetPlan, PreSync,
              ProposalCheck, AcquireLocks, LocksRefused
<1>3. CASE ExecutorStep(a)
  BY <1>3 DEF ExecutorStep, Preflight, ApplyOperation, OperationRefused, LogApplied, LogFailed,
              ReleaseLocks
<1>4. CASE OutcomeStep(a)
  BY <1>4 DEF OutcomeStep, FinishPlan, FinishJob, AnnounceResult, FailPlan, FailJob,
              AnnounceFailure
<1>5. CASE Fault(a)
  BY <1>5 DEF Fault, PlannerFails, ApprovalRefused, PreSyncFails, MoveHalfDone, ApplyFails,
              StoreError, Crash, Swallows, Propagates
<1> QED
  BY <1>1, <1>2, <1>3, <1>4, <1>5 DEF Step

\* So a step of a handler is a step of the promise, or one of two.
LEMMA HandlerReports ==
    ASSUME TypeOK, NEW a \in Actors, LogKeepsUp(a), Command(a) \/ Step(a) \/ Fault(a),
           ~MarkApproved(a), ~LogApplied(a)
    PROVE  \E p \in Plans : ReportStep(p)
<1>1. CASE Command(a)
  BY <1>1, CommandReports DEF Command
<1>2. CASE Step(a) \/ Fault(a)
  <2>1. pc[a] # "idle"
    BY <1>2, BusyHandler
  <2>2. cmd[a] \in Plans
    BY <2>1, RunningTyping DEF TypeOK
  <2>3. PICK p \in Plans : cmd[a] = p
    BY <2>2
  <2> QED
    BY <1>2, <2>3, OrganizeReports, RejectReports, ApproveReports, ExecutorReports,
       OutcomeReports, FaultReports DEF Step
<1> QED
  BY <1>1, <1>2

(***************************************************************************)
(* Where a step leaves the handlers.                                       *)
(***************************************************************************)

\* The other handlers stand where they stood, and the one that moved is past
\* ApprovePlan only if it was, or has just run it.
ControlStep(a) ==
    /\ \A b \in Actors \ {a} :
          pc'[b] = pc[b] /\ cmd'[b] = cmd[b] /\ idx'[b] = idx[b] /\ verdict'[b] = verdict[b]
    /\ pc'[a] \in ApprovePcs \ {"app_mark"} =>
          pc[a] \in ApprovePcs /\ cmd'[a] = cmd[a] /\ (pc[a] = "app_mark" => MarkApproved(a))

\* Every step of a handler is such a step.
LEMMA ControlSteps ==
    ASSUME TypeOK, NEW a \in Actors, Command(a) \/ Step(a) \/ Fault(a)
    PROVE  ControlStep(a)
<1> USE DEF TypeOK, ControlTypeOK, ControlStep, ApprovePcs, ApplyPcs, Begin, Goto, GotoWith, Return
<1>1. CASE Command(a)
  BY <1>1 DEF Command, BeginOrganize, BeginApprove, BeginReject
<1>2. CASE OrganizeStep(a)
  BY <1>2 DEF OrganizeStep, PlanProposed, SavePlan, PrepareOp, OrganizeFailPlan, OrganizeFailJob,
              PublishPlan, OrganizeSetJob, OrganizeAnnounce
<1>3. CASE OutcomeStep(a)
  BY <1>3 DEF OutcomeStep, FinishPlan, FinishJob, AnnounceResult, FailPlan, FailJob,
              AnnounceFailure
<1>4. CASE RejectStep(a)
  BY <1>4 DEF RejectStep, MarkRejected, RejectSetJob, RejectAnnounce
<1>5. CASE Fault(a)
  <2>1. CASE StoreError(a)
    <3>1. \A b \in Actors \ {a} :
             pc'[b] = pc[b] /\ cmd'[b] = cmd[b] /\ idx'[b] = idx[b] /\ verdict'[b] = verdict[b]
      BY <2>1 DEF StoreError
    <3>2. pc'[a] \in {"idle", AfterStoreError(a)} /\ (pc'[a] # "idle" => cmd'[a] = cmd[a])
      BY <2>1 DEF StoreError
    <3>3. pc'[a] # "idle" => \/ pc'[a] = "org_fail_job"
                             \/ pc[a] \in ApprovePcs \ {"app_mark"}
      BY <2>1 DEF StoreError, Swallows, AfterStoreError
    <3> QED
      BY <3>1, <3>2, <3>3
  <2>2. CASE ApplyFails(a)
    BY <2>2 DEF ApplyFails
  <2>3. CASE PlannerFails(a) \/ ApprovalRefused(a) \/ PreSyncFails(a) \/ MoveHalfDone(a) \/ Crash(a)
    BY <2>3 DEF PlannerFails, ApprovalRefused, PreSyncFails, MoveHalfDone, Crash
  <2> QED
    BY <1>5, <2>1, <2>2, <2>3 DEF Fault
<1>6. CASE ApproveStep(a)
  BY <1>6 DEF ApproveStep, MarkApproved, ApprovalChecked, ApproveSetJob, ApproveSetPlan, PreSync,
              ProposalCheck, AcquireLocks, LocksRefused
<1>7. CASE ExecutorStep(a)
  BY <1>7 DEF ExecutorStep, Preflight, ApplyOperation, OperationRefused, LogApplied, LogFailed,
              ReleaseLocks
<1> QED
  BY <1>1, <1>2, <1>3, <1>4, <1>5, <1>6, <1>7 DEF Step

\* What LogKeepsUp asks about is only ever reached from a place it asks
\* about, with what is known there, or from the start of Apply.
LogStep(a) ==
    /\ pc'[a] \in {"op", "log"} =>
          \/ idx'[a] = 1
          \/ pc[a] = "op" /\ idx'[a] = idx[a] /\ cmd'[a] = cmd[a]
          \/ LogApplied(a) /\ idx'[a] = idx[a] + 1 /\ cmd'[a] = cmd[a]
    /\ pc'[a] = "release" /\ verdict'[a] = "ok" =>
          LogApplied(a) /\ idx[a] = Len(PlanOps[cmd[a]]) /\ cmd'[a] = cmd[a]
    /\ pc'[a] \in {"done_plan", "done_job", "done_announce"} =>
          /\ \/ pc[a] = "release" /\ verdict[a] = "ok"
             \/ pc[a] \in {"done_plan", "done_job"}
          /\ cmd'[a] = cmd[a]

\* Every step of a handler is such a step.
LEMMA LogSteps ==
    ASSUME TypeOK, NEW a \in Actors, Command(a) \/ Step(a) \/ Fault(a)
    PROVE  LogStep(a)
<1> USE DEF TypeOK, ControlTypeOK, LogStep, Begin, Goto, GotoWith, Return
<1>1. CASE Command(a)
  BY <1>1 DEF Command, BeginOrganize, BeginApprove, BeginReject
<1>2. CASE OrganizeStep(a)
  BY <1>2 DEF OrganizeStep, PlanProposed, SavePlan, PrepareOp, OrganizeFailPlan, OrganizeFailJob,
              PublishPlan, OrganizeSetJob, OrganizeAnnounce
<1>3. CASE OutcomeStep(a)
  BY <1>3 DEF OutcomeStep, FinishPlan, FinishJob, AnnounceResult, FailPlan, FailJob,
              AnnounceFailure
<1>4. CASE RejectStep(a)
  BY <1>4 DEF RejectStep, MarkRejected, RejectSetJob, RejectAnnounce
<1>5. CASE Fault(a)
  <2>1. CASE StoreError(a)
    <3>1. pc'[a] \in {"idle", AfterStoreError(a)}
      BY <2>1 DEF StoreError
    <3>2. CASE pc[a] = "log"
      BY <2>1, <3>2 DEF StoreError, AfterStoreError, Swallows, Propagates
    <3>3. CASE pc[a] \in {"log_failed", "release"}
      <4>1. pc[a] = "log_failed" => verdict[a] # "ok"
        BY DEF HandlerTypeOK, FailingPcs
      <4>2. verdict'[a] = verdict[a] /\ cmd'[a] = cmd[a]
        BY <2>1, <3>3 DEF StoreError, Propagates
      <4> QED
        BY <2>1, <3>1, <3>3, <4>1, <4>2 DEF AfterStoreError
    <3>4. CASE pc[a] \notin {"log", "log_failed", "release"}
      <4>1. pc'[a] \in {"idle", "org_fail_job", "err_plan", "err_job", "err_announce"}
        BY <2>1, <3>1, <3>4 DEF StoreError, AfterStoreError, Swallows
      <4> QED
        BY <4>1
    <3> QED
      BY <3>2, <3>3, <3>4
  <2>2. CASE ApplyFails(a)
    BY <2>2 DEF ApplyFails
  <2>3. CASE PlannerFails(a) \/ ApprovalRefused(a) \/ PreSyncFails(a) \/ MoveHalfDone(a) \/ Crash(a)
    BY <2>3 DEF PlannerFails, ApprovalRefused, PreSyncFails, MoveHalfDone, Crash
  <2> QED
    BY <1>5, <2>1, <2>2, <2>3 DEF Fault
<1>6. CASE AcquireLocks(a)
  <2>1. cmd[a] \in Plans /\ idx[a] \in OpIdx(cmd[a]) /\ UNCHANGED <<cmd, idx>>
    BY <1>6, RunningTyping DEF AcquireLocks
  <2>2. cmd[a] \in HighRisk => idx[a] = 1
    <3>1. cmd[a] \in HighRisk => Len(PlanOps[cmd[a]]) = 1
      BY HighRiskAssumption
    <3>2. idx[a] \in 1..Len(PlanOps[cmd[a]])
      BY <2>1 DEF OpIdx
    <3>3. \A i \in 1..1 : i = 1
      OBVIOUS
    <3> QED
      BY <3>1, <3>2, <3>3
  <2> QED
    BY <1>6, <2>1, <2>2 DEF AcquireLocks
<1>7. CASE ApproveStep(a) /\ ~AcquireLocks(a)
  BY <1>7 DEF ApproveStep, MarkApproved, ApprovalChecked, ApproveSetJob, ApproveSetPlan, PreSync,
              ProposalCheck, LocksRefused
<1>8. CASE Preflight(a)
  BY <1>8, VerdictTyping DEF Preflight, Refused
<1>9. CASE LogApplied(a)
  BY <1>9 DEF LogApplied
<1>10. CASE LogFailed(a)
  BY <1>10 DEF LogFailed, HandlerTypeOK, FailingPcs
<1>11. CASE ApplyOperation(a) \/ OperationRefused(a) \/ ReleaseLocks(a)
  BY <1>11 DEF ApplyOperation, OperationRefused, ReleaseLocks
<1> QED
  BY <1>1, <1>2, <1>3, <1>4, <1>5, <1>6, <1>7, <1>8, <1>9, <1>10, <1>11 DEF Step, ExecutorStep

(***************************************************************************)
(* OutcomeInv is inductive.                                                *)
(***************************************************************************)

\* Nothing approved or logged is forgotten, and the log stays in its bounds.
LogGrows ==
    \A q \in Plans : /\ approvedAt[q] => approvedAt'[q]
                     /\ LoggedOps(q) \subseteq LoggedOps(q)'
                     /\ LoggedOps(q)' \subseteq OpIdx(q)
                     /\ OpIdx(q)' = OpIdx(q)

\* AppendOperationLog(applied) adds the current operation, and nothing else.
LEMMA LogAppliedLogs ==
    ASSUME TypeOK, NEW a \in Actors, NEW p \in Plans, cmd[a] = p, LogApplied(a)
    PROVE  /\ LoggedOps(p)' = LoggedOps(p) \cup {idx[a]}
           /\ \A q \in Plans \ {p} : LoggedOps(q)' = LoggedOps(q)
           /\ UNCHANGED <<approvedAt, planStatus, jobStatus, outbox>>
<1>1. idx[a] \in OpIdx(p) /\ opLog' = [opLog EXCEPT ![p] = @ \cup {<<idx[a], "applied">>}]
  BY RunningTyping DEF TypeOK, LogApplied
<1> QED
  BY <1>1 DEF LoggedOps, OpIdx, LogApplied, planVars, TypeOK, DataTypeOK

\* ApprovePlan sets approved_at, and its status reports nothing.
LEMMA MarkApprovedMarks ==
    ASSUME TypeOK, NEW a \in Actors, NEW p \in Plans, cmd[a] = p, MarkApproved(a)
    PROVE  /\ approvedAt' = [approvedAt EXCEPT ![p] = TRUE]
           /\ \A q \in Plans : LoggedOps(q)' = LoggedOps(q)
           /\ \A q \in Plans \ {p} : Reports(q)' = Reports(q)
           /\ Reports(p)' \subseteq Reports(p)
BY LogUnchanged DEF MarkApproved, Reports, TypeOK, DataTypeOK

\* No handler forgets an approval or a log row.
LEMMA HandlerGrows ==
    ASSUME TypeOK, NEW a \in Actors, LogKeepsUp(a), Command(a) \/ Step(a) \/ Fault(a)
    PROVE  LogGrows
<1> USE DEF LogGrows
<1>0. \A q \in Plans : OpIdx(q)' = OpIdx(q) /\ LoggedOps(q)' \subseteq OpIdx(q)
  BY DEF OpIdx, LoggedOps
<1>1. CASE MarkApproved(a) \/ LogApplied(a)
  <2>1. PICK p \in Plans : cmd[a] = p
    BY <1>1, RunningTyping DEF TypeOK, MarkApproved, LogApplied
  <2> QED
    BY <1>0, <1>1, <2>1, LogAppliedLogs, MarkApprovedMarks DEF TypeOK, DataTypeOK
<1>2. CASE ~MarkApproved(a) /\ ~LogApplied(a)
  BY <1>0, <1>2, HandlerReports DEF ReportStep
<1> QED
  BY <1>1, <1>2

\* The completions that are reported after a step are real.
LEMMA HandlerCompletes ==
    ASSUME TypeOK, OutcomeInv, NEW a \in Actors, Command(a) \/ Step(a) \/ Fault(a)
    PROVE  CompletionIsReal'
<1>1. LogKeepsUp(a)
  BY DEF OutcomeInv
<1>2. LogGrows
  BY <1>1, HandlerGrows
<1>3. SUFFICES ASSUME NEW q \in Plans
               PROVE  Reports(q)' \subseteq Reports(q) \/ LoggedOps(q) = OpIdx(q)
  BY <1>2, <1>3 DEF CompletionIsReal, LogGrows, OutcomeInv
<1>4. CASE MarkApproved(a)
  <2>1. PICK p \in Plans : cmd[a] = p
    BY <1>4, RunningTyping DEF TypeOK, MarkApproved
  <2> QED
    BY <1>4, <2>1, MarkApprovedMarks
<1>5. CASE LogApplied(a)
  <2>1. PICK p \in Plans : cmd[a] = p
    BY <1>5, RunningTyping DEF TypeOK, LogApplied
  <2> QED
    BY <1>5, <2>1, LogAppliedLogs DEF Reports
<1>6. CASE ~MarkApproved(a) /\ ~LogApplied(a)
  BY <1>1, <1>6, HandlerReports DEF ReportStep
<1> QED
  BY <1>4, <1>5, <1>6

\* Every handler's plan is logged as far as the handler has come.
LEMMA HandlerKeepsUp ==
    ASSUME TypeOK, OutcomeInv, NEW a \in Actors, Command(a) \/ Step(a) \/ Fault(a),
           NEW b \in Actors
    PROVE  LogKeepsUp(b)'
<1>1. LogKeepsUp(a) /\ LogKeepsUp(b) /\ ControlStep(a) /\ LogStep(a)
  BY ControlSteps, LogSteps DEF OutcomeInv
<1>2. LogGrows
  BY <1>1, HandlerGrows
<1>3. CASE b # a
  <2>1. pc'[b] = pc[b] /\ cmd'[b] = cmd[b] /\ idx'[b] = idx[b] /\ verdict'[b] = verdict[b]
    BY <1>1, <1>3 DEF ControlStep
  <2>2. CASE pc[b] = "idle"
    BY <2>1, <2>2 DEF LogKeepsUp
  <2>3. CASE pc[b] # "idle"
    <3>1. PICK p \in Plans : cmd[b] = p
      BY <2>3, RunningTyping DEF TypeOK
    <3> QED
      BY <1>1, <1>2, <2>1, <3>1 DEF LogKeepsUp, LogGrows
  <2> QED
    BY <2>2, <2>3
<1>4. CASE b = a
  <2>1. CASE LogApplied(a)
    <3>1. PICK p \in Plans : cmd[a] = p
      BY <2>1, RunningTyping DEF TypeOK, LogApplied
    <3>2. /\ idx[a] \in OpIdx(p) /\ pc[a] = "log" /\ cmd'[a] = p
          /\ pc'[a] \in {"op", "release"}
      BY <2>1, <3>1, RunningTyping DEF LogApplied, Goto, GotoWith, TypeOK, ControlTypeOK
    <3>3. 1..(idx[a] - 1) \subseteq LoggedOps(p) /\ LoggedOps(p)' = LoggedOps(p) \cup {idx[a]}
      BY <1>1, <2>1, <3>1, <3>2, LogAppliedLogs DEF LogKeepsUp
    <3>4. 1..idx[a] \subseteq LoggedOps(p)'
      BY <3>2, <3>3 DEF OpIdx
    <3>5. pc'[a] = "op" => idx'[a] = 1 \/ idx'[a] = idx[a] + 1
      BY <1>1, <2>1, <3>2 DEF LogStep
    <3>6. pc'[a] = "op" => 1..(idx'[a] - 1) \subseteq LoggedOps(p)'
      BY <3>2, <3>4, <3>5 DEF OpIdx
    <3>7. pc'[a] = "release" /\ verdict'[a] = "ok" => LoggedOps(p)' = OpIdx(p)'
      BY <1>1, <1>2, <3>1, <3>4 DEF LogStep, OpIdx, LogGrows
    <3> QED
      BY <1>4, <3>2, <3>6, <3>7 DEF LogKeepsUp
  <2>2. CASE ~LogApplied(a) /\ pc'[a] \in {"op", "log"}
    <3>1. CASE idx'[a] = 1
      BY <1>4, <2>2, <3>1 DEF LogKeepsUp
    <3>2. CASE idx'[a] # 1
      <4>1. pc[a] = "op" /\ idx'[a] = idx[a] /\ cmd'[a] = cmd[a]
        BY <1>1, <2>2, <3>2 DEF LogStep
      <4>2. PICK p \in Plans : cmd[a] = p
        BY <4>1, RunningTyping DEF TypeOK
      <4> QED
        BY <1>1, <1>2, <1>4, <2>2, <4>1, <4>2 DEF LogKeepsUp, LogGrows
    <3> QED
      BY <3>1, <3>2
  <2>3. CASE pc'[a] \in {"done_plan", "done_job", "done_announce"}
    <3>1. /\ \/ pc[a] = "release" /\ verdict[a] = "ok"
             \/ pc[a] \in {"done_plan", "done_job"}
          /\ cmd'[a] = cmd[a]
      BY <1>1, <2>3 DEF LogStep
    <3>2. PICK p \in Plans : cmd[a] = p
      BY <3>1, RunningTyping DEF TypeOK
    <3> QED
      BY <1>1, <1>2, <1>4, <2>3, <3>1, <3>2 DEF LogKeepsUp, LogGrows
  <2>4. CASE ~LogApplied(a) /\ pc'[a] \notin {"op", "log", "done_plan", "done_job", "done_announce"}
    BY <1>1, <1>4, <2>4 DEF LogKeepsUp, LogStep
  <2> QED
    BY <2>1, <2>2, <2>3, <2>4
<1> QED
  BY <1>3, <1>4

\* ApprovePlan has run for every plan that is worked on.
LEMMA HandlerApproves ==
    ASSUME TypeOK, OutcomeInv, NEW a \in Actors, Command(a) \/ Step(a) \/ Fault(a)
    PROVE  ApprovedFirst'
<1>1. LogKeepsUp(a) /\ ControlStep(a)
  BY ControlSteps DEF OutcomeInv
<1>2. LogGrows
  BY <1>1, HandlerGrows
<1>3. ASSUME NEW b \in Actors, pc'[b] \in ApprovePcs \ {"app_mark"}
      PROVE  approvedAt'[cmd'[b]]
  <2>1. pc[b] \in ApprovePcs /\ cmd'[b] = cmd[b] /\ (pc[b] = "app_mark" => b = a /\ MarkApproved(a))
    BY <1>1, <1>3 DEF ControlStep
  <2>2. PICK p \in Plans : cmd[b] = p
    BY <2>1, RunningTyping DEF TypeOK, ApprovePcs, ApplyPcs
  <2>3. CASE pc[b] = "app_mark"
    BY <2>1, <2>2, <2>3, MarkApprovedMarks DEF TypeOK, DataTypeOK
  <2>4. CASE pc[b] # "app_mark"
    BY <1>2, <2>1, <2>2, <2>4 DEF OutcomeInv, ApprovedFirst, LogGrows
  <2> QED
    BY <2>3, <2>4
<1>4. ASSUME NEW q \in Plans, LoggedOps(q)' # {}
      PROVE  approvedAt'[q]
  <2>1. CASE MarkApproved(a)
    <3>1. PICK p \in Plans : cmd[a] = p
      BY <2>1, RunningTyping DEF TypeOK, MarkApproved
    <3> QED
      BY <1>2, <1>4, <2>1, <3>1, MarkApprovedMarks DEF OutcomeInv, ApprovedFirst, LogGrows
  <2>2. CASE LogApplied(a)
    <3>1. PICK p \in Plans : cmd[a] = p
      BY <2>2, RunningTyping DEF TypeOK, LogApplied
    <3>2. approvedAt[p]
      BY <2>2, <3>1 DEF OutcomeInv, ApprovedFirst, LogApplied, ApprovePcs, ApplyPcs
    <3> QED
      BY <1>2, <1>4, <2>2, <3>1, <3>2, LogAppliedLogs DEF OutcomeInv, ApprovedFirst, LogGrows
  <2>3. CASE ~MarkApproved(a) /\ ~LogApplied(a)
    BY <1>1, <1>2, <1>4, <2>3, HandlerReports DEF OutcomeInv, ApprovedFirst, LogGrows, ReportStep
  <2> QED
    BY <2>1, <2>2, <2>3
<1> QED
  BY <1>3, <1>4 DEF ApprovedFirst

\* The clock, a process that starts and the user touch none of this.
LEMMA WorldKeeps ==
    ASSUME OutcomeInv,
           \/ UNCHANGED vars \/ OpenStore
           \/ \E p \in Plans : LocksLapse(p)
           \/ \E f \in Paths : UserEdit(f)
    PROVE  OutcomeInv' /\ UNCHANGED <<planStatus, approvedAt, jobStatus, opLog, outbox>>
<1>1. UNCHANGED <<planStatus, approvedAt, jobStatus, opLog, outbox, pc, cmd, idx, verdict>>
  BY DEF vars, OpenStore, LocksLapse, UserEdit, planVars
<1> QED
  BY <1>1 DEF OutcomeInv, LogKeepsUp, CompletionIsReal, ApprovedFirst, LoggedOps, Reports, OpIdx

\* No step of the system breaks OutcomeInv.
LEMMA OutcomeNext == TypeOK /\ OutcomeInv /\ [Next]_vars => OutcomeInv'
<1> SUFFICES ASSUME TypeOK, OutcomeInv, [Next]_vars PROVE OutcomeInv'
  OBVIOUS
<1>1. ASSUME NEW a \in Actors, Command(a) \/ Step(a) \/ Fault(a)
      PROVE  OutcomeInv'
  BY <1>1, HandlerKeepsUp, HandlerCompletes, HandlerApproves DEF OutcomeInv
<1> QED
  BY <1>1, WorldKeeps DEF Next

\* OutcomeInv holds at the start, where nothing is logged or reported.
LEMMA OutcomeInit == Init => OutcomeInv
<1> SUFFICES ASSUME Init PROVE OutcomeInv
  OBVIOUS
<1>1. \A p \in Plans : LoggedOps(p) = {} /\ Reports(p) = {}
  BY DEF Init, LoggedOps, Reports
<1>2. \A a \in Actors : pc[a] = "idle"
  BY DEF Init
<1> QED
  BY <1>1, <1>2 DEF OutcomeInv, LogKeepsUp, CompletionIsReal, ApprovedFirst, ApprovePcs, ApplyPcs

(***************************************************************************)
(* Whoever says that a plan is complete is right, for every number of      *)
(* plans, handlers, crashes and edits.                                     *)
(***************************************************************************)
THEOREM CompletionsAreReal == Spec => []CompletionIsReal
<1>1. Init => TypeOK /\ OutcomeInv
  BY TypeInit, OutcomeInit
<1>2. TypeOK /\ OutcomeInv /\ [Next]_vars => (TypeOK /\ OutcomeInv)'
  BY TypeNext, OutcomeNext
<1>3. OutcomeInv => CompletionIsReal
  BY DEF OutcomeInv
<1> QED
  BY <1>1, <1>2, <1>3, PTL DEF Spec

(***************************************************************************)
(* Plan approval implements PlanPromise.                                   *)
(***************************************************************************)
LEMMA PromiseStarts == Init => Promise!PromiseInit
<1> SUFFICES ASSUME Init PROVE Promise!PromiseInit
  OBVIOUS
<1>1. \A p \in Plans : LoggedOps(p) = {} /\ Reports(p) = {}
  BY DEF Init, LoggedOps, Reports
<1> QED
  BY <1>1 DEF Init, Promise!PromiseInit

\* A step that only reports is a Report of the promise.
LEMMA ReportRefines ==
    ASSUME NEW p \in Plans, ReportStep(p)
    PROVE  Promise!Report(p)
<1>1. Reports(p)' \in SUBSET Promise!Reporters
  BY DEF Reports, Promise!Reporters
<1>2. Reports(p)' \subseteq Reports(p) \/ LoggedOps(p) = OpIdx(p)
  BY DEF ReportStep
<1>3. [q \in Plans |-> Reports(q)'] = [[q \in Plans |-> Reports(q)] EXCEPT ![p] = Reports(p)']
  BY DEF ReportStep
<1>4. UNCHANGED approvedAt /\ [q \in Plans |-> LoggedOps(q)'] = [q \in Plans |-> LoggedOps(q)]
  BY DEF ReportStep
<1>5. Promise!AllLogged(p) <=> LoggedOps(p) = OpIdx(p)
  BY DEF Promise!AllLogged, OpIdx
<1> QED
  BY <1>1, <1>2, <1>3, <1>4, <1>5 DEF Promise!Report

\* ApprovePlan is an Approve, or takes the report of an earlier approval back.
LEMMA ApproveRefines ==
    ASSUME TypeOK, OutcomeInv, NEW a \in Actors, MarkApproved(a)
    PROVE  \E p \in Plans : Promise!Approve(p) \/ Promise!Report(p)
<1>1. PICK p \in Plans : cmd[a] = p
  BY RunningTyping DEF TypeOK, MarkApproved
<1>2. /\ approvedAt' = [approvedAt EXCEPT ![p] = TRUE]
      /\ \A q \in Plans : LoggedOps(q)' = LoggedOps(q)
      /\ \A q \in Plans \ {p} : Reports(q)' = Reports(q)
      /\ Reports(p)' \subseteq Reports(p)
  BY <1>1, MarkApprovedMarks
<1>3. CASE approvedAt[p]
  <2>1. UNCHANGED approvedAt
    BY <1>2, <1>3 DEF TypeOK, DataTypeOK
  <2> QED
    BY <1>2, <2>1, ReportRefines DEF ReportStep
<1>4. CASE ~approvedAt[p]
  <2>1. LoggedOps(p) = {} /\ OpIdx(p) # {}
    BY <1>4, PlanOpsTyping DEF OutcomeInv, ApprovedFirst
  <2>2. Reports(p) = {}
    BY <2>1 DEF OutcomeInv, CompletionIsReal
  <2>3. \A q \in Plans : Reports(q)' = Reports(q)
    BY <1>2, <2>2
  <2> QED
    BY <1>2, <2>3 DEF Promise!Approve
<1> QED
  BY <1>3, <1>4

\* AppendOperationLog(applied) is a LogNext.
LEMMA LogRefines ==
    ASSUME TypeOK, OutcomeInv, NEW a \in Actors, LogApplied(a)
    PROVE  \E p \in Plans : Promise!LogNext(p)
<1>1. PICK p \in Plans : cmd[a] = p
  BY RunningTyping DEF TypeOK, LogApplied
<1>2. idx[a] \in 1..Len(PlanOps[p]) /\ pc[a] = "log"
  BY <1>1, RunningTyping DEF TypeOK, LogApplied, OpIdx
<1>3. approvedAt[p] /\ \A j \in 1..(idx[a] - 1) : j \in LoggedOps(p)
  BY <1>1, <1>2 DEF OutcomeInv, ApprovedFirst, LogKeepsUp, ApprovePcs, ApplyPcs
<1>4. /\ LoggedOps(p)' = LoggedOps(p) \cup {idx[a]}
      /\ \A q \in Plans \ {p} : LoggedOps(q)' = LoggedOps(q)
      /\ UNCHANGED <<approvedAt, planStatus, jobStatus, outbox>>
  BY <1>1, LogAppliedLogs
<1>5. [q \in Plans |-> LoggedOps(q)']
        = [[q \in Plans |-> LoggedOps(q)] EXCEPT ![p] = LoggedOps(p) \cup {idx[a]}]
  BY <1>4
<1>6. [q \in Plans |-> Reports(q)'] = [q \in Plans |-> Reports(q)]
  BY <1>4 DEF Reports
<1> QED
  BY <1>2, <1>3, <1>4, <1>5, <1>6 DEF Promise!LogNext

\* Every step of the system is a step of the promise, or none.
LEMMA PromiseStep ==
    TypeOK /\ OutcomeInv /\ [Next]_vars => [Promise!PromiseNext]_(Promise!promiseVars)
<1> SUFFICES ASSUME TypeOK, OutcomeInv, [Next]_vars
             PROVE  Promise!PromiseNext \/ UNCHANGED Promise!promiseVars
  OBVIOUS
<1>1. ASSUME NEW a \in Actors, Command(a) \/ Step(a) \/ Fault(a)
      PROVE  Promise!PromiseNext
  <2>1. LogKeepsUp(a)
    BY DEF OutcomeInv
  <2> QED
    BY <1>1, <2>1, HandlerReports, ReportRefines, ApproveRefines, LogRefines
       DEF Promise!PromiseNext
<1>2. CASE \/ UNCHANGED vars \/ OpenStore
           \/ \E p \in Plans : LocksLapse(p)
           \/ \E f \in Paths : UserEdit(f)
  <2>1. UNCHANGED <<planStatus, approvedAt, jobStatus, opLog, outbox>>
    BY <1>2, WorldKeeps
  <2> QED
    BY <2>1 DEF Promise!promiseVars, LoggedOps, Reports, OpIdx
<1> QED
  BY <1>1, <1>2 DEF Next

(***************************************************************************)
(* Approval keeps the promise of PlanPromise: approved before logged, in   *)
(* order, and complete before reported, under every race and crash.        *)
(***************************************************************************)
THEOREM ApprovalKeepsPromise == Spec => KeepsPromise
<1>1. Init => TypeOK /\ OutcomeInv
  BY TypeInit, OutcomeInit
<1>2. TypeOK /\ OutcomeInv /\ [Next]_vars => (TypeOK /\ OutcomeInv)'
  BY TypeNext, OutcomeNext
<1> QED
  BY <1>1, <1>2, PromiseStarts, PromiseStep, PTL DEF Spec, KeepsPromise, Promise!PromiseSpec

(***************************************************************************)
(* The invariant the runs check is one: the lock rows and the outcomes.    *)
(***************************************************************************)
THEOREM ApprovalInvariant == Spec => []ApprovalInv
<1>1. Init => TypeOK /\ LockInv /\ OutcomeInv
  BY TypeInit, LocksInit, OutcomeInit
<1>2. TypeOK /\ LockInv /\ OutcomeInv /\ [Next]_vars => (TypeOK /\ LockInv /\ OutcomeInv)'
  BY TypeNext, LocksNext, OutcomeNext
<1>3. TypeOK /\ LockInv /\ OutcomeInv => ApprovalInv
  BY DEF LockInv, OutcomeInv, ApprovalInv
<1> QED
  BY <1>1, <1>2, <1>3, PTL DEF Spec

(***************************************************************************)
(* What stands in the vault.                                               *)
(***************************************************************************)

\* An operation adds its own mark at most, and half a move adds none.
LEMMA MarksAfter ==
    ASSUME NEW v \in [Paths -> Notes], NEW p \in Plans, NEW i \in OpIdx(p), NEW h, NEW m,
           OpReady(v, PlanOps[p][i], h)
    PROVE  /\ MarksIn(OpApplied(v, PlanOps[p][i], m)) \subseteq MarksIn(v) \cup {m}
           /\ PlanOps[p][i].kind = "move" =>
                MarksIn(MoveHalfApplied(v, PlanOps[p][i])) \subseteq MarksIn(v)
<1> DEFINE op == PlanOps[p][i]
<1>1. op.path \in Paths /\ op.dest \in Paths
  BY PlanOpsTyping
<1>2. op.kind # "create" => v[op.path] # Absent
  BY DEF OpReady
<1>3. op.kind \in {"append", "move"} => v[op.path] # Absent
  BY <1>2
<1>4. ASSUME NEW f \in Paths, OpApplied(v, op, m)[f] # Absent
      PROVE  \/ v[f] # Absent /\ OpApplied(v, op, m)[f] = v[f]
             \/ OpApplied(v, op, m)[f] = {m}
             \/ v[op.path] # Absent /\ OpApplied(v, op, m)[f] = v[op.path] \cup {m}
  BY <1>1, <1>3, <1>4 DEF OpApplied, NoteAfter
<1>5. MarksIn(OpApplied(v, op, m)) \subseteq MarksIn(v) \cup {m}
  BY <1>1, <1>4 DEF MarksIn
<1>6. op.kind = "move" => MarksIn(MoveHalfApplied(v, op)) \subseteq MarksIn(v)
  BY <1>1, <1>3 DEF MarksIn, MoveHalfApplied
<1> QED
  BY <1>5, <1>6

\* Who writes into the vault.
LEMMA VaultSteps ==
    ASSUME [Next]_vars
    PROVE  \/ UNCHANGED vault
           \/ \E a \in Actors : ApplyOperation(a) \/ MoveHalfDone(a)
           \/ \E f \in Paths : UserEdit(f)
<1>1. ASSUME NEW a \in Actors, OrganizeStep(a) \/ OutcomeStep(a) \/ RejectStep(a) \/ Command(a)
      PROVE  UNCHANGED vault
  BY <1>1 DEF OrganizeStep, PlanProposed, SavePlan, PrepareOp, OrganizeFailPlan, OrganizeFailJob,
              PublishPlan, OrganizeSetJob, OrganizeAnnounce, OutcomeStep, FinishPlan, FinishJob,
              AnnounceResult, FailPlan, FailJob, AnnounceFailure, RejectStep, MarkRejected,
              RejectSetJob, RejectAnnounce, Command, BeginOrganize, BeginApprove, BeginReject
<1>2. ASSUME NEW a \in Actors, ApproveStep(a) \/ ExecutorStep(a)
      PROVE  ApplyOperation(a) \/ UNCHANGED vault
  BY <1>2 DEF ApproveStep, MarkApproved, ApprovalChecked, ApproveSetJob, ApproveSetPlan, PreSync,
              ProposalCheck, AcquireLocks, LocksRefused, ExecutorStep, Preflight,
              OperationRefused, LogApplied, LogFailed, ReleaseLocks
<1>3. ASSUME NEW a \in Actors, Fault(a)
      PROVE  MoveHalfDone(a) \/ UNCHANGED vault
  BY <1>3 DEF Fault, PlannerFails, ApprovalRefused, PreSyncFails, ApplyFails, StoreError, Crash
<1> QED
  BY <1>1, <1>2, <1>3 DEF Next, Step, vars, LocksLapse, OpenStore

\* The vault only changes by the user's marks, or by an operation, which
\* adds its own.
LEMMA MarksStep ==
    ASSUME TypeOK, [Next]_vars, NEW q \in Plans, NEW j \in OpIdx(q),
           OpMark(q, j) \in MarksIn(vault)'
    PROVE  \/ OpMark(q, j) \in MarksIn(vault)
           \/ \E a \in Actors : ApplyOperation(a) /\ cmd[a] = q /\ idx[a] = j
<1>0. vault \in [Paths -> Notes]
  BY DEF TypeOK, DataTypeOK
<1>1. ASSUME NEW a \in Actors, ApplyOperation(a)
      PROVE  OpMark(q, j) \in MarksIn(vault) \/ (cmd[a] = q /\ idx[a] = j)
  <2>1. PICK p \in Plans : cmd[a] = p
    BY <1>1, RunningTyping DEF TypeOK, ApplyOperation
  <2>2. idx[a] \in OpIdx(p)
    BY <1>1, <2>1, RunningTyping DEF TypeOK, ApplyOperation
  <2>3. PICK i \in OpIdx(p) : idx[a] = i
    BY <2>2
  <2>4. /\ OpReady(vault, PlanOps[p][i], beforeHash[p][PlanOps[p][i].path])
        /\ vault' = OpApplied(vault, PlanOps[p][i], OpMark(p, i))
    BY <1>1, <2>1, <2>3, VerdictTyping DEF ApplyOperation
  <2>5. MarksIn(vault)' \subseteq MarksIn(vault) \cup {OpMark(p, i)}
    <3>1. \A v \in [Paths -> Notes] : \A h, m : OpReady(v, PlanOps[p][i], h) =>
             MarksIn(OpApplied(v, PlanOps[p][i], m)) \subseteq MarksIn(v) \cup {m}
      BY MarksAfter
    <3>2. MarksIn(vault') \subseteq MarksIn(vault) \cup {OpMark(p, i)}
      BY <1>0, <2>4, <3>1
    <3> QED
      BY <3>2 DEF MarksIn
  <2> QED
    <3>1. OpMark(q, j) = OpMark(p, i) => q = p /\ j = i
      BY DEF OpMark
    <3> QED
      BY <2>1, <2>3, <2>5, <3>1
<1>2. ASSUME NEW a \in Actors, MoveHalfDone(a)
      PROVE  OpMark(q, j) \in MarksIn(vault)
  <2>1. PICK p \in Plans : cmd[a] = p
    BY <1>2, RunningTyping DEF TypeOK, MoveHalfDone
  <2>2. PICK i \in OpIdx(p) : idx[a] = i
    BY <1>2, <2>1, RunningTyping DEF TypeOK, MoveHalfDone
  <2>3. /\ OpReady(vault, PlanOps[p][i], beforeHash[p][PlanOps[p][i].path])
        /\ PlanOps[p][i].kind = "move" /\ vault' = MoveHalfApplied(vault, PlanOps[p][i])
    BY <1>2, <2>1, <2>2, VerdictTyping DEF MoveHalfDone
  <2>4. MarksIn(vault') \subseteq MarksIn(vault)
    <3>1. \A v \in [Paths -> Notes] : \A h :
             OpReady(v, PlanOps[p][i], h) /\ PlanOps[p][i].kind = "move" =>
                MarksIn(MoveHalfApplied(v, PlanOps[p][i])) \subseteq MarksIn(v)
      BY MarksAfter
    <3> QED
      BY <1>0, <2>3, <3>1
  <2> QED
    BY <2>4 DEF MarksIn
<1>3. ASSUME NEW f \in Paths, UserEdit(f)
      PROVE  OpMark(q, j) \in MarksIn(vault)
  <2>1. OpMark(q, j) # UserMark(edits + 1)
    BY DEF OpMark, UserMark
  <2>2. PICK g \in Paths : vault'[g] # Absent /\ OpMark(q, j) \in vault'[g]
    BY DEF MarksIn
  <2>3. OpMark(q, j) \in vault[g] /\ vault[g] # Absent
    BY <1>0, <1>3, <2>1, <2>2 DEF UserEdit
  <2> QED
    BY <2>3 DEF MarksIn
<1>4. CASE UNCHANGED vault
  BY <1>4 DEF MarksIn
<1>5. \/ UNCHANGED vault
      \/ \E a \in Actors : ApplyOperation(a) \/ MoveHalfDone(a)
      \/ \E f \in Paths : UserEdit(f)
  BY VaultSteps
<1> QED
  BY <1>1, <1>2, <1>3, <1>4, <1>5

\* And an operation is one of an approved plan.
LEMMA MarksNext ==
    ASSUME TypeOK, OutcomeInv, [Next]_vars, NEW q \in Plans, NEW j \in OpIdx(q),
           OpMark(q, j) \in MarksIn(vault)'
    PROVE  OpMark(q, j) \in MarksIn(vault) \/ approvedAt[q]
<1>1. ASSUME NEW a \in Actors, ApplyOperation(a)
      PROVE  approvedAt[cmd[a]]
  BY <1>1 DEF ApplyOperation, OutcomeInv, ApprovedFirst, ApprovePcs, ApplyPcs
<1> QED
  BY <1>1, MarksStep

\* No step of the system puts a mark of an unapproved plan into the vault.
LEMMA EffectsNext ==
    TypeOK /\ OutcomeInv /\ NoEffectBeforeApproval /\ [Next]_vars => NoEffectBeforeApproval'
<1> SUFFICES ASSUME TypeOK, OutcomeInv, NoEffectBeforeApproval, [Next]_vars,
                    NEW q \in Plans, NEW j \in OpIdx(q), OpMark(q, j) \in MarksIn(vault)'
             PROVE  approvedAt'[q]
  <2>1. \A q \in Plans : OpIdx(q)' = OpIdx(q) /\ \A j : OpMark(q, j)' = OpMark(q, j)
    BY DEF OpIdx, OpMark
  <2> QED
    BY <2>1 DEF NoEffectBeforeApproval
<1>1. approvedAt[q]
  BY MarksNext DEF NoEffectBeforeApproval
<1>2. approvedAt[q] => approvedAt'[q]
  BY HandlerGrows, WorldKeeps DEF Next, OutcomeInv, LogGrows
<1> QED
  BY <1>1, <1>2

(***************************************************************************)
(* Nothing a plan writes is in the vault before the plan is approved.      *)
(***************************************************************************)
THEOREM ApprovalComesFirst == Spec => []NoEffectBeforeApproval
<1>1. Init => TypeOK /\ OutcomeInv /\ NoEffectBeforeApproval
  <2>1. ASSUME Init, NEW p \in Plans, NEW i \in OpIdx(p), OpMark(p, i) \in MarksIn(vault)
        PROVE  FALSE
    <3>1. PICK f \in Paths : OpMark(p, i) \in {BaseMark(f)}
      BY <2>1 DEF Init, MarksIn
    <3> QED
      BY <3>1 DEF OpMark, BaseMark
  <2> QED
    BY <2>1, TypeInit, OutcomeInit DEF NoEffectBeforeApproval
<1>2. TypeOK /\ OutcomeInv /\ NoEffectBeforeApproval /\ [Next]_vars
        => (TypeOK /\ OutcomeInv /\ NoEffectBeforeApproval)'
  BY TypeNext, OutcomeNext, EffectsNext
<1> QED
  BY <1>1, <1>2, PTL DEF Spec

(***************************************************************************)
(* The audit log and the lock rows, as long as nothing failed.             *)
(***************************************************************************)

\* A handler that does not fail leaves the vault by ReleaseLocks only.
LEMMA HoldersStay ==
    ASSUME TypeOK, NEW a \in Actors, NEW b \in Actors,
           Command(a) \/ Step(a), ~ReleaseLocks(a), Applying(b)
    PROVE  Applying(b)' /\ cmd'[b] = cmd[b]
<1> USE DEF TypeOK, ControlTypeOK, Applying, ApplyPcs, Begin, Goto, GotoWith, Return
<1>1. CASE Command(a)
  BY <1>1 DEF Command, BeginOrganize, BeginApprove, BeginReject
<1>2. CASE OrganizeStep(a)
  BY <1>2 DEF OrganizeStep, PlanProposed, SavePlan, PrepareOp, OrganizeFailPlan, OrganizeFailJob,
              PublishPlan, OrganizeSetJob, OrganizeAnnounce
<1>3. CASE OutcomeStep(a)
  BY <1>3 DEF OutcomeStep, FinishPlan, FinishJob, AnnounceResult, FailPlan, FailJob,
              AnnounceFailure
<1>4. CASE RejectStep(a)
  BY <1>4 DEF RejectStep, MarkRejected, RejectSetJob, RejectAnnounce
<1>5. CASE ApproveStep(a)
  BY <1>5 DEF ApproveStep, MarkApproved, ApprovalChecked, ApproveSetJob, ApproveSetPlan, PreSync,
              ProposalCheck, AcquireLocks, LocksRefused
<1>6. CASE ExecutorStep(a)
  BY <1>6 DEF ExecutorStep, Preflight, ApplyOperation, OperationRefused, LogApplied, LogFailed
<1> QED
  BY <1>1, <1>2, <1>3, <1>4, <1>5, <1>6 DEF Step

\* Faults are counted, and only faults are.
LEMMA FaultsCount ==
    ASSUME TypeOK, [Next]_vars
    PROVE  /\ faults \in Nat /\ faults' \in Nat /\ faults' >= faults
           /\ \A a \in Actors : Fault(a) => faults' > 0
<1>0. faults \in Nat
  BY DEF TypeOK, DataTypeOK
<1>1. ASSUME NEW a \in Actors, Fault(a)
      PROVE  faults' = faults + 1
  BY <1>1 DEF Fault, PlannerFails, ApprovalRefused, PreSyncFails, MoveHalfDone, ApplyFails,
              StoreError, Crash
<1>2. ASSUME NEW a \in Actors, Command(a) \/ OrganizeStep(a) \/ OutcomeStep(a) \/ RejectStep(a)
      PROVE  faults' = faults
  BY <1>2 DEF ctrVars, Command, BeginOrganize, BeginApprove, BeginReject, OrganizeStep,
              PlanProposed, SavePlan, PrepareOp, OrganizeFailPlan, OrganizeFailJob, PublishPlan,
              OrganizeSetJob, OrganizeAnnounce, OutcomeStep, FinishPlan, FinishJob,
              AnnounceResult, FailPlan, FailJob, AnnounceFailure, RejectStep, MarkRejected,
              RejectSetJob, RejectAnnounce
<1>3. ASSUME NEW a \in Actors, ApproveStep(a) \/ ExecutorStep(a)
      PROVE  faults' = faults
  BY <1>3 DEF ctrVars, ApproveStep, MarkApproved, ApprovalChecked, ApproveSetJob, ApproveSetPlan,
              PreSync, ProposalCheck, AcquireLocks, LocksRefused, ExecutorStep, Preflight,
              ApplyOperation, OperationRefused, LogApplied, LogFailed, ReleaseLocks
<1>4. ASSUME UNCHANGED vars \/ OpenStore \/ (\E p \in Plans : LocksLapse(p))
             \/ \E f \in Paths : UserEdit(f)
      PROVE  faults' = faults
  BY <1>4 DEF vars, ctrVars, OpenStore, LocksLapse, UserEdit
<1>5. faults' = faults \/ faults' = faults + 1
  BY <1>1, <1>2, <1>3, <1>4 DEF Next, Step
<1> QED
  BY <1>0, <1>1, <1>5

\* A lock row without a handler stays the trace of a failure.
LEMMA HoldersNext == TypeOK /\ LocksHaveHolders /\ [Next]_vars => LocksHaveHolders'
<1> SUFFICES ASSUME TypeOK, LocksHaveHolders, [Next]_vars, NEW f \in Paths, owner'[f] # NoPlan,
                    ~(faults' > 0)
             PROVE  \E b \in Actors : Applying(b)' /\ cmd'[b] = owner'[f]
  BY DEF LocksHaveHolders
<1>0. faults = 0 /\ \A a \in Actors : ~Fault(a)
  BY FaultsCount
<1>1. owner[f] # NoPlan => \E b \in Actors : Applying(b) /\ cmd[b] = owner[f]
  BY <1>0 DEF LocksHaveHolders
<1>2. DOMAIN owner = Paths
  BY DEF TypeOK, DataTypeOK
<1>3. ASSUME NEW a \in Actors, AcquireLocks(a)
      PROVE  \E b \in Actors : Applying(b)' /\ cmd'[b] = owner'[f]
  <2>1. Applying(a)' /\ cmd'[a] = cmd[a]
    BY <1>3 DEF AcquireLocks, Goto, Applying, ApplyPcs, TypeOK, ControlTypeOK
  <2>2. owner'[f] = cmd[a] \/ owner'[f] = owner[f]
    BY <1>2, <1>3 DEF AcquireLocks, Acquired, Reaped
  <2>3. ~ReleaseLocks(a)
    BY <1>3 DEF AcquireLocks, ReleaseLocks
  <2>4. \A b \in Actors : Applying(b) => Applying(b)' /\ cmd'[b] = cmd[b]
    BY <1>3, <2>3, HoldersStay DEF Step, ApproveStep
  <2> QED
    BY <1>1, <2>1, <2>2, <2>4
<1>4. ASSUME NEW a \in Actors, ReleaseLocks(a)
      PROVE  \E b \in Actors : Applying(b)' /\ cmd'[b] = owner'[f]
  <2>1. owner'[f] = owner[f] /\ owner[f] # cmd[a]
    BY <1>2, <1>4 DEF ReleaseLocks, Released
  <2>2. \A b \in Actors : b # a /\ Applying(b) => Applying(b)' /\ cmd'[b] = cmd[b]
    BY <1>4 DEF ReleaseLocks, Goto, Applying, TypeOK, ControlTypeOK
  <2> QED
    BY <1>1, <2>1, <2>2
<1>5. ASSUME NEW a \in Actors, Command(a) \/ Step(a), ~AcquireLocks(a), ~ReleaseLocks(a)
      PROVE  \E b \in Actors : Applying(b)' /\ cmd'[b] = owner'[f]
  <2>1. owner' = owner
    BY <1>5, ElsewhereUntouched DEF LocksUntouched, lockVars, Step
  <2> QED
    BY <1>1, <1>5, <2>1, HoldersStay
<1>6. CASE UNCHANGED vars \/ OpenStore \/ (\E p \in Plans : LocksLapse(p))
           \/ \E g \in Paths : UserEdit(g)
  <2>1. UNCHANGED <<pc, cmd>> /\ owner'[f] = owner[f]
    BY <1>2, <1>6 DEF vars, OpenStore, Reaped, LocksLapse, UserEdit, lockVars
  <2> QED
    BY <1>1, <2>1 DEF Applying
<1> QED
  BY <1>0, <1>3, <1>4, <1>5, <1>6 DEF Next

\* A handler that stands before its log row and does not fail writes it.
LEMMA LogIsNext ==
    ASSUME TypeOK, NEW a \in Actors, Command(a) \/ Step(a), pc[a] = "log"
    PROVE  LogApplied(a)
<1>1. CASE OrganizeStep(a) \/ RejectStep(a) \/ Command(a)
  BY <1>1 DEF OrganizeStep, PlanProposed, SavePlan, PrepareOp, OrganizeFailPlan, OrganizeFailJob,
              PublishPlan, OrganizeSetJob, OrganizeAnnounce, RejectStep, MarkRejected,
              RejectSetJob, RejectAnnounce, Command, BeginOrganize, BeginApprove, BeginReject,
              Begin
<1>2. CASE ApproveStep(a)
  BY <1>2 DEF ApproveStep, MarkApproved, ApprovalChecked, ApproveSetJob, ApproveSetPlan, PreSync,
              ProposalCheck, AcquireLocks, LocksRefused
<1>3. CASE ExecutorStep(a)
  BY <1>3 DEF ExecutorStep, Preflight, ApplyOperation, OperationRefused, LogFailed, ReleaseLocks
<1>4. CASE OutcomeStep(a)
  BY <1>4 DEF OutcomeStep, FinishPlan, FinishJob, AnnounceResult, FailPlan, FailJob,
              AnnounceFailure
<1> QED
  BY <1>1, <1>2, <1>3, <1>4 DEF Step

\* An operation that stands in the vault is logged, or about to be.
LEMMA AuditNext ==
    TypeOK /\ OutcomeInv /\ EffectAudited /\ [Next]_vars => EffectAudited'
<1> SUFFICES ASSUME TypeOK, OutcomeInv, EffectAudited, [Next]_vars, faults' = 0,
                    NEW q \in Plans, NEW j \in OpIdx(q), OpMark(q, j) \in MarksIn(vault)'
             PROVE  \/ j \in LoggedOps(q)'
                    \/ \E b \in Actors : pc'[b] = "log" /\ cmd'[b] = q /\ idx'[b] = j
  <2>1. \A p \in Plans : OpIdx(p)' = OpIdx(p) /\ \A i : OpMark(p, i)' = OpMark(p, i)
    BY DEF OpIdx, OpMark
  <2> QED
    BY <2>1 DEF EffectAudited
<1>0. faults = 0 /\ \A a \in Actors : ~Fault(a)
  BY FaultsCount
<1>1. CASE \E a \in Actors : ApplyOperation(a) /\ cmd[a] = q /\ idx[a] = j
  BY <1>1 DEF ApplyOperation, Goto, TypeOK, ControlTypeOK
<1>2. CASE OpMark(q, j) \in MarksIn(vault)
  <2>1. CASE j \in LoggedOps(q)
    <3>1. LoggedOps(q) \subseteq LoggedOps(q)'
      <4>1. ASSUME NEW a \in Actors, Command(a) \/ Step(a) \/ Fault(a)
            PROVE  LoggedOps(q) \subseteq LoggedOps(q)'
        BY <4>1, HandlerGrows DEF OutcomeInv, LogGrows
      <4>2. UNCHANGED opLog => LoggedOps(q) \subseteq LoggedOps(q)'
        BY LogUnchanged
      <4> QED
        BY <4>1, <4>2, WorldKeeps DEF Next
    <3> QED
      BY <2>1, <3>1
  <2>2. ASSUME NEW b \in Actors, pc[b] = "log", cmd[b] = q, idx[b] = j
        PROVE  \/ j \in LoggedOps(q)'
               \/ pc'[b] = "log" /\ cmd'[b] = q /\ idx'[b] = j
    <3>1. ASSUME NEW a \in Actors, Command(a) \/ Step(a), a = b
          PROVE  j \in LoggedOps(q)'
      BY <2>2, <3>1, LogIsNext, LogAppliedLogs
    <3>2. ASSUME NEW a \in Actors, Command(a) \/ Step(a), a # b
          PROVE  pc'[b] = "log" /\ cmd'[b] = q /\ idx'[b] = j
      BY <2>2, <3>2, ControlSteps DEF ControlStep
    <3>3. CASE UNCHANGED vars \/ OpenStore \/ (\E p \in Plans : LocksLapse(p))
               \/ \E g \in Paths : UserEdit(g)
      BY <2>2, <3>3 DEF vars, OpenStore, LocksLapse, UserEdit
    <3> QED
      BY <1>0, <3>1, <3>2, <3>3 DEF Next
  <2> QED
    BY <1>0, <1>2, <2>1, <2>2 DEF EffectAudited
<1> QED
  BY <1>1, <1>2, MarksStep

(***************************************************************************)
(* The audit log is complete and only handlers at work hold locks, unless  *)
(* something failed, whatever is approved and rejected at the same time.   *)
(***************************************************************************)
THEOREM AuditInvariant == Spec => []AuditInv
<1>1. Init => TypeOK /\ OutcomeInv /\ AuditInv
  <2>1. ASSUME Init, NEW p \in Plans, NEW i \in OpIdx(p), OpMark(p, i) \in MarksIn(vault)
        PROVE  FALSE
    <3>1. PICK f \in Paths : OpMark(p, i) \in {BaseMark(f)}
      BY <2>1 DEF Init, MarksIn
    <3> QED
      BY <3>1 DEF OpMark, BaseMark
  <2>2. Init => EffectAudited
    BY <2>1 DEF EffectAudited
  <2>3. Init => LocksHaveHolders
    BY DEF Init, LocksHaveHolders
  <2> QED
    BY <2>2, <2>3, TypeInit, OutcomeInit DEF AuditInv
<1>2. TypeOK /\ OutcomeInv /\ AuditInv /\ [Next]_vars => (TypeOK /\ OutcomeInv /\ AuditInv)'
  BY TypeNext, OutcomeNext, AuditNext, HoldersNext DEF AuditInv
<1> QED
  BY <1>1, <1>2, PTL DEF Spec

(***************************************************************************)
(* What Prepare saw.                                                       *)
(***************************************************************************)

\* A handler whose plan has not been offered for approval yet.
Drafting(a) == pc[a] \in {"org_plan", "org_save", "org_prepare", "org_publish"}
Unpublished(p) == planStatus[p] \in {"none", "proposed"}

(***************************************************************************)
(* A plan has a job before it has a row, only the handler that organizes   *)
(* it works on it until it is published, and it is not approved before.    *)
(***************************************************************************)
DraftInv ==
    /\ \A p \in Plans : jobStatus[p] = "none" =>
          planStatus[p] = "none" /\ \A a \in Actors : cmd[a] # p
    /\ \A a \in Actors : Drafting(a) =>
          Unpublished(cmd[a]) /\ \A b \in Actors : b # a => cmd[b] # cmd[a]
    /\ \A p \in Plans : Unpublished(p) =>
          ~approvedAt[p] /\ \A a \in Actors : cmd[a] = p => pc[a] \in OrganizePcs

\* A step of a handler that works on p: only the columns of p change, the job
\* does not disappear, and a plan stays unpublished only where it was drafted.
DraftStep(a, p) ==
    /\ \A q \in Plans \ {p} : /\ planStatus'[q] = planStatus[q]
                              /\ approvedAt'[q] = approvedAt[q]
                              /\ jobStatus'[q] = jobStatus[q]
    /\ jobStatus'[p] = "none" => jobStatus[p] = "none"
    /\ cmd'[a] \in {p, NoPlan}
    /\ Drafting(a)' => /\ Drafting(a)
                       /\ planStatus'[p] = planStatus[p] \/ planStatus'[p] = "proposed"
    /\ Unpublished(p)' => /\ Unpublished(p) \/ Drafting(a)
                          /\ approvedAt'[p] = approvedAt[p]
                          /\ cmd'[a] = p /\ pc[a] \in OrganizePcs => pc'[a] \in OrganizePcs

\* Every step but the first is one.
LEMMA DraftSteps ==
    ASSUME TypeOK, NEW a \in Actors, NEW p \in Plans, cmd[a] = p, Step(a) \/ Fault(a)
    PROVE  DraftStep(a, p)
<1> USE DEF TypeOK, ControlTypeOK, DataTypeOK, DraftStep, Drafting, Unpublished, OrganizePcs,
            Goto, GotoWith, Return, SetPlan, SetJob, planVars
<1>1. CASE OrganizeStep(a)
  <2>1. CASE PrepareOp(a)
    BY <2>1 DEF PrepareOp
  <2>2. CASE SavePlan(a) \/ PublishPlan(a) \/ OrganizeFailPlan(a)
    BY <2>2 DEF SavePlan, PublishPlan, OrganizeFailPlan
  <2>3. CASE OrganizeFailJob(a) \/ OrganizeAnnounce(a)
    BY <2>3, PathsAssumption DEF OrganizeFailJob, OrganizeAnnounce
  <2>4. CASE PlanProposed(a) \/ OrganizeSetJob(a)
    BY <2>4 DEF PlanProposed, OrganizeSetJob
  <2> QED
    BY <1>1, <2>1, <2>2, <2>3, <2>4 DEF OrganizeStep
<1>2. CASE ApproveStep(a)
  BY <1>2 DEF ApproveStep, MarkApproved, ApprovalChecked, ApproveSetJob, ApproveSetPlan, PreSync,
              ProposalCheck, AcquireLocks, LocksRefused
<1>3. CASE ExecutorStep(a)
  BY <1>3 DEF ExecutorStep, Preflight, ApplyOperation, OperationRefused, LogApplied, LogFailed,
              ReleaseLocks
<1>4. CASE OutcomeStep(a)
  <2>1. verdict[a] \in Verdicts
    OBVIOUS
  <2> QED
    BY <1>4, <2>1 DEF OutcomeStep, FinishPlan, FinishJob, AnnounceResult, FailPlan, FailJob,
                      AnnounceFailure, Verdicts
<1>5. CASE RejectStep(a)
  BY <1>5 DEF RejectStep, MarkRejected, RejectSetJob, RejectAnnounce
<1>6. CASE StoreError(a)
  <2>1. UNCHANGED <<planStatus, approvedAt, jobStatus>> /\ cmd'[a] \in {p, NoPlan}
    BY <1>6 DEF StoreError
  <2>2. (pc'[a] = "idle" /\ cmd'[a] = NoPlan) \/ pc'[a] = AfterStoreError(a)
    BY <1>6 DEF StoreError
  <2>3. pc'[a] # "idle" => ~Drafting(a)' /\ (pc[a] \in OrganizePcs => pc'[a] \in OrganizePcs)
    BY <1>6, <2>2 DEF StoreError, AfterStoreError, Swallows, Propagates
  <2>4. ~Drafting(a)' /\ (cmd'[a] = p /\ pc[a] \in OrganizePcs => pc'[a] \in OrganizePcs)
    <3>1. CASE pc'[a] = "idle" /\ cmd'[a] = NoPlan
      <4>1. cmd'[a] # p
        BY <3>1, PathsAssumption
      <4> QED
        BY <3>1, <4>1
    <3>2. CASE pc'[a] = AfterStoreError(a) /\ pc'[a] # "idle"
      BY <2>3, <3>2
    <3>3. pc'[a] = "idle" => cmd'[a] = NoPlan
      BY <1>6 DEF StoreError, AfterStoreError, Swallows
    <3> QED
      BY <2>2, <3>1, <3>2, <3>3
  <2> QED
    BY <2>1, <2>4
<1>7. CASE ApplyFails(a)
  BY <1>7 DEF ApplyFails
<1>8. CASE PlannerFails(a) \/ ApprovalRefused(a) \/ PreSyncFails(a) \/ MoveHalfDone(a) \/ Crash(a)
  BY <1>8, PathsAssumption
     DEF PlannerFails, ApprovalRefused, PreSyncFails, MoveHalfDone, Crash
<1> QED
  BY <1>1, <1>2, <1>3, <1>4, <1>5, <1>6, <1>7, <1>8 DEF Step, Fault

\* DraftInv is inductive: a handler that goes on keeps it,
LEMMA HandlerDrafts ==
    ASSUME TypeOK, DraftInv, NEW a \in Actors, Step(a) \/ Fault(a)
    PROVE  DraftInv'
<1>1. PICK p \in Plans : cmd[a] = p
  BY BusyHandler, RunningTyping DEF TypeOK
<1>2. DraftStep(a, p) /\ \A b \in Actors \ {a} : pc'[b] = pc[b] /\ cmd'[b] = cmd[b]
  BY <1>1, DraftSteps, ControlSteps DEF ControlStep
<1>3. jobStatus[p] # "none"
  BY <1>1 DEF DraftInv
<1>4. ASSUME NEW q \in Plans, jobStatus'[q] = "none"
      PROVE  planStatus'[q] = "none" /\ \A b \in Actors : cmd'[b] # q
  BY <1>2, <1>3, <1>4, PathsAssumption DEF DraftInv, DraftStep
<1>5. ASSUME NEW b \in Actors, Drafting(b)'
      PROVE  Unpublished(cmd[b])' /\ \A c \in Actors : c # b => cmd'[c] # cmd'[b]
  <2>1. Drafting(b)
    BY <1>2, <1>5 DEF DraftStep, Drafting
  <2>2. PICK q \in Plans : cmd[b] = q
    BY <2>1, RunningTyping DEF TypeOK, Drafting
  <2>3. cmd'[b] = q
    <3>1. pc'[b] # "idle"
      BY <1>5 DEF Drafting
    <3>2. cmd'[b] # NoPlan
      <4>1. TypeOK'
        BY TypeNext DEF Next
      <4> QED
        BY <3>1, <4>1, PathsAssumption DEF TypeOK, ControlTypeOK, HandlerTypeOK
    <3> QED
      BY <1>1, <1>2, <2>2, <3>2 DEF DraftStep
  <2>4. Unpublished(q) /\ \A c \in Actors : c # b => cmd[c] # q
    BY <2>1, <2>2 DEF DraftInv
  <2>5. \A c \in Actors : c # b => cmd'[c] # q
    BY <1>1, <1>2, <2>2, <2>4, PathsAssumption DEF DraftStep
  <2>6. planStatus'[q] \in {planStatus[q], "proposed"}
    <3>1. CASE b = a
      BY <1>1, <1>2, <1>5, <2>2, <3>1 DEF DraftStep
    <3>2. CASE b # a
      BY <1>1, <1>2, <2>4, <3>2 DEF DraftStep
    <3> QED
      BY <3>1, <3>2
  <2> QED
    BY <2>3, <2>4, <2>5, <2>6 DEF Unpublished
<1>6. ASSUME NEW q \in Plans, Unpublished(q)'
      PROVE  ~approvedAt'[q] /\ \A b \in Actors : cmd'[b] = q => pc'[b] \in OrganizePcs
  <2>1. CASE q # p
    <3>1. Unpublished(q) /\ approvedAt'[q] = approvedAt[q]
      BY <1>2, <1>6, <2>1 DEF DraftStep, Unpublished
    <3>2. \A b \in Actors : cmd'[b] = q => b # a /\ cmd[b] = q /\ pc'[b] = pc[b]
      BY <1>2, <2>1, PathsAssumption DEF DraftStep
    <3> QED
      BY <3>1, <3>2 DEF DraftInv
  <2>2. CASE q = p
    <3>1. Unpublished(p)
      BY <1>1, <1>2, <1>6, <2>2 DEF DraftStep, DraftInv
    <3>2. ~approvedAt[p] /\ \A b \in Actors : cmd[b] = p => pc[b] \in OrganizePcs
      BY <3>1 DEF DraftInv
    <3> QED
      BY <1>1, <1>2, <1>6, <2>2, <3>2 DEF DraftStep
  <2> QED
    BY <2>1, <2>2
<1> QED
  BY <1>4, <1>5, <1>6 DEF DraftInv

\* and so does one that is called.
LEMMA CommandDrafts ==
    ASSUME TypeOK, DraftInv, NEW a \in Actors, NEW p \in Plans,
           BeginOrganize(a, p) \/ BeginApprove(a, p) \/ BeginReject(a, p)
    PROVE  DraftInv'
<1>1. /\ pc[a] = "idle" /\ cmd[a] = NoPlan /\ cmd'[a] = p
      /\ \A b \in Actors \ {a} : pc'[b] = pc[b] /\ cmd'[b] = cmd[b]
      /\ UNCHANGED <<planStatus, approvedAt>>
  BY DEF BeginOrganize, BeginApprove, BeginReject, Begin, planVars, TypeOK, ControlTypeOK,
         HandlerTypeOK
<1>2. \A b \in Actors : Drafting(b) => b # a /\ cmd[b] \in Plans
  BY <1>1, RunningTyping DEF Drafting, TypeOK
<1>3. CASE BeginOrganize(a, p)
  <2>1. /\ jobStatus[p] = "none" /\ jobStatus'[p] = "pending" /\ pc'[a] = "org_plan"
        /\ \A q \in Plans \ {p} : jobStatus'[q] = jobStatus[q]
    BY <1>3 DEF BeginOrganize, SetJob, Begin, TypeOK, DataTypeOK, ControlTypeOK
  <2>2. planStatus[p] = "none" /\ \A b \in Actors : cmd[b] # p
    BY <2>1 DEF DraftInv
  <2> QED
    BY <1>1, <1>2, <2>1, <2>2 DEF DraftInv, Drafting, Unpublished, OrganizePcs
<1>4. CASE BeginApprove(a, p) \/ BeginReject(a, p)
  <2>1. planStatus[p] = "awaiting_approval" /\ UNCHANGED jobStatus /\ ~Drafting(a)'
    BY <1>4 DEF BeginApprove, BeginReject, Begin, TypeOK, ControlTypeOK, Drafting
  <2> QED
    BY <1>1, <1>2, <2>1 DEF DraftInv, Drafting, Unpublished
<1> QED
  BY <1>3, <1>4

\* No step of the system breaks DraftInv.
LEMMA DraftNext == TypeOK /\ DraftInv /\ [Next]_vars => DraftInv'
<1> SUFFICES ASSUME TypeOK, DraftInv, [Next]_vars PROVE DraftInv'
  OBVIOUS
<1>1. CASE UNCHANGED vars \/ OpenStore \/ (\E p \in Plans : LocksLapse(p))
           \/ \E f \in Paths : UserEdit(f)
  <2>1. UNCHANGED <<planStatus, approvedAt, jobStatus, pc, cmd>>
    BY <1>1 DEF vars, OpenStore, LocksLapse, UserEdit, planVars
  <2> QED
    BY <2>1 DEF DraftInv, Drafting, Unpublished
<1>2. CASE \E a \in Actors : Command(a) \/ Step(a) \/ Fault(a)
  BY <1>2, HandlerDrafts, CommandDrafts DEF Command
<1> QED
  BY <1>1, <1>2 DEF Next

\* before_hash is the hash of a note that carried nothing of the plan.
HashInv ==
    \A p \in Plans, f \in Paths : beforeHash[p][f] # Absent =>
        \A i \in OpIdx(p) : OpMark(p, i) \notin beforeHash[p][f]

\* Only Prepare records a hash.
LEMMA HashSteps ==
    ASSUME [Next]_vars
    PROVE  UNCHANGED beforeHash \/ \E a \in Actors : PrepareOp(a)
<1>1. ASSUME NEW a \in Actors, OrganizeStep(a) \/ OutcomeStep(a) \/ RejectStep(a) \/ Command(a)
      PROVE  PrepareOp(a) \/ UNCHANGED beforeHash
  BY <1>1 DEF OrganizeStep, PlanProposed, SavePlan, OrganizeFailPlan, OrganizeFailJob,
              PublishPlan, OrganizeSetJob, OrganizeAnnounce, OutcomeStep, FinishPlan, FinishJob,
              AnnounceResult, FailPlan, FailJob, AnnounceFailure, RejectStep, MarkRejected,
              RejectSetJob, RejectAnnounce, Command, BeginOrganize, BeginApprove, BeginReject
<1>2. ASSUME NEW a \in Actors, ApproveStep(a) \/ ExecutorStep(a)
      PROVE  UNCHANGED beforeHash
  BY <1>2 DEF ApproveStep, MarkApproved, ApprovalChecked, ApproveSetJob, ApproveSetPlan, PreSync,
              ProposalCheck, AcquireLocks, LocksRefused, ExecutorStep, Preflight, ApplyOperation,
              OperationRefused, LogApplied, LogFailed, ReleaseLocks
<1>3. ASSUME NEW a \in Actors, Fault(a)
      PROVE  UNCHANGED beforeHash
  BY <1>3 DEF Fault, PlannerFails, ApprovalRefused, PreSyncFails, MoveHalfDone, ApplyFails,
              StoreError, Crash
<1> QED
  BY <1>1, <1>2, <1>3 DEF Next, Step, vars, LocksLapse, OpenStore, UserEdit

\* A plan that is prepared is not approved, so nothing of it is in the vault.
LEMMA HashNext ==
    TypeOK /\ DraftInv /\ NoEffectBeforeApproval /\ HashInv /\ [Next]_vars => HashInv'
<1> SUFFICES ASSUME TypeOK, DraftInv, NoEffectBeforeApproval, HashInv, [Next]_vars,
                    NEW q \in Plans, NEW f \in Paths, beforeHash'[q][f] # Absent,
                    NEW j \in OpIdx(q)
             PROVE  OpMark(q, j) \notin beforeHash'[q][f]
  <2>1. \A p \in Plans : OpIdx(p)' = OpIdx(p) /\ \A i : OpMark(p, i)' = OpMark(p, i)
    BY DEF OpIdx, OpMark
  <2> QED
    BY <2>1 DEF HashInv
<1>1. CASE UNCHANGED beforeHash
  BY <1>1 DEF HashInv
<1>2. ASSUME NEW a \in Actors, PrepareOp(a)
      PROVE  OpMark(q, j) \notin beforeHash'[q][f]
  <2>1. PICK p \in Plans : cmd[a] = p
    BY <1>2, RunningTyping DEF TypeOK, PrepareOp
  <2>2. ~approvedAt[p]
    BY <1>2, <2>1 DEF PrepareOp, DraftInv, Drafting
  <2>3. PICK g \in Paths : \/ beforeHash' = beforeHash
                           \/ beforeHash' = [beforeHash EXCEPT ![p][g] = vault[g]]
    <3>1. PICK i \in OpIdx(p) : idx[a] = i
      BY <1>2, <2>1, RunningTyping DEF TypeOK, PrepareOp
    <3>2. PlanOps[p][i].path \in Paths
      BY PlanOpsTyping
    <3> QED
      BY <1>2, <2>1, <3>1, <3>2 DEF PrepareOp
  <2>4. beforeHash'[q][f] = beforeHash[q][f] \/ (q = p /\ f = g /\ beforeHash'[q][f] = vault[g])
    BY <2>3 DEF TypeOK, DataTypeOK
  <2>5. CASE q = p /\ beforeHash'[q][f] = vault[g]
    <3>1. OpMark(q, j) \notin MarksIn(vault)
      BY <2>2, <2>5 DEF NoEffectBeforeApproval
    <3> QED
      BY <2>5, <3>1 DEF MarksIn
  <2> QED
    BY <2>4, <2>5 DEF HashInv
<1> QED
  BY <1>1, <1>2, HashSteps

\* Who goes from an operation to its log row has just carried it out.
LEMMA OnlyApplied ==
    ASSUME TypeOK, [Next]_vars, NEW a \in Actors, pc[a] = "op", pc'[a] = "log"
    PROVE  ApplyOperation(a)
<1> USE DEF TypeOK, ControlTypeOK, Begin, Goto, GotoWith, Return
<1>1. ASSUME NEW b \in Actors, Command(b) \/ Step(b) \/ Fault(b)
      PROVE  a = b
  BY <1>1, ControlSteps DEF ControlStep
<1>2. CASE UNCHANGED vars \/ OpenStore \/ (\E p \in Plans : LocksLapse(p))
           \/ \E f \in Paths : UserEdit(f)
  BY <1>2 DEF vars, OpenStore, LocksLapse, UserEdit
<1>3. CASE Command(a) \/ OrganizeStep(a) \/ RejectStep(a)
  BY <1>3 DEF OrganizeStep, PlanProposed, SavePlan, PrepareOp, OrganizeFailPlan, OrganizeFailJob,
              PublishPlan, OrganizeSetJob, OrganizeAnnounce, RejectStep, MarkRejected,
              RejectSetJob, RejectAnnounce, Command, BeginOrganize, BeginApprove, BeginReject
<1>4. CASE ApproveStep(a) \/ OutcomeStep(a)
  BY <1>4 DEF ApproveStep, MarkApproved, ApprovalChecked, ApproveSetJob, ApproveSetPlan, PreSync,
              ProposalCheck, AcquireLocks, LocksRefused, OutcomeStep, FinishPlan, FinishJob,
              AnnounceResult, FailPlan, FailJob, AnnounceFailure
<1>5. CASE ExecutorStep(a)
  BY <1>5 DEF ExecutorStep, Preflight, OperationRefused, LogApplied, LogFailed, ReleaseLocks
<1>6. CASE Fault(a)
  BY <1>6 DEF Fault, PlannerFails, ApprovalRefused, PreSyncFails, MoveHalfDone, ApplyFails,
              StoreError, Swallows, Propagates, Crash
<1> QED
  BY <1>1, <1>2, <1>3, <1>4, <1>5, <1>6 DEF Next, Step

(***************************************************************************)
(* No operation changes a note that carries text of its own plan, however  *)
(* often the plan is approved and whatever its handlers died of.           *)
(***************************************************************************)
THEOREM TextIsWrittenOnce == Spec => NoDoubleEffect
<1> DEFINE Inv == TypeOK /\ OutcomeInv /\ NoEffectBeforeApproval /\ DraftInv /\ HashInv
           AddsNoCopy == \A a \in Actors : pc[a] = "op" /\ pc'[a] = "log" =>
                             ~CarriesTextOf(PlanOps[cmd[a]][idx[a]].path, cmd[a])
<1>1. Init => Inv
  <2> SUFFICES ASSUME Init PROVE Inv
    OBVIOUS
  <2>1. ASSUME NEW p \in Plans, NEW i \in OpIdx(p), NEW f \in Paths
        PROVE  OpMark(p, i) \notin {BaseMark(f)}
    BY DEF OpMark, BaseMark
  <2>2. NoEffectBeforeApproval
    BY <2>1 DEF Init, NoEffectBeforeApproval, MarksIn
  <2>3. HashInv
    BY <2>1 DEF Init, HashInv
  <2>4. DraftInv
    BY PathsAssumption DEF Init, DraftInv, Drafting, Unpublished
  <2> QED
    BY <2>2, <2>3, <2>4, TypeInit, OutcomeInit
<1>2. Inv /\ [Next]_vars => Inv'
  BY TypeNext, OutcomeNext, EffectsNext, DraftNext, HashNext
<1>3. Inv /\ [Next]_vars => AddsNoCopy
  <2> SUFFICES ASSUME Inv, [Next]_vars, NEW a \in Actors, pc[a] = "op", pc'[a] = "log"
               PROVE  ~CarriesTextOf(PlanOps[cmd[a]][idx[a]].path, cmd[a])
    OBVIOUS
  <2>1. PICK p \in Plans : cmd[a] = p
    BY RunningTyping DEF TypeOK
  <2>2. PICK i \in OpIdx(p) : idx[a] = i
    BY <2>1, RunningTyping DEF TypeOK
  <2>3. PICK f \in Paths : PlanOps[p][i].path = f
    BY PlanOpsTyping
  <2>4. OpReady(vault, PlanOps[p][i], beforeHash[p][f])
    BY <2>1, <2>2, <2>3, OnlyApplied, VerdictTyping DEF ApplyOperation
  <2>5. vault[f] = Absent \/ vault[f] = beforeHash[p][f]
    BY <2>3, <2>4 DEF OpReady
  <2>6. ~CarriesTextOf(f, p)
    BY <2>5 DEF CarriesTextOf, HashInv
  <2> QED
    BY <2>1, <2>2, <2>3, <2>6
<1> QED
  BY <1>1, <1>2, <1>3, PTL DEF Spec, NoDoubleEffect

=============================================================================
