------------------------- MODULE EnrichQueue_proofs -------------------------
(***************************************************************************)
(* The enrich queue for any notes, commands, ceiling and bounds: waiting   *)
(* rows have attempts left, running rows have runners, attempts close      *)
(* their records, and no rewrite loses an edit or enriches a note twice;   *)
(* the order of the rows and the counts of attempts at the end.            *)
(***************************************************************************)
EXTENDS EnrichQueue, FiniteSetTheorems, TLAPS

Pcs == {"idle"} \cup CliPcs \cup RunPcs

\* What the steps need to know about types; the order of the line is not
\* part of it.
RunnerTypeOK ==
    /\ pc \in [Runners -> Pcs]
    /\ note \in [Runners -> Paths \cup {NoPlan}]
    /\ seen \in [Runners -> Notes]
    /\ result \in [Runners -> Outcomes]
    /\ records \in [Runners -> [job : {"none", "applying", "done", "failed"},
                                plan : {"none", "proposed", "rejected", "failed", "applied"}]]
    /\ \A r \in Runners : pc[r] # "idle" => note[r] \in Paths
QueueTypeOK ==
    /\ row \in [Paths -> [state : RowStates, attempts : Nat]]
    /\ vault \in [Paths -> Notes]
    /\ RunnerTypeOK
    /\ scan \in [at : {"walk", "content", "enqueue"}, note : Paths \cup {NoPlan}]
    /\ faults \in Nat
    /\ edits \in Nat
    /\ scan.at # "walk" => scan.note \in Paths

\* Between its first read and its write an attempt holds a note without the
\* enrichment, the one it will render.
SeenIsBare ==
    \A r \in Runners :
        pc[r] \in {"agent", "reread", "plan", "lock", "preflight", "write"} =>
            seen[r] # Absent /\ Enriched \notin seen[r]

\* The records are closed at every point where RunOne is not at work on them.
ClosedAtRest ==
    \A r \in Runners :
        faults = 0 /\ pc[r] \in {"idle", "run", "finish"} \cup CliPcs =>
            /\ records[r].job # "applying"
            /\ records[r].plan # "proposed"
            /\ records[r].plan \in {"rejected", "failed"} => records[r].job = "failed"
            /\ records[r].plan = "applied" => records[r].job = "done"

\* A path without a row has used no attempt.
FreshRows == \A n \in Paths : row[n].state = "none" => row[n].attempts = 0

EnrichInv ==
    /\ QueueTypeOK
    /\ FreshRows
    /\ WaitingHasAttempts
    /\ RunningHasRunner
    /\ SeenIsBare
    /\ ClosedAtRest

-----------------------------------------------------------------------------
\* It holds when the store is empty and nobody runs.
LEMMA InitEnrichInv == Init => EnrichInv
<1> SUFFICES ASSUME Init PROVE EnrichInv
  OBVIOUS
<1>1. QueueTypeOK
  BY DEF Init, QueueTypeOK, RunnerTypeOK, RowStates, Notes, Pcs, Outcomes, NoRecords
<1>2. FreshRows /\ WaitingHasAttempts
  BY AttemptsAssumption DEF Init, FreshRows, WaitingHasAttempts
<1>3. RunningHasRunner
  BY DEF Init, RunningHasRunner, Orphaned
<1>4. SeenIsBare /\ ClosedAtRest
  BY DEF Init, SeenIsBare, ClosedAtRest, NoRecords
<1> QED
  BY <1>1, <1>2, <1>3, <1>4 DEF EnrichInv

\* What the statements on enrich_jobs leave in a row.
LEMMA RowStatements ==
    ASSUME QueueTypeOK, WaitingHasAttempts, NEW n \in Paths
    PROVE  /\ Enqueue(n) => \/ row' = row /\ line' = line
                            \/ row' = [row EXCEPT ![n] = [state |-> "pending",
                                                          attempts |-> row[n].attempts]]
                               /\ line' \in Requeued(n)
                               /\ (row[n].state = "none" \/ row[n].attempts < AttemptsMax)
           /\ \A st \in Outcomes : FinishRow(n, st) =>
                 \E new \in [state : RowStates, attempts : Nat] :
                    /\ row' = [row EXCEPT ![n] = new]
                    /\ new.state \notin {"none", "pending", "running"}
                    /\ new.attempts <= row[n].attempts + 1
                    /\ new.state \in {"skipped_concurrent_edit", "failed"} =>
                          new.attempts < AttemptsMax
<1>1. row[n] \in [state : RowStates, attempts : Nat]
  BY DEF QueueTypeOK
<1>2. Enqueue(n) => \/ row' = row /\ line' = line
                    \/ row' = [row EXCEPT ![n] = [state |-> "pending",
                                                  attempts |-> row[n].attempts]]
                       /\ line' \in Requeued(n)
                       /\ (row[n].state = "none" \/ row[n].attempts < AttemptsMax)
  BY DEF Enqueue, SetRow, queueVars
<1>3. ASSUME NEW st \in Outcomes, FinishRow(n, st)
      PROVE  \E new \in [state : RowStates, attempts : Nat] :
                    /\ row' = [row EXCEPT ![n] = new]
                    /\ new.state \notin {"none", "pending", "running"}
                    /\ new.attempts <= row[n].attempts + 1
                    /\ new.state \in {"skipped_concurrent_edit", "failed"} =>
                          new.attempts < AttemptsMax
  <2>1. CASE st = "done"
    <3> DEFINE new == [state |-> "done", attempts |-> row[n].attempts]
    <3>1. new \in [state : RowStates, attempts : Nat] /\ row' = [row EXCEPT ![n] = new]
      BY <1>1, <1>3, <2>1 DEF FinishRow, SetRow, RowStates
    <3>2. new.attempts <= row[n].attempts + 1 /\ new.state = "done"
      BY <1>1
    <3> HIDE DEF new
    <3> QED
      BY <3>1, <3>2
  <2>2. CASE st # "done"
    <3> DEFINE new == [state |-> IF row[n].attempts + 1 >= AttemptsMax
                                 THEN "attempts_exhausted" ELSE st,
                       attempts |-> row[n].attempts + 1]
    <3>1. new \in [state : RowStates, attempts : Nat] /\ row' = [row EXCEPT ![n] = new]
      BY <1>1, <1>3, <2>2 DEF FinishRow, SetRow, RowStates, Outcomes
    <3>2. new.state \in {"skipped_concurrent_edit", "failed"} => new.attempts < AttemptsMax
      BY <1>1, AttemptsAssumption
    <3>3. new.state \notin {"none", "pending", "running"}
      BY <1>3, <2>2 DEF Outcomes
    <3>4. new.attempts <= row[n].attempts + 1
      BY <1>1
    <3> QED
      BY <3>1, <3>2, <3>3, <3>4
  <2> QED
    BY <2>1, <2>2
<1> QED
  BY <1>2, <1>3

\* A runner that goes on, concludes or returns is well typed afterwards.
LEMMA RunnerMoves ==
    ASSUME RunnerTypeOK, NEW r \in Runners
    PROVE  /\ \A l \in Pcs : pc[r] # "idle" /\ Goto(r, l) => RunnerTypeOK'
           /\ \A l \in Pcs, res \in Outcomes,
                job \in {"none", "applying", "done", "failed"},
                plan \in {"none", "proposed", "rejected", "failed", "applied"} :
                pc[r] # "idle" /\ Conclude(r, l, res, job, plan) => RunnerTypeOK'
           /\ Return(r) /\ UNCHANGED records => RunnerTypeOK'
<1> USE DEF RunnerTypeOK
<1>1. ASSUME NEW l \in Pcs, pc[r] # "idle", Goto(r, l)
      PROVE  RunnerTypeOK'
  BY <1>1 DEF Goto
<1>2. ASSUME NEW l \in Pcs, NEW res \in Outcomes,
             NEW job \in {"none", "applying", "done", "failed"},
             NEW plan \in {"none", "proposed", "rejected", "failed", "applied"},
             pc[r] # "idle", Conclude(r, l, res, job, plan)
      PROVE  RunnerTypeOK'
  BY <1>2 DEF Conclude
<1>3. ASSUME Return(r), UNCHANGED records
      PROVE  RunnerTypeOK'
  BY <1>3 DEF Return, Notes, Outcomes, Pcs
<1> QED
  BY <1>1, <1>2, <1>3

\* The types survive every step.
LEMMA TypingStep == EnrichInv /\ [Next]_vars => QueueTypeOK'
<1> SUFFICES ASSUME EnrichInv, [Next]_vars PROVE QueueTypeOK'
  OBVIOUS
<1> USE DEF EnrichInv, QueueTypeOK
<1> USE DEF queueVars, envVars, lockVars, ctrVars, runVars, Failing
<1>0. /\ \A n \in Paths : vault[n] # Absent => vault[n] \in SUBSET Marks
      /\ Pcs = {"idle"} \cup {"cli_reset", "cli_insert", "cli_claim"} \cup
              {"run", "read", "agent", "reread", "plan", "lock", "preflight", "write", "log",
               "release", "close", "finish"}
      /\ Outcomes = {"done", "skipped_concurrent_edit", "failed"}
  BY DEF Notes, Pcs, CliPcs, RunPcs, ApplyPcs, Outcomes
<1>1. ASSUME NEW n \in Paths, Capture(n) PROVE QueueTypeOK'
  BY <1>1 DEF Capture, Notes, Marks, RunnerTypeOK
<1>2. ASSUME NEW n \in Paths, HookEnqueue(n) PROVE QueueTypeOK'
  <2>1. row' \in [Paths -> [state : RowStates, attempts : Nat]]
    BY <1>2, RowStatements DEF HookEnqueue, RowStates
  <2> QED
    BY <1>2, <2>1 DEF HookEnqueue, RunnerTypeOK
<1>3. ASSUME NEW n \in Paths, UserEdit(n) PROVE QueueTypeOK'
  BY <1>0, <1>3 DEF UserEdit, Notes, Marks, RunnerTypeOK
<1>4. ASSUME NEW n \in Paths, HookLost(n) \/ QuietWindow(n) \/ ScanRow(n) PROVE QueueTypeOK'
  BY <1>4 DEF HookLost, QuietWindow, ScanRow, RunnerTypeOK
<1>5. CASE ScanContent
  BY <1>5 DEF ScanContent, RunnerTypeOK
<1>6. CASE ScanEnqueue
  <2>1. scan.note \in Paths /\ Enqueue(scan.note)
    BY <1>6 DEF ScanEnqueue
  <2>2. row' \in [Paths -> [state : RowStates, attempts : Nat]]
    BY <2>1, RowStatements DEF RowStates
  <2> QED
    BY <1>6, <2>2 DEF ScanEnqueue, RunnerTypeOK
<1>7. ASSUME NEW r \in Runners, NEW n \in Paths, BeginCli(r, n) PROVE QueueTypeOK'
  BY <1>0, <1>7 DEF BeginCli, RunnerTypeOK
<1>8. ASSUME NEW r \in Runners, CliReset(r) PROVE QueueTypeOK'
  <2>1. note[r] \in Paths /\ pc[r] # "idle" /\ RunnerTypeOK'
    BY <1>0, <1>8, RunnerMoves DEF CliReset, RunnerTypeOK
  <2> QED
    BY <1>8, <2>1 DEF CliReset, SetRow, RowStates
<1>9. ASSUME NEW r \in Runners, CliInsert(r) PROVE QueueTypeOK'
  <2>1. note[r] \in Paths /\ pc[r] # "idle" /\ RunnerTypeOK'
    BY <1>0, <1>9, RunnerMoves DEF CliInsert, RunnerTypeOK
  <2> QED
    BY <1>9, <2>1 DEF CliInsert, SetRow, RowStates
<1>10. ASSUME NEW r \in Runners, NEW n \in Paths, Claim(r, n) PROVE QueueTypeOK'
  <2>1. RunnerTypeOK'
    BY <1>0, <1>10 DEF Claim, RunnerTypeOK, NoRecords
  <2>2. row' \in [Paths -> [state : RowStates, attempts : Nat]]
    BY <1>10 DEF Claim, SetRow, RowStates
  <2> QED
    BY <1>10, <2>1, <2>2 DEF Claim
<1>11. ASSUME NEW r \in Runners, StartRun(r) PROVE QueueTypeOK'
  BY <1>0, <1>11 DEF StartRun, RunnerTypeOK
<1>12. ASSUME NEW r \in Runners, ReadNote(r) PROVE QueueTypeOK'
  <2>1. note[r] \in Paths /\ pc[r] # "idle"
    BY <1>12 DEF ReadNote, RunnerTypeOK
  <2>2. CASE Conclude(r, "finish", "done", "done", "none")
    BY <1>0, <1>12, <2>1, <2>2, RunnerMoves DEF ReadNote
  <2>3. CASE /\ pc' = [pc EXCEPT ![r] = "agent"]
             /\ seen' = [seen EXCEPT ![r] = vault[note[r]]]
             /\ UNCHANGED <<note, result, records>>
    <3>1. RunnerTypeOK'
      BY <1>0, <2>1, <2>3 DEF RunnerTypeOK
    <3> QED
      BY <1>12, <3>1 DEF ReadNote
  <2> QED
    BY <1>12, <2>2, <2>3 DEF ReadNote
<1>13. ASSUME NEW r \in Runners,
              AgentRuns(r) \/ RereadNote(r) \/ MakePlan(r) \/ CloseRecords(r)
       PROVE QueueTypeOK'
  <2>1. pc[r] # "idle"
    BY <1>13 DEF AgentRuns, RereadNote, MakePlan, CloseRecords
  <2>2. RunnerTypeOK'
    BY <1>0, <1>13, <2>1, RunnerMoves DEF AgentRuns, RereadNote, MakePlan, CloseRecords
  <2> QED
    BY <1>13, <2>2 DEF AgentRuns, RereadNote, MakePlan, CloseRecords
<1>14. ASSUME NEW r \in Runners, AcquireLock(r) \/ Preflight(r) \/ ReleaseLock(r)
       PROVE QueueTypeOK'
  <2>1. pc[r] # "idle" /\ RunnerTypeOK'
    BY <1>0, <1>14, RunnerMoves DEF AcquireLock, Preflight, ReleaseLock
  <2> QED
    BY <1>14, <2>1 DEF AcquireLock, Preflight, ReleaseLock
<1>15. ASSUME NEW r \in Runners, Write(r) PROVE QueueTypeOK'
  <2>1. pc[r] = "write" /\ RunnerTypeOK'
    BY <1>0, <1>15, RunnerMoves DEF Write
  <2>2. seen[r] \cup {Enriched} \in Notes
    BY <2>1 DEF SeenIsBare, Notes, Marks, RunnerTypeOK
  <2> QED
    BY <1>15, <2>1, <2>2 DEF Write
<1>16. ASSUME NEW r \in Runners, LogApplied(r) PROVE QueueTypeOK'
  BY <1>0, <1>16 DEF LogApplied, RunnerTypeOK
<1>17. ASSUME NEW r \in Runners, Finish(r) PROVE QueueTypeOK'
  <2>1. note[r] \in Paths /\ result[r] \in Outcomes /\ RunnerTypeOK'
    BY <1>17, RunnerMoves DEF Finish, RunnerTypeOK
  <2>2. PICK new \in [state : RowStates, attempts : Nat] : row' = [row EXCEPT ![note[r]] = new]
    BY <1>17, <2>1, RowStatements DEF Finish
  <2> QED
    BY <1>17, <2>1, <2>2 DEF Finish
<1>18. ASSUME NEW r \in Runners, RunFails(r) PROVE QueueTypeOK'
  <2>1. pc[r] # "idle" /\ RunnerTypeOK'
    BY <1>0, <1>18, RunnerMoves DEF RunFails
  <2> QED
    BY <1>18, <2>1 DEF RunFails
<1>19. ASSUME NEW r \in Runners, FinishLost(r) \/ Crash(r) PROVE QueueTypeOK'
  <2>1. RunnerTypeOK'
    BY <1>19, RunnerMoves DEF FinishLost, Crash
  <2> QED
    BY <1>19, <2>1 DEF FinishLost, Crash
<1>20. CASE VocabReady \/ VocabFails \/ LocksLapse
  BY <1>20 DEF VocabReady, VocabFails, LocksLapse, RunnerTypeOK
<1>21. CASE UNCHANGED vars
  BY <1>21 DEF vars, RunnerTypeOK
<1>22. ASSUME NEW r \in Runners, CliEmpty(r) PROVE QueueTypeOK'
  <2>1. RunnerTypeOK'
    BY <1>22, RunnerMoves DEF CliEmpty
  <2> QED
    BY <1>22, <2>1 DEF CliEmpty
<1> QED
  BY <1>1, <1>2, <1>3, <1>4, <1>5, <1>6, <1>7, <1>8, <1>9, <1>10, <1>11, <1>12, <1>13, <1>14,
     <1>15, <1>16, <1>17, <1>18, <1>19, <1>20, <1>21, <1>22
     DEF Next, CliStep, RunStep, ClaimStep

-----------------------------------------------------------------------------
\* The only steps that change rows, and what becomes of the row.
RowStep ==
    \/ row' = row /\ line' = line
    \/ \E n \in Paths : Enqueue(n) /\ UNCHANGED runVars
    \/ \E n \in Paths, r \in Runners :
          /\ pc[r] \in {"cli_reset", "cli_insert"}
          /\ row' = [row EXCEPT ![n] = [state |-> "pending", attempts |-> 0]]
          /\ line' \in Requeued(n)
    \/ \E n \in Paths, r \in Runners : Claim(r, n)
    \/ \E r \in Runners : Finish(r)

\* Every step is such a step.
LEMMA RowSteps == EnrichInv /\ [Next]_vars => RowStep
<1> SUFFICES ASSUME EnrichInv, [Next]_vars PROVE RowStep
  OBVIOUS
<1> USE DEF RowStep, queueVars
<1>1. ASSUME NEW n \in Paths, HookEnqueue(n) PROVE RowStep
  BY <1>1 DEF HookEnqueue
<1>2. ASSUME NEW n \in Paths,
             \/ Capture(n) \/ HookLost(n) \/ UserEdit(n) \/ QuietWindow(n) \/ ScanRow(n)
      PROVE RowStep
  BY <1>2 DEF Capture, HookLost, UserEdit, QuietWindow, ScanRow
<1>3. CASE ScanContent \/ VocabReady \/ VocabFails \/ LocksLapse \/ UNCHANGED vars
  BY <1>3 DEF ScanContent, VocabReady, VocabFails, LocksLapse, vars
<1>4. CASE ScanEnqueue
  <2>1. scan.note \in Paths
    BY <1>4 DEF ScanEnqueue, EnrichInv, QueueTypeOK
  <2> QED
    BY <1>4, <2>1 DEF ScanEnqueue
<1>5. ASSUME NEW r \in Runners, CliReset(r) \/ CliInsert(r) PROVE RowStep
  <2>1. note[r] \in Paths
    BY <1>5 DEF CliReset, CliInsert, EnrichInv, QueueTypeOK, RunnerTypeOK
  <2> QED
    BY <1>5, <2>1 DEF CliReset, CliInsert, SetRow
<1>6. ASSUME NEW r \in Runners, ClaimStep(r) \/ Finish(r) PROVE RowStep
  BY <1>6 DEF ClaimStep
<1>7. ASSUME NEW r \in Runners,
             \/ \E n \in Paths : BeginCli(r, n)
             \/ CliEmpty(r) \/ RunFails(r) \/ FinishLost(r) \/ Crash(r)
             \/ RunStep(r) /\ ~Finish(r)
      PROVE RowStep
  BY <1>7 DEF BeginCli, CliEmpty, RunFails, FinishLost, Crash, RunStep, StartRun, ReadNote,
     AgentRuns, RereadNote, MakePlan, AcquireLock, Preflight, Write, LogApplied, ReleaseLock,
     CloseRecords
<1> QED
  BY <1>1, <1>2, <1>3, <1>4, <1>5, <1>6, <1>7 DEF Next, CliStep

\* Rows that wait keep an attempt.
LEMMA WaitingStep == EnrichInv /\ [Next]_vars => (FreshRows /\ WaitingHasAttempts)'
<1> SUFFICES ASSUME EnrichInv, [Next]_vars, NEW n \in Paths
             PROVE  /\ row'[n].state = "none" => row'[n].attempts = 0
                    /\ row'[n].state \in {"pending", "skipped_concurrent_edit", "failed"} =>
                          row'[n].attempts < AttemptsMax
  BY DEF FreshRows, WaitingHasAttempts
<1> USE AttemptsAssumption DEF EnrichInv, FreshRows, WaitingHasAttempts
<1>0. row \in [Paths -> [state : RowStates, attempts : Nat]]
  BY DEF QueueTypeOK
<1>1. CASE row' = row
  BY <1>1
<1>2. ASSUME NEW m \in Paths, Enqueue(m)
      PROVE  /\ row'[n].state = "none" => row'[n].attempts = 0
             /\ row'[n].state \in {"pending", "skipped_concurrent_edit", "failed"} =>
                   row'[n].attempts < AttemptsMax
  BY <1>0, <1>2, RowStatements
<1>3. ASSUME NEW m \in Paths, row' = [row EXCEPT ![m] = [state |-> "pending", attempts |-> 0]]
      PROVE  /\ row'[n].state = "none" => row'[n].attempts = 0
             /\ row'[n].state \in {"pending", "skipped_concurrent_edit", "failed"} =>
                   row'[n].attempts < AttemptsMax
  BY <1>0, <1>3
<1>4. ASSUME NEW m \in Paths, NEW r \in Runners, Claim(r, m)
      PROVE  /\ row'[n].state = "none" => row'[n].attempts = 0
             /\ row'[n].state \in {"pending", "skipped_concurrent_edit", "failed"} =>
                   row'[n].attempts < AttemptsMax
  BY <1>0, <1>4 DEF Claim, SetRow
<1>5. ASSUME NEW r \in Runners, Finish(r)
      PROVE  /\ row'[n].state = "none" => row'[n].attempts = 0
             /\ row'[n].state \in {"pending", "skipped_concurrent_edit", "failed"} =>
                   row'[n].attempts < AttemptsMax
  <2>1. note[r] \in Paths /\ result[r] \in Outcomes
    BY <1>5 DEF Finish, QueueTypeOK, RunnerTypeOK
  <2> QED
    BY <1>0, <1>5, <2>1, RowStatements DEF Finish
<1> QED
  BY <1>1, <1>2, <1>3, <1>4, <1>5, RowSteps DEF RowStep

-----------------------------------------------------------------------------
\* What a step may do to a runner: while nothing fails an attempt goes on
\* with its note until Finish, and what it holds to render it has read.
RunnerStep(s) ==
    /\ faults' = 0 /\ faults \in Nat => faults = 0
    /\ pc[s] \in RunPcs =>
          \/ pc'[s] \in RunPcs /\ note'[s] = note[s]
          \/ Finish(s)
          \/ faults' # 0
    /\ pc'[s] \in RunPcs =>
          \/ pc[s] \in RunPcs /\ note'[s] = note[s]
          \/ \E n \in Paths : Claim(s, n)
    /\ pc'[s] \in {"agent", "reread", "plan", "lock", "preflight", "write"} =>
          \/ pc[s] \in {"agent", "reread", "plan", "lock", "preflight", "write"}
             /\ seen'[s] = seen[s]
          \/ seen'[s] # Absent /\ Enriched \notin seen'[s]
    /\ pc'[s] \in {"idle", "run", "finish"} \cup CliPcs =>
          \/ faults' # 0
          \/ pc[s] \in {"idle", "run", "finish"} \cup CliPcs /\ records'[s] = records[s]
          \/ records'[s] \in {[job |-> "none", plan |-> "none"], [job |-> "done", plan |-> "none"],
                              [job |-> "failed", plan |-> "none"],
                              [job |-> "failed", plan |-> "rejected"],
                              [job |-> "done", plan |-> "applied"],
                              [job |-> "failed", plan |-> "failed"]}

\* Every step does nothing else to any runner.
LEMMA RunnerSteps == EnrichInv /\ [Next]_vars => \A s \in Runners : RunnerStep(s)
<1> SUFFICES ASSUME EnrichInv, [Next]_vars, NEW s \in Runners PROVE RunnerStep(s)
  OBVIOUS
<1> USE DEF RunnerStep, EnrichInv, QueueTypeOK, RunnerTypeOK
<1> USE DEF RunPcs, CliPcs, ApplyPcs, runVars, ctrVars, NoRecords
<1>1. ASSUME NEW n \in Paths,
             \/ Capture(n) \/ HookEnqueue(n) \/ HookLost(n) \/ UserEdit(n)
             \/ QuietWindow(n) \/ ScanRow(n)
      PROVE RunnerStep(s)
  BY <1>1 DEF Capture, HookEnqueue, HookLost, UserEdit, QuietWindow, ScanRow
<1>2. CASE ScanContent \/ ScanEnqueue \/ VocabReady \/ VocabFails \/ LocksLapse \/ UNCHANGED vars
  BY <1>2 DEF ScanContent, ScanEnqueue, VocabReady, VocabFails, LocksLapse, Failing, vars
<1>3. ASSUME NEW r \in Runners, NEW n \in Paths, BeginCli(r, n) PROVE RunnerStep(s)
  BY <1>3 DEF BeginCli
<1>4. ASSUME NEW r \in Runners, CliReset(r) PROVE RunnerStep(s)
  BY <1>4 DEF CliReset, Goto
<1>5. ASSUME NEW r \in Runners, CliInsert(r) PROVE RunnerStep(s)
  BY <1>5 DEF CliInsert, Goto, Return
<1>6. ASSUME NEW r \in Runners, CliEmpty(r) PROVE RunnerStep(s)
  BY <1>6 DEF CliEmpty, Return
<1>7. ASSUME NEW r \in Runners, NEW n \in Paths, Claim(r, n) PROVE RunnerStep(s)
  BY <1>7 DEF Claim
<1>8. ASSUME NEW r \in Runners, StartRun(r) PROVE RunnerStep(s)
  BY <1>8 DEF StartRun
<1>9. ASSUME NEW r \in Runners, ReadNote(r) PROVE RunnerStep(s)
  BY <1>9 DEF ReadNote, Conclude, IsEnriched
<1>10. ASSUME NEW r \in Runners, AgentRuns(r) PROVE RunnerStep(s)
  BY <1>10 DEF AgentRuns, Goto, Conclude
<1>11. ASSUME NEW r \in Runners, RereadNote(r) PROVE RunnerStep(s)
  BY <1>11 DEF RereadNote, Goto, Conclude
<1>12. ASSUME NEW r \in Runners, MakePlan(r) PROVE RunnerStep(s)
  BY <1>12 DEF MakePlan, Conclude
<1>13. ASSUME NEW r \in Runners, AcquireLock(r) \/ Preflight(r) PROVE RunnerStep(s)
  BY <1>13 DEF AcquireLock, Preflight, Goto
<1>14. ASSUME NEW r \in Runners, Write(r) \/ LogApplied(r) \/ ReleaseLock(r)
       PROVE RunnerStep(s)
  BY <1>14 DEF Write, LogApplied, ReleaseLock, Goto
<1>15. ASSUME NEW r \in Runners, CloseRecords(r) PROVE RunnerStep(s)
  BY <1>15 DEF CloseRecords, Conclude
<1>16. ASSUME NEW r \in Runners, Finish(r) PROVE RunnerStep(s)
  BY <1>16 DEF Finish, Return
<1>17. ASSUME NEW r \in Runners, RunFails(r) PROVE RunnerStep(s)
  BY <1>17 DEF RunFails, Failing, Goto, Conclude
<1>18. ASSUME NEW r \in Runners, FinishLost(r) \/ Crash(r) PROVE RunnerStep(s)
  BY <1>18 DEF FinishLost, Crash, Failing, Return
<1> QED
  BY <1>1, <1>2, <1>3, <1>4, <1>5, <1>6, <1>7, <1>8, <1>9, <1>10, <1>11, <1>12, <1>13, <1>14,
     <1>15, <1>16, <1>17, <1>18 DEF Next, CliStep, RunStep, ClaimStep

\* Whoever claimed a running row is at work on it.
LEMMA RunningStep == EnrichInv /\ [Next]_vars => RunningHasRunner'
<1> SUFFICES ASSUME EnrichInv, [Next]_vars, NEW n \in Paths, row'[n].state = "running",
                    ~(faults' > 0)
             PROVE  \E s \in Runners : pc'[s] \in RunPcs /\ note'[s] = n
  BY DEF RunningHasRunner, Orphaned
<1>0. /\ row \in [Paths -> [state : RowStates, attempts : Nat]]
      /\ QueueTypeOK /\ QueueTypeOK'
  BY TypingStep DEF EnrichInv, QueueTypeOK
<1>1. faults' = 0 /\ faults = 0
  <2>1. faults' = 0
    BY <1>0 DEF QueueTypeOK
  <2>2. Worker \in Runners
    BY DEF Runners
  <2> QED
    BY <1>0, <2>1, <2>2, RunnerSteps DEF RunnerStep, QueueTypeOK
<1>2. CASE row[n].state = "running" /\ \A r \in Runners : ~(Finish(r) /\ note[r] = n)
  <2>1. PICK s \in Runners : pc[s] \in RunPcs /\ note[s] = n
    BY <1>1, <1>2 DEF EnrichInv, RunningHasRunner, Orphaned
  <2>2. pc'[s] \in RunPcs /\ note'[s] = note[s]
    BY <1>1, <1>2, <2>1, RunnerSteps DEF RunnerStep
  <2> QED
    BY <2>1, <2>2
<1>3. ASSUME NEW r \in Runners, Finish(r), note[r] = n
      PROVE  FALSE
  <2>1. result[r] \in Outcomes
    BY <1>0 DEF QueueTypeOK, RunnerTypeOK
  <2>2. PICK new : row' = [row EXCEPT ![n] = new] /\ new.state # "running"
    BY <1>3, <2>1, RowStatements DEF Finish, EnrichInv
  <2> QED
    BY <1>0, <2>2
<1>4. ASSUME NEW m \in Paths, NEW r \in Runners, Claim(r, m), m = n
      PROVE  pc'[r] \in RunPcs /\ note'[r] = n
  BY <1>0, <1>4 DEF Claim, QueueTypeOK, RunnerTypeOK, RunPcs
<1>5. row[n].state = "running" \/ \E r \in Runners : Claim(r, n)
  <2>1. ASSUME NEW m \in Paths, Enqueue(m) PROVE row[n].state = "running"
    BY <1>0, <2>1, RowStatements DEF EnrichInv
  <2>2. ASSUME NEW m \in Paths, row' = [row EXCEPT ![m] = [state |-> "pending", attempts |-> 0]]
        PROVE  row[n].state = "running"
    BY <1>0, <2>2
  <2>3. ASSUME NEW m \in Paths, NEW r \in Runners, Claim(r, m)
        PROVE  row[n].state = "running" \/ m = n
    BY <1>0, <2>3 DEF Claim, SetRow
  <2>4. ASSUME NEW r \in Runners, Finish(r)
        PROVE  row[n].state = "running"
    <3>1. result[r] \in Outcomes /\ note[r] \in Paths
      BY <1>0, <2>4 DEF Finish, QueueTypeOK, RunnerTypeOK
    <3>2. PICK new : row' = [row EXCEPT ![note[r]] = new]
      BY <2>4, <3>1, RowStatements DEF Finish, EnrichInv
    <3> QED
      BY <1>0, <1>3, <2>4, <3>1, <3>2
  <2> QED
    BY <2>1, <2>2, <2>3, <2>4, RowSteps DEF RowStep
<1> QED
  BY <1>2, <1>3, <1>4, <1>5

\* What an attempt will render stays without the enrichment.
LEMMA SeenStep == EnrichInv /\ [Next]_vars => SeenIsBare'
<1> SUFFICES ASSUME EnrichInv, [Next]_vars, NEW s \in Runners,
                    pc'[s] \in {"agent", "reread", "plan", "lock", "preflight", "write"}
             PROVE  seen'[s] # Absent /\ Enriched \notin seen'[s]
  BY DEF SeenIsBare
<1> QED
  BY RunnerSteps DEF RunnerStep, EnrichInv, SeenIsBare

\* Attempts leave closed records behind.
LEMMA ClosedStep == EnrichInv /\ [Next]_vars => ClosedAtRest'
<1> SUFFICES ASSUME EnrichInv, [Next]_vars, NEW s \in Runners, faults' = 0,
                    pc'[s] \in {"idle", "run", "finish"} \cup CliPcs
             PROVE  /\ records'[s].job # "applying"
                    /\ records'[s].plan # "proposed"
                    /\ records'[s].plan \in {"rejected", "failed"} => records'[s].job = "failed"
                    /\ records'[s].plan = "applied" => records'[s].job = "done"
  BY DEF ClosedAtRest
<1>1. faults = 0
  BY RunnerSteps DEF RunnerStep, EnrichInv, QueueTypeOK
<1>2. CASE pc[s] \in {"idle", "run", "finish"} \cup CliPcs /\ records'[s] = records[s]
  BY <1>1, <1>2 DEF EnrichInv, ClosedAtRest
<1>3. CASE records'[s] \in {[job |-> "none", plan |-> "none"], [job |-> "done", plan |-> "none"],
                             [job |-> "failed", plan |-> "none"],
                             [job |-> "failed", plan |-> "rejected"],
                             [job |-> "done", plan |-> "applied"],
                             [job |-> "failed", plan |-> "failed"]}
  BY <1>3
<1> QED
  BY <1>2, <1>3, RunnerSteps DEF RunnerStep

-----------------------------------------------------------------------------
(***************************************************************************)
(* The strengthened invariant of the queue holds in every reachable state. *)
(***************************************************************************)
THEOREM EnrichInvariant == Spec => []EnrichInv
<1>1. EnrichInv /\ [Next]_vars => EnrichInv'
  BY TypingStep, WaitingStep, RunningStep, SeenStep, ClosedStep DEF EnrichInv
<1> QED
  BY <1>1, InitEnrichInv, PTL DEF Spec

(***************************************************************************)
(* A row that waits for an attempt has one left (store.go:988, 891, 924).  *)
(***************************************************************************)
THEOREM RetriesAreLeft == Spec => []WaitingHasAttempts
<1>1. EnrichInv => WaitingHasAttempts
  BY DEF EnrichInv
<1> QED
  BY <1>1, EnrichInvariant, PTL

(***************************************************************************)
(* A running row has a runner unless something failed: RunOne never leaves *)
(* without Finish, and Reset, Claim and stale finishes do not strand rows. *)
(***************************************************************************)
THEOREM RunnersOwnRows == Spec => []RunningHasRunner
<1>1. EnrichInv => RunningHasRunner
  BY DEF EnrichInv
<1> QED
  BY <1>1, EnrichInvariant, PTL

(***************************************************************************)
(* An attempt that is over has closed its job and its plan, alike.         *)
(***************************************************************************)
THEOREM AttemptsClose == Spec => []RecordsClosed
<1>1. EnrichInv => RecordsClosed
  BY DEF EnrichInv, ClosedAtRest, RecordsClosed
<1> QED
  BY <1>1, EnrichInvariant, PTL

(***************************************************************************)
(* The rewrite of an enrichment keeps all that stands in the note, and the *)
(* note was not enriched before, with any number of commands beside the    *)
(* worker.                                                                 *)
(***************************************************************************)
THEOREM RewritesKeepNotes == Spec => NoEditLost /\ EnrichedOnce
<1> DEFINE Kept == \A r \in Runners : pc[r] = "write" /\ pc'[r] = "log" =>
                      /\ vault[note[r]] # Absent
                      /\ vault[note[r]] \subseteq vault'[note[r]]
                      /\ ~IsEnriched(note[r])
<1>1. ASSUME EnrichInv, [Next]_vars, NEW r \in Runners, pc[r] = "write", pc'[r] = "log"
      PROVE  Write(r)
  <2> USE <1>1 DEF EnrichInv, QueueTypeOK, RunnerTypeOK
  <2>1. ASSUME NEW s \in Runners, CliStep(s) \/ ClaimStep(s) \/ FinishLost(s) \/ Crash(s)
        PROVE  FALSE
    BY <2>1 DEF CliStep, ClaimStep, CliReset, CliInsert, CliEmpty, Claim, FinishLost, Crash,
       Return, Goto
  <2>2. ASSUME NEW s \in Runners, RunFails(s)
        PROVE  FALSE
    BY <2>2 DEF RunFails, Goto, Conclude
  <2>3. ASSUME NEW s \in Runners, RunStep(s) /\ ~(s = r /\ Write(r))
        PROVE  FALSE
    BY <2>3 DEF RunStep, StartRun, ReadNote, AgentRuns, RereadNote, MakePlan, AcquireLock,
       Preflight, Write, LogApplied, ReleaseLock, CloseRecords, Finish, Goto, Conclude, Return
  <2>4. ASSUME NEW s \in Runners, NEW n \in Paths, BeginCli(s, n)
        PROVE  FALSE
    BY <2>4 DEF BeginCli
  <2>5. ASSUME pc' = pc
        PROVE  FALSE
    BY <2>5
  <2>6. ASSUME NEW n \in Paths,
               \/ Capture(n) \/ HookEnqueue(n) \/ HookLost(n) \/ UserEdit(n)
               \/ QuietWindow(n) \/ ScanRow(n)
        PROVE  pc' = pc
    BY <2>6 DEF Capture, HookEnqueue, HookLost, UserEdit, QuietWindow, ScanRow, runVars
  <2>7. ASSUME \/ ScanContent \/ ScanEnqueue \/ VocabReady \/ VocabFails \/ LocksLapse
               \/ UNCHANGED vars
        PROVE  pc' = pc
    BY <2>7 DEF ScanContent, ScanEnqueue, VocabReady, VocabFails, LocksLapse, runVars, vars
  <2> QED
    BY <2>1, <2>2, <2>3, <2>4, <2>5, <2>6, <2>7 DEF Next
<1>2. EnrichInv /\ [Next]_vars => Kept
  <2> SUFFICES ASSUME EnrichInv, [Next]_vars, NEW r \in Runners, pc[r] = "write", pc'[r] = "log"
               PROVE  /\ vault[note[r]] # Absent
                      /\ vault[note[r]] \subseteq vault'[note[r]]
                      /\ ~IsEnriched(note[r])
    OBVIOUS
  <2>1. Write(r)
    BY <1>1
  <2>2. /\ note[r] \in Paths /\ vault \in [Paths -> Notes]
        /\ pc \in [Runners -> Pcs] /\ seen[r] # Absent /\ Enriched \notin seen[r]
    BY DEF EnrichInv, QueueTypeOK, RunnerTypeOK, SeenIsBare
  <2>3. /\ OpReady(vault, Rewrite(r), seen[r])
        /\ vault' = [vault EXCEPT ![note[r]] = seen[r] \cup {Enriched}]
    BY <2>1, <2>2 DEF Write, Goto
  <2>4. vault[note[r]] = seen[r]
    BY <2>3 DEF OpReady, Rewrite
  <2> QED
    BY <2>2, <2>3, <2>4 DEF IsEnriched
<1>3. Spec => [][Kept]_vars
  BY <1>2, EnrichInvariant, PTL DEF Spec
<1>4. Kept => /\ \A r \in Runners : pc[r] = "write" /\ pc'[r] = "log" =>
                    vault[note[r]] # Absent /\ vault[note[r]] \subseteq vault'[note[r]]
              /\ \A r \in Runners : pc[r] = "write" /\ pc'[r] = "log" => ~IsEnriched(note[r])
  OBVIOUS
<1> QED
  BY <1>3, <1>4, PTL DEF NoEditLost, EnrichedOnce
-----------------------------------------------------------------------------
\* A piece of a sequence.
LEMMA Part ==
    ASSUME NEW S, NEW s \in Seq(S), NEW a \in 1..(Len(s) + 1), NEW b \in (a - 1)..Len(s)
    PROVE  /\ SubSeq(s, a, b) \in Seq(S) /\ Len(SubSeq(s, a, b)) = b + 1 - a
           /\ \A j \in 1..(b + 1 - a) : SubSeq(s, a, b)[j] = s[a + j - 1]
<1>1. /\ SubSeq(s, a, b) = [j \in 1..(b + 1 - a) |-> s[a + j - 1]]
      /\ b + 1 - a \in Nat
  OBVIOUS
<1>2. \A j \in 1..(b + 1 - a) : a + j - 1 \in 1..Len(s) /\ s[a + j - 1] \in S
  OBVIOUS
<1>3. SubSeq(s, a, b) \in Seq(S)
  BY <1>1, <1>2
<1>4. Len(SubSeq(s, a, b)) = b + 1 - a
  BY <1>1
<1> QED
  BY <1>1, <1>3, <1>4

\* Two sequences, one after the other.
LEMMA Joined ==
    ASSUME NEW S, NEW s \in Seq(S), NEW t \in Seq(S)
    PROVE  /\ s \o t \in Seq(S) /\ Len(s \o t) = Len(s) + Len(t)
           /\ \A j \in 1..(Len(s) + Len(t)) :
                 (s \o t)[j] = IF j <= Len(s) THEN s[j] ELSE t[j - Len(s)]
  OBVIOUS

\* RemoveAt closes the gap it makes.
LEMMA Removed ==
    ASSUME NEW S, NEW s \in Seq(S), NEW i \in 1..Len(s)
    PROVE  /\ RemoveAt(s, i) \in Seq(S) /\ Len(RemoveAt(s, i)) = Len(s) - 1
           /\ \A j \in 1..(Len(s) - 1) : RemoveAt(s, i)[j] = IF j < i THEN s[j] ELSE s[j + 1]
<1> DEFINE a == SubSeq(s, 1, i - 1)
           b == SubSeq(s, i + 1, Len(s))
<1>1. a \in Seq(S) /\ Len(a) = i - 1 /\ \A j \in 1..(i - 1) : a[j] = s[j]
  BY Part, i - 1 \in 0..Len(s)
<1>2. b \in Seq(S) /\ Len(b) = Len(s) - i /\ \A j \in 1..(Len(s) - i) : b[j] = s[i + j]
  BY Part, i + 1 \in 1..(Len(s) + 1)
<1>3. RemoveAt(s, i) = a \o b
  BY DEF RemoveAt
<1> HIDE DEF a, b
<1>4. /\ a \o b \in Seq(S) /\ Len(a \o b) = Len(s) - 1
      /\ \A j \in 1..(Len(s) - 1) : (a \o b)[j] = IF j <= i - 1 THEN a[j] ELSE b[j - (i - 1)]
  <2>1. /\ a \o b \in Seq(S) /\ Len(a \o b) = Len(a) + Len(b)
        /\ \A j \in 1..(Len(a) + Len(b)) :
              (a \o b)[j] = IF j <= Len(a) THEN a[j] ELSE b[j - Len(a)]
    BY <1>1, <1>2, Joined
  <2>2. Len(a) = i - 1 /\ Len(a) + Len(b) = Len(s) - 1
    BY <1>1, <1>2
  <2> QED
    BY <2>1, <2>2
<1>5. ASSUME NEW j \in 1..(Len(s) - 1)
      PROVE  (a \o b)[j] = IF j < i THEN s[j] ELSE s[j + 1]
  <2>1. CASE j < i
    BY <1>1, <1>4, <2>1
  <2>2. CASE ~(j < i)
    <3>1. ~(j <= i - 1) /\ j - (i - 1) \in 1..(Len(s) - i)
      BY <2>2, Len(s) \in Nat
    <3>4. (a \o b)[j] = b[j - (i - 1)]
      BY <1>4, <3>1
    <3>2. b[j - (i - 1)] = s[i + (j - (i - 1))]
      BY <1>2, <3>1
    <3>3. i + (j - (i - 1)) = j + 1
      OBVIOUS
    <3> QED
      BY <2>2, <3>2, <3>3, <3>4
  <2> QED
    BY <2>1, <2>2
<1> QED
  BY <1>3, <1>4, <1>5

\* InsertAt moves up what comes after.
LEMMA Inserted ==
    ASSUME NEW S, NEW s \in Seq(S), NEW i \in 1..(Len(s) + 1), NEW e \in S
    PROVE  /\ InsertAt(s, i, e) \in Seq(S) /\ Len(InsertAt(s, i, e)) = Len(s) + 1
           /\ \A j \in 1..(Len(s) + 1) :
                 InsertAt(s, i, e)[j] = IF j < i THEN s[j] ELSE IF j = i THEN e ELSE s[j - 1]
<1> DEFINE a == SubSeq(s, 1, i - 1)
           b == SubSeq(s, i, Len(s))
           c == a \o <<e>>
<1>1. a \in Seq(S) /\ Len(a) = i - 1 /\ \A j \in 1..(i - 1) : a[j] = s[j]
  BY Part, i - 1 \in 0..Len(s)
<1>2. b \in Seq(S) /\ Len(b) = Len(s) + 1 - i /\ \A j \in 1..(Len(s) + 1 - i) : b[j] = s[i + j - 1]
  BY Part
<1>4. <<e>> \in Seq(S) /\ Len(<<e>>) = 1 /\ <<e>>[1] = e
  OBVIOUS
<1>3. InsertAt(s, i, e) = c \o b
  BY DEF InsertAt
<1> HIDE DEF a, b
<1>5. c \in Seq(S) /\ Len(c) = i /\ \A j \in 1..i : c[j] = IF j < i THEN s[j] ELSE e
  <2>1. /\ c \in Seq(S) /\ Len(c) = i
        /\ \A j \in 1..i : c[j] = IF j <= i - 1 THEN a[j] ELSE <<e>>[j - (i - 1)]
    BY <1>1, <1>4, Joined
  <2> QED
    BY <2>1, <1>1, <1>4
<1> HIDE DEF c
<1> QED
  BY <1>2, <1>3, <1>5, Joined
\* Nobody stands in line twice.
Standing(s) == \A i, j \in DOMAIN s : s[i] = s[j] => i = j

\* RemoveAt takes out one path and leaves the others in line once.
LEMMA RemovedStanding ==
    ASSUME NEW S, NEW s \in Seq(S), Standing(s), NEW i \in 1..Len(s)
    PROVE  /\ Standing(RemoveAt(s, i))
           /\ \A m \in S : (\E j \in DOMAIN RemoveAt(s, i) : RemoveAt(s, i)[j] = m)
                  <=> m # s[i] /\ \E j \in DOMAIN s : s[j] = m
<1> DEFINE t == RemoveAt(s, i)
<1>1. /\ t \in Seq(S) /\ Len(t) = Len(s) - 1
      /\ \A j \in 1..(Len(s) - 1) : t[j] = IF j < i THEN s[j] ELSE s[j + 1]
  BY Removed
<1> HIDE DEF t
<1>2. DOMAIN t = 1..(Len(s) - 1) /\ DOMAIN s = 1..Len(s)
  BY <1>1
<1>3. Standing(t)
  BY <1>1, <1>2 DEF Standing
<1>4. ASSUME NEW j \in DOMAIN t PROVE t[j] # s[i] /\ \E k \in DOMAIN s : s[k] = t[j]
  <2>1. CASE j < i
    BY <1>1, <1>2, <2>1 DEF Standing
  <2>2. CASE ~(j < i)
    <3>1. t[j] = s[j + 1] /\ j + 1 \in DOMAIN s /\ j + 1 # i
      BY <1>1, <1>2, <2>2
    <3> QED
      BY <1>2, <3>1 DEF Standing
  <2> QED
    BY <2>1, <2>2
<1>5. ASSUME NEW j \in DOMAIN s, s[j] # s[i] PROVE \E k \in DOMAIN t : t[k] = s[j]
  <2>1. CASE j < i
    BY <1>1, <1>2, <2>1
  <2>2. CASE ~(j < i)
    <3>1. j - 1 \in DOMAIN t /\ ~(j - 1 < i) /\ (j - 1) + 1 = j
      BY <1>1, <1>2, <1>5, <2>2
    <3> QED
      BY <1>1, <1>2, <3>1
  <2> QED
    BY <2>1, <2>2
<1> QED
  BY <1>3, <1>4, <1>5 DEF t

\* InsertAt puts a path that is not in line there once.
LEMMA InsertedStanding ==
    ASSUME NEW S, NEW s \in Seq(S), Standing(s), NEW i \in 1..(Len(s) + 1),
           NEW e \in S, \A j \in DOMAIN s : s[j] # e
    PROVE  /\ Standing(InsertAt(s, i, e))
           /\ \A m \in S : (\E j \in DOMAIN InsertAt(s, i, e) : InsertAt(s, i, e)[j] = m)
                  <=> m = e \/ \E j \in DOMAIN s : s[j] = m
<1> DEFINE t == InsertAt(s, i, e)
<1>1. /\ t \in Seq(S) /\ Len(t) = Len(s) + 1
      /\ \A j \in 1..(Len(s) + 1) : t[j] = IF j < i THEN s[j] ELSE IF j = i THEN e ELSE s[j - 1]
  <2>1. /\ InsertAt(s, i, e) \in Seq(S) /\ Len(InsertAt(s, i, e)) = Len(s) + 1
        /\ \A j \in 1..(Len(s) + 1) :
              InsertAt(s, i, e)[j] = IF j < i THEN s[j] ELSE IF j = i THEN e ELSE s[j - 1]
    BY Inserted
  <2> QED
    BY <2>1
<1> HIDE DEF t
<1>2. DOMAIN t = 1..(Len(s) + 1) /\ DOMAIN s = 1..Len(s)
  BY <1>1
<1>3. Standing(t)
  <2> DEFINE k(j) == IF j < i THEN j ELSE j - 1
  <2>1. ASSUME NEW j \in DOMAIN t, j # i
        PROVE  k(j) \in DOMAIN s /\ t[j] = s[k(j)]
    BY <1>1, <1>2, <2>1
  <2>2. t[i] = e
    BY <1>1
  <2>3. ASSUME NEW j \in DOMAIN t, NEW l \in DOMAIN t, t[j] = t[l], j # i, l # i
        PROVE  j = l
    <3>1. k(j) = k(l)
      BY <2>1, <2>3 DEF Standing
    <3> QED
      BY <1>2, <2>3, <3>1
  <2> HIDE DEF k
  <2> QED
    BY <2>1, <2>2, <2>3 DEF Standing
<1>4. ASSUME NEW j \in DOMAIN t PROVE t[j] = e \/ \E k \in DOMAIN s : s[k] = t[j]
  <2>1. CASE j < i
    BY <1>1, <1>2, <2>1
  <2>2. CASE j > i
    <3>1. t[j] = s[j - 1] /\ j - 1 \in DOMAIN s
      BY <1>1, <1>2, <2>2
    <3> QED
      BY <3>1
  <2> QED
    BY <1>1, <1>2, <2>1, <2>2
<1>5. ASSUME NEW j \in DOMAIN s PROVE \E k \in DOMAIN t : t[k] = s[j]
  <2>1. CASE j < i
    BY <1>1, <1>2, <2>1
  <2>2. CASE ~(j < i)
    <3>1. j + 1 \in DOMAIN t /\ j + 1 > i /\ (j + 1) - 1 = j
      BY <1>1, <1>2, <2>2
    <3> QED
      BY <1>1, <1>2, <3>1
  <2> QED
    BY <2>1, <2>2
<1>6. t[i] = e /\ i \in DOMAIN t
  BY <1>1, <1>2
<1> QED
  BY <1>3, <1>4, <1>5, <1>6 DEF t
-----------------------------------------------------------------------------
\* m stands in line s.
StandsIn(m, s) == \E j \in DOMAIN s : s[j] = m

\* The line holds the paths that have a row, each of them once.
LineInv ==
    /\ line \in Seq(Paths)
    /\ Standing(line)
    /\ \A n \in Paths : row[n].state # "none" <=> StandsIn(n, line)

\* What a runner has claimed is a row.
ClaimedRows == \A r \in Runners : pc[r] \in RunPcs => row[note[r]].state # "none"

\* A row that gets a new enqueued_at stands in line once, the others stay.
LEMMA RequeuedLine ==
    ASSUME line \in Seq(Paths), Standing(line), NEW n \in Paths, NEW new \in Requeued(n)
    PROVE  /\ new \in Seq(Paths)
           /\ Standing(new)
           /\ \A m \in Paths : StandsIn(m, new) <=> m = n \/ StandsIn(m, line)
<1> DEFINE places == {i \in DOMAIN line : line[i] = n}
           rest == IF places = {} THEN line ELSE RemoveAt(line, CHOOSE i \in places : TRUE)
<1>1. /\ rest \in Seq(Paths)
      /\ Standing(rest)
      /\ \A m \in Paths : StandsIn(m, rest) <=> m # n /\ StandsIn(m, line)
  <2>1. CASE places = {}
    BY <2>1 DEF StandsIn
  <2>2. CASE places # {}
    <3> DEFINE i == CHOOSE j \in places : TRUE
    <3>1. i \in places /\ rest = RemoveAt(line, i)
      BY <2>2
    <3> HIDE DEF i
    <3>3. i \in 1..Len(line) /\ line[i] = n
      BY <3>1
    <3> HIDE DEF rest
    <3>2. RemoveAt(line, i) \in Seq(Paths)
      BY <3>3, Removed
    <3> QED
      BY <3>1, <3>2, <3>3, RemovedStanding DEF StandsIn
  <2> QED
    BY <2>1, <2>2
<1>2. PICK k \in {Len(rest), Len(rest) + 1} \ {0} : new = InsertAt(rest, k, n)
  BY DEF Requeued
<1> HIDE DEF rest, places
<1>3. k \in 1..(Len(rest) + 1)
  BY <1>1, <1>2
<1>4. InsertAt(rest, k, n) \in Seq(Paths)
  BY <1>1, <1>3, Inserted
<1>5. \A j \in DOMAIN rest : rest[j] # n
  BY <1>1 DEF StandsIn
<1>6. /\ Standing(InsertAt(rest, k, n))
      /\ \A m \in Paths : StandsIn(m, InsertAt(rest, k, n)) <=> m = n \/ StandsIn(m, rest)
  BY <1>1, <1>3, <1>5, InsertedStanding DEF StandsIn
<1> QED
  BY <1>1, <1>2, <1>4, <1>6

\* The line is empty at first.
LEMMA InitLine == Init => LineInv /\ ClaimedRows
<1>1. Init => << >> \in Seq(Paths)
  OBVIOUS
<1> QED
  BY <1>1 DEF Init, LineInv, Standing, StandsIn, ClaimedRows, RunPcs, ApplyPcs

\* The line and the rows change together.
LEMMA LineStep == EnrichInv /\ LineInv /\ ClaimedRows /\ [Next]_vars => LineInv'
<1> SUFFICES ASSUME EnrichInv, LineInv, ClaimedRows, [Next]_vars PROVE LineInv'
  OBVIOUS
<1>0. row \in [Paths -> [state : RowStates, attempts : Nat]]
  BY DEF EnrichInv, QueueTypeOK
<1>1. CASE row' = row /\ line' = line
  BY <1>1 DEF LineInv, StandsIn, Standing
<1>2. ASSUME NEW n \in Paths, NEW a, line' \in Requeued(n),
             row' = [row EXCEPT ![n] = [state |-> "pending", attempts |-> a]]
      PROVE  LineInv'
  <2>1. /\ line' \in Seq(Paths)
        /\ Standing(line')
        /\ \A m \in Paths : StandsIn(m, line') <=> m = n \/ StandsIn(m, line)
    BY <1>2, RequeuedLine DEF LineInv
  <2>2. \A m \in Paths : row'[m].state # "none" <=> m = n \/ row[m].state # "none"
    BY <1>0, <1>2
  <2> QED
    BY <2>1, <2>2 DEF LineInv, Standing, StandsIn
<1>3. ASSUME NEW n \in Paths, row[n].state # "none", line' = line, NEW new,
             new.state # "none", row' = [row EXCEPT ![n] = new]
      PROVE  LineInv'
  <2>1. \A m \in Paths : row'[m].state # "none" <=> row[m].state # "none"
    BY <1>0, <1>3
  <2> QED
    BY <1>3, <2>1 DEF LineInv, Standing, StandsIn
<1>4. ASSUME NEW n \in Paths, Enqueue(n) PROVE LineInv'
  BY <1>1, <1>2, <1>4, RowStatements DEF EnrichInv
<1>5. ASSUME NEW n \in Paths, NEW r \in Runners, Claim(r, n) PROVE LineInv'
  <2>1. row[n].state # "none" /\ line' = line
    BY <1>5 DEF Claim, OldestClaimable, Claimable
  <2> QED
    BY <1>3, <1>5, <2>1 DEF Claim, SetRow
<1>6. ASSUME NEW r \in Runners, Finish(r) PROVE LineInv'
  <2>1. note[r] \in Paths /\ result[r] \in Outcomes /\ line' = line /\ FinishRow(note[r], result[r])
    BY <1>6 DEF Finish, EnrichInv, QueueTypeOK, RunnerTypeOK
  <2>2. row[note[r]].state # "none"
    BY <1>6 DEF Finish, ClaimedRows, RunPcs
  <2>3. PICK new : row' = [row EXCEPT ![note[r]] = new] /\ new.state # "none"
    BY <2>1, RowStatements DEF EnrichInv
  <2> QED
    BY <1>3, <2>1, <2>2, <2>3
<1> QED
  BY <1>1, <1>2, <1>4, <1>5, <1>6, RowSteps DEF RowStep

\* A row that is there is there for good.
LEMMA RowsStay ==
    EnrichInv /\ [Next]_vars => \A n \in Paths : row[n].state # "none" => row'[n].state # "none"
<1> SUFFICES ASSUME EnrichInv, [Next]_vars, NEW n \in Paths, row[n].state # "none"
             PROVE  row'[n].state # "none"
  OBVIOUS
<1>0. row \in [Paths -> [state : RowStates, attempts : Nat]]
  BY DEF EnrichInv, QueueTypeOK
<1>1. ASSUME NEW m \in Paths, NEW new, new.state # "none", row' = [row EXCEPT ![m] = new]
      PROVE  row'[n].state # "none"
  BY <1>0, <1>1
<1>2. ASSUME NEW m \in Paths, Enqueue(m) PROVE row'[n].state # "none"
  BY <1>1, <1>2, RowStatements DEF EnrichInv
<1>3. ASSUME NEW m \in Paths, row' = [row EXCEPT ![m] = [state |-> "pending", attempts |-> 0]]
      PROVE  row'[n].state # "none"
  BY <1>1, <1>3
<1>4. ASSUME NEW m \in Paths, NEW r \in Runners, Claim(r, m) PROVE row'[n].state # "none"
  BY <1>1, <1>4 DEF Claim, SetRow
<1>5. ASSUME NEW r \in Runners, Finish(r) PROVE row'[n].state # "none"
  <2>1. note[r] \in Paths /\ result[r] \in Outcomes /\ FinishRow(note[r], result[r])
    BY <1>5 DEF Finish, EnrichInv, QueueTypeOK, RunnerTypeOK
  <2>2. PICK new : row' = [row EXCEPT ![note[r]] = new] /\ new.state # "none"
    BY <2>1, RowStatements DEF EnrichInv
  <2> QED
    BY <1>1, <2>1, <2>2
<1> QED
  BY <1>2, <1>3, <1>4, <1>5, RowSteps DEF RowStep

\* A row that is claimed is not new any more.
LEMMA ClaimedStep == EnrichInv /\ ClaimedRows /\ [Next]_vars => ClaimedRows'
<1> SUFFICES ASSUME EnrichInv, ClaimedRows, [Next]_vars, NEW r \in Runners, pc'[r] \in RunPcs
             PROVE  row'[note'[r]].state # "none"
  BY DEF ClaimedRows
<1>1. CASE pc[r] \in RunPcs /\ note'[r] = note[r]
  <2>1. note[r] \in Paths
    BY <1>1 DEF EnrichInv, QueueTypeOK, RunnerTypeOK, RunPcs, ApplyPcs
  <2> QED
    BY <1>1, <2>1, RowsStay DEF ClaimedRows
<1>2. ASSUME NEW n \in Paths, Claim(r, n) PROVE row'[note'[r]].state # "none"
  BY <1>2 DEF Claim, SetRow, EnrichInv, QueueTypeOK, RunnerTypeOK
<1> QED
  BY <1>1, <1>2, RunnerSteps DEF RunnerStep
-----------------------------------------------------------------------------
\* The runners whose attempt on n is not over.
Holders(n) == {r \in Runners : pc[r] \in RunPcs /\ note[r] = n}

\* A stale attempt may be counted after a reset, but each is counted once: an
\* attempt under way is as good as one on the row.
TallyInv ==
    \A n \in Paths :
        row[n].attempts + Cardinality(Holders(n)) <= AttemptsMax + Cardinality(Clis)

\* The worker and the commands are finitely many.
LEMMA RunnersAreFew ==
    /\ IsFiniteSet(Runners)
    /\ Cardinality(Clis) \in Nat
    /\ Cardinality(Runners) = Cardinality(Clis) + 1
    /\ \A r \in Runners : \A S : S \subseteq Runners \ {r} =>
          IsFiniteSet(S) /\ Cardinality(S) \in Nat /\ Cardinality(S) <= Cardinality(Clis)
    /\ \A S : S \subseteq Runners =>
          IsFiniteSet(S) /\ Cardinality(S) \in Nat /\ Cardinality(S) <= Cardinality(Clis) + 1
<1>1. IsFiniteSet(Clis) /\ Cardinality(Clis) \in Nat /\ Worker \notin Clis
  BY RunnersAssumption, FS_CardinalityType
<1>2. Runners = Clis \cup {Worker}
  BY DEF Runners
<1>3. IsFiniteSet(Runners) /\ Cardinality(Runners) = Cardinality(Clis) + 1
  BY <1>1, <1>2, FS_AddElement
<1>4. ASSUME NEW r \in Runners, NEW S, S \subseteq Runners \ {r}
      PROVE  IsFiniteSet(S) /\ Cardinality(S) \in Nat /\ Cardinality(S) <= Cardinality(Clis)
  <2>1. IsFiniteSet(Runners \ {r}) /\ Cardinality(Runners \ {r}) = Cardinality(Clis)
    <3>1. /\ IsFiniteSet(Runners \ {r})
          /\ Cardinality(Runners \ {r}) = Cardinality(Runners) - 1
      BY <1>3, FS_RemoveElement
    <3> QED
      BY <1>1, <1>3, <3>1
  <2> QED
    BY <1>4, <2>1, FS_Subset, FS_CardinalityType
<1>5. ASSUME NEW S, S \subseteq Runners
      PROVE  IsFiniteSet(S) /\ Cardinality(S) \in Nat /\ Cardinality(S) <= Cardinality(Clis) + 1
  BY <1>3, <1>5, FS_Subset, FS_CardinalityType
<1> QED
  BY <1>1, <1>3, <1>4, <1>5

\* At first nobody holds anything.
LEMMA InitTally == Init => TallyInv
<1> SUFFICES ASSUME Init, NEW n \in Paths
             PROVE  row[n].attempts + Cardinality(Holders(n)) <= AttemptsMax + Cardinality(Clis)
  BY DEF TallyInv
<1>1. Holders(n) = {} /\ row[n].attempts = 0
  BY DEF Init, Holders, RunPcs, ApplyPcs
<1>2. Cardinality(Holders(n)) = 0
  BY <1>1, FS_EmptySet
<1> QED
  BY <1>1, <1>2, RunnersAreFew, AttemptsAssumption

\* Finish moves an attempt from the runner to the row, Claim finds one left,
\* and a reset leaves no more than the attempts of all the runners.
LEMMA TallyStep == EnrichInv /\ TallyInv /\ [Next]_vars => TallyInv'
<1> SUFFICES ASSUME EnrichInv, TallyInv, [Next]_vars, NEW n \in Paths
             PROVE  row'[n].attempts + Cardinality(Holders(n)') <= AttemptsMax + Cardinality(Clis)
  BY DEF TallyInv
<1> DEFINE H == Holders(n)
           G == Holders(n)'
           C == Cardinality(Clis)
<1>0. /\ row \in [Paths -> [state : RowStates, attempts : Nat]]
      /\ row' \in [Paths -> [state : RowStates, attempts : Nat]]
      /\ H \subseteq Runners /\ G \subseteq Runners
      /\ pc \in [Runners -> Pcs] /\ note \in [Runners -> Paths \cup {NoPlan}]
  BY TypingStep DEF EnrichInv, QueueTypeOK, RunnerTypeOK, Holders
<1>1. /\ IsFiniteSet(H) /\ Cardinality(H) \in Nat
      /\ IsFiniteSet(G) /\ Cardinality(G) \in Nat /\ Cardinality(G) <= C + 1
      /\ C \in Nat /\ AttemptsMax \in Nat \ {0}
      /\ row[n].attempts \in Nat /\ row'[n].attempts \in Nat
      /\ row[n].attempts + Cardinality(H) <= AttemptsMax + C
  BY <1>0, RunnersAreFew, AttemptsAssumption DEF TallyInv
<1>2. ASSUME G \subseteq H PROVE Cardinality(G) <= Cardinality(H)
  BY <1>1, <1>2, FS_Subset
<1>3. \A s \in Runners : s \in G => s \in H \/ \E m \in Paths : Claim(s, m)
  BY RunnerSteps DEF RunnerStep, Holders
<1> HIDE DEF G, H, C
<1>4. ASSUME NEW r \in Runners, NEW m \in Paths, Claim(r, m)
      PROVE  row'[n].attempts + Cardinality(G) <= AttemptsMax + C
  <2>1. \A s \in Runners : s \in G => s \in H \/ (s = r /\ m = n)
    BY <1>0, <1>4 DEF Claim, G, H, Holders
  <2>2. row'[n].attempts = row[n].attempts /\ (m = n => row[n].attempts < AttemptsMax)
    BY <1>0, <1>4 DEF Claim, SetRow, OldestClaimable, Claimable
  <2>3. CASE m # n
    BY <1>0, <1>1, <1>2, <2>1, <2>2, <2>3
  <2>4. CASE m = n
    <3>1. row[n].attempts < AttemptsMax /\ row'[n].attempts = row[n].attempts
      BY <2>2, <2>4
    <3> QED
      BY <1>1, <3>1
  <2> QED
    BY <2>3, <2>4
<1>5. ASSUME ~ \E r \in Runners, m \in Paths : Claim(r, m)
      PROVE  row'[n].attempts + Cardinality(G) <= AttemptsMax + C
  <2>1. G \subseteq H
    BY <1>0, <1>3, <1>5
  <2>2. Cardinality(G) <= Cardinality(H)
    BY <1>2, <2>1
  <2>3. ASSUME row'[n].attempts = row[n].attempts \/ row'[n].attempts = 0
        PROVE  row'[n].attempts + Cardinality(G) <= AttemptsMax + C
    BY <1>1, <2>2, <2>3
  <2>4. ASSUME NEW m \in Paths, Enqueue(m)
        PROVE  row'[n].attempts = row[n].attempts
    BY <1>0, <2>4, RowStatements DEF EnrichInv
  <2>5. ASSUME NEW m \in Paths, row' = [row EXCEPT ![m] = [state |-> "pending", attempts |-> 0]]
        PROVE  row'[n].attempts = row[n].attempts \/ row'[n].attempts = 0
    BY <1>0, <2>5
  <2>6. ASSUME NEW r \in Runners, Finish(r)
        PROVE  row'[n].attempts + Cardinality(G) <= AttemptsMax + C
    <3>1. note[r] \in Paths /\ result[r] \in Outcomes /\ FinishRow(note[r], result[r])
      BY <2>6 DEF Finish, EnrichInv, QueueTypeOK, RunnerTypeOK
    <3>2. PICK new \in [state : RowStates, attempts : Nat] :
             row' = [row EXCEPT ![note[r]] = new] /\ new.attempts <= row[note[r]].attempts + 1
      BY <3>1, RowStatements DEF EnrichInv
    <3>3. CASE note[r] # n
      <4>1. row'[n].attempts = row[n].attempts
        BY <1>0, <3>2, <3>3
      <4> QED
        BY <2>3, <4>1
    <3>4. CASE note[r] = n
      <4>1. row'[n].attempts <= row[n].attempts + 1
        BY <1>0, <3>2, <3>4
      <4>2. r \in H /\ r \notin G
        BY <1>0, <2>6, <3>4 DEF Finish, Return, G, H, Holders, RunPcs, ApplyPcs
      <4>3. Cardinality(H \ {r}) = Cardinality(H) - 1 /\ IsFiniteSet(H \ {r})
        BY <1>1, <4>2, FS_RemoveElement
      <4>4. G \in SUBSET (H \ {r})
        BY <2>1, <4>2
      <4>5. Cardinality(G) <= Cardinality(H) - 1
        BY <4>3, <4>4, FS_Subset
      <4> QED
        BY <1>1, <4>1, <4>5
    <3> QED
      BY <3>3, <3>4
  <2> QED
    BY <1>5, <2>3, <2>4, <2>5, <2>6, RowSteps DEF RowStep
<1> QED
  BY <1>4, <1>5 DEF G, C

-----------------------------------------------------------------------------
\* The variables that no other part speaks of.
RestInv ==
    /\ quiet \subseteq Paths
    /\ hook \in [Paths -> {"none", "due", "past"}]
    /\ owner \in [Paths -> Runners \cup {Gone, NoPlan}]
    /\ lapsed \subseteq Paths
    /\ vocab \in {"scanning", "ready", "failed"}
    /\ runs \in 0..MaxRuns
    /\ faults \in 0..MaxFaults
    /\ edits \in 0..MaxEdits

\* They have a value of their type at first.
LEMMA InitRest == Init => RestInv
BY BoundsAssumption DEF Init, RestInv

\* They keep it.
LEMMA RestStep == EnrichInv /\ RestInv /\ [Next]_vars => RestInv'
<1> SUFFICES ASSUME EnrichInv, RestInv, [Next]_vars PROVE RestInv'
  OBVIOUS
<1> USE BoundsAssumption DEF RestInv, queueVars, envVars, lockVars, ctrVars, runVars, Failing
<1>1. ASSUME NEW n \in Paths,
             \/ Capture(n) \/ HookEnqueue(n) \/ HookLost(n) \/ QuietWindow(n) \/ ScanRow(n)
      PROVE RestInv'
  BY <1>1 DEF Capture, HookEnqueue, HookLost, QuietWindow, ScanRow
<1>2. ASSUME NEW n \in Paths, UserEdit(n) PROVE RestInv'
  BY <1>2 DEF UserEdit
<1>3. CASE ScanContent \/ ScanEnqueue \/ VocabReady \/ VocabFails \/ UNCHANGED vars
  BY <1>3 DEF ScanContent, ScanEnqueue, VocabReady, VocabFails, vars
<1>4. CASE LocksLapse
  BY <1>4 DEF LocksLapse, RowsOf
<1>5. ASSUME NEW r \in Runners, NEW n \in Paths, BeginCli(r, n) \/ Claim(r, n) PROVE RestInv'
  BY <1>5 DEF BeginCli, Claim
<1>6. ASSUME NEW r \in Runners, CliReset(r) \/ CliInsert(r) \/ CliEmpty(r) PROVE RestInv'
  BY <1>6 DEF CliReset, CliInsert, CliEmpty
<1>7. ASSUME NEW r \in Runners,
             \/ StartRun(r) \/ ReadNote(r) \/ AgentRuns(r) \/ RereadNote(r) \/ MakePlan(r)
             \/ Preflight(r) \/ LogApplied(r) \/ CloseRecords(r) \/ Finish(r)
      PROVE RestInv'
  BY <1>7 DEF StartRun, ReadNote, AgentRuns, RereadNote, MakePlan, Preflight, LogApplied,
     CloseRecords, Finish
<1>8. ASSUME NEW r \in Runners, AcquireLock(r) PROVE RestInv'
  BY <1>8 DEF AcquireLock, Acquired, Reaped
<1>9. ASSUME NEW r \in Runners, Write(r) PROVE RestInv'
  BY <1>9 DEF Write
<1>10. ASSUME NEW r \in Runners, ReleaseLock(r) PROVE RestInv'
  BY <1>10 DEF ReleaseLock, Released, RowsOf
<1>11. ASSUME NEW r \in Runners, RunFails(r) \/ FinishLost(r) PROVE RestInv'
  BY <1>11 DEF RunFails, FinishLost
<1>12. ASSUME NEW r \in Runners, Crash(r) PROVE RestInv'
  BY <1>12 DEF Crash
<1> QED
  BY <1>1, <1>2, <1>3, <1>4, <1>5, <1>6, <1>7, <1>8, <1>9, <1>10, <1>11, <1>12
     DEF Next, CliStep, ClaimStep, RunStep

\* The invariant of the queue with its line and its counts.
QueueInv == EnrichInv /\ LineInv /\ ClaimedRows /\ TallyInv /\ RestInv

(***************************************************************************)
(* It holds in every reachable state: a requeue moves a row and never      *)
(* doubles it, and attempts on a row and under way do not add up to more   *)
(* than the ceiling and one for each command beside the worker.            *)
(***************************************************************************)
THEOREM QueueInvariant == Spec => []QueueInv
<1> USE DEF QueueInv
<1>1. Init => QueueInv
  BY InitEnrichInv, InitLine, InitTally, InitRest
<1>2. QueueInv /\ [Next]_vars => QueueInv'
  <2> SUFFICES ASSUME QueueInv, [Next]_vars PROVE QueueInv'
    OBVIOUS
  <2>1. EnrichInv'
    BY TypingStep, WaitingStep, RunningStep, SeenStep, ClosedStep DEF EnrichInv
  <2>2. LineInv' /\ ClaimedRows'
    BY LineStep, ClaimedStep
  <2>3. TallyInv'
    BY TallyStep
  <2>4. RestInv'
    BY RestStep
  <2> QED
    BY <2>1, <2>2, <2>3, <2>4
<1> HIDE DEF QueueInv
<1> QED
  BY <1>1, <1>2, PTL DEF Spec

(***************************************************************************)
(* The rows stand in line once each, and their attempts stay below the     *)
(* ceiling but for the stale attempts of other runners (store.go:891-1006).*)
(***************************************************************************)
THEOREM RowsStandInLine == Spec => []TypeOK
<1>1. QueueInv => TypeOK
  <2> SUFFICES ASSUME QueueInv PROVE TypeOK
    OBVIOUS
  <2> USE DEF QueueInv
  <2>1. row \in [Paths -> [state : RowStates, attempts : Nat]]
    BY DEF EnrichInv, QueueTypeOK
  <2>2. ASSUME NEW n \in Paths
        PROVE  row[n].attempts \in 0..(AttemptsMax + Cardinality(Clis))
    <3>1. /\ Cardinality(Holders(n)) \in Nat /\ Cardinality(Clis) \in Nat
          /\ row[n].attempts \in Nat
          /\ row[n].attempts + Cardinality(Holders(n)) <= AttemptsMax + Cardinality(Clis)
      BY <2>1, RunnersAreFew DEF Holders, TallyInv
    <3> QED
      BY <3>1, AttemptsAssumption
  <2>3. row \in [Paths -> [state : RowStates, attempts : 0..(AttemptsMax + Cardinality(Clis))]]
    BY <2>1, <2>2
  <2>4. ASSUME NEW n \in Paths
        PROVE  Cardinality({i \in DOMAIN line : line[i] = n})
               = IF row[n].state = "none" THEN 0 ELSE 1
    <3>1. CASE row[n].state = "none"
      <4>1. {i \in DOMAIN line : line[i] = n} = {}
        BY <3>1 DEF LineInv, StandsIn
      <4> QED
        BY <3>1, <4>1, FS_EmptySet
    <3>2. CASE row[n].state # "none"
      <4>1. PICK j \in DOMAIN line : line[j] = n
        BY <3>2 DEF LineInv, StandsIn
      <4>2. {i \in DOMAIN line : line[i] = n} = {j}
        BY <4>1 DEF LineInv, Standing
      <4> QED
        BY <3>2, <4>2, FS_Singleton
    <3> QED
      BY <3>1, <3>2
  <2>5. /\ line \in Seq(Paths)
        /\ vault \in [Paths -> Notes]
        /\ scan \in [at : {"walk", "content", "enqueue"}, note : Paths \cup {NoPlan}]
        /\ pc \in [Runners -> {"idle"} \cup CliPcs \cup RunPcs]
        /\ note \in [Runners -> Paths \cup {NoPlan}]
        /\ seen \in [Runners -> Notes]
        /\ result \in [Runners -> Outcomes]
        /\ records \in [Runners -> [job : {"none", "applying", "done", "failed"},
                                    plan : {"none", "proposed", "rejected", "failed", "applied"}]]
    BY DEF LineInv, EnrichInv, QueueTypeOK, RunnerTypeOK, Pcs
  <2> QED
    BY <2>3, <2>4, <2>5 DEF TypeOK, RestInv
<1> QED
  BY <1>1, QueueInvariant, PTL
=============================================================================
