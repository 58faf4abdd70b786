-------------------------- MODULE Scheduler_proofs --------------------------
(***************************************************************************)
(* The scheduler for any schedules, windows, registries and bounds: the    *)
(* rows of its runs are what the processes that work on them have written, *)
(* and, while the daemon alone ticks, a schedule has one run at a time, no *)
(* window is passed over in silence, and each repetition is paid for by a  *)
(* crash or a failed statement.                                            *)
(***************************************************************************)
EXTENDS Scheduler, FiniteSetTheorems, SequenceTheorems, TLAPS

(***************************************************************************)
(* The places of a tick: at a schedule, at one that is due, with a run.    *)
(***************************************************************************)
HasRun == {"row", "dispatch", "notify", "finish", "job_status"}
Due == HasRun \cup {"check", "skip", "job", "advance"}
AtSchedule == Due \cup {"save"}
Ticking == AtSchedule \cup {"read"}
Running == {"dispatch", "notify", "finish"}
HasEnd == {"notify", "finish", "job_status", "advance"}

Declarations == [hash : Nat \ {0}, enabled : BOOLEAN]
Rows(s) == [hash : Nat, next : Windows[s] \cup {Never}, last : 0..clock \cup {Never}]
Runs == [schedule : Schedules, kind : {"schedule", "by_hand"}, status : Finished \cup {"running", "none"},
         window : 0..Never, job : {"none", "applying", "done", "failed"}, linked : BOOLEAN]

WorldTypeOK ==
    /\ config \in Scenarios
    /\ clock \in 0..MaxClock /\ cancelled \in BOOLEAN
    /\ files \in [Schedules -> Declarations]
    /\ overrides \in [Schedules -> {"unset", "on", "off"}]
    /\ ticks \in Nat /\ faults \in Nat

StoreTypeOK ==
    /\ DOMAIN runtime = Schedules
    /\ \A s \in Schedules : runtime[s] \in Rows(s)
    /\ runs \in Seq(Runs)
    /\ notices \subseteq [run : DOMAIN runs, kind : {"result", "error"}]
    /\ byHand \in 0..Len(runs)
    /\ byHand # 0 => runs[byHand].kind = "by_hand" /\ runs[byHand].status = "running"

Ticks == [pc : Ticking \cup {"idle", "out"}, left : Seq(Schedules),
          seen : {NoRegistry} \cup [Schedules -> Declarations], now : 0..clock,
          row : [hash : Nat, next : 0..Never, last : 0..Never], run : 0..Len(runs),
          status : Effective \cup {"cancelled", ""}, ended : 0..clock]

\* A tick has seen the declarations and works through schedules of the
\* registry; the row it has in memory is one of the schedule it is at.
TickOK(r) ==
    /\ r \in Ticks
    /\ r.pc \in Ticking => r.seen \in [Schedules -> Declarations]
    /\ r.pc \in AtSchedule => /\ r.left # <<>> /\ r.row \in Rows(Head(r.left))
                              /\ r.row.hash = r.seen[Head(r.left)].hash
    /\ r.pc \in Due => r.row.next <= r.now
    /\ r.pc \in HasEnd => r.now <= r.ended

\* The run a tick works on, and what of it is written down at each place.
RunOK(r) ==
    LET run == runs[r.run]
    IN  /\ r.run # 0 => /\ r.pc \in HasRun \cup {"advance"}
                        /\ run.schedule = Head(r.left) /\ run.kind = "schedule" /\ run.window = r.row.next
        /\ r.pc \in HasRun => r.run # 0 /\ run.job = "applying"
        /\ r.pc = "row" => run.status = "none"
        /\ r.pc \in Running => run.status = "running"
        /\ r.pc \in {"notify", "finish", "job_status"} => r.status \in Effective \cup {"cancelled"}
        /\ r.pc \in {"finish", "job_status"} => \E n \in notices : n.run = r.run
        /\ r.pc = "job_status" => run.status = r.status /\ run.linked
        /\ r.pc = "advance" => /\ \E i \in DOMAIN runs : /\ runs[i].schedule = Head(r.left) /\ runs[i].window = r.row.next
                                                         /\ runs[i].status \in Finished \ {"cancelled"}
                               /\ r.run # 0 => run.status \in Effective /\ run.job # "applying"

WorkersDiffer ==
    \A p, q \in Processes : proc[p].run # 0 /\ proc[p].run = proc[q].run => p = q

FailuresOK == failures \in 0..MaxFailures /\ (proc[Daemon].pc # "out" => failures < MaxFailures)

TicksInv ==
    /\ WorldTypeOK
    /\ StoreTypeOK
    /\ DOMAIN proc = Processes
    /\ \A p \in Processes : TickOK(proc[p]) /\ RunOK(proc[p])
    /\ WorkersDiffer
    /\ FailuresOK
    /\ DoneWasAnnounced
    /\ NothingLeftBehind

(***************************************************************************)
(* What holds when the daemon alone ticks.                                 *)
(***************************************************************************)
tick == proc[Daemon]
subject == Head(tick.left)

\* The row in memory is the one in the store, or will be with the next save.
RowIsCurrent ==
    /\ tick.pc = "save" => tick.row = Reconciled(subject, tick.seen[subject], runtime[subject], tick.now)
    /\ tick.pc \in Due => tick.row = runtime[subject]

\* A run later than the tick's beginning is of a declaration it has seen.
LastIsSeen ==
    tick.pc \in Ticking =>
    \A s \in Schedules : runtime[s].last # Never /\ runtime[s].last > tick.now
                         => runtime[s].hash = tick.seen[s].hash

OfScheduler(i) == runs[i].kind = "schedule"
RunsOf(s) == {i \in DOMAIN runs : OfScheduler(i) /\ runs[i].schedule = s /\ runs[i].status = "running"}

NoOtherRun == /\ tick.pc \in {"job", "row"} => RunsOf(subject) = {}
              /\ \A s \in Schedules : \A i, j \in RunsOf(s) : i = j

\* Runs are of schedules that have a row, and of windows that have begun.
RunsAreDue ==
    \A i \in DOMAIN runs :
       OfScheduler(i) => /\ runs[i].window <= (IF tick.pc \in Ticking THEN tick.now ELSE clock)
                         /\ runtime[runs[i].schedule].hash # 0

\* The schedule's next run is past the window, or will be when the tick is
\* done with it.
Passed(s, w) ==
    \/ runtime[s].next > w
    \/ /\ tick.pc = "advance" \/ (tick.pc = "job_status" /\ tick.status # "cancelled")
       /\ subject = s /\ tick.row.next = w

AttemptsArePaid ==
    \A s \in Schedules, w \in 0..MaxClock :
       Cardinality(Attempts(s, w)) <= IF Passed(s, w) THEN 1 + faults ELSE faults

AloneInv ==
    Alone => /\ proc[Once].pc = "idle"
             /\ RowIsCurrent
             /\ LastIsSeen
             /\ NextIsLater
             /\ NoOtherRun
             /\ RunsAreDue
             /\ AttemptsArePaid

-----------------------------------------------------------------------------
(***************************************************************************)
(* Occurrences.                                                            *)
(***************************************************************************)
LEMMA LeastExists ==
    ASSUME NEW S \in SUBSET Nat, S # {}
    PROVE  \E i \in S : \A j \in S : i <= j
<1> DEFINE Below == {0..i : i \in S}
<1>1. Below \subseteq FiniteSubsetsOf(Nat) /\ Below # {}
  <2>1. \A i \in S : IsFiniteSet(0..i) /\ 0..i \in SUBSET Nat
    BY FS_Interval
  <2> QED
    BY <2>1 DEF FiniteSubsetsOf
<1>2. PICK T \in Below : \A U \in Below : <<U, T>> \notin StrictSubsetOrdering(Nat)
  <2> HIDE DEF Below
  <2> QED
    BY <1>1, WFMin, FS_StrictSubsetOrderingWellFounded
<1>3. PICK i \in S : T = 0..i
  BY <1>2
<1>4. ASSUME NEW j \in S, j < i PROVE FALSE
  <2>1. 0..j \in Below /\ 0..j \subseteq T /\ 0..j # T
    BY <1>3, <1>4
  <2>2. \A U \in SUBSET Nat, V \in SUBSET Nat :
           U \subseteq V /\ U # V => <<U, V>> \in StrictSubsetOrdering(Nat)
    BY DEF StrictSubsetOrdering
  <2>3. 0..j \in SUBSET Nat /\ T \in SUBSET Nat
    BY <1>3
  <2> HIDE DEF Below
  <2> QED
    BY <1>2, <2>1, <2>2, <2>3
<1> QED
  BY <1>4

\* NextAfter is an occurrence, and strictly later; FirstWindow is one.
LEMMA Occurrences ==
    ASSUME NEW s \in Schedules, NEW t \in 0..MaxClock
    PROVE  /\ NextAfter(s, t) \in Windows[s] \cup {Never} /\ NextAfter(s, t) > t
           /\ FirstWindow(s, t) \in Windows[s] \cup {Never}
           /\ Windows[s] \subseteq 0..MaxClock
<1>1. MaxClock \in Nat /\ Windows[s] \in SUBSET (0..MaxClock)
  BY SchedulerAssumption
<1> DEFINE later == {w \in Windows[s] : w > t} \cup {Never}
<1>2. later \in SUBSET Nat /\ later # {} /\ \A w \in later : w > t
  BY <1>1 DEF Never
<1>3. \E w \in later : \A v \in later : w <= v
  <2> HIDE DEF later
  <2> QED
    BY <1>2, LeastExists
<1>4. NextAfter(s, t) \in later
  BY <1>3 DEF NextAfter
<1> QED
  BY <1>1, <1>2, <1>4 DEF FirstWindow

\* The row that reconcileSchedule computes.
LEMMA ReconciledRow ==
    ASSUME WorldTypeOK, NEW s \in Schedules, NEW row \in Rows(s), NEW decl \in Declarations, NEW now \in 0..clock
    PROVE  /\ Reconciled(s, decl, row, now) \in Rows(s)
           /\ Reconciled(s, decl, row, now).hash = decl.hash
<1>1. now \in 0..MaxClock /\ clock \in Nat
  BY SchedulerAssumption DEF WorldTypeOK
<1>2. /\ NextAfter(s, now) \in Windows[s] \cup {Never}
      /\ FirstWindow(s, now) \in Windows[s] \cup {Never}
  BY <1>1, Occurrences
<1> QED
  BY <1>2 DEF Reconciled, Rows, Declarations

\* The row that advanceRuntime computes.
LEMMA AdvancedRow ==
    ASSUME WorldTypeOK, NEW s \in Schedules, NEW row \in Rows(s), NEW t \in 0..clock
    PROVE  /\ Advanced(s, row, t) \in Rows(s) /\ Advanced(s, row, t).hash = row.hash
           /\ Advanced(s, row, t).last = t /\ Advanced(s, row, t).next > t
<1>1. t \in 0..MaxClock /\ clock \in Nat
  BY SchedulerAssumption DEF WorldTypeOK
<1>2. NextAfter(s, t) \in Windows[s] \cup {Never} /\ NextAfter(s, t) > t
  BY <1>1, Occurrences
<1> QED
  BY <1>2 DEF Advanced, Rows


-----------------------------------------------------------------------------
(***************************************************************************)
(* The world: declarations only change by edits, time and counts grow.     *)
(***************************************************************************)
WorldMoves ==
    /\ UNCHANGED config
    /\ clock <= clock' /\ faults <= faults' /\ ticks <= ticks'

LEMMA WorldNext == WorldTypeOK /\ [Next]_vars => WorldTypeOK' /\ WorldMoves
<1> SUFFICES ASSUME WorldTypeOK, [Next]_vars PROVE WorldTypeOK' /\ WorldMoves
  OBVIOUS
<1> USE SchedulerAssumption DEF WorldTypeOK, WorldMoves
<1>1. ASSUME NEW p \in Processes, TickStep(p)
      PROVE  /\ UNCHANGED world /\ ticks' \in {ticks, ticks + 1} /\ faults' \in {faults, faults + 1}
  BY <1>1 DEF TickStep, TickStart, ReadRuntime, SaveRuntime, CheckRunning, RecordSkip, CreateJob, CreateRun,
     Dispatch, Notify, FinishRun, FinishJob, Advance, FinishTick, NoFault, TickError, Fault, world, budgets
<1>2. CASE \E p \in Processes : TickStep(p)
  BY <1>1, <1>2 DEF world
<1>3. CASE \E p \in Processes : Crash(p)
  BY <1>3 DEF Crash, Fault
<1>4. ASSUME NEW s \in Present, EditFile(s)
      PROVE  WorldTypeOK' /\ WorldMoves
  <2>1. s \in Schedules
    BY ScenariosAssumption DEF Present
  <2>2. files' \in [Schedules -> Declarations]
    BY <1>4, <2>1 DEF EditFile, Declarations
  <2> QED
    BY <1>4, <2>2 DEF EditFile
<1>5. CASE \E s \in Present : StartByHand(s) \/ \E value \in {"on", "off"} : SetScheduleEnabled(s, value)
  BY <1>5 DEF StartByHand, SetScheduleEnabled
<1>6. CASE EndByHand
  <2>1. faults' \in {faults, faults + 1}
    BY <1>6 DEF EndByHand, NoFault, Fault
  <2> QED
    BY <1>6, <2>1 DEF EndByHand
<1>10. CASE Stop \/ Restart
  <2>1. UNCHANGED <<config, clock, files, overrides, ticks, faults>>
    BY <1>10 DEF Stop, Restart, budgets
  <2>2. cancelled' \in BOOLEAN
    BY <1>10 DEF Stop, Restart
  <2> QED
    BY <2>1, <2>2
<1>8. CASE Tock
  BY <1>8 DEF Tock, budgets
<1>9. CASE \E i \in DOMAIN runs : AcceptRawCapture(i)
  BY <1>9 DEF AcceptRawCapture, budgets
<1>7. CASE UNCHANGED vars
  BY <1>7 DEF vars
<1> QED
  BY <1>2, <1>3, <1>4, <1>5, <1>6, <1>7, <1>8, <1>9, <1>10 DEF Next

(***************************************************************************)
(* The rows of runs: a step adds one, or writes to the row of the process  *)
(* that takes it, whose status is not final yet.                           *)
(***************************************************************************)
RowsStay(k) ==
    /\ Len(runs) <= Len(runs') /\ Len(runs') \in Nat
    /\ \A i \in 1..Len(runs) :
          /\ i # k => runs'[i] = runs[i]
          /\ runs'[i].schedule = runs[i].schedule /\ runs'[i].kind = runs[i].kind /\ runs'[i].window = runs[i].window
          /\ runs[i].status \in Finished => runs'[i].status = runs[i].status
    /\ notices \subseteq notices'

Written(k, status, job, linked) ==
    /\ runs' \in Seq(Runs) /\ Len(runs') = Len(runs)
    /\ DOMAIN runs' = 1..Len(runs) /\ DOMAIN runs = 1..Len(runs) /\ Len(runs) \in Nat
    /\ runs'[k].status = status /\ runs'[k].job = job /\ runs'[k].linked = linked
    /\ runs'[k].schedule = runs[k].schedule /\ runs'[k].kind = runs[k].kind /\ runs'[k].window = runs[k].window
    /\ \A i \in DOMAIN runs : i # k => runs'[i] = runs[i]

LEMMA RowIsSet ==
    ASSUME runs \in Seq(Runs), NEW k \in DOMAIN runs,
           NEW status \in Finished \cup {"running", "none"}, NEW job \in {"none", "applying", "done", "failed"}
    PROVE  \A linked \in BOOLEAN : SetRun(k, status, job, linked) => Written(k, status, job, linked)
<1> SUFFICES ASSUME NEW linked \in BOOLEAN, SetRun(k, status, job, linked)
             PROVE  Written(k, status, job, linked)
  OBVIOUS
<1> DEFINE row == [runs[k] EXCEPT !.status = status, !.job = job, !.linked = linked]
<1>1. runs[k] \in Runs /\ DOMAIN runs = 1..Len(runs) /\ Len(runs) \in Nat
  OBVIOUS
<1>2. runs' = [runs EXCEPT ![k] = row]
  BY DEF SetRun
<1>3. /\ row \in Runs /\ row.status = status /\ row.job = job /\ row.linked = linked
      /\ row.schedule = runs[k].schedule /\ row.kind = runs[k].kind /\ row.window = runs[k].window
  BY <1>1 DEF Runs
<1> HIDE DEF row
<1>4. /\ runs' \in Seq(Runs) /\ Len(runs') = Len(runs) /\ DOMAIN runs' = 1..Len(runs)
      /\ runs'[k] = row /\ \A i \in DOMAIN runs : i # k => runs'[i] = runs[i]
  BY <1>1, <1>2, <1>3
<1> QED
  BY <1>1, <1>3, <1>4 DEF Written

LEMMA RowIsAdded ==
    ASSUME runs \in Seq(Runs), NEW row \in Runs, runs' = Append(runs, row)
    PROVE  /\ runs' \in Seq(Runs) /\ Len(runs') = Len(runs) + 1
           /\ DOMAIN runs' = 1..(Len(runs) + 1) /\ DOMAIN runs = 1..Len(runs) /\ Len(runs) \in Nat
           /\ runs'[Len(runs) + 1] = row
           /\ \A i \in DOMAIN runs : runs'[i] = runs[i]
OBVIOUS

(***************************************************************************)
(* A step of one process, or of an agent started by hand, leaves the       *)
(* others' rows, and with them what is known of their ticks.               *)
(***************************************************************************)
LEMMA OthersStay ==
    ASSUME WorldTypeOK, WorldTypeOK', clock <= clock', StoreTypeOK, NEW k, RowsStay(k),
           NEW q \in Processes, TickOK(proc[q]), RunOK(proc[q]), proc'[q] = proc[q],
           proc[q].run # 0 => proc[q].run # k
    PROVE  TickOK(proc[q])' /\ RunOK(proc[q])'
<1>1. /\ clock \in Nat /\ clock' \in Nat
      /\ Len(runs) \in Nat /\ DOMAIN runs = 1..Len(runs) /\ 1..Len(runs) \subseteq DOMAIN runs'
  BY SchedulerAssumption DEF WorldTypeOK, StoreTypeOK, RowsStay
<1>2. \A s : Rows(s) \subseteq Rows(s)'
  BY <1>1 DEF Rows
<1>9. proc[q].run \in 0..Len(runs)
  BY DEF TickOK, Ticks
<1>3. TickOK(proc[q])'
  <2>1. 0..clock \subseteq 0..clock' /\ 0..Len(runs) \subseteq 0..Len(runs')
    BY <1>1 DEF RowsStay
  <2> QED
    BY <1>2, <2>1 DEF TickOK, Ticks
<1>4. proc[q].run # 0 => proc[q].run \in 1..Len(runs) /\ runs'[proc[q].run] = runs[proc[q].run]
  BY <1>1, <1>9 DEF RowsStay
<1>5. ASSUME NEW i \in DOMAIN runs, runs[i].status \in Finished \ {"cancelled"}
      PROVE  i \in DOMAIN runs' /\ runs'[i].schedule = runs[i].schedule /\ runs'[i].window = runs[i].window
             /\ runs'[i].status = runs[i].status
  BY <1>1, <1>5 DEF RowsStay
<1>6. notices \subseteq notices'
  BY DEF RowsStay
<1>7. proc[q].pc = "advance" =>
         \E i \in DOMAIN runs' : /\ runs'[i].schedule = Head(proc[q].left) /\ runs'[i].window = proc[q].row.next
                                 /\ runs'[i].status \in Finished \ {"cancelled"}
  BY <1>5 DEF RunOK
<1>8. RunOK(proc[q])'
  <2>1. CASE proc[q].run = 0
    BY <1>7, <2>1 DEF RunOK, HasRun, Running
  <2>2. CASE proc[q].run # 0
    BY <1>4, <1>6, <1>7, <2>2 DEF RunOK
  <2> QED
    BY <2>1, <2>2
<1> QED
  BY <1>3, <1>8

(***************************************************************************)
(* What a step of process p owes: the row it worked on and the one it adds *)
(* are announced when they have ended well, and are its own as long as     *)
(* they say that somebody works on them.                                   *)
(***************************************************************************)
RowSettled(i, r) ==
    /\ runs'[i].kind = "schedule" /\ runs'[i].status \in Finished \ {"skipped", "failed"}
       => runs'[i].linked /\ \E n \in notices' : n.run = i
    /\ runs'[i].status = "running" \/ runs'[i].job = "applying" => r.run = i \/ faults' # 0

LEMMA TickKeeps ==
    ASSUME TicksInv, WorldTypeOK', WorldMoves, StoreTypeOK', FailuresOK', UNCHANGED byHand,
           NEW p \in Processes, NEW r, proc' = [proc EXCEPT ![p] = r],
           RowsStay(proc[p].run), r.run \in {0, proc[p].run} \cup (DOMAIN runs' \ DOMAIN runs),
           TickOK(proc[p])', RunOK(proc[p])',
           \A i \in DOMAIN runs' : i = proc[p].run \/ i \notin DOMAIN runs => RowSettled(i, r)
    PROVE  TicksInv'
<1> USE DEF TicksInv
<1>1. /\ Len(runs) \in Nat /\ DOMAIN runs = 1..Len(runs) /\ DOMAIN runs' = 1..Len(runs') /\ Len(runs') \in Nat
      /\ DOMAIN runs \subseteq DOMAIN runs'
  BY DEF StoreTypeOK, RowsStay
<1>2. DOMAIN proc' = Processes /\ proc'[p] = r /\ \A q \in Processes \ {p} : proc'[q] = proc[q]
  OBVIOUS
<1>3. \A q \in Processes \ {p} : proc[q].run # 0 => proc[q].run # proc[p].run
  BY DEF WorkersDiffer
<1>4. \A q \in Processes : TickOK(proc[q])' /\ RunOK(proc[q])'
  <2>1. ASSUME NEW q \in Processes \ {p}
        PROVE  TickOK(proc[q])' /\ RunOK(proc[q])'
    BY <1>2, <1>3, <2>1, OthersStay DEF WorldMoves
  <2> QED
    BY <2>1
<1>5. WorkersDiffer'
  <2>1. \A q \in Processes : proc[q].run \in {0} \cup DOMAIN runs
    <3>1. \A q \in Processes : proc[q].run \in 0..Len(runs)
      BY DEF TickOK, Ticks
    <3> QED
      BY <1>1, <3>1
  <2> QED
    BY <1>2, <1>3, <2>1 DEF WorkersDiffer
<1>6. ASSUME NEW i \in DOMAIN runs, i # proc[p].run
      PROVE  runs'[i] = runs[i]
  BY <1>1, <1>6 DEF RowsStay
<1>7. DoneWasAnnounced'
  <2>1. ASSUME NEW i \in DOMAIN runs', i \in DOMAIN runs, i # proc[p].run,
               runs'[i].kind = "schedule", runs'[i].status \in Finished \ {"skipped", "failed"}
        PROVE  runs'[i].linked /\ \E n \in notices' : n.run = i
    BY <1>6, <2>1 DEF DoneWasAnnounced, RowsStay
  <2> QED
    BY <2>1 DEF DoneWasAnnounced, RowSettled
<1>8. NothingLeftBehind'
  <2>1. SUFFICES ASSUME faults' = 0, NEW i \in DOMAIN runs', runs'[i].status = "running" \/ runs'[i].job = "applying"
                 PROVE  WorkedOn(i)'
    BY DEF NothingLeftBehind
  <2>2. CASE i = proc[p].run \/ i \notin DOMAIN runs
    BY <1>2, <2>1, <2>2 DEF RowSettled, WorkedOn
  <2>3. CASE i # proc[p].run /\ i \in DOMAIN runs
    <3>1. faults = 0
      BY <2>1 DEF WorldMoves, WorldTypeOK
    <3>2. WorkedOn(i)
      BY <1>6, <2>1, <2>3, <3>1 DEF NothingLeftBehind
    <3> QED
      BY <1>2, <2>3, <3>2 DEF WorkedOn
  <2> QED
    BY <2>2, <2>3
<1> QED
  BY <1>2, <1>4, <1>5, <1>7, <1>8

(***************************************************************************)
(* Building blocks.                                                        *)
(***************************************************************************)
\* The tables stay well typed.
LEMMA StoreKept ==
    ASSUME StoreTypeOK, WorldTypeOK, WorldTypeOK', WorldMoves, UNCHANGED byHand,
           NEW k, RowsStay(k), byHand # 0 => byHand # k,
           runs' \in Seq(Runs), notices' \subseteq [run : DOMAIN runs', kind : {"result", "error"}],
           \/ UNCHANGED runtime
           \/ \E s \in Schedules : \E row \in Rows(s) : runtime' = [runtime EXCEPT ![s] = row]
    PROVE  StoreTypeOK'
<1>1. /\ clock \in Nat /\ clock' \in Nat /\ clock <= clock' /\ Len(runs) \in Nat /\ DOMAIN runs = 1..Len(runs)
      /\ Len(runs') \in Nat /\ DOMAIN runs' = 1..Len(runs')
  BY SchedulerAssumption DEF WorldTypeOK, WorldMoves, StoreTypeOK
<1>2. \A s : Rows(s) \subseteq Rows(s)'
  BY <1>1 DEF Rows
<1>3. DOMAIN runtime' = Schedules /\ \A s \in Schedules : runtime'[s] \in Rows(s)'
  BY <1>2 DEF StoreTypeOK
<1>4. byHand' \in 0..Len(runs') /\ (byHand' # 0 => runs'[byHand'].kind = "by_hand" /\ runs'[byHand'].status = "running")
  BY <1>1 DEF StoreTypeOK, RowsStay
<1> QED
  BY <1>3, <1>4 DEF StoreTypeOK

\* A step that writes no run.
LEMMA RunsUntouched ==
    ASSUME TicksInv, NEW p \in Processes, NEW r, UNCHANGED <<runs, notices>>,
           \/ r.run = proc[p].run
           \/ proc[p].run # 0 => /\ runs[proc[p].run].status # "running"
                                 /\ runs[proc[p].run].job # "applying"
           \/ faults' # 0
    PROVE  /\ \A k : RowsStay(k)
           /\ runs' \in Seq(Runs) /\ notices' \subseteq [run : DOMAIN runs', kind : {"result", "error"}]
           /\ \A i \in DOMAIN runs' : i = proc[p].run \/ i \notin DOMAIN runs => RowSettled(i, r)
<1>1. DOMAIN runs = 1..Len(runs) /\ Len(runs) \in Nat /\ runs \in Seq(Runs)
      /\ notices \subseteq [run : DOMAIN runs, kind : {"result", "error"}]
  BY DEF TicksInv, StoreTypeOK
<1>2. ASSUME NEW i \in DOMAIN runs, i = proc[p].run
      PROVE  RowSettled(i, r)
  BY <1>1, <1>2 DEF RowSettled, TicksInv, DoneWasAnnounced
<1> QED
  BY <1>1, <1>2 DEF RowsStay

\* An agent's row is not a tick's.
LEMMA HandsOff ==
    ASSUME TicksInv, NEW p \in Processes
    PROVE  byHand # 0 => byHand # proc[p].run
BY DEF TicksInv, StoreTypeOK, RunOK

\* A process that is between ticks, or gone, has nothing in memory.
LEMMA NothingInMemory ==
    ASSUME TicksInv, WorldTypeOK', NEW p \in Processes, NEW r \in {Idle, Gone},
           proc' = [proc EXCEPT ![p] = r], Len(runs') \in Nat
    PROVE  r.run = 0 /\ TickOK(proc[p])' /\ RunOK(proc[p])'
<1>2. proc'[p] = r
  BY DEF TicksInv
<1>3. /\ r = [pc |-> r.pc, left |-> <<>>, seen |-> NoRegistry, now |-> 0, row |-> NoRow, run |-> 0,
              status |-> "", ended |-> 0]
      /\ r.pc \in {"idle", "out"} /\ r.run = 0
  <2>1. CASE r = Idle
    BY <2>1 DEF Idle
  <2>2. CASE r = Gone
    BY <2>2 DEF Idle, Gone
  <2> QED
    BY <2>1, <2>2
<1>4. 0 \in 0..clock' /\ 0 \in 0..Len(runs') /\ NoRow \in [hash : Nat, next : 0..Never, last : 0..Never]
      /\ <<>> \in Seq(Schedules)
  BY SchedulerAssumption DEF WorldTypeOK, NoRow, Never
<1>5. TickOK(proc[p])'
  <2>1. r \in Ticks'
    <3>1. PICK c \in {"idle", "out"} :
             r = [pc |-> c, left |-> <<>>, seen |-> NoRegistry, now |-> 0, row |-> NoRow, run |-> 0,
                  status |-> "", ended |-> 0]
      BY <1>3
    <3>2. /\ c \in Ticking \cup {"idle", "out"} /\ NoRegistry \in {NoRegistry} \cup [Schedules -> Declarations]
          /\ "" \in Effective \cup {"cancelled", ""}
      OBVIOUS
    <3> QED
      BY <1>4, <3>1, <3>2 DEF Ticks
  <2>2. r.pc \notin Ticking \cup AtSchedule \cup Due \cup HasEnd
    BY <1>3 DEF Ticking, AtSchedule, Due, HasRun, HasEnd
  <2> QED
    BY <1>2, <2>1, <2>2 DEF TickOK
<1>6. RunOK(proc[p])'
  BY <1>2, <1>3 DEF RunOK, HasRun, Running
<1> QED
  BY <1>3, <1>5, <1>6

\* The end of a tick.
LEMMA EndTickIs ==
    ASSUME TicksInv, WorldTypeOK', NEW p \in Processes, NEW n \in Nat, EndTick(p, n), Len(runs') \in Nat
    PROVE  \E r \in {Idle, Gone} :
              /\ proc' = [proc EXCEPT ![p] = r] /\ r.run = 0
              /\ TickOK(proc[p])' /\ RunOK(proc[p])'
<1>1. PICK r \in {Idle, Gone} : proc' = [proc EXCEPT ![p] = r]
  BY DEF EndTick, Become
<1> QED
  BY <1>1, NothingInMemory

LEMMA FailuresCounted ==
    ASSUME TicksInv, NEW p \in Processes
    PROVE  /\ \A n \in 0..(failures + 1) : proc[p].pc # "out" /\ EndTick(p, n) => FailuresOK'
           /\ \A r : proc' = [proc EXCEPT ![p] = r] /\ proc[p].pc # "out" /\ UNCHANGED failures => FailuresOK'
<1> USE SchedulerAssumption DEF TicksInv, FailuresOK, Processes
<1>1. ASSUME NEW n \in 0..(failures + 1), proc[p].pc # "out", EndTick(p, n)
      PROVE  FailuresOK'
  <2>1. CASE p = Once
    BY <1>1, <2>1 DEF EndTick, Become
  <2>2. CASE p = Daemon
    <3>1. failures' = n /\ n \in 0..MaxFailures
      BY <1>1, <2>2 DEF EndTick
    <3>2. n >= MaxFailures => proc'[Daemon].pc = "out"
      BY <1>1, <2>2 DEF EndTick, Become, Gone, Idle
    <3> QED
      BY <3>1, <3>2
  <2> QED
    BY <2>1, <2>2
<1>2. ASSUME NEW r, proc' = [proc EXCEPT ![p] = r], proc[p].pc # "out", UNCHANGED failures
      PROVE  FailuresOK'
  BY <1>2
<1> QED
  BY <1>1, <1>2

-----------------------------------------------------------------------------
(***************************************************************************)
(* The steps of a tick.                                                    *)
(***************************************************************************)
\* What is known of a tick's fields.
LEMMA Fields ==
    ASSUME TicksInv, NEW p \in Processes
    PROVE  /\ proc[p] \in Ticks
           /\ proc[p].left \in Seq(Schedules) /\ proc[p].now \in 0..clock /\ proc[p].ended \in 0..clock
           /\ proc[p].run \in 0..Len(runs) /\ Len(runs) \in Nat /\ DOMAIN runs = 1..Len(runs) /\ runs \in Seq(Runs)
           /\ proc[p].left # <<>> => Subject(p) \in Schedules /\ Tail(proc[p].left) \in Seq(Schedules)
           /\ clock \in Nat /\ failures \in Nat
<1>1. proc[p] \in Ticks /\ clock \in Nat /\ runs \in Seq(Runs) /\ failures \in Nat
  BY SchedulerAssumption DEF TicksInv, TickOK, WorldTypeOK, StoreTypeOK, FailuresOK
<1>2. proc[p].left \in Seq(Schedules) /\ proc[p].now \in 0..clock /\ proc[p].ended \in 0..clock
      /\ proc[p].run \in 0..Len(runs)
  BY <1>1 DEF Ticks
<1>3. proc[p].left # <<>> => Subject(p) \in Schedules /\ Tail(proc[p].left) \in Seq(Schedules)
  BY <1>2, HeadTailProperties DEF Subject
<1>4. Len(runs) \in Nat /\ DOMAIN runs = 1..Len(runs)
  BY <1>1
<1> QED
  BY <1>1, <1>2, <1>3, <1>4

LEMMA Counts == TicksInv => failures \in Nat /\ Len(runs) \in Nat /\ clock \in Nat /\ faults \in Nat /\ runs \in Seq(Runs)
BY SchedulerAssumption DEF TicksInv, WorldTypeOK, StoreTypeOK, FailuresOK

\* The tick a process goes on with, field by field.
LEMMA Becomes ==
    ASSUME TicksInv, NEW p \in Processes, NEW r, proc' = [proc EXCEPT ![p] = r]
    PROVE  proc'[p] = r
BY DEF TicksInv

\* The set of ticks only grows.
LEMMA TicksGrow ==
    ASSUME TicksInv, WorldTypeOK', WorldMoves, Len(runs') \in Nat, Len(runs) <= Len(runs')
    PROVE  Ticks \subseteq Ticks' /\ \A s : Rows(s) \subseteq Rows(s)'
<1>1. 0..clock \subseteq 0..clock' /\ 0..Len(runs) \subseteq 0..Len(runs')
  BY Counts, SchedulerAssumption DEF WorldTypeOK, WorldMoves
<1> QED
  BY <1>1 DEF Ticks, Rows

\* A statement failed: the tick is over, whatever was written of its run.
LEMMA ErrorKeeps ==
    ASSUME TicksInv, WorldTypeOK', WorldMoves, NEW p \in Processes, TickError(p), proc[p].pc # "out",
           UNCHANGED <<byHand, notices, runtime>>,
           \/ UNCHANGED runs
           \/ /\ proc[p].pc \in {"row", "dispatch", "notify", "finish"}
              /\ \E status \in {"none", "running", "failed"}, job \in {"failed", "applying"} :
                    SetRun(proc[p].run, status, job, FALSE)
    PROVE  TicksInv'
<1>0. PICK k : k = proc[p].run
  OBVIOUS
<1>1. /\ runs \in Seq(Runs) /\ Len(runs) \in Nat /\ DOMAIN runs = 1..Len(runs) /\ k \in 0..Len(runs)
      /\ failures \in Nat /\ faults' # 0
      /\ notices \subseteq [run : DOMAIN runs, kind : {"result", "error"}]
  <2>1. faults \in Nat /\ faults' = faults + 1
    BY DEF TickError, Fault, TicksInv, WorldTypeOK
  <2>2. notices \subseteq [run : DOMAIN runs, kind : {"result", "error"}]
    BY DEF TicksInv, StoreTypeOK
  <2>3. /\ runs \in Seq(Runs) /\ Len(runs) \in Nat /\ DOMAIN runs = 1..Len(runs) /\ proc[p].run \in 0..Len(runs)
        /\ failures \in Nat
    BY Fields
  <2> QED
    BY <1>0, <2>1, <2>2, <2>3
<1>2. /\ RowsStay(k) /\ runs' \in Seq(Runs) /\ DOMAIN runs' = DOMAIN runs
      /\ \A i \in DOMAIN runs' : \A r : i = k \/ i \notin DOMAIN runs => RowSettled(i, r)
  <2>1. CASE UNCHANGED runs
    BY <1>0, <1>1, <2>1, RunsUntouched
  <2>2. ASSUME NEW status \in {"none", "running", "failed"}, NEW job \in {"failed", "applying"},
               proc[p].pc \in {"row", "dispatch", "notify", "finish"}, SetRun(k, status, job, FALSE)
        PROVE  /\ RowsStay(k) /\ runs' \in Seq(Runs) /\ DOMAIN runs' = DOMAIN runs
               /\ \A i \in DOMAIN runs' : \A r : i = k \/ i \notin DOMAIN runs => RowSettled(i, r)
    <3>1. k # 0 /\ runs[k].status \in {"none", "running"}
      BY <1>0, <2>2 DEF TicksInv, RunOK, HasRun, Running
    <3>2. /\ k \in DOMAIN runs /\ runs[k].status \notin Finished
          /\ status \in Finished \cup {"running", "none"} /\ job \in {"none", "applying", "done", "failed"}
          /\ FALSE \in BOOLEAN
      BY <1>1, <3>1 DEF Finished
    <3>3. Written(k, status, job, FALSE)
      <4>1. \A linked \in BOOLEAN : SetRun(k, status, job, linked) => Written(k, status, job, linked)
        BY <1>1, <3>2, RowIsSet
      <4>2. SetRun(k, status, job, FALSE)
        BY <2>2
      <4> QED
        BY <3>2, <4>1, <4>2, Zenon
    <3>4. RowsStay(k)
      BY <1>1, <3>2, <3>3 DEF RowsStay, Written
    <3>5. \A r : RowSettled(k, r)
      BY <1>1, <3>3 DEF RowSettled, Finished, Written
    <3> QED
      BY <1>1, <3>3, <3>4, <3>5 DEF Written
  <2> QED
    BY <1>0, <2>1, <2>2
<1>3. StoreTypeOK'
  BY <1>0, <1>1, <1>2, HandsOff, StoreKept DEF TicksInv
<1>4. EndTick(p, failures + 1) /\ failures + 1 \in 0..(failures + 1) /\ failures + 1 \in Nat
  BY <1>1 DEF TickError
<1>5. FailuresOK'
  BY <1>4, FailuresCounted
<1>6. PICK r \in {Idle, Gone} : proc' = [proc EXCEPT ![p] = r] /\ r.run = 0 /\ TickOK(proc[p])' /\ RunOK(proc[p])'
  <2>1. Len(runs') \in Nat
    BY <1>2
  <2> QED
    BY <1>4, <2>1, EndTickIs
<1> QED
  BY <1>0, <1>2, <1>3, <1>5, <1>6, TickKeeps

\* A step that writes no run and gives up none that is open.
LEMMA QuietKeeps ==
    ASSUME TicksInv, WorldTypeOK', WorldMoves, NEW p \in Processes, NEW r, proc' = [proc EXCEPT ![p] = r],
           UNCHANGED <<byHand, runs, notices>>, FailuresOK', TickOK(proc[p])', RunOK(proc[p])',
           \/ UNCHANGED runtime
           \/ \E s \in Schedules : \E row \in Rows(s) : runtime' = [runtime EXCEPT ![s] = row],
           \/ r.run = proc[p].run
           \/ /\ r.run = 0
              /\ proc[p].run # 0 => runs[proc[p].run].status # "running" /\ runs[proc[p].run].job # "applying"
    PROVE  TicksInv'
<1>1. /\ RowsStay(proc[p].run)
      /\ runs' \in Seq(Runs) /\ notices' \subseteq [run : DOMAIN runs', kind : {"result", "error"}]
      /\ \A i \in DOMAIN runs' : i = proc[p].run \/ i \notin DOMAIN runs => RowSettled(i, r)
  BY RunsUntouched
<1>2. StoreTypeOK'
  BY <1>1, HandsOff, StoreKept DEF TicksInv
<1> QED
  BY <1>1, <1>2, TickKeeps

\* The registry with the overrides is a declaration of every schedule.
LEMMA DeclaredTyping == WorldTypeOK => Declared \in [Schedules -> Declarations]
<1> SUFFICES ASSUME WorldTypeOK PROVE Declared \in [Schedules -> Declarations]
  OBVIOUS
<1>1. ASSUME NEW s \in Schedules
      PROVE  files[s].hash \in Nat \ {0} /\ files[s].enabled \in BOOLEAN
  BY DEF WorldTypeOK, Declarations
<1>2. ASSUME NEW s \in Schedules
      PROVE  EnabledNow(s) \in BOOLEAN
  <2>1. CASE overrides[s] = "unset"
    BY <1>1, <2>1 DEF EnabledNow
  <2>2. CASE overrides[s] # "unset"
    BY <2>2 DEF EnabledNow
  <2> QED
    BY <2>1, <2>2
<1> QED
  BY <1>1, <1>2 DEF Declared, Declarations

LEMMA TickStartKeeps ==
    ASSUME TicksInv, WorldTypeOK', WorldMoves, NEW p \in Processes, TickStart(p)
    PROVE  TicksInv'
<1>1. UNCHANGED <<byHand, notices, runtime, runs, clock, config>> /\ proc[p].pc = "idle"
  BY DEF TickStart, world, At
<1>2. CASE TickError(p)
  BY <1>1, <1>2, ErrorKeeps
<1>3. CASE ~TickError(p)
  <2>1. PICK r : r = [Idle EXCEPT !.pc = "read", !.left = config.registry, !.seen = Declared, !.now = clock]
    OBVIOUS
  <2>2. proc' = [proc EXCEPT ![p] = r] /\ UNCHANGED failures
    BY <1>3, <2>1 DEF TickStart, Become
  <2>3. config.registry \in Seq(Schedules) /\ Declared \in [Schedules -> Declarations]
    BY ScenariosAssumption, DeclaredTyping DEF TicksInv, WorldTypeOK
  <2>4. NoRow \in [hash : Nat, next : 0..Never, last : 0..Never]
    BY SchedulerAssumption DEF NoRow, Never
  <2>5. r = [pc |-> "read", left |-> config.registry, seen |-> Declared, now |-> clock, row |-> NoRow,
             run |-> 0, status |-> "", ended |-> 0]
    BY <2>1 DEF Idle
  <2>6. proc'[p] = r
    BY <2>2, Becomes
  <2>7. r \in Ticks' /\ r.pc = "read" /\ r.run = 0 /\ r.seen = Declared
    <3>1. /\ clock \in 0..clock' /\ 0 \in 0..clock' /\ 0 \in 0..Len(runs')
          /\ "read" \in Ticking \cup {"idle", "out"} /\ "" \in Effective \cup {"cancelled", ""}
          /\ Declared \in {NoRegistry} \cup [Schedules -> Declarations]
      BY <1>1, <2>3, Counts DEF Ticking
    <3> QED
      BY <2>3, <2>4, <2>5, <3>1 DEF Ticks
  <2>8. TickOK(proc[p])'
    BY <2>3, <2>6, <2>7 DEF TickOK, AtSchedule, Due, HasRun, HasEnd
  <2>9. RunOK(proc[p])'
    BY <2>6, <2>7 DEF RunOK, HasRun, Running
  <2>10. FailuresOK'
    BY <1>1, <2>2, FailuresCounted
  <2>11. proc[p].run = 0
    BY <1>1 DEF TicksInv, RunOK, HasRun
  <2> QED
    BY <1>1, <2>2, <2>7, <2>8, <2>9, <2>10, <2>11, QuietKeeps
<1> QED
  BY <1>2, <1>3

\* The end of a tick that no statement has failed.
LEMMA EndKeeps ==
    ASSUME TicksInv, WorldTypeOK', WorldMoves, NEW p \in Processes, proc[p].pc = "read",
           NEW n \in 0..(failures + 1), EndTick(p, n),
           UNCHANGED <<byHand, notices, runtime, runs>>
    PROVE  TicksInv'
<1>1. Len(runs') \in Nat /\ n \in Nat
  BY Counts
<1>2. PICK r \in {Idle, Gone} : proc' = [proc EXCEPT ![p] = r] /\ r.run = 0 /\ TickOK(proc[p])' /\ RunOK(proc[p])'
  BY <1>1, EndTickIs DEF TicksInv
<1>3. FailuresOK'
  BY FailuresCounted
<1>4. proc[p].run = 0
  BY DEF TicksInv, RunOK, HasRun
<1> QED
  BY <1>2, <1>3, <1>4, QuietKeeps

LEMMA ReadRuntimeKeeps ==
    ASSUME TicksInv, WorldTypeOK', WorldMoves, NEW p \in Processes, ReadRuntime(p)
    PROVE  TicksInv'
<1>1. UNCHANGED <<byHand, notices, runtime, runs, clock>> /\ proc[p].pc = "read" /\ proc[p].left # <<>>
  BY DEF ReadRuntime, world, At
<1>2. CASE TickError(p)
  BY <1>1, <1>2, ErrorKeeps
<1>3. CASE EndTick(p, failures + 1)
  <2>1. failures + 1 \in 0..(failures + 1)
    BY Counts
  <2> QED
    BY <1>1, <1>3, <2>1, EndKeeps
<1>4. CASE ~TickError(p) /\ ~EndTick(p, failures + 1)
  <2>1. PICK row : row = Reconciled(Subject(p), proc[p].seen[Subject(p)], runtime[Subject(p)], proc[p].now)
    OBVIOUS
  <2>2. PICK r : r = [proc[p] EXCEPT !.pc = "save", !.row = row]
    OBVIOUS
  <2>3. proc' = [proc EXCEPT ![p] = r] /\ UNCHANGED failures
    BY <1>4, <2>1, <2>2 DEF ReadRuntime, Become
  <2>4. proc[p].seen \in [Schedules -> Declarations]
    BY <1>1 DEF TicksInv, TickOK, Ticking
  <2>5. row \in Rows(Subject(p)) /\ row.hash = proc[p].seen[Subject(p)].hash
    <3>1. Subject(p) \in Schedules /\ runtime[Subject(p)] \in Rows(Subject(p))
          /\ proc[p].seen[Subject(p)] \in Declarations /\ proc[p].now \in 0..clock /\ WorldTypeOK
      BY <1>1, <2>4, Fields DEF TicksInv, StoreTypeOK
    <3> QED
      BY <2>1, <3>1, ReconciledRow
  <2>6. row \in [hash : Nat, next : 0..Never, last : 0..Never]
    <3>1. Windows[Subject(p)] \subseteq 0..MaxClock /\ clock \in 0..MaxClock /\ MaxClock \in Nat
      BY <1>1, Fields, SchedulerAssumption DEF TicksInv, WorldTypeOK
    <3> QED
      BY <2>5, <3>1 DEF Rows, Never
  <2>7. proc'[p] = r
    BY <2>3, Becomes
  <2>8. /\ r \in Ticks /\ r.pc = "save" /\ r.run = proc[p].run /\ r.left = proc[p].left /\ r.row = row
        /\ r.seen = proc[p].seen
    BY <2>2, <2>6, Fields DEF Ticks, Ticking, AtSchedule
  <2>9. TickOK(proc[p])'
    <3>1. "save" \notin Due /\ "save" \notin HasEnd
      BY DEF Due, HasRun, HasEnd
    <3>2. r.left # <<>> /\ r.row \in Rows(Head(r.left)) /\ r.row.hash = r.seen[Head(r.left)].hash
      BY <1>1, <2>5, <2>8 DEF Subject
    <3>3. Ticks' = Ticks /\ \A s : Rows(s)' = Rows(s)
      BY <1>1 DEF Ticks, Rows
    <3> QED
      BY <2>4, <2>7, <2>8, <3>1, <3>2, <3>3 DEF TickOK
  <2>10. proc[p].run = 0
    BY <1>1 DEF TicksInv, RunOK, HasRun
  <2>11. RunOK(proc[p])'
    BY <2>7, <2>8, <2>10 DEF RunOK, HasRun, Running
  <2>12. FailuresOK'
    BY <1>1, <2>3, FailuresCounted
  <2> QED
    BY <1>1, <2>3, <2>8, <2>9, <2>11, <2>12, QuietKeeps
<1> QED
  BY <1>2, <1>3, <1>4

\* A tick that stays at its schedule.
LEMMA StaysAtSchedule ==
    ASSUME TicksInv, WorldTypeOK', WorldMoves, Len(runs') \in Nat, Len(runs) <= Len(runs'),
           NEW p \in Processes, NEW r, proc' = [proc EXCEPT ![p] = r], proc[p].pc \in AtSchedule,
           r \in Ticks', r.pc \in AtSchedule, r.left = proc[p].left, r.seen = proc[p].seen, r.row = proc[p].row,
           r.pc \in Due => r.row.next <= r.now,
           r.pc \in HasEnd => r.now <= r.ended
    PROVE  TickOK(proc[p])'
<1>1. proc'[p] = r
  BY Becomes
<1>2. \A s : Rows(s) \subseteq Rows(s)'
  BY TicksGrow
<1>3. TickOK(proc[p]) /\ proc[p].pc \in Ticking
  BY DEF TicksInv, Ticking
<1> QED
  BY <1>1, <1>2, <1>3 DEF TickOK

\* A tick that goes on to the next schedule.
LEMMA LeavesSchedule ==
    ASSUME TicksInv, WorldTypeOK', WorldMoves, Len(runs') \in Nat, Len(runs) <= Len(runs'),
           NEW p \in Processes, NextSchedule(p), proc[p].pc \in AtSchedule
    PROVE  \E r : /\ proc' = [proc EXCEPT ![p] = r] /\ r.pc = "read" /\ r.run = 0
                  /\ r.seen = proc[p].seen /\ r.now = proc[p].now
                  /\ TickOK(proc[p])' /\ RunOK(proc[p])'
<1>1. PICK r : r = [Idle EXCEPT !.pc = "read", !.left = Tail(proc[p].left), !.seen = proc[p].seen, !.now = proc[p].now]
  OBVIOUS
<1>2. proc' = [proc EXCEPT ![p] = r]
  BY <1>1 DEF NextSchedule, Become
<1>3. proc'[p] = r
  BY <1>2, Becomes
<1>4. r = [pc |-> "read", left |-> Tail(proc[p].left), seen |-> proc[p].seen, now |-> proc[p].now,
           row |-> NoRow, run |-> 0, status |-> "", ended |-> 0]
  BY <1>1 DEF Idle
<1>5. /\ Tail(proc[p].left) \in Seq(Schedules) /\ proc[p].seen \in [Schedules -> Declarations]
      /\ proc[p].now \in 0..clock
  <2>1. proc[p].left # <<>> /\ proc[p].seen \in [Schedules -> Declarations]
    BY DEF TicksInv, TickOK, Ticking
  <2> QED
    BY <2>1, Fields
<1>6. NoRow \in [hash : Nat, next : 0..Never, last : 0..Never]
  BY SchedulerAssumption DEF NoRow, Never
<1>7. r \in Ticks' /\ r.pc = "read" /\ r.run = 0 /\ r.seen = proc[p].seen /\ r.now = proc[p].now
  <2>1. /\ 0 \in 0..clock /\ 0 \in 0..Len(runs)
        /\ "read" \in Ticking \cup {"idle", "out"} /\ "" \in Effective \cup {"cancelled", ""}
        /\ proc[p].seen \in {NoRegistry} \cup [Schedules -> Declarations]
    BY <1>5, Counts DEF Ticking
  <2>2. r \in Ticks
    BY <1>4, <1>5, <1>6, <2>1 DEF Ticks
  <2> QED
    BY <1>4, <2>2, TicksGrow
<1>8. TickOK(proc[p])'
  BY <1>3, <1>5, <1>7 DEF TickOK, AtSchedule, Due, HasRun, HasEnd
<1>9. RunOK(proc[p])'
  BY <1>3, <1>7 DEF RunOK, HasRun, Running
<1> QED
  BY <1>2, <1>7, <1>8, <1>9

\* A step from a place without a run to another one.
LEMMA PlaceKeeps ==
    ASSUME TicksInv, WorldTypeOK', WorldMoves, UNCHANGED <<byHand, notices, runs, failures>>,
           NEW p \in Processes, proc[p].pc \in {"save", "check"},
           \/ UNCHANGED runtime
           \/ \E s \in Schedules : \E row \in Rows(s) : runtime' = [runtime EXCEPT ![s] = row],
           \/ NextSchedule(p)
           \/ \E label \in {"check", "skip", "job"} : Goto(p, label) /\ proc[p].row.next <= proc[p].now
    PROVE  TicksInv'
<1>1. Len(runs') \in Nat /\ Len(runs) <= Len(runs') /\ proc[p].pc \in AtSchedule /\ proc[p].run = 0
  <2>1. proc[p].run = 0
    BY DEF TicksInv, RunOK, HasRun
  <2> QED
    BY <2>1, Counts DEF AtSchedule, Due
<1>2. CASE NextSchedule(p)
  <2>1. PICK r : /\ proc' = [proc EXCEPT ![p] = r] /\ r.pc = "read" /\ r.run = 0
                 /\ TickOK(proc[p])' /\ RunOK(proc[p])'
    BY <1>1, <1>2, LeavesSchedule
  <2>2. FailuresOK'
    BY <2>1, FailuresCounted
  <2> QED
    BY <1>1, <2>1, <2>2, QuietKeeps
<1>3. ASSUME NEW label \in {"check", "skip", "job"}, Goto(p, label), proc[p].row.next <= proc[p].now
      PROVE  TicksInv'
  <2>1. PICK r : r = [proc[p] EXCEPT !.pc = label]
    OBVIOUS
  <2>2. proc' = [proc EXCEPT ![p] = r]
    BY <1>3, <2>1 DEF Goto, Become
  <2>3. proc'[p] = r
    BY <2>2, Becomes
  <2>4. /\ r \in Ticks /\ r.pc = label /\ r.run = 0 /\ r.left = proc[p].left /\ r.row = proc[p].row
        /\ r.seen = proc[p].seen /\ r.now = proc[p].now
    BY <1>1, <2>1, Fields, ZenonT(30) DEF Ticks, Ticking, AtSchedule, Due
  <2>5. TickOK(proc[p])'
    <3>1. label \in AtSchedule /\ label \notin HasEnd
      BY DEF AtSchedule, Due, HasEnd
    <3>2. r \in Ticks'
      BY <1>1, <2>4, TicksGrow
    <3> QED
      BY <1>1, <1>3, <2>2, <2>4, <3>1, <3>2, StaysAtSchedule
  <2>6. RunOK(proc[p])'
    BY <2>3, <2>4 DEF RunOK, HasRun, Running
  <2>7. FailuresOK'
    BY <2>2, FailuresCounted
  <2> QED
    BY <1>1, <2>2, <2>4, <2>5, <2>6, <2>7, QuietKeeps
<1> QED
  BY <1>2, <1>3

LEMMA SaveRuntimeKeeps ==
    ASSUME TicksInv, WorldTypeOK', WorldMoves, NEW p \in Processes, SaveRuntime(p)
    PROVE  TicksInv'
<1>1. UNCHANGED <<byHand, notices, runs, clock>> /\ proc[p].pc = "save"
  BY DEF SaveRuntime, world, At
<1>2. CASE TickError(p) /\ UNCHANGED runtime
  BY <1>1, <1>2, ErrorKeeps
<1>3. CASE ~(TickError(p) /\ UNCHANGED runtime)
  <2>1. /\ runtime' = [runtime EXCEPT ![Subject(p)] = proc[p].row] /\ UNCHANGED failures
        /\ \/ NextSchedule(p)
           \/ Goto(p, "check") /\ proc[p].row.next <= proc[p].now
    BY <1>3 DEF SaveRuntime
  <2>2. Subject(p) \in Schedules /\ proc[p].row \in Rows(Subject(p))
    <3>1. proc[p].left # <<>> /\ proc[p].row \in Rows(Subject(p))
      BY <1>1 DEF TicksInv, TickOK, AtSchedule, Subject
    <3> QED
      BY <3>1, Fields
  <2> QED
    BY <1>1, <2>1, <2>2, PlaceKeeps
<1> QED
  BY <1>2, <1>3

LEMMA CheckRunningKeeps ==
    ASSUME TicksInv, WorldTypeOK', WorldMoves, NEW p \in Processes, CheckRunning(p)
    PROVE  TicksInv'
<1>1. UNCHANGED <<byHand, notices, runs, runtime, clock>> /\ proc[p].pc = "check"
  BY DEF CheckRunning, world, At
<1>2. CASE TickError(p)
  BY <1>1, <1>2, ErrorKeeps
<1>3. CASE ~TickError(p)
  <2>1. UNCHANGED failures /\ \E label \in {"skip", "job"} : Goto(p, label)
    BY <1>3 DEF CheckRunning
  <2>2. proc[p].row.next <= proc[p].now
    BY <1>1 DEF TicksInv, TickOK, Due
  <2> QED
    BY <1>1, <2>1, <2>2, PlaceKeeps
<1> QED
  BY <1>2, <1>3

\* A step that writes to its run.
LEMMA WriteKeeps ==
    ASSUME TicksInv, WorldTypeOK', WorldMoves, UNCHANGED <<byHand, runtime, notices>>,
           NEW p \in Processes, NEW r, proc' = [proc EXCEPT ![p] = r],
           proc[p].run # 0, r.run \in {0, proc[p].run},
           NEW status, NEW job, NEW linked, Written(proc[p].run, status, job, linked),
           runs[proc[p].run].status \in Finished => status = runs[proc[p].run].status,
           RowSettled(proc[p].run, r),
           FailuresOK', TickOK(proc[p])', RunOK(proc[p])'
    PROVE  TicksInv'
<1>0. PICK k : k = proc[p].run
  OBVIOUS
<1>1. /\ runs \in Seq(Runs) /\ Len(runs) \in Nat /\ DOMAIN runs = 1..Len(runs) /\ k \in 1..Len(runs)
      /\ notices \subseteq [run : DOMAIN runs, kind : {"result", "error"}]
  <2>1. proc[p].run \in 0..Len(runs) /\ Len(runs) \in Nat /\ DOMAIN runs = 1..Len(runs) /\ runs \in Seq(Runs)
    BY Fields
  <2>2. notices \subseteq [run : DOMAIN runs, kind : {"result", "error"}]
    BY DEF TicksInv, StoreTypeOK
  <2> QED
    BY <1>0, <2>1, <2>2
<1>2. RowsStay(k) /\ runs' \in Seq(Runs) /\ DOMAIN runs' = DOMAIN runs
  BY <1>0, <1>1 DEF Written, RowsStay
<1>3. StoreTypeOK'
  BY <1>0, <1>1, <1>2, HandsOff, StoreKept DEF TicksInv
<1> QED
  BY <1>0, <1>1, <1>2, <1>3, TickKeeps

\* The row a step adds is its own.
LEMMA AddKeeps ==
    ASSUME TicksInv, WorldTypeOK', WorldMoves, UNCHANGED <<byHand, runtime, notices>>,
           NEW p \in Processes, NEW r, proc' = [proc EXCEPT ![p] = r],
           proc[p].run = 0, NEW row \in Runs, runs' = Append(runs, row),
           r.run \in {0, Len(runs) + 1},
           row.kind = "schedule" /\ row.status \in Finished => row.status \in {"skipped", "failed"},
           row.status = "running" \/ row.job = "applying" => r.run = Len(runs) + 1,
           FailuresOK', TickOK(proc[p])', RunOK(proc[p])'
    PROVE  TicksInv'
<1>1. runs \in Seq(Runs) /\ notices \subseteq [run : DOMAIN runs, kind : {"result", "error"}]
  BY DEF TicksInv, StoreTypeOK
<1>2. /\ runs' \in Seq(Runs) /\ Len(runs') = Len(runs) + 1
      /\ DOMAIN runs' = 1..(Len(runs) + 1) /\ DOMAIN runs = 1..Len(runs) /\ Len(runs) \in Nat
      /\ runs'[Len(runs) + 1] = row
      /\ \A i \in DOMAIN runs : runs'[i] = runs[i]
  BY <1>1, RowIsAdded
<1>3. RowsStay(0) /\ DOMAIN runs \subseteq DOMAIN runs'
  BY <1>2 DEF RowsStay
<1>4. StoreTypeOK'
  <2>1. notices' \subseteq [run : DOMAIN runs', kind : {"result", "error"}]
    BY <1>1, <1>3
  <2> QED
    BY <1>2, <1>3, <2>1, StoreKept DEF TicksInv
<1>5. r.run \in {0, proc[p].run} \cup (DOMAIN runs' \ DOMAIN runs)
  BY <1>2
<1>6. \A i \in DOMAIN runs' : i = proc[p].run \/ i \notin DOMAIN runs => RowSettled(i, r)
  <2>1. ASSUME NEW i \in DOMAIN runs', i = proc[p].run \/ i \notin DOMAIN runs
        PROVE  runs'[i] = row /\ i = Len(runs) + 1
    BY <1>2, <2>1
  <2> QED
    BY <2>1 DEF RowSettled
<1> QED
  BY <1>3, <1>4, <1>5, <1>6, TickKeeps

\* What is known of a run at its places.
LEMMA AtRun ==
    ASSUME TicksInv, NEW p \in Processes, proc[p].pc \in HasRun
    PROVE  /\ proc[p].run \in DOMAIN runs /\ proc[p].run # 0 /\ runs[proc[p].run] \in Runs
           /\ runs[proc[p].run].kind = "schedule" /\ runs[proc[p].run].schedule = Subject(p)
           /\ runs[proc[p].run].window = proc[p].row.next
           /\ runs[proc[p].run].job = "applying"
           /\ proc[p].row.next <= proc[p].now /\ proc[p].left # <<>> /\ Subject(p) \in Schedules
           /\ proc[p].pc \in AtSchedule
<1>1. /\ proc[p].run # 0 /\ runs[proc[p].run].kind = "schedule" /\ runs[proc[p].run].schedule = Subject(p)
      /\ runs[proc[p].run].window = proc[p].row.next /\ runs[proc[p].run].job = "applying"
  BY DEF TicksInv, RunOK, Subject
<1>2. proc[p].pc \in AtSchedule /\ proc[p].pc \in Due
  BY DEF AtSchedule, Due
<1>3. proc[p].row.next <= proc[p].now /\ proc[p].left # <<>>
  BY <1>2 DEF TicksInv, TickOK
<1> QED
  BY <1>1, <1>2, <1>3, Fields

LEMMA RecordSkipKeeps ==
    ASSUME TicksInv, WorldTypeOK', WorldMoves, NEW p \in Processes, RecordSkip(p)
    PROVE  TicksInv'
<1>1. UNCHANGED <<byHand, notices, runtime, clock>> /\ proc[p].pc = "skip"
  BY DEF RecordSkip, world, At
<1>2. CASE TickError(p) /\ UNCHANGED runs
  BY <1>1, <1>2, ErrorKeeps
<1>3. CASE ~(TickError(p) /\ UNCHANGED runs)
  <2>1. PICK r : r = [proc[p] EXCEPT !.pc = "advance", !.ended = proc[p].now]
    OBVIOUS
  <2>2. PICK row : row = NewRun(Subject(p), "schedule", "skipped", proc[p].row.next, "none")
    OBVIOUS
  <2>3. proc' = [proc EXCEPT ![p] = r] /\ runs' = Append(runs, row) /\ UNCHANGED failures
    BY <1>3, <2>1, <2>2 DEF RecordSkip, Become
  <2>4. /\ proc[p].pc \in AtSchedule /\ proc[p].run = 0 /\ proc[p].row.next <= proc[p].now
        /\ proc[p].left # <<>> /\ Subject(p) \in Schedules /\ proc[p].row.next \in 0..Never
    <3>1. proc[p].pc \in AtSchedule /\ proc[p].pc \in Due
      BY <1>1 DEF AtSchedule, Due
    <3>2. proc[p].left # <<>> /\ proc[p].row.next <= proc[p].now
      BY <3>1 DEF TicksInv, TickOK
    <3>3. proc[p].run = 0
      BY <1>1 DEF TicksInv, RunOK, HasRun
    <3>4. proc[p].row.next \in 0..Never
      BY Fields DEF Ticks
    <3> QED
      BY <3>1, <3>2, <3>3, <3>4, Fields
  <2>5. /\ row \in Runs /\ row.status = "skipped" /\ row.job = "none"
        /\ row.schedule = Subject(p) /\ row.window = proc[p].row.next
    BY <2>2, <2>4 DEF NewRun, Runs, Finished
  <2>6. proc'[p] = r
    BY <2>3, Becomes
  <2>7. /\ r \in Ticks /\ r.pc = "advance" /\ r.run = 0 /\ r.left = proc[p].left /\ r.row = proc[p].row
        /\ r.seen = proc[p].seen /\ r.now = proc[p].now /\ r.ended = proc[p].now
    BY <2>1, <2>4, Fields, ZenonT(30) DEF Ticks, Ticking, AtSchedule, Due
  <2>8. /\ Len(runs') = Len(runs) + 1 /\ Len(runs) \in Nat /\ Len(runs) + 1 \in DOMAIN runs'
        /\ runs'[Len(runs) + 1] = row
    <3>1. runs \in Seq(Runs)
      BY Fields
    <3> QED
      BY <2>3, <2>5, <3>1, RowIsAdded
  <2>9. TickOK(proc[p])'
    <3>1. "advance" \in AtSchedule
      BY DEF AtSchedule, Due
    <3>2. r \in Ticks' /\ Len(runs) <= Len(runs') /\ Len(runs') \in Nat
      BY <2>7, <2>8, TicksGrow
    <3>3. r.now <= r.ended
      BY <2>7, Fields
    <3> QED
      BY <2>3, <2>4, <2>7, <3>1, <3>2, <3>3, StaysAtSchedule
  <2>10. RunOK(proc[p])'
    <3>1. \E i \in DOMAIN runs' : /\ runs'[i].schedule = Head(r.left) /\ runs'[i].window = r.row.next
                                  /\ runs'[i].status \in Finished \ {"cancelled"}
      BY <2>5, <2>7, <2>8 DEF Subject, Finished
    <3> QED
      BY <2>6, <2>7, <3>1 DEF RunOK, HasRun, Running
  <2>11. FailuresOK'
    BY <1>1, <2>3, FailuresCounted
  <2> QED
    BY <1>1, <2>3, <2>4, <2>5, <2>7, <2>9, <2>10, <2>11, AddKeeps
<1> QED
  BY <1>2, <1>3

LEMMA CreateJobKeeps ==
    ASSUME TicksInv, WorldTypeOK', WorldMoves, NEW p \in Processes, CreateJob(p)
    PROVE  TicksInv'
<1>1. UNCHANGED <<byHand, notices, runtime, clock>> /\ proc[p].pc = "job"
  BY DEF CreateJob, world, At
<1>2. CASE TickError(p) /\ UNCHANGED runs
  BY <1>1, <1>2, ErrorKeeps
<1>3. CASE ~(TickError(p) /\ UNCHANGED runs)
  <2>0. PICK k : k = Len(runs) + 1
    OBVIOUS
  <2>1. PICK r : r = [proc[p] EXCEPT !.pc = "row", !.run = k]
    OBVIOUS
  <2>2. PICK row : row = NewRun(Subject(p), "schedule", "none", proc[p].row.next, "applying")
    OBVIOUS
  <2>3. proc' = [proc EXCEPT ![p] = r] /\ runs' = Append(runs, row) /\ UNCHANGED failures
    BY <1>3, <2>0, <2>1, <2>2 DEF CreateJob, Become
  <2>4. /\ proc[p].pc \in AtSchedule /\ proc[p].run = 0 /\ proc[p].row.next <= proc[p].now
        /\ proc[p].left # <<>> /\ Subject(p) \in Schedules /\ proc[p].row.next \in 0..Never
    <3>1. proc[p].pc \in AtSchedule /\ proc[p].pc \in Due
      BY <1>1 DEF AtSchedule, Due
    <3>2. proc[p].left # <<>> /\ proc[p].row.next <= proc[p].now
      BY <3>1 DEF TicksInv, TickOK
    <3>3. proc[p].run = 0
      BY <1>1 DEF TicksInv, RunOK, HasRun
    <3>4. proc[p].row.next \in 0..Never
      BY Fields DEF Ticks
    <3> QED
      BY <3>1, <3>2, <3>3, <3>4, Fields
  <2>5. /\ row \in Runs /\ row.status = "none" /\ row.job = "applying" /\ row.kind = "schedule"
        /\ row.schedule = Subject(p) /\ row.window = proc[p].row.next
    BY <2>2, <2>4 DEF NewRun, Runs, Finished
  <2>6. proc'[p] = r
    BY <2>3, Becomes
  <2>8. /\ Len(runs') = Len(runs) + 1 /\ Len(runs) \in Nat /\ k \in DOMAIN runs' /\ k # 0
        /\ runs'[k] = row /\ k \in 0..Len(runs')
    <3>1. runs \in Seq(Runs)
      BY Fields
    <3>2. /\ Len(runs') = Len(runs) + 1 /\ Len(runs) \in Nat /\ DOMAIN runs' = 1..(Len(runs) + 1)
          /\ runs'[Len(runs) + 1] = row
      BY <2>3, <2>5, <3>1, RowIsAdded
    <3> QED
      BY <2>0, <3>2
  <2>7. /\ r \in Ticks' /\ r.pc = "row" /\ r.run = k /\ r.left = proc[p].left /\ r.row = proc[p].row
        /\ r.seen = proc[p].seen /\ r.now = proc[p].now
    <3>1. proc[p] \in Ticks'
      BY <2>8, TicksGrow, Fields
    <3>2. "row" \in Ticking \cup {"idle", "out"}
      BY DEF Ticking, AtSchedule, Due, HasRun
    <3> QED
      BY <2>1, <2>8, <3>1, <3>2 DEF Ticks
  <2>9. TickOK(proc[p])'
    <3>1. "row" \in AtSchedule /\ "row" \notin HasEnd
      BY DEF AtSchedule, Due, HasRun, HasEnd
    <3>2. Len(runs) <= Len(runs') /\ Len(runs') \in Nat
      BY <2>8
    <3> QED
      BY <2>3, <2>4, <2>7, <3>1, <3>2, StaysAtSchedule
  <2>10. RunOK(proc[p])'
    BY <2>5, <2>6, <2>7, <2>8 DEF RunOK, HasRun, Running, Subject
  <2>11. FailuresOK'
    BY <1>1, <2>3, FailuresCounted
  <2>12. row.status \notin Finished /\ row.status # "running"
    BY <2>5 DEF Finished
  <2> QED
    BY <1>1, <2>0, <2>3, <2>4, <2>5, <2>7, <2>9, <2>10, <2>11, <2>12, AddKeeps
<1> QED
  BY <1>2, <1>3

\* A tick goes on to another place with the same run.
LEMMA GoesOn ==
    ASSUME TicksInv, WorldTypeOK', WorldMoves, NEW p \in Processes, proc[p].pc \in HasRun,
           Len(runs') = Len(runs),
           NEW label \in HasRun \cup {"advance"}, Goto(p, label),
           label \in HasEnd => proc[p].now <= proc[p].ended
    PROVE  \E r : /\ proc' = [proc EXCEPT ![p] = r] /\ proc'[p] = r
                  /\ r.pc = label /\ r.run = proc[p].run /\ r.left = proc[p].left /\ r.row = proc[p].row
                  /\ r.status = proc[p].status
                  /\ TickOK(proc[p])' /\ (UNCHANGED failures => FailuresOK')
<1>1. PICK r : r = [proc[p] EXCEPT !.pc = label]
  OBVIOUS
<1>2. proc' = [proc EXCEPT ![p] = r]
  BY <1>1 DEF Goto, Become
<1>3. proc'[p] = r
  BY <1>2, Becomes
<1>4. /\ r \in Ticks /\ r.pc = label /\ r.run = proc[p].run /\ r.left = proc[p].left /\ r.row = proc[p].row
      /\ r.seen = proc[p].seen /\ r.now = proc[p].now /\ r.ended = proc[p].ended /\ r.status = proc[p].status
  BY <1>1, Fields DEF Ticks, Ticking, AtSchedule, Due
<1>5. TickOK(proc[p])'
  <2>1. label \in AtSchedule /\ proc[p].pc \in AtSchedule
    BY DEF AtSchedule, Due
  <2>2. r \in Ticks' /\ Len(runs) <= Len(runs') /\ Len(runs') \in Nat
    BY <1>4, Counts, TicksGrow
  <2> QED
    BY <1>2, <1>4, <2>1, <2>2, AtRun, StaysAtSchedule
<1>6. UNCHANGED failures => FailuresOK'
  <2>1. proc[p].pc # "out"
    BY DEF HasRun
  <2> QED
    BY <1>2, <2>1, FailuresCounted
<1> QED
  BY <1>2, <1>3, <1>4, <1>5, <1>6

LEMMA CreateRunKeeps ==
    ASSUME TicksInv, WorldTypeOK', WorldMoves, NEW p \in Processes, CreateRun(p)
    PROVE  TicksInv'
<1>1. UNCHANGED <<byHand, notices, runtime, clock>> /\ proc[p].pc = "row" /\ proc[p].pc \in HasRun
  BY DEF CreateRun, world, At, HasRun
<1>2. CASE TickError(p) /\ \E job \in {"failed", "applying"} : SetRun(proc[p].run, "none", job, FALSE)
  BY <1>1, <1>2, ErrorKeeps
<1>3. CASE ~(TickError(p) /\ \E job \in {"failed", "applying"} : SetRun(proc[p].run, "none", job, FALSE))
  <2>0. PICK k : k = proc[p].run
    OBVIOUS
  <2>1. /\ Goto(p, "dispatch") /\ UNCHANGED failures
        /\ SetRun(k, "running", "applying", FALSE)
    BY <1>3, <2>0 DEF CreateRun
  <2>2. /\ k \in DOMAIN runs /\ k # 0 /\ runs[k].status = "none" /\ runs \in Seq(Runs)
        /\ runs[k].kind = "schedule" /\ runs[k].schedule = Subject(p) /\ runs[k].window = proc[p].row.next
    BY <1>1, <2>0, AtRun, Counts DEF TicksInv, RunOK
  <2>3. Written(k, "running", "applying", FALSE)
    <3>1. \A linked \in BOOLEAN : SetRun(k, "running", "applying", linked) => Written(k, "running", "applying", linked)
      BY <2>2, RowIsSet
    <3>2. FALSE \in BOOLEAN
      OBVIOUS
    <3> QED
      BY <2>1, <3>1, <3>2, Zenon
  <2>4. Len(runs') = Len(runs)
    BY <2>3 DEF Written
  <2>5. "dispatch" \in HasRun \cup {"advance"} /\ "dispatch" \notin HasEnd
    BY DEF HasRun, HasEnd
  <2>6. PICK r : /\ proc' = [proc EXCEPT ![p] = r] /\ proc'[p] = r
                 /\ r.pc = "dispatch" /\ r.run = k /\ r.left = proc[p].left /\ r.row = proc[p].row
                 /\ TickOK(proc[p])' /\ FailuresOK'
    BY <1>1, <2>0, <2>1, <2>4, <2>5, GoesOn
  <2>7. RunOK(proc[p])'
    BY <2>2, <2>3, <2>6 DEF RunOK, HasRun, Running, Written, Subject
  <2>8. RowSettled(k, r)
    BY <2>2, <2>3, <2>6 DEF RowSettled, Written, Finished
  <2>9. runs[k].status \notin Finished
    BY <2>2 DEF Finished
  <2> QED
    BY <1>1, <2>0, <2>2, <2>3, <2>6, <2>7, <2>8, <2>9, WriteKeeps
<1> QED
  BY <1>2, <1>3

LEMMA DispatchKeeps ==
    ASSUME TicksInv, WorldTypeOK', WorldMoves, NEW p \in Processes, Dispatch(p)
    PROVE  TicksInv'
<1>1. UNCHANGED <<byHand, notices, runtime, clock, runs, failures>> /\ proc[p].pc = "dispatch" /\ proc[p].pc \in HasRun
  BY DEF Dispatch, world, At, HasRun
<1>2. PICK status \in Effective \cup {"cancelled"} :
         Become(p, [proc[p] EXCEPT !.pc = "notify", !.status = status, !.ended = clock])
  <2>1. Outcomes(p) \subseteq Effective \cup {"cancelled"}
    BY ScenariosAssumption DEF TicksInv, WorldTypeOK, Outcomes, Effective
  <2> QED
    BY <2>1 DEF Dispatch
<1>3. PICK r : r = [proc[p] EXCEPT !.pc = "notify", !.status = status, !.ended = clock]
  OBVIOUS
<1>4. proc' = [proc EXCEPT ![p] = r]
  BY <1>2, <1>3 DEF Become
<1>5. proc'[p] = r
  BY <1>4, Becomes
<1>6. /\ r \in Ticks' /\ r.pc = "notify" /\ r.run = proc[p].run /\ r.left = proc[p].left /\ r.row = proc[p].row
      /\ r.seen = proc[p].seen /\ r.now = proc[p].now /\ r.ended = clock /\ r.status = status
  <2>1. proc[p] \in Ticks' /\ clock \in 0..clock' /\ "notify" \in Ticking
    BY <1>1, Fields, Counts, TicksGrow DEF Ticking, AtSchedule, Due, HasRun
  <2> QED
    BY <1>3, <2>1 DEF Ticks
<1>7. TickOK(proc[p])'
  <2>1. "notify" \in AtSchedule /\ proc[p].pc \in AtSchedule
    BY <1>1 DEF AtSchedule, Due, HasRun
  <2>2. proc[p].now <= clock /\ Len(runs') \in Nat /\ Len(runs) <= Len(runs')
    BY <1>1, Fields
  <2> QED
    BY <1>1, <1>4, <1>6, <2>1, <2>2, AtRun, StaysAtSchedule
<1>8. RunOK(proc[p])'
  <2>1. runs[proc[p].run].status = "running"
    BY <1>1 DEF TicksInv, RunOK, Running
  <2> QED
    BY <1>1, <1>5, <1>6, <2>1, AtRun DEF RunOK, HasRun, Running, Subject
<1>9. FailuresOK'
  BY <1>1, <1>4, FailuresCounted
<1> QED
  BY <1>1, <1>4, <1>6, <1>7, <1>8, <1>9, QuietKeeps

LEMMA NotifyKeeps ==
    ASSUME TicksInv, WorldTypeOK', WorldMoves, NEW p \in Processes, Notify(p)
    PROVE  TicksInv'
<1>1. UNCHANGED <<byHand, runtime, clock>> /\ proc[p].pc = "notify" /\ proc[p].pc \in HasRun
  BY DEF Notify, world, At, HasRun
<1>2. CASE /\ TickError(p) /\ UNCHANGED notices
           /\ \E status \in {"failed", "running"}, job \in {"failed", "applying"} : SetRun(proc[p].run, status, job, FALSE)
  BY <1>1, <1>2, ErrorKeeps
<1>3. CASE ~(/\ TickError(p) /\ UNCHANGED notices
             /\ \E status \in {"failed", "running"}, job \in {"failed", "applying"} :
                   SetRun(proc[p].run, status, job, FALSE))
  <2>0. PICK k : k = proc[p].run
    OBVIOUS
  <2>1. /\ Goto(p, "finish") /\ UNCHANGED <<failures, runs>>
        /\ \E kind \in {"result", "error"} : notices' = notices \cup {[run |-> k, kind |-> kind]}
    BY <1>3, <2>0 DEF Notify
  <2>2. /\ k \in DOMAIN runs /\ k # 0 /\ runs[k].status = "running" /\ runs \in Seq(Runs)
        /\ runs[k].kind = "schedule" /\ runs[k].schedule = Subject(p) /\ runs[k].window = proc[p].row.next
        /\ runs[k].job = "applying" /\ proc[p].status \in Effective \cup {"cancelled"}
    BY <1>1, <2>0, AtRun, Counts DEF TicksInv, RunOK, Running
  <2>3. "finish" \in HasRun \cup {"advance"} /\ proc[p].now <= proc[p].ended
    <3>1. "finish" \in HasRun /\ proc[p].pc \in HasEnd
      BY <1>1 DEF HasRun, HasEnd
    <3> QED
      BY <3>1 DEF TicksInv, TickOK
  <2>4. PICK r : /\ proc' = [proc EXCEPT ![p] = r] /\ proc'[p] = r
                 /\ r.pc = "finish" /\ r.run = k /\ r.left = proc[p].left /\ r.row = proc[p].row
                 /\ r.status = proc[p].status
                 /\ TickOK(proc[p])' /\ FailuresOK'
    BY <1>1, <2>0, <2>1, <2>3, GoesOn
  <2>5. /\ notices \subseteq notices' /\ (\E n \in notices' : n.run = k)
        /\ notices' \subseteq [run : DOMAIN runs, kind : {"result", "error"}]
    <3>1. notices \subseteq [run : DOMAIN runs, kind : {"result", "error"}]
      BY DEF TicksInv, StoreTypeOK
    <3>2. PICK kind \in {"result", "error"} : notices' = notices \cup {[run |-> k, kind |-> kind]}
      BY <2>1
    <3>3. [run |-> k, kind |-> kind] \in [run : DOMAIN runs, kind : {"result", "error"}] /\ [run |-> k, kind |-> kind].run = k
      BY <2>2
    <3>4. [run |-> k, kind |-> kind] \in notices'
      BY <3>2
    <3> QED
      BY <3>1, <3>2, <3>3, <3>4, Zenon
  <2>6. RunOK(proc[p])'
    BY <2>1, <2>2, <2>4, <2>5 DEF RunOK, HasRun, Running, Subject
  <2>7. RowSettled(k, r)
    BY <2>1, <2>2, <2>4 DEF RowSettled, Finished
  <2>8. RowsStay(k) /\ DOMAIN runs' = DOMAIN runs
    <3>1. Len(runs) \in Nat
      BY Counts
    <3> QED
      BY <2>1, <2>5, <3>1 DEF RowsStay
  <2>9. StoreTypeOK'
    BY <1>1, <2>0, <2>1, <2>2, <2>5, <2>8, HandsOff, StoreKept DEF TicksInv
  <2> QED
    BY <1>1, <2>0, <2>4, <2>6, <2>7, <2>8, <2>9, TickKeeps
<1> QED
  BY <1>2, <1>3

LEMMA FinishRunKeeps ==
    ASSUME TicksInv, WorldTypeOK', WorldMoves, NEW p \in Processes, FinishRun(p)
    PROVE  TicksInv'
<1>1. UNCHANGED <<byHand, notices, runtime, clock>> /\ proc[p].pc = "finish" /\ proc[p].pc \in HasRun
  BY DEF FinishRun, world, At, HasRun
<1>2. CASE TickError(p) /\ \E job \in {"failed", "applying"} : SetRun(proc[p].run, "running", job, FALSE)
  BY <1>1, <1>2, ErrorKeeps
<1>3. CASE ~(TickError(p) /\ \E job \in {"failed", "applying"} : SetRun(proc[p].run, "running", job, FALSE))
  <2>0. PICK k, status : k = proc[p].run /\ status = proc[p].status
    OBVIOUS
  <2>1. /\ Goto(p, "job_status") /\ UNCHANGED failures
        /\ SetRun(k, status, "applying", TRUE)
    BY <1>3, <2>0 DEF FinishRun
  <2>2. /\ k \in DOMAIN runs /\ k # 0 /\ runs[k].status = "running" /\ runs \in Seq(Runs)
        /\ runs[k].kind = "schedule" /\ runs[k].schedule = Subject(p) /\ runs[k].window = proc[p].row.next
        /\ status \in Effective \cup {"cancelled"} /\ \E n \in notices : n.run = k
    BY <1>1, <2>0, AtRun, Counts DEF TicksInv, RunOK, Running
  <2>3. Written(k, status, "applying", TRUE)
    <3>1. \A linked \in BOOLEAN : SetRun(k, status, "applying", linked) => Written(k, status, "applying", linked)
      <4>1. status \in Finished \cup {"running", "none"}
        BY <2>2 DEF Effective, Finished
      <4> QED
        BY <2>2, <4>1, RowIsSet
    <3>2. TRUE \in BOOLEAN
      OBVIOUS
    <3> QED
      BY <2>1, <3>1, <3>2, Zenon
  <2>4. Len(runs') = Len(runs)
    BY <2>3 DEF Written
  <2>5. "job_status" \in HasRun \cup {"advance"} /\ proc[p].now <= proc[p].ended
    <3>1. "job_status" \in HasRun /\ proc[p].pc \in HasEnd
      BY <1>1 DEF HasRun, HasEnd
    <3> QED
      BY <3>1 DEF TicksInv, TickOK
  <2>6. PICK r : /\ proc' = [proc EXCEPT ![p] = r] /\ proc'[p] = r
                 /\ r.pc = "job_status" /\ r.run = k /\ r.left = proc[p].left /\ r.row = proc[p].row
                 /\ r.status = status
                 /\ TickOK(proc[p])' /\ FailuresOK'
    BY <1>1, <2>0, <2>1, <2>4, <2>5, GoesOn
  <2>7. RunOK(proc[p])'
    BY <1>1, <2>2, <2>3, <2>6 DEF RunOK, HasRun, Running, Written, Subject
  <2>8. RowSettled(k, r)
    BY <1>1, <2>2, <2>3, <2>6 DEF RowSettled, Written, Finished, Effective
  <2>9. runs[k].status \notin Finished
    BY <2>2 DEF Finished
  <2> QED
    BY <1>1, <2>0, <2>2, <2>3, <2>6, <2>7, <2>8, <2>9, WriteKeeps
<1> QED
  BY <1>2, <1>3

LEMMA FinishJobKeeps ==
    ASSUME TicksInv, WorldTypeOK', WorldMoves, NEW p \in Processes, FinishJob(p)
    PROVE  TicksInv'
<1>1. UNCHANGED <<byHand, notices, runtime, clock>> /\ proc[p].pc = "job_status" /\ proc[p].pc \in HasRun
  BY DEF FinishJob, world, At, HasRun
<1>2. CASE TickError(p) /\ UNCHANGED runs
  BY <1>1, <1>2, ErrorKeeps
<1>3. CASE ~(TickError(p) /\ UNCHANGED runs)
  <2>0. PICK k, status : k = proc[p].run /\ status = proc[p].status
    OBVIOUS
  <2>1. PICK job \in {"failed", "done"} :
           /\ SetRun(k, status, job, TRUE) /\ UNCHANGED failures
           /\ IF status = "cancelled" THEN NextSchedule(p) ELSE Goto(p, "advance")
    BY <1>3, <2>0 DEF FinishJob
  <2>2. /\ k \in DOMAIN runs /\ k # 0 /\ runs[k].status = status /\ runs \in Seq(Runs)
        /\ runs[k].kind = "schedule" /\ runs[k].schedule = Subject(p) /\ runs[k].window = proc[p].row.next
        /\ status \in Effective \cup {"cancelled"} /\ \E n \in notices : n.run = k
    BY <1>1, <2>0, AtRun, Counts DEF TicksInv, RunOK
  <2>3. Written(k, status, job, TRUE)
    <3>1. \A linked \in BOOLEAN : SetRun(k, status, job, linked) => Written(k, status, job, linked)
      <4>1. status \in Finished \cup {"running", "none"}
        BY <2>2 DEF Effective, Finished
      <4> QED
        BY <2>2, <4>1, RowIsSet
    <3>2. TRUE \in BOOLEAN
      OBVIOUS
    <3> QED
      BY <2>1, <3>1, <3>2, Zenon
  <2>4. Len(runs') = Len(runs) /\ Len(runs') \in Nat /\ Len(runs) <= Len(runs')
    BY <2>3, Counts DEF Written
  <2>5. \A r : RowSettled(k, r)
    BY <1>1, <2>2, <2>3 DEF RowSettled, Written, Finished, Effective
  <2>6. CASE status = "cancelled"
    <3>1. proc[p].pc \in AtSchedule /\ proc[p].pc # "out"
      BY <1>1 DEF AtSchedule, Due, HasRun
    <3>2. PICK r : /\ proc' = [proc EXCEPT ![p] = r] /\ r.pc = "read" /\ r.run = 0
                   /\ TickOK(proc[p])' /\ RunOK(proc[p])'
      BY <2>1, <2>4, <2>6, <3>1, LeavesSchedule
    <3>3. FailuresOK'
      BY <2>1, <3>1, <3>2, FailuresCounted
    <3> QED
      BY <1>1, <2>0, <2>2, <2>3, <2>5, <3>2, <3>3, WriteKeeps
  <2>7. CASE status # "cancelled"
    <3>1. "advance" \in HasRun \cup {"advance"} /\ proc[p].now <= proc[p].ended
      <4>1. proc[p].pc \in HasEnd
        BY <1>1 DEF HasEnd
      <4> QED
        BY <4>1 DEF TicksInv, TickOK
    <3>2. PICK r : /\ proc' = [proc EXCEPT ![p] = r] /\ proc'[p] = r
                   /\ r.pc = "advance" /\ r.run = k /\ r.left = proc[p].left /\ r.row = proc[p].row
                   /\ TickOK(proc[p])' /\ FailuresOK'
      BY <1>1, <2>0, <2>1, <2>4, <2>7, <3>1, GoesOn
    <3>3. RunOK(proc[p])'
      <4>1. /\ runs'[k].schedule = Head(r.left) /\ runs'[k].window = r.row.next /\ runs'[k].kind = "schedule"
            /\ runs'[k].status = status /\ runs'[k].job # "applying" /\ k \in DOMAIN runs'
        BY <2>2, <2>3, <3>2 DEF Written, Subject
      <4>2. status \in Effective /\ status \in Finished \ {"cancelled"}
        BY <2>2, <2>7 DEF Effective, Finished
      <4> QED
        BY <3>2, <4>1, <4>2 DEF RunOK, HasRun, Running
    <3>4. RowSettled(k, r) /\ r.run \in {0, k} /\ (runs[k].status \in Finished => status = runs[k].status)
      BY <2>2, <2>5, <3>2
    <3>5. FailuresOK' /\ TickOK(proc[p])' /\ RunOK(proc[p])' /\ proc' = [proc EXCEPT ![p] = r]
      BY <3>2, <3>3
    <3> QED
      BY <1>1, <2>0, <2>2, <2>3, <3>4, <3>5, WriteKeeps
  <2> QED
    BY <2>6, <2>7
<1> QED
  BY <1>2, <1>3

LEMMA AdvanceKeeps ==
    ASSUME TicksInv, WorldTypeOK', WorldMoves, NEW p \in Processes, Advance(p)
    PROVE  TicksInv'
<1>1. UNCHANGED <<byHand, notices, runs, clock>> /\ proc[p].pc = "advance"
  BY DEF Advance, world, At
<1>2. CASE TickError(p) /\ UNCHANGED runtime
  BY <1>1, <1>2, ErrorKeeps
<1>3. CASE ~(TickError(p) /\ UNCHANGED runtime)
  <2>1. PICK row : row = Advanced(Subject(p), proc[p].row, proc[p].ended)
    OBVIOUS
  <2>2. /\ runtime' = [runtime EXCEPT ![Subject(p)] = row] /\ UNCHANGED failures
        /\ NextSchedule(p)
    BY <1>3, <2>1 DEF Advance
  <2>3. Subject(p) \in Schedules /\ row \in Rows(Subject(p))
    <3>1. proc[p].left # <<>> /\ proc[p].row \in Rows(Subject(p)) /\ WorldTypeOK
      BY <1>1 DEF TicksInv, TickOK, AtSchedule, Due, Subject
    <3> QED
      BY <2>1, <3>1, Fields, AdvancedRow
  <2>4. proc[p].pc \in AtSchedule /\ Len(runs') \in Nat /\ Len(runs) <= Len(runs')
    BY <1>1, Counts DEF AtSchedule, Due
  <2>5. PICK r : /\ proc' = [proc EXCEPT ![p] = r] /\ r.pc = "read" /\ r.run = 0
                 /\ TickOK(proc[p])' /\ RunOK(proc[p])'
    BY <2>2, <2>4, LeavesSchedule
  <2>6. FailuresOK'
    BY <1>1, <2>2, <2>5, FailuresCounted
  <2>7. proc[p].run # 0 => runs[proc[p].run].status # "running" /\ runs[proc[p].run].job # "applying"
    BY <1>1 DEF TicksInv, RunOK, Effective
  <2> QED
    BY <1>1, <2>2, <2>3, <2>5, <2>6, <2>7, QuietKeeps
<1> QED
  BY <1>2, <1>3

LEMMA FinishTickKeeps ==
    ASSUME TicksInv, WorldTypeOK', WorldMoves, NEW p \in Processes, FinishTick(p)
    PROVE  TicksInv'
<1>1. UNCHANGED <<byHand, notices, runtime, runs>> /\ proc[p].pc = "read"
  BY DEF FinishTick, world, At
<1>2. CASE TickError(p)
  BY <1>1, <1>2, ErrorKeeps
<1>3. CASE EndTick(p, 0)
  <2>1. 0 \in 0..(failures + 1)
    BY Counts
  <2> QED
    BY <1>1, <1>3, <2>1, EndKeeps
<1> QED
  BY <1>2, <1>3 DEF FinishTick

LEMMA TickStepKeeps ==
    ASSUME TicksInv, WorldTypeOK', WorldMoves, NEW p \in Processes, TickStep(p)
    PROVE  TicksInv'
BY TickStartKeeps, ReadRuntimeKeeps, SaveRuntimeKeeps, CheckRunningKeeps, RecordSkipKeeps, CreateJobKeeps,
   CreateRunKeeps, DispatchKeeps, NotifyKeeps, FinishRunKeeps, FinishJobKeeps, AdvanceKeeps, FinishTickKeeps
   DEF TickStep

-----------------------------------------------------------------------------
(***************************************************************************)
(* The steps around the ticks.                                             *)
(***************************************************************************)
\* A process leaves, or comes back.
LEMMA AwayKeeps ==
    ASSUME TicksInv, WorldTypeOK', WorldMoves, UNCHANGED <<runs, notices, runtime>>, FailuresOK',
           NEW p \in Processes, NEW r \in {Idle, Gone}, proc' = [proc EXCEPT ![p] = r],
           byHand' \in {0, byHand},
           faults' # 0 \/ (byHand' = byHand /\ proc[p].run = 0)
    PROVE  TicksInv'
<1> USE DEF TicksInv
<1>1. /\ Len(runs) \in Nat /\ DOMAIN runs = 1..Len(runs) /\ runs \in Seq(Runs)
      /\ clock \in Nat /\ clock' \in Nat /\ clock <= clock'
  BY Counts, SchedulerAssumption DEF WorldTypeOK, WorldMoves
<1>2. r.run = 0 /\ TickOK(proc[p])' /\ RunOK(proc[p])'
  BY <1>1, NothingInMemory
<1>3. DOMAIN proc' = Processes /\ proc'[p] = r /\ \A q \in Processes \ {p} : proc'[q] = proc[q]
  OBVIOUS
<1>4. \A k : RowsStay(k)
  BY <1>1 DEF RowsStay
<1>5. \A q \in Processes : TickOK(proc[q])' /\ RunOK(proc[q])'
  <2>1. ASSUME NEW q \in Processes \ {p}
        PROVE  TickOK(proc[q])' /\ RunOK(proc[q])'
    BY <1>1, <1>3, <1>4, <2>1, OthersStay
  <2> QED
    BY <1>2, <2>1
<1>6. StoreTypeOK'
  <2>1. \A s : Rows(s) \subseteq Rows(s)'
    BY <1>1 DEF Rows
  <2> QED
    BY <1>1, <2>1 DEF StoreTypeOK
<1>7. WorkersDiffer'
  BY <1>2, <1>3 DEF WorkersDiffer
<1>8. DoneWasAnnounced'
  BY DEF DoneWasAnnounced
<1>9. NothingLeftBehind'
  <2>1. SUFFICES ASSUME faults' = 0, NEW i \in DOMAIN runs, runs[i].status = "running" \/ runs[i].job = "applying"
                 PROVE  WorkedOn(i)'
    BY DEF NothingLeftBehind
  <2>2. faults = 0
    BY <2>1 DEF WorldMoves, WorldTypeOK
  <2>3. WorkedOn(i) /\ i # 0
    BY <1>1, <2>1, <2>2 DEF NothingLeftBehind
  <2> QED
    BY <1>3, <2>1, <2>3 DEF WorkedOn
<1> QED
  BY <1>3, <1>5, <1>6, <1>7, <1>8, <1>9

\* A step of an agent started by hand, and of nobody.
LEMMA HandKeeps ==
    ASSUME TicksInv, WorldTypeOK', WorldMoves, UNCHANGED <<proc, notices, failures>>, StoreTypeOK',
           NEW k \in {0, byHand}, RowsStay(k), byHand' = byHand \/ k = byHand,
           \A i \in DOMAIN runs' : i = k \/ i \notin DOMAIN runs =>
              /\ runs'[i].kind = "by_hand"
              /\ \/ faults' # 0
                 \/ runs'[i].job # "applying" /\ (runs'[i].status = "running" => byHand' = i)
    PROVE  TicksInv'
<1> USE DEF TicksInv
<1>1. /\ Len(runs) \in Nat /\ DOMAIN runs = 1..Len(runs)
      /\ clock <= clock'
  BY Counts DEF WorldMoves
<1>2. \A q \in Processes : TickOK(proc[q])' /\ RunOK(proc[q])'
  <2>1. ASSUME NEW q \in Processes
        PROVE  TickOK(proc[q])' /\ RunOK(proc[q])'
    BY <1>1, HandsOff, OthersStay
  <2> QED
    BY <2>1
<1>3. WorkersDiffer' /\ FailuresOK'
  BY DEF WorkersDiffer, FailuresOK
<1>4. ASSUME NEW i \in DOMAIN runs, i # k
      PROVE  runs'[i] = runs[i]
  BY <1>1, <1>4 DEF RowsStay
<1>5. DoneWasAnnounced'
  <2>1. SUFFICES ASSUME NEW i \in DOMAIN runs', runs'[i].kind = "schedule",
                        runs'[i].status \in Finished \ {"skipped", "failed"}
                 PROVE  runs'[i].linked /\ \E n \in notices : n.run = i
    BY DEF DoneWasAnnounced
  <2>2. i \in DOMAIN runs /\ i # k
    BY <2>1
  <2> QED
    BY <1>4, <2>1, <2>2 DEF DoneWasAnnounced
<1>6. NothingLeftBehind'
  <2>1. SUFFICES ASSUME faults' = 0, NEW i \in DOMAIN runs', runs'[i].status = "running" \/ runs'[i].job = "applying"
                 PROVE  WorkedOn(i)'
    BY DEF NothingLeftBehind
  <2>2. faults = 0
    BY <2>1 DEF WorldMoves, WorldTypeOK
  <2>3. CASE i = k \/ i \notin DOMAIN runs
    BY <2>1, <2>3 DEF WorkedOn
  <2>4. CASE i # k /\ i \in DOMAIN runs
    <3>1. WorkedOn(i)
      BY <1>4, <2>1, <2>2, <2>4 DEF NothingLeftBehind
    <3> QED
      BY <2>4, <3>1 DEF WorkedOn
  <2> QED
    BY <2>3, <2>4
<1> QED
  BY <1>2, <1>3, <1>5, <1>6

LEMMA WorldKeeps ==
    ASSUME TicksInv, WorldTypeOK', WorldMoves, UNCHANGED <<runtime, runs, notices, proc, byHand, failures>>
    PROVE  TicksInv'
<1>1. Len(runs) \in Nat /\ DOMAIN runs = 1..Len(runs) /\ clock \in Nat /\ clock' \in Nat /\ clock <= clock'
  BY Counts, SchedulerAssumption DEF WorldTypeOK, WorldMoves
<1>2. RowsStay(0)
  BY <1>1 DEF RowsStay
<1>3. StoreTypeOK'
  <2>1. \A s : Rows(s) \subseteq Rows(s)'
    BY <1>1 DEF Rows
  <2> QED
    BY <2>1 DEF TicksInv, StoreTypeOK
<1>4. \A i \in DOMAIN runs' : ~(i = 0 \/ i \notin DOMAIN runs)
  BY <1>1
<1> QED
  BY <1>2, <1>3, <1>4, HandKeeps

LEMMA StartByHandKeeps ==
    ASSUME TicksInv, WorldTypeOK', WorldMoves, NEW s \in Present, StartByHand(s)
    PROVE  TicksInv'
<1>1. /\ UNCHANGED <<runtime, notices, proc, failures, clock>> /\ byHand = 0 /\ byHand' = Len(runs) + 1
      /\ runs' = Append(runs, NewRun(s, "by_hand", "running", Never, "none"))
  BY DEF StartByHand
<1>2. PICK row : row = NewRun(s, "by_hand", "running", Never, "none")
  OBVIOUS
<1>3. s \in Schedules
  BY ScenariosAssumption DEF TicksInv, WorldTypeOK, Present
<1>4. row \in Runs /\ row.kind = "by_hand" /\ row.status = "running" /\ row.job = "none"
  BY <1>2, <1>3, SchedulerAssumption DEF NewRun, Runs, Finished, Never
<1>5. runs \in Seq(Runs) /\ notices \subseteq [run : DOMAIN runs, kind : {"result", "error"}]
  BY DEF TicksInv, StoreTypeOK
<1>6. /\ runs' \in Seq(Runs) /\ Len(runs') = Len(runs) + 1
      /\ DOMAIN runs' = 1..(Len(runs) + 1) /\ DOMAIN runs = 1..Len(runs) /\ Len(runs) \in Nat
      /\ runs'[Len(runs) + 1] = row
      /\ \A i \in DOMAIN runs : runs'[i] = runs[i]
  BY <1>1, <1>2, <1>4, <1>5, RowIsAdded
<1>7. RowsStay(0)
  BY <1>1, <1>6 DEF RowsStay
<1>8. StoreTypeOK'
  <2>1. \A x : Rows(x) = Rows(x)'
    BY <1>1 DEF Rows
  <2>2. notices' \subseteq [run : DOMAIN runs', kind : {"result", "error"}]
    BY <1>1, <1>5, <1>6
  <2>3. byHand' \in 0..Len(runs') /\ runs'[byHand'] = row
    BY <1>1, <1>6
  <2> QED
    BY <1>1, <1>4, <1>6, <2>1, <2>2, <2>3 DEF TicksInv, StoreTypeOK
<1>9. ASSUME NEW i \in DOMAIN runs', i = 0 \/ i \notin DOMAIN runs
      PROVE  runs'[i] = row /\ i = byHand'
  BY <1>1, <1>6, <1>9
<1> QED
  BY <1>1, <1>4, <1>7, <1>8, <1>9, HandKeeps

LEMMA EndByHandKeeps ==
    ASSUME TicksInv, WorldTypeOK', WorldMoves, EndByHand
    PROVE  TicksInv'
<1>0. PICK k : k = byHand
  OBVIOUS
<1>1. UNCHANGED <<runtime, notices, proc, failures, clock>> /\ byHand # 0 /\ byHand' = 0
  BY DEF EndByHand
<1>2. /\ k \in DOMAIN runs /\ runs[k].kind = "by_hand" /\ runs[k].status = "running" /\ runs \in Seq(Runs)
      /\ DOMAIN runs = 1..Len(runs) /\ Len(runs) \in Nat
      /\ notices \subseteq [run : DOMAIN runs, kind : {"result", "error"}]
  BY <1>0, <1>1, Counts DEF TicksInv, StoreTypeOK
<1>3. \A x : Rows(x) = Rows(x)'
  BY <1>1 DEF Rows
<1>4. CASE UNCHANGED runs /\ Fault
  <2>1. RowsStay(k)
    BY <1>1, <1>2, <1>4 DEF RowsStay
  <2>2. StoreTypeOK'
    BY <1>1, <1>2, <1>3, <1>4 DEF TicksInv, StoreTypeOK
  <2>3. faults' # 0
    BY <1>4, Counts DEF Fault
  <2>4. \A i \in DOMAIN runs' : i = k \/ i \notin DOMAIN runs => runs'[i].kind = "by_hand"
    BY <1>2, <1>4
  <2> QED
    BY <1>0, <1>1, <2>1, <2>2, <2>3, <2>4, HandKeeps
<1>5. ASSUME NEW status \in Effective, SetRun(k, status, "none", FALSE)
      PROVE  TicksInv'
  <2>1. Written(k, status, "none", FALSE)
    <3>1. status \in Finished \cup {"running", "none"} /\ FALSE \in BOOLEAN
      BY DEF Effective, Finished
    <3>2. \A linked \in BOOLEAN : SetRun(k, status, "none", linked) => Written(k, status, "none", linked)
      BY <1>2, <3>1, RowIsSet
    <3> QED
      BY <1>5, <3>1, <3>2, Zenon
  <2>2. RowsStay(k)
    BY <1>1, <1>2, <2>1 DEF RowsStay, Written, Finished
  <2>3. StoreTypeOK'
    BY <1>1, <1>2, <1>3, <2>1 DEF TicksInv, StoreTypeOK, Written
  <2>4. \A i \in DOMAIN runs' : i = k \/ i \notin DOMAIN runs => i = k
    BY <2>1 DEF Written
  <2>5. runs'[k].kind = "by_hand" /\ runs'[k].job # "applying" /\ runs'[k].status # "running"
    BY <1>2, <2>1 DEF Written, Effective
  <2> QED
    BY <1>0, <1>1, <2>2, <2>3, <2>4, <2>5, HandKeeps
<1>6. config.outcomes \subseteq Effective
  BY ScenariosAssumption DEF TicksInv, WorldTypeOK, Effective
<1> QED
  BY <1>0, <1>4, <1>5, <1>6 DEF EndByHand

\* A process that is not in a tick has no run.
LEMMA NoRunOutside ==
    ASSUME TicksInv, NEW p \in Processes, proc[p].pc \in {"idle", "out", "read", "save", "check", "skip", "job"}
    PROVE  proc[p].run = 0
BY DEF TicksInv, RunOK, HasRun

LEMMA LeavingKeeps ==
    ASSUME TicksInv, WorldTypeOK', WorldMoves, Stop \/ Restart \/ \E p \in Processes : Crash(p)
    PROVE  TicksInv'
<1> USE SchedulerAssumption
<1>1. CASE Restart
  <2>1. /\ proc' = [proc EXCEPT ![Daemon] = Idle] /\ UNCHANGED <<runs, notices, runtime, byHand>>
        /\ failures' = 0 /\ proc[Daemon].run = 0 /\ Daemon \in Processes
    BY <1>1, NoRunOutside DEF Restart, Become, At, Processes
  <2>2. FailuresOK'
    BY <2>1 DEF FailuresOK
  <2> QED
    BY <2>1, <2>2, AwayKeeps
<1>2. CASE Stop
  <2>1. UNCHANGED <<runs, notices, runtime, byHand, failures>> /\ Daemon \in Processes
    BY <1>2 DEF Stop, Processes
  <2>2. CASE At(Daemon, "idle")
    <3>1. proc' = [proc EXCEPT ![Daemon] = Gone] /\ proc[Daemon].pc = "idle" /\ proc[Daemon].run = 0
      BY <1>2, <2>1, <2>2, NoRunOutside DEF Stop, At
    <3>2. FailuresOK'
      BY <2>1, <3>1, FailuresCounted
    <3> QED
      BY <2>1, <3>1, <3>2, AwayKeeps
  <2>3. CASE ~At(Daemon, "idle")
    BY <1>2, <2>1, <2>3, WorldKeeps DEF Stop
  <2> QED
    BY <2>2, <2>3
<1>3. ASSUME NEW p \in Processes, Crash(p)
      PROVE  TicksInv'
  <2>1. /\ UNCHANGED <<runs, notices, runtime, failures>> /\ byHand' \in {0, byHand}
        /\ \E r \in {Idle, Gone} : proc' = [proc EXCEPT ![p] = r] /\ (p = Daemon => r = Gone)
    BY <1>3 DEF Crash, Become
  <2>2. faults' # 0
    BY <1>3, Counts DEF Crash, Fault
  <2>3. FailuresOK'
    <3>1. CASE p = Daemon
      <4>1. proc'[Daemon].pc = "out"
        BY <2>1, <3>1 DEF Gone, Idle, TicksInv
      <4> QED
        BY <2>1, <4>1 DEF TicksInv, FailuresOK
    <3>2. CASE p # Daemon
      <4>1. proc'[Daemon] = proc[Daemon]
        BY <2>1, <3>2 DEF TicksInv, Processes
      <4> QED
        BY <2>1, <4>1 DEF TicksInv, FailuresOK
    <3> QED
      BY <3>1, <3>2
  <2> QED
    BY <2>1, <2>2, <2>3, AwayKeeps
<1> QED
  BY <1>1, <1>2, <1>3

LEMMA TicksNext == TicksInv /\ [Next]_vars => TicksInv'
<1> SUFFICES ASSUME TicksInv, [Next]_vars PROVE TicksInv'
  OBVIOUS
<1>1. WorldTypeOK' /\ WorldMoves
  BY WorldNext DEF TicksInv
<1>2. ASSUME NEW p \in Processes, TickStep(p)
      PROVE  TicksInv'
  BY <1>1, <1>2, TickStepKeeps
<1>3. ASSUME NEW s \in Present, StartByHand(s)
      PROVE  TicksInv'
  BY <1>1, <1>3, StartByHandKeeps
<1>4. ASSUME NEW s \in Present, EditFile(s) \/ \E value \in {"on", "off"} : SetScheduleEnabled(s, value)
      PROVE  TicksInv'
  <2>1. UNCHANGED <<runtime, runs, notices, proc, byHand, failures>>
    BY <1>4 DEF EditFile, SetScheduleEnabled
  <2> QED
    BY <1>1, <2>1, WorldKeeps
<1>5. CASE Tock \/ (\E i \in DOMAIN runs : AcceptRawCapture(i)) \/ UNCHANGED vars
  <2>1. UNCHANGED <<runtime, runs, notices, proc, byHand, failures>>
    BY <1>5 DEF Tock, AcceptRawCapture, vars
  <2> QED
    BY <1>1, <2>1, WorldKeeps
<1> QED
  BY <1>1, <1>2, <1>3, <1>4, <1>5, EndByHandKeeps, LeavingKeeps DEF Next

LEMMA TicksInit == Init => TicksInv
<1> SUFFICES ASSUME Init PROVE TicksInv
  OBVIOUS
<1> USE SchedulerAssumption
<1>1. WorldTypeOK
  <2>1. [hash |-> 1, enabled |-> TRUE] \in Declarations
    BY DEF Declarations
  <2>2. files \in [Schedules -> Declarations] /\ overrides \in [Schedules -> {"unset", "on", "off"}]
    BY <2>1 DEF Init
  <2>3. config \in Scenarios /\ clock = 0 /\ ticks = 0 /\ faults = 0
    BY DEF Init
  <2>4. cancelled \in BOOLEAN
    BY DEF Init
  <2> QED
    BY <2>2, <2>3, <2>4 DEF WorldTypeOK
<1>2. StoreTypeOK
  BY DEF Init, StoreTypeOK, Rows, NoRow, Never
<1>3. DOMAIN proc = Processes /\ \A p \in Processes : proc[p] = Idle
  BY DEF Init
<1>4. Idle \in Ticks /\ Idle.pc = "idle" /\ Idle.run = 0
  <2>1. Idle = [pc |-> "idle", left |-> <<>>, seen |-> NoRegistry, now |-> 0, row |-> NoRow,
                run |-> 0, status |-> "", ended |-> 0]
    BY DEF Idle
  <2>2. NoRow \in [hash : Nat, next : 0..Never, last : 0..Never]
    BY DEF NoRow, Never
  <2>3. /\ 0 \in 0..clock /\ 0 \in 0..Len(runs) /\ <<>> \in Seq(Schedules)
        /\ "idle" \in Ticking \cup {"idle", "out"} /\ "" \in Effective \cup {"cancelled", ""}
        /\ NoRegistry \in {NoRegistry} \cup [Schedules -> Declarations]
    BY DEF Init
  <2> QED
    BY <2>1, <2>2, <2>3 DEF Ticks
<1>5. \A p \in Processes : TickOK(proc[p]) /\ RunOK(proc[p])
  BY <1>3, <1>4 DEF TickOK, RunOK, Ticking, AtSchedule, Due, HasRun, HasEnd, Running
<1>6. WorkersDiffer /\ FailuresOK
  BY <1>3, <1>4 DEF WorkersDiffer, FailuresOK, Init
<1>7. DoneWasAnnounced /\ NothingLeftBehind
  BY DEF Init, DoneWasAnnounced, NothingLeftBehind
<1> QED
  BY <1>1, <1>2, <1>3, <1>5, <1>6, <1>7 DEF TicksInv

\* The rows that the processes write, whoever ticks (SaveSchedulerRuntime,
\* CreateSchedulerRun, FinishAgentRun, UpdateJobStatus).
THEOREM TicksInvariant == Spec => []TicksInv
<1>1. TicksInv /\ [Next]_vars => TicksInv'
  BY TicksNext
<1> QED
  BY <1>1, TicksInit, PTL DEF Spec

-----------------------------------------------------------------------------
(***************************************************************************)
(* One process ticks.                                                      *)
(***************************************************************************)
\* The attempts at a window are few enough after a step.
LEMMA Paid ==
    ASSUME TicksInv, TicksInv', WorldMoves, AttemptsArePaid, NEW k,
           NEW s \in Schedules, NEW w \in 0..MaxClock,
           \/ Attempts(s, w)' = {}
           \/ Attempts(s, w)' \subseteq Attempts(s, w) /\ (Passed(s, w)' \/ ~Passed(s, w) \/ faults' > faults)
           \/ Attempts(s, w)' \subseteq Attempts(s, w) \cup {k} /\ ~Passed(s, w) /\ (Passed(s, w)' \/ faults' > faults)
    PROVE  Cardinality(Attempts(s, w)') <= IF Passed(s, w)' THEN 1 + faults' ELSE faults'
<1>1. PICK A, B : A = Attempts(s, w) /\ B = Attempts(s, w)'
  OBVIOUS
<1>2. IsFiniteSet(A)
  <2>1. IsFiniteSet(1..Len(runs)) /\ A \subseteq 1..Len(runs)
    <3>1. Len(runs) \in Nat /\ DOMAIN runs = 1..Len(runs)
      BY Counts
    <3> QED
      BY <1>1, <3>1, FS_Interval DEF Attempts
  <2> QED
    BY <2>1, FS_Subset
<1>3. PICK P, Q \in BOOLEAN : (P <=> Passed(s, w)) /\ (Q <=> Passed(s, w)')
  OBVIOUS
<1>4. PICK f, g : f = faults /\ g = faults'
  OBVIOUS
<1>5. f \in Nat /\ g \in Nat /\ f <= g
  BY <1>4 DEF TicksInv, WorldTypeOK, WorldMoves
<1>6. Cardinality(A) \in Nat /\ Cardinality(A) <= IF P THEN 1 + f ELSE f
  BY <1>1, <1>2, <1>3, <1>4, FS_CardinalityType DEF AttemptsArePaid
<1>7. Cardinality({}) = 0
  BY FS_EmptySet
<1>8. B \subseteq A => Cardinality(B) \in Nat /\ Cardinality(B) <= Cardinality(A)
  BY <1>2, FS_Subset, FS_CardinalityType
<1>9. B \subseteq A \cup {k} => Cardinality(B) \in Nat /\ Cardinality(B) <= Cardinality(A) + 1
  <2>1. IsFiniteSet(A \cup {k}) /\ Cardinality(A \cup {k}) \in {Cardinality(A), Cardinality(A) + 1}
    BY <1>2, FS_AddElement
  <2>2. Cardinality(A \cup {k}) <= Cardinality(A) + 1 /\ Cardinality(A \cup {k}) \in Nat
    BY <1>6, <2>1
  <2>3. B \subseteq A \cup {k} => Cardinality(B) \in Nat /\ Cardinality(B) <= Cardinality(A \cup {k})
    BY <2>1, FS_Subset, FS_CardinalityType
  <2> QED
    BY <1>6, <2>2, <2>3
<1>10. \/ B = {}
       \/ B \subseteq A /\ (Q \/ ~P \/ g > f)
       \/ B \subseteq A \cup {k} /\ ~P /\ (Q \/ g > f)
  BY <1>1, <1>3, <1>4
<1>11. Cardinality(B) <= IF Q THEN 1 + g ELSE g
  BY <1>5, <1>6, <1>7, <1>8, <1>9, <1>10
<1> QED
  BY <1>1, <1>3, <1>4, <1>11

\* A step of the daemon, or around it, that leaves the schedules' rows: what
\* it may write to the row of a run, and how its tick may go on.
LEMMA AloneKeeps ==
    ASSUME TicksInv, TicksInv', WorldMoves, AloneInv, Alone, UNCHANGED runtime, proc'[Once].pc = "idle",
           NEW t, t = proc[Daemon], NEW u, u = proc'[Daemon],
           NEW k, k # 0 => t.pc \in Due /\ runs'[k].schedule = Head(t.left) /\ runs'[k].window = t.row.next,
           \A i \in DOMAIN runs' : i # k /\ runs'[i].kind = "schedule" => i \in DOMAIN runs /\ runs'[i] = runs[i],
           k \in DOMAIN runs' /\ runs'[k].status = "running" =>
              t.pc = "row" \/ (k \in DOMAIN runs /\ runs[k].status = "running" /\ runs[k].kind = "schedule"
                               /\ runs[k].schedule = Head(t.left)),
           u.pc \in {"job", "row"} => RunsOf(Head(u.left))' = {},
           k \in DOMAIN runs' /\ runs'[k].status \in Effective =>
              \/ /\ k \in DOMAIN runs /\ runs[k].status \in Effective /\ runs[k].kind = "schedule"
                 /\ runs[k].schedule = Head(t.left) /\ runs[k].window = t.row.next
              \/ /\ t.pc \in {"notify", "finish"}
                 /\ \/ faults' > faults
                    \/ /\ u.pc = "job_status" /\ u.status # "cancelled"
                       /\ Head(u.left) = Head(t.left) /\ u.row = t.row,
           t.pc = "advance" \/ (t.pc = "job_status" /\ t.status # "cancelled") =>
              \/ faults' > faults
              \/ (u.pc = "advance" \/ (u.pc = "job_status" /\ u.status # "cancelled"))
                 /\ Head(u.left) = Head(t.left) /\ u.row = t.row,
           u.pc \in Ticking => \/ t.pc \in Ticking /\ u.now = t.now /\ u.seen = t.seen
                               \/ u.now = clock',
           RowIsCurrent'
    PROVE  AloneInv'
<1>0. /\ RowIsCurrent /\ LastIsSeen /\ NextIsLater /\ NoOtherRun /\ RunsAreDue /\ AttemptsArePaid
      /\ proc[Once].pc = "idle"
  BY DEF AloneInv
<1>1. /\ Daemon \in Processes /\ clock \in Nat /\ clock' \in Nat /\ clock <= clock'
      /\ runs \in Seq(Runs) /\ runs' \in Seq(Runs)
  BY Counts, SchedulerAssumption DEF WorldMoves, Processes, TicksInv, StoreTypeOK, WorldTypeOK
<1>2. \A s \in Schedules : runtime[s] \in Rows(s) /\ runtime'[s] = runtime[s]
  BY DEF TicksInv, StoreTypeOK
<1>3. TickOK(t) /\ u \in Ticks' /\ t.now \in 0..clock /\ u.now \in 0..clock'
  <2>1. TickOK(proc[Daemon]) /\ TickOK(proc[Daemon])'
    BY <1>1 DEF TicksInv
  <2>2. t \in Ticks /\ u \in Ticks'
    BY <2>1 DEF TickOK
  <2> QED
    BY <2>1, <2>2 DEF Ticks
<1>4. LastIsSeen'
  <2>1. SUFFICES ASSUME u.pc \in Ticking, NEW s \in Schedules, runtime[s].last # Never, runtime[s].last > u.now
                 PROVE  runtime[s].hash = u.seen[s].hash
    BY DEF LastIsSeen, tick
  <2>2. CASE u.now = clock'
    <3>1. runtime[s].last \in 0..clock
      BY <1>2, <2>1 DEF Rows
    <3> QED
      BY <1>1, <2>1, <2>2, <3>1
  <2>3. CASE t.pc \in Ticking /\ u.now = t.now /\ u.seen = t.seen
    BY <1>0, <2>1, <2>3 DEF LastIsSeen, tick
  <2> QED
    BY <2>1, <2>2, <2>3
<1>5. NextIsLater'
  BY <1>0, <1>2 DEF NextIsLater, Alone
<1>6. NoOtherRun'
  <2>1. ASSUME NEW s \in Schedules, NEW i \in RunsOf(s)', NEW j \in RunsOf(s)'
        PROVE  i = j
    <3>1. ASSUME NEW x \in RunsOf(s)', x # k
          PROVE  x \in RunsOf(s)
      BY <3>1 DEF RunsOf, OfScheduler
    <3>2. ASSUME k \in RunsOf(s)', t.pc # "row", k # 0
          PROVE  k \in RunsOf(s)
      BY <3>2 DEF RunsOf, OfScheduler
    <3>3. 0 \notin RunsOf(s)'
      BY <1>1 DEF RunsOf
    <3>4. ASSUME k \in RunsOf(s)', t.pc = "row"
          PROVE  RunsOf(s) = {}
      <4>1. s = Head(t.left)
        BY <3>3, <3>4 DEF RunsOf
      <4> QED
        BY <1>0, <3>4, <4>1 DEF NoOtherRun, subject, tick
    <3> QED
      BY <1>0, <2>1, <3>1, <3>2, <3>3, <3>4 DEF NoOtherRun
  <2> QED
    BY <2>1 DEF NoOtherRun, subject, tick
<1>7. RunsAreDue'
  <2>1. SUFFICES ASSUME NEW i \in DOMAIN runs', runs'[i].kind = "schedule"
                 PROVE  /\ runs'[i].window <= (IF u.pc \in Ticking THEN u.now ELSE clock')
                        /\ runtime[runs'[i].schedule].hash # 0
    BY DEF RunsAreDue, OfScheduler, tick
  <2>2. /\ runs'[i].window <= (IF t.pc \in Ticking THEN t.now ELSE clock)
        /\ runtime[runs'[i].schedule].hash # 0
    <3>1. CASE i # k
      BY <1>0, <2>1, <3>1 DEF RunsAreDue, OfScheduler, tick
    <3>2. CASE i = k
      <4>1. t.pc \in Due /\ t.pc \in Ticking /\ t.pc \in AtSchedule
        BY <1>1, <2>1, <3>2 DEF Ticking, AtSchedule
      <4>2. t.row = runtime[Head(t.left)] /\ t.row.next <= t.now /\ t.row.hash = t.seen[Head(t.left)].hash
        BY <1>0, <1>3, <4>1 DEF RowIsCurrent, TickOK, tick, subject
      <4>3. t.row.hash # 0
        <5>1. Head(t.left) \in Schedules /\ t.seen \in [Schedules -> Declarations]
          <6>1. t.left # <<>> => Subject(Daemon) \in Schedules
            BY <1>1, Fields
          <6> QED
            BY <1>3, <4>1, <6>1 DEF TickOK, Subject
        <5> QED
          BY <4>2, <5>1 DEF Declarations
      <4> QED
        BY <1>1, <2>1, <3>2, <4>1, <4>2, <4>3
    <3> QED
      BY <3>1, <3>2
  <2>3. runs'[i].window \in 0..Never
    <3>1. runs'[i] \in Runs
      BY <1>1, <2>1
    <3> QED
      BY <3>1 DEF Runs
  <2>4. runs'[i].window \in Int
    BY <2>3, SchedulerAssumption DEF Never
  <2> QED
    BY <1>1, <1>3, <2>2, <2>4
<1>8. AttemptsArePaid'
  <2>1. ASSUME NEW s \in Schedules, NEW w \in 0..MaxClock
        PROVE  Cardinality(Attempts(s, w)') <= IF Passed(s, w)' THEN 1 + faults' ELSE faults'
    <3>1. Attempts(s, w)' \subseteq Attempts(s, w) \cup {k}
      BY DEF Attempts
    <3>2. Passed(s, w)' \/ ~Passed(s, w) \/ faults' > faults
      BY <1>2 DEF Passed, tick, subject
    <3>3. CASE k \in Attempts(s, w)' /\ k \notin Attempts(s, w)
      <4>1. /\ t.pc \in {"notify", "finish"} /\ s = Head(t.left) /\ w = t.row.next
            /\ \/ faults' > faults
               \/ /\ u.pc = "job_status" /\ u.status # "cancelled"
                  /\ Head(u.left) = Head(t.left) /\ u.row = t.row
        <5>1. k # 0 /\ k \in DOMAIN runs' /\ runs'[k].status \in Effective /\ s = runs'[k].schedule /\ w = runs'[k].window
          BY <1>1, <3>3 DEF Attempts
        <5> QED
          BY <3>3, <5>1 DEF Attempts
      <4>2. t.row = runtime[s]
        BY <1>0, <4>1 DEF RowIsCurrent, Due, HasRun, tick, subject
      <4>3. ~Passed(s, w)
        BY <4>1, <4>2 DEF Passed, tick
      <4>4. Passed(s, w)' \/ faults' > faults
        BY <4>1 DEF Passed, tick, subject
      <4> QED
        BY <1>0, <3>1, <4>3, <4>4, Paid
    <3>4. CASE ~(k \in Attempts(s, w)' /\ k \notin Attempts(s, w))
      <4>1. Attempts(s, w)' \subseteq Attempts(s, w)
        BY <3>1, <3>4
      <4> QED
        BY <1>0, <3>2, <4>1, Paid
    <3> QED
      BY <3>3, <3>4
  <2> QED
    BY <2>1 DEF AttemptsArePaid
<1> QED
  BY <1>4, <1>5, <1>6, <1>7, <1>8 DEF AloneInv

\* A step of the daemon that saves its schedule's row.
LEMMA AloneSaves ==
    ASSUME TicksInv, TicksInv', WorldMoves, AloneInv, Alone, UNCHANGED <<runs, faults, clock>>, proc'[Once].pc = "idle",
           NEW t, t = proc[Daemon], NEW u, u = proc'[Daemon], t.pc \in AtSchedule,
           NEW row, NEW sub, sub = Head(t.left), runtime' = [runtime EXCEPT ![sub] = row],
           u.pc \in {"check", "read"}, u.now = t.now, u.seen = t.seen,
           row.hash = t.seen[sub].hash,
           row.last # Never => row.next > row.last,
           row = runtime[sub] \/ row.next > t.now \/ runtime[sub].hash = 0,
           row = runtime[sub] => t.pc = "save",
           RowIsCurrent'
    PROVE  AloneInv'
<1>0. /\ RowIsCurrent /\ LastIsSeen /\ NextIsLater /\ NoOtherRun /\ RunsAreDue /\ AttemptsArePaid
      /\ proc[Once].pc = "idle"
  BY DEF AloneInv
<1>1. /\ Daemon \in Processes /\ t.pc \in Ticking /\ clock \in Nat /\ t.now \in 0..clock
      /\ sub \in Schedules /\ DOMAIN runtime = Schedules /\ row.hash # 0
  <2>1. Daemon \in Processes /\ t.pc \in Ticking
    BY DEF Processes, Ticking
  <2>2. t.left # <<>> /\ t.seen \in [Schedules -> Declarations]
    BY <2>1 DEF TicksInv, TickOK
  <2>3. sub \in Schedules
    BY <2>1, <2>2, Fields DEF Subject
  <2>4. row.hash # 0
    BY <2>2, <2>3 DEF Declarations
  <2> QED
    BY <2>1, <2>3, <2>4, Fields DEF TicksInv, StoreTypeOK
<1>2. runtime'[sub] = row /\ \A s \in Schedules : s # sub => runtime'[s] = runtime[s]
  BY <1>1
<1>3. LastIsSeen'
  BY <1>0, <1>1, <1>2 DEF LastIsSeen, tick
<1>4. NextIsLater'
  BY <1>0, <1>2 DEF NextIsLater, Alone
<1>5. NoOtherRun'
  BY <1>0 DEF NoOtherRun, RunsOf, OfScheduler, tick, subject
<1>6. RunsAreDue'
  <2>1. u.pc \in Ticking => u.now = t.now
    OBVIOUS
  <2>2. ASSUME NEW i \in DOMAIN runs, OfScheduler(i)
        PROVE  runs[i].window <= t.now /\ runtime'[runs[i].schedule].hash # 0
    <3>1. runs[i].window <= t.now /\ runtime[runs[i].schedule].hash # 0
      BY <1>0, <1>1, <2>2 DEF RunsAreDue, tick
    <3>2. runs[i].schedule \in Schedules
      <4>1. runs[i] \in Runs
        BY Counts
      <4> QED
        BY <4>1 DEF Runs
    <3> QED
      BY <1>1, <1>2, <3>1, <3>2
  <2>3. u.pc \in Ticking
    BY DEF Ticking, AtSchedule, Due
  <2> QED
    BY <2>2, <2>3 DEF RunsAreDue, OfScheduler, tick
<1>7. AttemptsArePaid'
  <2>1. ASSUME NEW s \in Schedules, NEW w \in 0..MaxClock
        PROVE  Cardinality(Attempts(s, w)') <= IF Passed(s, w)' THEN 1 + faults' ELSE faults'
    <3>1. Attempts(s, w)' = Attempts(s, w)
      BY DEF Attempts
    <3>2. CASE Attempts(s, w) = {}
      BY <1>0, <3>1, <3>2, Paid
    <3>3. CASE Attempts(s, w) # {} /\ s # sub
      <4>1. Passed(s, w) => Passed(s, w)'
        BY <1>2, <3>3 DEF Passed, tick, subject
      <4> QED
        BY <1>0, <3>1, <4>1, Paid
    <3>4. CASE Attempts(s, w) # {} /\ s = sub
      <4>1. w <= t.now /\ runtime[s].hash # 0
        BY <1>0, <1>1, <3>4 DEF Attempts, RunsAreDue, OfScheduler, tick
      <4>2. CASE row = runtime[sub]
        <5>1. Passed(s, w) => Passed(s, w)'
          BY <1>2, <3>4, <4>2 DEF Passed, tick
        <5> QED
          BY <1>0, <3>1, <5>1, Paid
      <4>3. CASE row.next > t.now
        <5>1. row.next \in Int
          <6>1. runtime'[sub] \in Rows(sub)' /\ MaxClock \in Nat /\ Windows[sub] \in SUBSET (0..MaxClock)
            BY <1>1, SchedulerAssumption DEF TicksInv, StoreTypeOK
          <6> QED
            BY <1>2, <6>1 DEF Rows, Never
        <5>2. Passed(s, w)'
          BY <1>1, <1>2, <3>4, <4>1, <4>3, <5>1 DEF Passed
        <5> QED
          BY <1>0, <3>1, <5>2, Paid
      <4> QED
        BY <3>4, <4>1, <4>2, <4>3
    <3> QED
      BY <3>2, <3>3, <3>4
  <2> QED
    BY <2>1 DEF AttemptsArePaid
<1> QED
  BY <1>3, <1>4, <1>5, <1>6, <1>7 DEF AloneInv

\* Only the daemon's own steps move its tick.
LEMMA DaemonMoves ==
    ASSUME TicksInv, AloneInv, Alone, NEW r, proc' = [proc EXCEPT ![Daemon] = r]
    PROVE  proc'[Daemon] = r /\ proc'[Once].pc = "idle"
BY SchedulerAssumption DEF TicksInv, AloneInv, Processes

LEMMA Went ==
    ASSUME TicksInv, AloneInv, Alone, NEW label, Goto(Daemon, label)
    PROVE  /\ proc'[Once].pc = "idle" /\ proc'[Daemon].pc = label
           /\ proc'[Daemon].left = proc[Daemon].left /\ proc'[Daemon].seen = proc[Daemon].seen
           /\ proc'[Daemon].now = proc[Daemon].now /\ proc'[Daemon].row = proc[Daemon].row
           /\ proc'[Daemon].status = proc[Daemon].status
<1>1. PICK r : r = [proc[Daemon] EXCEPT !.pc = label]
  OBVIOUS
<1>2. proc'[Daemon] = r /\ proc'[Once].pc = "idle"
  BY <1>1, DaemonMoves DEF Goto, Become
<1>3. proc[Daemon] \in Ticks
  BY Fields DEF Processes
<1>4. /\ r.pc = label /\ r.left = proc[Daemon].left /\ r.seen = proc[Daemon].seen
      /\ r.now = proc[Daemon].now /\ r.row = proc[Daemon].row /\ r.status = proc[Daemon].status
  BY <1>1, <1>3 DEF Ticks
<1> QED
  BY <1>2, <1>4

LEMMA WentOn ==
    ASSUME TicksInv, AloneInv, Alone, NextSchedule(Daemon)
    PROVE  /\ proc'[Once].pc = "idle" /\ proc'[Daemon].pc = "read"
           /\ proc'[Daemon].seen = proc[Daemon].seen /\ proc'[Daemon].now = proc[Daemon].now
<1>1. PICK r : r = [Idle EXCEPT !.pc = "read", !.left = Tail(proc[Daemon].left), !.seen = proc[Daemon].seen,
                                !.now = proc[Daemon].now]
  OBVIOUS
<1>2. proc'[Daemon] = r /\ proc'[Once].pc = "idle"
  BY <1>1, DaemonMoves DEF NextSchedule, Become
<1> QED
  BY <1>1, <1>2 DEF Idle

\* The tick is over, whether or not a statement failed.
LEMMA AloneEnds ==
    ASSUME TicksInv, TicksInv', WorldMoves, AloneInv, Alone, UNCHANGED runtime,
           NEW r \in {Idle, Gone}, proc' = [proc EXCEPT ![Daemon] = r],
           faults' > faults \/ proc[Daemon].pc \in {"idle", "out", "read"},
           NEW k \in {0, proc[Daemon].run},
           k = 0 => \A i \in DOMAIN runs' : runs'[i].kind = "schedule" => i \in DOMAIN runs /\ runs'[i] = runs[i],
           k # 0 => /\ proc[Daemon].pc \in {"row", "notify", "finish"}
                    /\ \E status \in {"none", "running", "failed"}, job \in {"failed", "applying"} :
                          /\ Written(k, status, job, FALSE)
                          /\ status = "failed" => proc[Daemon].pc = "notify" /\ faults' > faults
    PROVE  AloneInv'
<1>1. PICK t, u : t = proc[Daemon] /\ u = proc'[Daemon]
  OBVIOUS
<1>2. u = r /\ proc'[Once].pc = "idle"
  BY <1>1, DaemonMoves
<1>3. u.pc \in {"idle", "out"}
  <2>1. Idle.pc = "idle"
    BY DEF Idle
  <2>2. Gone.pc = "out"
    BY DEF Idle, Gone
  <2> QED
    BY <1>2, <2>1, <2>2
<1>4. RowIsCurrent'
  BY <1>1, <1>3 DEF RowIsCurrent, tick, Due, HasRun
<1>5. u.pc \notin Ticking /\ u.pc \notin {"job", "row"}
  BY <1>3 DEF Ticking, AtSchedule, Due, HasRun
<1>6. Daemon \in Processes
  BY DEF Processes
<1>7. CASE k = 0
  <2>1. 0 \notin DOMAIN runs'
    <3>1. runs' \in Seq(Runs)
      BY DEF TicksInv, StoreTypeOK
    <3> QED
      BY <3>1
  <2>2. \A i \in DOMAIN runs' : i # 0 /\ runs'[i].kind = "schedule" => i \in DOMAIN runs /\ runs'[i] = runs[i]
    BY <1>7
  <2>3. t.pc = "advance" \/ (t.pc = "job_status" /\ t.status # "cancelled") => faults' > faults
    BY <1>1
  <2> QED
    BY <1>1, <1>2, <1>4, <1>5, <2>1, <2>2, <2>3, AloneKeeps
<1>8. CASE k # 0
  <2>1. PICK status \in {"none", "running", "failed"}, job \in {"failed", "applying"} :
           /\ Written(k, status, job, FALSE)
           /\ status = "failed" => proc[Daemon].pc = "notify" /\ faults' > faults
    BY <1>8
  <2>2. /\ t.pc \in {"row", "notify", "finish"} /\ t.pc \in HasRun /\ t.pc \in Due /\ k = t.run
    BY <1>1, <1>8 DEF HasRun, Due
  <2>3. /\ k \in DOMAIN runs /\ runs[k].kind = "schedule" /\ runs[k].schedule = Head(t.left)
        /\ runs[k].window = t.row.next /\ (t.pc # "row" => runs[k].status = "running")
    <3>1. t.pc # "row" => t.pc \in Running
      BY <2>2 DEF Running
    <3>2. t.pc \in Running => runs[k].status = "running"
      BY <1>1, <1>6, <2>2 DEF TicksInv, RunOK
    <3> QED
      BY <1>1, <1>6, <2>2, <3>1, <3>2, AtRun DEF Subject
  <2>4. /\ runs'[k].schedule = Head(t.left) /\ runs'[k].window = t.row.next
        /\ \A i \in DOMAIN runs' : i # k => i \in DOMAIN runs /\ runs'[i] = runs[i]
        /\ runs'[k].status = status
    BY <2>1, <2>3 DEF Written
  <2>5. runs'[k].status \in Effective => t.pc = "notify" /\ faults' > faults
    BY <1>1, <2>1, <2>4 DEF Effective
  <2>6. runs'[k].status = "running" => t.pc = "row" \/ runs[k].status = "running"
    BY <2>3
  <2> QED
    BY <1>1, <1>2, <1>4, <1>5, <2>2, <2>3, <2>4, <2>5, <2>6, AloneKeeps
<1> QED
  BY <1>7, <1>8

\* A statement of the daemon's tick failed.
LEMMA AloneErrors ==
    ASSUME TicksInv, TicksInv', WorldMoves, AloneInv, Alone, UNCHANGED runtime, TickError(Daemon),
           \/ UNCHANGED runs
           \/ /\ proc[Daemon].pc \in {"row", "notify", "finish"}
              /\ \E status \in {"none", "running", "failed"}, job \in {"failed", "applying"} :
                    /\ SetRun(proc[Daemon].run, status, job, FALSE)
                    /\ status = "failed" => proc[Daemon].pc = "notify"
    PROVE  AloneInv'
<1>1. PICK r \in {Idle, Gone} : proc' = [proc EXCEPT ![Daemon] = r]
  BY DEF TickError, EndTick, Become
<1>2. faults' > faults
  BY Counts DEF TickError, Fault
<1>3. CASE UNCHANGED runs
  BY <1>1, <1>2, <1>3, AloneEnds
<1>4. CASE ~UNCHANGED runs
  <2>1. PICK k : k = proc[Daemon].run
    OBVIOUS
  <2>2. PICK status \in {"none", "running", "failed"}, job \in {"failed", "applying"} :
           /\ SetRun(k, status, job, FALSE)
           /\ status = "failed" => proc[Daemon].pc = "notify"
    BY <1>4, <2>1
  <2>3. proc[Daemon].pc \in {"row", "notify", "finish"} /\ proc[Daemon].pc \in HasRun /\ Daemon \in Processes
    BY <1>4 DEF HasRun, Processes
  <2>4. k \in DOMAIN runs /\ k # 0 /\ runs \in Seq(Runs)
    BY <2>1, <2>3, AtRun, Counts
  <2>5. Written(k, status, job, FALSE)
    <3>1. status \in Finished \cup {"running", "none"} /\ FALSE \in BOOLEAN
          /\ job \in {"none", "applying", "done", "failed"}
      BY DEF Finished
    <3>2. \A linked \in BOOLEAN : SetRun(k, status, job, linked) => Written(k, status, job, linked)
      BY <2>4, <3>1, RowIsSet
    <3> QED
      BY <2>2, <3>1, <3>2, Zenon
  <2> QED
    BY <1>1, <1>2, <2>1, <2>2, <2>3, <2>4, <2>5, AloneEnds
<1> QED
  BY <1>3, <1>4

LEMMA AloneStarts ==
    ASSUME TicksInv, TicksInv', WorldMoves, AloneInv, Alone, TickStart(Daemon)
    PROVE  AloneInv'
<1>1. UNCHANGED <<runtime, runs, clock>> /\ proc[Daemon].pc = "idle"
  BY DEF TickStart, world, At
<1>2. CASE TickError(Daemon)
  BY <1>1, <1>2, AloneErrors
<1>3. CASE ~TickError(Daemon)
  <2>1. PICK r : r = [Idle EXCEPT !.pc = "read", !.left = config.registry, !.seen = Declared, !.now = clock]
    OBVIOUS
  <2>2. proc' = [proc EXCEPT ![Daemon] = r]
    BY <1>3, <2>1 DEF TickStart, Become
  <2>3. PICK t, u : t = proc[Daemon] /\ u = proc'[Daemon]
    OBVIOUS
  <2>4. proc'[Once].pc = "idle" /\ u.pc = "read" /\ u.now = clock' /\ t.pc = "idle"
    BY <1>1, <2>1, <2>2, <2>3, DaemonMoves DEF Idle
  <2>5. RowIsCurrent'
    BY <2>3, <2>4 DEF RowIsCurrent, tick, Due, HasRun
  <2>6. 0 \notin DOMAIN runs'
    <3>1. runs' \in Seq(Runs)
      BY DEF TicksInv, StoreTypeOK
    <3> QED
      BY <3>1
  <2> QED
    BY <1>1, <2>3, <2>4, <2>5, <2>6, AloneKeeps
<1> QED
  BY <1>2, <1>3

LEMMA AloneReads ==
    ASSUME TicksInv, TicksInv', WorldMoves, AloneInv, Alone, ReadRuntime(Daemon)
    PROVE  AloneInv'
<1>1. UNCHANGED <<runtime, runs, clock>> /\ proc[Daemon].pc = "read"
  BY DEF ReadRuntime, world, At
<1>2. CASE TickError(Daemon)
  BY <1>1, <1>2, AloneErrors
<1>3. CASE EndTick(Daemon, failures + 1)
  <2>1. PICK r \in {Idle, Gone} : proc' = [proc EXCEPT ![Daemon] = r]
    BY <1>3 DEF EndTick, Become
  <2> QED
    BY <1>1, <2>1, AloneEnds
<1>4. CASE ~TickError(Daemon) /\ ~EndTick(Daemon, failures + 1)
  <2>1. PICK row : row = Reconciled(Subject(Daemon), proc[Daemon].seen[Subject(Daemon)], runtime[Subject(Daemon)], proc[Daemon].now)
    OBVIOUS
  <2>2. PICK r : r = [proc[Daemon] EXCEPT !.pc = "save", !.row = row]
    OBVIOUS
  <2>3. proc' = [proc EXCEPT ![Daemon] = r]
    BY <1>4, <2>1, <2>2 DEF ReadRuntime, Become
  <2>4. PICK t, u : t = proc[Daemon] /\ u = proc'[Daemon]
    OBVIOUS
  <2>5. /\ proc'[Once].pc = "idle" /\ u.pc = "save" /\ u.now = t.now /\ u.seen = t.seen /\ u.left = t.left
        /\ u.row = row /\ t.pc = "read"
    <3>1. t \in Ticks
      BY <2>4, Fields DEF Processes
    <3>2. u = r /\ proc'[Once].pc = "idle"
      BY <2>3, <2>4, DaemonMoves
    <3> QED
      BY <1>1, <2>2, <2>4, <3>1, <3>2 DEF Ticks
  <2>6. RowIsCurrent'
    <3>1. u.row = Reconciled(Head(u.left), u.seen[Head(u.left)], runtime'[Head(u.left)], u.now)
      BY <1>1, <2>1, <2>4, <2>5 DEF Subject, Reconciled
    <3>2. (tick.pc = "save" => tick.row = Reconciled(subject, tick.seen[subject], runtime[subject], tick.now))'
      BY <2>4, <3>1, SMTT(30) DEF tick, subject, Reconciled, FirstWindow, NextAfter
    <3>3. ~(tick.pc \in Due)'
      BY <2>4, <2>5 DEF tick, Due, HasRun
    <3> QED
      BY <3>2, <3>3 DEF RowIsCurrent
  <2>7. 0 \notin DOMAIN runs'
    <3>1. runs' \in Seq(Runs)
      BY DEF TicksInv, StoreTypeOK
    <3> QED
      BY <3>1
  <2>8. t.pc \in Ticking
    BY <2>5 DEF Ticking
  <2> QED
    BY <1>1, <2>4, <2>5, <2>6, <2>7, <2>8, AloneKeeps
<1> QED
  BY <1>2, <1>3, <1>4

\* What reconcileSchedule makes of the row in the store.
LEMMA ReconciledLater ==
    ASSUME TicksInv, AloneInv, Alone, proc[Daemon].pc = "save",
           NEW t, t = proc[Daemon], NEW s, s = Head(t.left)
    PROVE  /\ t.row.hash = t.seen[s].hash
           /\ t.row.last # Never => t.row.next > t.row.last
           /\ t.row = runtime[s] \/ t.row.next > t.now \/ runtime[s].hash = 0
           /\ t.row = runtime[s] \/ t.row.hash # runtime[s].hash
           /\ s \in Schedules /\ t.now \in 0..clock
<1>0. /\ RowIsCurrent /\ LastIsSeen /\ NextIsLater
  BY DEF AloneInv
<1>1. Daemon \in Processes /\ t.pc \in AtSchedule /\ t.pc \in Ticking
  BY DEF Processes, AtSchedule, Ticking
<1>2. t.left # <<>> /\ t.row.hash = t.seen[s].hash /\ t.seen \in [Schedules -> Declarations]
  BY <1>1 DEF TicksInv, TickOK
<1>3. s \in Schedules /\ t.now \in 0..clock /\ clock \in Nat
  BY <1>1, <1>2, Fields DEF Subject
<1>4. t.row = Reconciled(s, t.seen[s], runtime[s], t.now)
  BY <1>0 DEF RowIsCurrent, tick, subject
<1>5. runtime[s] \in Rows(s) /\ t.now \in 0..MaxClock /\ MaxClock \in Nat /\ t.seen[s].hash # 0
  BY <1>2, <1>3, SchedulerAssumption DEF TicksInv, StoreTypeOK, WorldTypeOK, Declarations
<1>6. NextAfter(s, t.now) > t.now /\ NextAfter(s, t.now) \in Windows[s] \cup {Never} /\ Windows[s] \subseteq 0..MaxClock
  BY <1>3, <1>5, Occurrences
<1>7. runtime[s].last # Never /\ runtime[s].last > t.now => runtime[s].hash = t.seen[s].hash
  BY <1>0, <1>1, <1>3 DEF LastIsSeen, tick
<1>8. runtime[s].last # Never => runtime[s].next > runtime[s].last
  BY <1>0, <1>3 DEF NextIsLater
<1>9. CASE runtime[s] = NoRow
  BY <1>2, <1>3, <1>4, <1>5, <1>9 DEF Reconciled, NoRow
<1>10. CASE runtime[s] # NoRow /\ runtime[s].hash = t.seen[s].hash
  BY <1>2, <1>3, <1>4, <1>8, <1>10 DEF Reconciled
<1>11. CASE runtime[s] # NoRow /\ runtime[s].hash # t.seen[s].hash
  <2>1. t.row.next = NextAfter(s, t.now) /\ t.row.last = runtime[s].last
    BY <1>4, <1>5, <1>11 DEF Reconciled, Rows
  <2>2. runtime[s].last # Never => runtime[s].last <= t.now
    <3>1. runtime[s].last # Never => runtime[s].last \in 0..clock
      BY <1>5 DEF Rows
    <3> QED
      BY <1>3, <1>7, <1>11, <3>1
  <2>3. runtime[s].last # Never => runtime[s].last \in Int
    BY <1>3, <1>5 DEF Rows
  <2>4. t.row.next \in Int /\ t.now \in Int
    BY <1>3, <1>5, <1>6, <2>1 DEF Never
  <2> QED
    BY <1>2, <1>3, <1>6, <1>11, <2>1, <2>2, <2>3, <2>4
<1> QED
  BY <1>9, <1>10, <1>11

LEMMA AloneSavesRow ==
    ASSUME TicksInv, TicksInv', WorldMoves, AloneInv, Alone, SaveRuntime(Daemon)
    PROVE  AloneInv'
<1>1. UNCHANGED <<runs, clock>> /\ proc[Daemon].pc = "save"
  BY DEF SaveRuntime, world, At
<1>2. CASE TickError(Daemon) /\ UNCHANGED runtime
  BY <1>1, <1>2, AloneErrors
<1>3. CASE ~(TickError(Daemon) /\ UNCHANGED runtime)
  <2>1. PICK t, u, sub : t = proc[Daemon] /\ u = proc'[Daemon] /\ sub = Head(t.left)
    OBVIOUS
  <2>2. /\ runtime' = [runtime EXCEPT ![sub] = t.row] /\ UNCHANGED faults
        /\ NextSchedule(Daemon) \/ Goto(Daemon, "check")
    BY <1>3, <2>1 DEF SaveRuntime, Subject, NoFault
  <2>3. /\ proc'[Once].pc = "idle" /\ u.pc \in {"check", "read"} /\ u.now = t.now /\ u.seen = t.seen
        /\ u.pc = "check" => u.left = t.left /\ u.row = t.row
    BY <2>1, <2>2, Went, WentOn
  <2>4. /\ t.row.hash = t.seen[sub].hash
        /\ t.row.last # Never => t.row.next > t.row.last
        /\ t.row = runtime[sub] \/ t.row.next > t.now \/ runtime[sub].hash = 0
        /\ sub \in Schedules
    BY <1>1, <2>1, ReconciledLater
  <2>5. runtime'[sub] = t.row
    BY <2>2, <2>4 DEF TicksInv, StoreTypeOK
  <2>6. RowIsCurrent'
    BY <2>1, <2>3, <2>5 DEF RowIsCurrent, tick, subject, Due, HasRun
  <2>7. t.pc \in AtSchedule /\ t.pc = "save"
    BY <1>1, <2>1 DEF AtSchedule
  <2> QED
    BY <1>1, <2>1, <2>2, <2>3, <2>4, <2>6, <2>7, AloneSaves
<1> QED
  BY <1>2, <1>3

\* The daemon's tick at a schedule that is due.
LEMMA AtDue ==
    ASSUME TicksInv, AloneInv, Alone, NEW t, t = proc[Daemon], t.pc \in Due
    PROVE  /\ t.row = runtime[Head(t.left)] /\ Head(t.left) \in Schedules /\ t.pc \in Ticking /\ t.pc \in AtSchedule
           /\ t.left # <<>> /\ t.row.next <= t.now /\ t.row \in Rows(Head(t.left))
           /\ t.row.hash = t.seen[Head(t.left)].hash
           /\ Daemon \in Processes
<1>1. Daemon \in Processes /\ t.pc \in AtSchedule /\ t.pc \in Ticking
  BY DEF Processes, AtSchedule, Ticking
<1>2. TickOK(t)
  BY <1>1 DEF TicksInv
<1>3. Head(t.left) \in Schedules
  BY <1>1, <1>2, Fields DEF TickOK, Subject
<1> QED
  BY <1>1, <1>2, <1>3 DEF TickOK, AloneInv, RowIsCurrent, tick, subject

\* A step of the daemon that stays at a schedule that is due and writes no run.
LEMMA AloneWaits ==
    ASSUME TicksInv, TicksInv', WorldMoves, AloneInv, Alone, UNCHANGED <<runtime, runs>>, proc'[Once].pc = "idle",
           NEW t, t = proc[Daemon], NEW u, u = proc'[Daemon],
           t.pc \in Due \ {"advance", "job_status"}, u.pc \in Due,
           u.left = t.left, u.seen = t.seen, u.now = t.now, u.row = t.row,
           u.pc \in {"job", "row"} => RunsOf(Head(t.left)) = {}
    PROVE  AloneInv'
<1>1. t.row = runtime[Head(t.left)] /\ t.pc \in Ticking
  BY AtDue
<1>2. RowIsCurrent'
  BY <1>1 DEF RowIsCurrent, tick, subject, Due, HasRun
<1>3. 0 \notin DOMAIN runs'
  <2>1. runs' \in Seq(Runs)
    BY DEF TicksInv, StoreTypeOK
  <2> QED
    BY <2>1
<1>4. u.pc \in {"job", "row"} => RunsOf(Head(u.left))' = {}
  BY DEF RunsOf, OfScheduler
<1> QED
  BY <1>1, <1>2, <1>3, <1>4, AloneKeeps

LEMMA AloneChecks ==
    ASSUME TicksInv, TicksInv', WorldMoves, AloneInv, Alone, CheckRunning(Daemon)
    PROVE  AloneInv'
<1>1. UNCHANGED <<runtime, runs, clock>> /\ proc[Daemon].pc = "check"
  BY DEF CheckRunning, world, At
<1>2. CASE TickError(Daemon)
  BY <1>1, <1>2, AloneErrors
<1>3. CASE ~TickError(Daemon)
  <2>1. PICK t, u : t = proc[Daemon] /\ u = proc'[Daemon]
    OBVIOUS
  <2>2. PICK label : label = (IF HasRunning(Subject(Daemon)) THEN "skip" ELSE "job")
    OBVIOUS
  <2>3. Goto(Daemon, label)
    BY <1>3, <2>2 DEF CheckRunning
  <2>4. /\ proc'[Once].pc = "idle" /\ u.pc = label /\ u.now = t.now /\ u.seen = t.seen
        /\ u.left = t.left /\ u.row = t.row
    BY <2>1, <2>3, Went
  <2>5. label \in Due /\ label # "row" /\ t.pc \in Due \ {"advance", "job_status"}
    BY <1>1, <2>1, <2>2 DEF Due, HasRun
  <2>6. label = "job" => RunsOf(Head(t.left)) = {}
    BY <2>1, <2>2 DEF RunsOf, OfScheduler, HasRunning, Subject
  <2> QED
    BY <1>1, <2>1, <2>4, <2>5, <2>6, AloneWaits
<1> QED
  BY <1>2, <1>3

LEMMA AloneDispatches ==
    ASSUME TicksInv, TicksInv', WorldMoves, AloneInv, Alone, Dispatch(Daemon)
    PROVE  AloneInv'
<1>1. UNCHANGED <<runtime, runs, clock>> /\ proc[Daemon].pc = "dispatch"
  BY DEF Dispatch, world, At
<1>2. PICK status : Become(Daemon, [proc[Daemon] EXCEPT !.pc = "notify", !.status = status, !.ended = clock])
  BY DEF Dispatch
<1>3. PICK t, u : t = proc[Daemon] /\ u = proc'[Daemon]
  OBVIOUS
<1>4. /\ proc'[Once].pc = "idle" /\ u.pc = "notify" /\ u.now = t.now /\ u.seen = t.seen
      /\ u.left = t.left /\ u.row = t.row
  <2>1. PICK r : r = [t EXCEPT !.pc = "notify", !.status = status, !.ended = clock]
    OBVIOUS
  <2>2. t \in Ticks
    BY <1>3, Fields DEF Processes
  <2>3. u = r /\ proc'[Once].pc = "idle"
    BY <1>2, <1>3, <2>1, DaemonMoves DEF Become
  <2> QED
    BY <2>1, <2>2, <2>3 DEF Ticks
<1>5. "notify" \in Due /\ t.pc \in Due \ {"advance", "job_status"}
  BY <1>1, <1>3 DEF Due, HasRun
<1> QED
  BY <1>1, <1>3, <1>4, <1>5, AloneWaits

LEMMA AloneNotifies ==
    ASSUME TicksInv, TicksInv', WorldMoves, AloneInv, Alone, Notify(Daemon)
    PROVE  AloneInv'
<1>1. UNCHANGED <<runtime, clock>> /\ proc[Daemon].pc = "notify"
  BY DEF Notify, world, At
<1>2. CASE /\ TickError(Daemon)
           /\ \E status \in {"failed", "running"}, job \in {"failed", "applying"} :
                 SetRun(proc[Daemon].run, status, job, FALSE)
  BY <1>1, <1>2, AloneErrors
<1>3. CASE UNCHANGED runs /\ Goto(Daemon, "finish")
  <2>1. PICK t, u : t = proc[Daemon] /\ u = proc'[Daemon]
    OBVIOUS
  <2>2. /\ proc'[Once].pc = "idle" /\ u.pc = "finish" /\ u.now = t.now /\ u.seen = t.seen
        /\ u.left = t.left /\ u.row = t.row
    BY <1>3, <2>1, Went
  <2>3. "finish" \in Due /\ t.pc \in Due \ {"advance", "job_status"}
    BY <1>1, <2>1 DEF Due, HasRun
  <2> QED
    BY <1>1, <1>3, <2>1, <2>2, <2>3, AloneWaits
<1> QED
  BY <1>2, <1>3 DEF Notify

LEMMA AloneFinishes ==
    ASSUME TicksInv, TicksInv', WorldMoves, AloneInv, Alone, FinishTick(Daemon)
    PROVE  AloneInv'
<1>1. UNCHANGED <<runtime, runs, clock>> /\ proc[Daemon].pc = "read"
  BY DEF FinishTick, world, At
<1>2. CASE TickError(Daemon)
  BY <1>1, <1>2, AloneErrors
<1>3. CASE EndTick(Daemon, 0)
  <2>1. PICK r \in {Idle, Gone} : proc' = [proc EXCEPT ![Daemon] = r]
    BY <1>3 DEF EndTick, Become
  <2> QED
    BY <1>1, <2>1, AloneEnds
<1> QED
  BY <1>2, <1>3 DEF FinishTick

LEMMA AloneAdvances ==
    ASSUME TicksInv, TicksInv', WorldMoves, AloneInv, Alone, Advance(Daemon)
    PROVE  AloneInv'
<1>1. UNCHANGED <<runs, clock>> /\ proc[Daemon].pc = "advance"
  BY DEF Advance, world, At
<1>2. CASE TickError(Daemon) /\ UNCHANGED runtime
  BY <1>1, <1>2, AloneErrors
<1>3. CASE ~(TickError(Daemon) /\ UNCHANGED runtime)
  <2>1. PICK t, u, sub : t = proc[Daemon] /\ u = proc'[Daemon] /\ sub = Head(t.left)
    OBVIOUS
  <2>2. PICK row : row = Advanced(sub, t.row, t.ended)
    OBVIOUS
  <2>3. runtime' = [runtime EXCEPT ![sub] = row] /\ UNCHANGED faults /\ NextSchedule(Daemon)
    BY <1>3, <2>1, <2>2 DEF Advance, Subject, NoFault
  <2>4. proc'[Once].pc = "idle" /\ u.pc = "read" /\ u.now = t.now /\ u.seen = t.seen
    BY <2>1, <2>3, WentOn
  <2>5. t.pc \in Due /\ t.pc \in HasEnd /\ t.pc = "advance"
    BY <1>1, <2>1 DEF Due, HasEnd
  <2>6. /\ sub \in Schedules /\ t.row \in Rows(sub) /\ t.row.next <= t.now /\ t.row.hash = t.seen[sub].hash
        /\ Daemon \in Processes /\ t.pc \in AtSchedule /\ t.row = runtime[sub]
    BY <2>1, <2>5, AtDue
  <2>7. t.now <= t.ended /\ t.ended \in 0..clock /\ t.now \in 0..clock /\ clock \in Nat
    BY <2>1, <2>5, <2>6, Fields DEF TicksInv, TickOK
  <2>8. row.hash = t.row.hash /\ row.last = t.ended /\ row.next > t.ended /\ row \in Rows(sub)
    BY <2>2, <2>6, <2>7, AdvancedRow DEF TicksInv
  <2>9. row.next \in Int /\ row.next > t.now /\ row # runtime[sub]
    <3>1. row.next \in Int
      BY <2>6, <2>8, SchedulerAssumption DEF Rows, Never
    <3> QED
      BY <2>6, <2>7, <2>8, <3>1
  <2>10. RowIsCurrent'
    BY <2>1, <2>4 DEF RowIsCurrent, tick, Due, HasRun
  <2> QED
    BY <1>1, <2>1, <2>3, <2>4, <2>6, <2>8, <2>9, <2>10, AloneSaves
<1> QED
  BY <1>2, <1>3

\* A step of the daemon that adds the row of a run that has not started.
LEMMA AloneAdds ==
    ASSUME TicksInv, TicksInv', WorldMoves, AloneInv, Alone, UNCHANGED runtime, proc'[Once].pc = "idle",
           NEW t, t = proc[Daemon], NEW u, u = proc'[Daemon], t.pc \in {"skip", "job"},
           NEW status \in {"skipped", "none"}, NEW job \in {"none", "applying"},
           runs' = Append(runs, NewRun(Head(t.left), "schedule", status, t.row.next, job)),
           u.pc \in {"advance", "row"}, u.left = t.left, u.seen = t.seen, u.now = t.now, u.row = t.row,
           u.pc = "row" => t.pc = "job"
    PROVE  AloneInv'
<1>1. t.pc \in Due /\ u.pc \in Due /\ u.pc # "save"
  BY DEF Due, HasRun
<1>2. /\ t.row = runtime[Head(t.left)] /\ Head(t.left) \in Schedules /\ t.pc \in Ticking
      /\ t.row \in Rows(Head(t.left))
  BY <1>1, AtDue
<1>3. PICK k, row : k = Len(runs) + 1 /\ row = NewRun(Head(t.left), "schedule", status, t.row.next, job)
  OBVIOUS
<1>4. /\ row \in Runs /\ row.status = status /\ row.schedule = Head(t.left) /\ row.window = t.row.next
  <2>1. t.row.next \in 0..Never
    <3>1. proc[Daemon] \in Ticks
      BY Fields DEF Processes
    <3> QED
      BY <3>1 DEF Ticks
  <2> QED
    BY <1>2, <1>3, <2>1 DEF NewRun, Runs, Finished
<1>5. /\ DOMAIN runs' = 1..(Len(runs) + 1) /\ DOMAIN runs = 1..Len(runs) /\ Len(runs) \in Nat
      /\ runs'[k] = row /\ \A i \in DOMAIN runs : runs'[i] = runs[i]
  BY <1>3, <1>4, Counts, RowIsAdded
<1>6. \A i \in DOMAIN runs' : i # k => i \in DOMAIN runs /\ runs'[i] = runs[i]
  BY <1>3, <1>5
<1>7. u.pc = "row" => RunsOf(Head(u.left))' = {}
  <2>1. SUFFICES ASSUME u.pc = "row", NEW i \in RunsOf(Head(t.left))' PROVE FALSE
    OBVIOUS
  <2>2. RunsOf(Head(t.left)) = {}
    BY <2>1 DEF AloneInv, NoOtherRun, tick, subject
  <2>3. i # k
    BY <1>4, <1>5, <2>1 DEF RunsOf
  <2> QED
    BY <1>6, <2>1, <2>2, <2>3 DEF RunsOf, OfScheduler
<1>8. RowIsCurrent'
  BY <1>1, <1>2 DEF RowIsCurrent, tick, subject
<1>9. runs'[k].status \notin Effective /\ runs'[k].status # "running"
  BY <1>4, <1>5 DEF Effective
<1>10. t.pc # "advance" /\ t.pc # "job_status"
  OBVIOUS
<1>11. runs'[k].schedule = Head(t.left) /\ runs'[k].window = t.row.next
  BY <1>4, <1>5
<1>12. u.pc \in {"job", "row"} => RunsOf(Head(u.left))' = {}
  BY <1>7
<1>13. u.pc \in Ticking => t.pc \in Ticking /\ u.now = t.now /\ u.seen = t.seen
  BY <1>2
<1> QED
  BY <1>1, <1>6, <1>8, <1>9, <1>10, <1>11, <1>12, <1>13, AloneKeeps, SMTT(30)

LEMMA AloneSkips ==
    ASSUME TicksInv, TicksInv', WorldMoves, AloneInv, Alone, RecordSkip(Daemon)
    PROVE  AloneInv'
<1>1. UNCHANGED runtime /\ proc[Daemon].pc = "skip"
  BY DEF RecordSkip, At
<1>2. CASE TickError(Daemon) /\ UNCHANGED runs
  BY <1>1, <1>2, AloneErrors
<1>3. CASE ~(TickError(Daemon) /\ UNCHANGED runs)
  <2>1. PICK t, u : t = proc[Daemon] /\ u = proc'[Daemon]
    OBVIOUS
  <2>2. PICK r : r = [t EXCEPT !.pc = "advance", !.ended = t.now]
    OBVIOUS
  <2>3. proc' = [proc EXCEPT ![Daemon] = r]
        /\ runs' = Append(runs, NewRun(Head(t.left), "schedule", "skipped", t.row.next, "none"))
    BY <1>3, <2>1, <2>2 DEF RecordSkip, Become, Subject
  <2>4. u = r /\ proc'[Once].pc = "idle" /\ t \in Ticks
    BY <2>1, <2>3, DaemonMoves, Fields DEF Processes
  <2>5. u.pc = "advance" /\ u.left = t.left /\ u.seen = t.seen /\ u.now = t.now /\ u.row = t.row
    BY <2>2, <2>4 DEF Ticks
  <2> QED
    BY <1>1, <2>1, <2>3, <2>4, <2>5, AloneAdds
<1> QED
  BY <1>2, <1>3

LEMMA AloneCreatesJob ==
    ASSUME TicksInv, TicksInv', WorldMoves, AloneInv, Alone, CreateJob(Daemon)
    PROVE  AloneInv'
<1>1. UNCHANGED runtime /\ proc[Daemon].pc = "job"
  BY DEF CreateJob, At
<1>2. CASE TickError(Daemon) /\ UNCHANGED runs
  BY <1>1, <1>2, AloneErrors
<1>3. CASE ~(TickError(Daemon) /\ UNCHANGED runs)
  <2>1. PICK t, u : t = proc[Daemon] /\ u = proc'[Daemon]
    OBVIOUS
  <2>2. PICK r : r = [t EXCEPT !.pc = "row", !.run = Len(runs) + 1]
    OBVIOUS
  <2>3. proc' = [proc EXCEPT ![Daemon] = r]
        /\ runs' = Append(runs, NewRun(Head(t.left), "schedule", "none", t.row.next, "applying"))
    BY <1>3, <2>1, <2>2 DEF CreateJob, Become, Subject
  <2>4. u = r /\ proc'[Once].pc = "idle" /\ t \in Ticks
    BY <2>1, <2>3, DaemonMoves, Fields DEF Processes
  <2>5. u.pc = "row" /\ u.left = t.left /\ u.seen = t.seen /\ u.now = t.now /\ u.row = t.row
    BY <2>2, <2>4 DEF Ticks
  <2> QED
    BY <1>1, <2>1, <2>3, <2>4, <2>5, AloneAdds
<1> QED
  BY <1>2, <1>3

\* A step of the daemon that writes to its run.
LEMMA AloneWrites ==
    ASSUME TicksInv, TicksInv', WorldMoves, AloneInv, Alone, UNCHANGED runtime, proc'[Once].pc = "idle",
           NEW t, t = proc[Daemon], NEW u, u = proc'[Daemon], t.pc \in {"row", "finish", "job_status"},
           NEW status \in Finished \cup {"running", "none"}, NEW job \in {"none", "applying", "done", "failed"},
           NEW linked \in BOOLEAN, SetRun(t.run, status, job, linked),
           t.pc = "row" => status = "running",
           t.pc # "row" => status = t.status,
           u.now = t.now, u.seen = t.seen,
           \/ u.left = t.left /\ u.row = t.row /\ u.status = t.status /\ u.pc \in {"dispatch", "job_status", "advance"}
           \/ t.status = "cancelled" /\ u.pc = "read",
           t.pc = "finish" => u.pc = "job_status",
           t.pc = "job_status" => u.pc = "advance" \/ t.status = "cancelled",
           u.pc \in {"job_status", "advance"} => t.pc # "row"
    PROVE  AloneInv'
<1>1. t.pc \in Due /\ t.pc \in HasRun /\ u.pc \in Due \cup {"read"} /\ u.pc \notin {"save", "job", "row"}
      /\ Daemon \in Processes
  BY DEF Due, HasRun, Processes
<1>2. t.row = runtime[Head(t.left)] /\ t.pc \in Ticking
  BY <1>1, AtDue
<1>3. PICK k : k = t.run
  OBVIOUS
<1>4. /\ k \in DOMAIN runs /\ k # 0 /\ runs[k].kind = "schedule" /\ runs[k].schedule = Head(t.left)
      /\ runs[k].window = t.row.next /\ runs \in Seq(Runs)
  BY <1>1, <1>3, AtRun, Counts DEF Subject
<1>5. Written(k, status, job, linked)
  <2>1. \A x \in BOOLEAN : SetRun(k, status, job, x) => Written(k, status, job, x)
    BY <1>4, RowIsSet
  <2> QED
    BY <1>3, <2>1, Zenon
<1>6. /\ runs'[k].status = status /\ runs'[k].schedule = Head(t.left) /\ runs'[k].window = t.row.next
      /\ \A i \in DOMAIN runs' : i # k => i \in DOMAIN runs /\ runs'[i] = runs[i]
  BY <1>4, <1>5 DEF Written
<1>7. /\ t.pc = "job_status" => runs[k].status = status
      /\ t.pc # "row" => t.status \in Effective \cup {"cancelled"}
  BY <1>1, <1>3 DEF TicksInv, RunOK
<1>8. RowIsCurrent'
  <2>1. u.pc \in Due => u.row = runtime[Head(u.left)]
    BY <1>2 DEF Due, HasRun
  <2> QED
    BY <1>1, <2>1 DEF RowIsCurrent, tick, subject
<1>9. status = "running" => t.pc = "row"
  BY <1>7 DEF Effective
<1>10. status \in Effective => t.pc # "row" /\ t.status # "cancelled"
  BY DEF Effective
<1>11. status \in Effective =>
          \/ /\ runs[k].status \in Effective
          \/ t.pc = "finish" /\ u.pc = "job_status" /\ u.status # "cancelled" /\ Head(u.left) = Head(t.left) /\ u.row = t.row
  BY <1>7, <1>10
<1>12. t.pc # "advance" /\ (t.pc = "job_status" /\ t.status # "cancelled" =>
          u.pc = "advance" /\ Head(u.left) = Head(t.left) /\ u.row = t.row)
  OBVIOUS
<1> QED
  BY <1>1, <1>2, <1>4, <1>6, <1>8, <1>9, <1>11, <1>12, AloneKeeps

LEMMA AloneCreatesRun ==
    ASSUME TicksInv, TicksInv', WorldMoves, AloneInv, Alone, CreateRun(Daemon)
    PROVE  AloneInv'
<1>1. UNCHANGED runtime /\ proc[Daemon].pc = "row"
  BY DEF CreateRun, At
<1>2. CASE TickError(Daemon) /\ \E job \in {"failed", "applying"} : SetRun(proc[Daemon].run, "none", job, FALSE)
  BY <1>1, <1>2, AloneErrors
<1>3. CASE ~(TickError(Daemon) /\ \E job \in {"failed", "applying"} : SetRun(proc[Daemon].run, "none", job, FALSE))
  <2>1. PICK t, u : t = proc[Daemon] /\ u = proc'[Daemon]
    OBVIOUS
  <2>2. Goto(Daemon, "dispatch") /\ SetRun(t.run, "running", "applying", FALSE)
    BY <1>3, <2>1 DEF CreateRun
  <2>3. PICK linked \in BOOLEAN : SetRun(t.run, "running", "applying", linked)
    BY <2>2, Zenon
  <2>4. /\ proc'[Once].pc = "idle" /\ u.pc = "dispatch" /\ u.now = t.now /\ u.seen = t.seen
        /\ u.left = t.left /\ u.row = t.row /\ u.status = t.status
    BY <2>1, <2>2, Went
  <2> QED
    BY <1>1, <2>1, <2>3, <2>4, AloneWrites
<1> QED
  BY <1>2, <1>3

LEMMA AloneFinishesRun ==
    ASSUME TicksInv, TicksInv', WorldMoves, AloneInv, Alone, FinishRun(Daemon)
    PROVE  AloneInv'
<1>1. UNCHANGED runtime /\ proc[Daemon].pc = "finish"
  BY DEF FinishRun, At
<1>2. CASE TickError(Daemon) /\ \E job \in {"failed", "applying"} : SetRun(proc[Daemon].run, "running", job, FALSE)
  BY <1>1, <1>2, AloneErrors
<1>3. CASE ~(TickError(Daemon) /\ \E job \in {"failed", "applying"} : SetRun(proc[Daemon].run, "running", job, FALSE))
  <2>1. PICK t, u : t = proc[Daemon] /\ u = proc'[Daemon]
    OBVIOUS
  <2>2. Goto(Daemon, "job_status") /\ SetRun(t.run, t.status, "applying", TRUE)
    BY <1>3, <2>1 DEF FinishRun
  <2>3. PICK linked \in BOOLEAN : SetRun(t.run, t.status, "applying", linked)
    BY <2>2, Zenon
  <2>4. /\ proc'[Once].pc = "idle" /\ u.pc = "job_status" /\ u.now = t.now /\ u.seen = t.seen
        /\ u.left = t.left /\ u.row = t.row /\ u.status = t.status
    BY <2>1, <2>2, Went
  <2>5. t.status \in Finished \cup {"running", "none"}
    <3>1. Daemon \in Processes
      BY DEF Processes
    <3>2. t.status \in Effective \cup {"cancelled"}
      BY <1>1, <2>1, <3>1 DEF TicksInv, RunOK
    <3> QED
      BY <3>2 DEF Effective, Finished
  <2> QED
    BY <1>1, <2>1, <2>3, <2>4, <2>5, AloneWrites
<1> QED
  BY <1>2, <1>3

LEMMA AloneFinishesJob ==
    ASSUME TicksInv, TicksInv', WorldMoves, AloneInv, Alone, FinishJob(Daemon)
    PROVE  AloneInv'
<1>1. UNCHANGED runtime /\ proc[Daemon].pc = "job_status"
  BY DEF FinishJob, At
<1>2. CASE TickError(Daemon) /\ UNCHANGED runs
  BY <1>1, <1>2, AloneErrors
<1>3. CASE ~(TickError(Daemon) /\ UNCHANGED runs)
  <2>1. PICK t, u : t = proc[Daemon] /\ u = proc'[Daemon]
    OBVIOUS
  <2>2. /\ IF t.status = "cancelled" THEN NextSchedule(Daemon) ELSE Goto(Daemon, "advance")
        /\ \E job \in {"failed", "done"} : SetRun(t.run, t.status, job, TRUE)
    BY <1>3, <2>1 DEF FinishJob
  <2>3. PICK linked \in BOOLEAN, job \in {"failed", "done"} : SetRun(t.run, t.status, job, linked)
    BY <2>2, Zenon
  <2>4. t.status \in Finished \cup {"running", "none"}
    <3>1. Daemon \in Processes
      BY DEF Processes
    <3>2. t.status \in Effective \cup {"cancelled"}
      BY <1>1, <2>1, <3>1 DEF TicksInv, RunOK
    <3> QED
      BY <3>2 DEF Effective, Finished
  <2>5. /\ proc'[Once].pc = "idle" /\ u.now = t.now /\ u.seen = t.seen
        /\ \/ /\ u.left = t.left /\ u.row = t.row /\ u.status = t.status /\ u.pc = "advance"
           \/ t.status = "cancelled" /\ u.pc = "read"
    BY <2>1, <2>2, Went, WentOn
  <2> QED
    BY <1>1, <2>1, <2>3, <2>4, <2>5, AloneWrites
<1> QED
  BY <1>2, <1>3

\* A step of the daemon's users, of an agent started by hand, or of the clock.
LEMMA AloneStays ==
    ASSUME TicksInv, TicksInv', WorldMoves, AloneInv, Alone, UNCHANGED <<runtime, proc>>,
           \A i \in DOMAIN runs' : runs'[i].kind = "schedule" => i \in DOMAIN runs /\ runs'[i] = runs[i]
    PROVE  AloneInv'
<1>1. PICK t, u : t = proc[Daemon] /\ u = proc'[Daemon]
  OBVIOUS
<1>2. t = u /\ proc'[Once].pc = "idle"
  BY <1>1 DEF AloneInv
<1>3. RowIsCurrent'
  <2>1. RowIsCurrent
    BY DEF AloneInv
  <2> QED
    BY <2>1 DEF RowIsCurrent, tick, subject, Reconciled, FirstWindow, NextAfter
<1>4. 0 \notin DOMAIN runs'
  <2>1. runs' \in Seq(Runs)
    BY DEF TicksInv, StoreTypeOK
  <2> QED
    BY <2>1
<1>5. u.pc \in {"job", "row"} => RunsOf(Head(u.left))' = {}
  BY <1>1, <1>2 DEF AloneInv, NoOtherRun, RunsOf, OfScheduler, tick, subject
<1>6. \A i \in DOMAIN runs' : i # 0 /\ runs'[i].kind = "schedule" => i \in DOMAIN runs /\ runs'[i] = runs[i]
  OBVIOUS
<1> QED
  BY <1>1, <1>2, <1>3, <1>4, <1>5, <1>6, AloneKeeps

LEMMA AloneHands ==
    ASSUME TicksInv, TicksInv', WorldMoves, AloneInv, Alone,
           EndByHand \/ \E s \in Present : StartByHand(s)
    PROVE  AloneInv'
<1>1. UNCHANGED <<runtime, proc>>
  BY DEF EndByHand, StartByHand
<1>2. runs \in Seq(Runs) /\ DOMAIN runs = 1..Len(runs) /\ Len(runs) \in Nat
  BY Counts
<1>3. \A i \in DOMAIN runs' : runs'[i].kind = "schedule" => i \in DOMAIN runs /\ runs'[i] = runs[i]
  <2>1. CASE EndByHand
    <3>1. PICK k : k = byHand
      OBVIOUS
    <3>2. k \in DOMAIN runs /\ runs[k].kind = "by_hand"
      BY <1>2, <2>1, <3>1 DEF EndByHand, TicksInv, StoreTypeOK
    <3>3. CASE UNCHANGED runs
      BY <3>3
    <3>4. ASSUME NEW status \in Effective, SetRun(k, status, "none", FALSE)
          PROVE  \A i \in DOMAIN runs' : runs'[i].kind = "schedule" => i \in DOMAIN runs /\ runs'[i] = runs[i]
      <4>1. status \in Finished \cup {"running", "none"} /\ FALSE \in BOOLEAN
        BY DEF Effective, Finished
      <4>2. \A linked \in BOOLEAN : SetRun(k, status, "none", linked) => Written(k, status, "none", linked)
        BY <1>2, <3>2, <4>1, RowIsSet
      <4>3. Written(k, status, "none", FALSE)
        BY <3>4, <4>1, <4>2, Zenon
      <4> QED
        BY <3>2, <4>3 DEF Written
    <3>5. config.outcomes \subseteq Effective
      BY ScenariosAssumption DEF TicksInv, WorldTypeOK, Effective
    <3> QED
      BY <2>1, <3>1, <3>3, <3>4, <3>5 DEF EndByHand
  <2>2. ASSUME NEW s \in Present, StartByHand(s)
        PROVE  \A i \in DOMAIN runs' : runs'[i].kind = "schedule" => i \in DOMAIN runs /\ runs'[i] = runs[i]
    <3>1. PICK row : row = NewRun(s, "by_hand", "running", Never, "none")
      OBVIOUS
    <3>2. row.kind = "by_hand" /\ runs' = Append(runs, row)
      BY <2>2, <3>1 DEF NewRun, StartByHand
    <3> QED
      BY <1>2, <3>2
  <2> QED
    BY <2>1, <2>2
<1> QED
  BY <1>1, <1>3, AloneStays

LEMMA AloneLeaves ==
    ASSUME TicksInv, TicksInv', WorldMoves, AloneInv, Alone, Stop \/ Restart \/ \E p \in Processes : Crash(p)
    PROVE  AloneInv'
<1>1. UNCHANGED <<runs, runtime>>
  BY DEF Stop, Restart, Crash
<1>2. CASE UNCHANGED proc
  BY <1>1, <1>2, AloneStays
<1>3. CASE Stop /\ At(Daemon, "idle")
  BY <1>1, <1>3, AloneEnds DEF Stop, At
<1>4. CASE Restart
  BY <1>1, <1>4, AloneEnds DEF Restart, Become, At
<1>5. ASSUME NEW p \in Processes, Crash(p)
      PROVE  AloneInv'
  <2>1. p = Daemon
    BY <1>5 DEF Crash, Processes, AloneInv
  <2>2. faults' > faults
    BY <1>5, Counts DEF Crash, Fault
  <2> QED
    BY <1>1, <1>5, <2>1, <2>2, AloneEnds DEF Crash, Become
<1> QED
  BY <1>2, <1>3, <1>4, <1>5 DEF Stop

LEMMA AloneNext == TicksInv /\ TicksInv' /\ AloneInv /\ [Next]_vars => AloneInv'
<1> SUFFICES ASSUME TicksInv, TicksInv', AloneInv, [Next]_vars, ticks' = 0 PROVE AloneInv'
  BY DEF AloneInv, Alone
<1>1. WorldMoves
  BY WorldNext DEF TicksInv
<1>2. Alone
  BY <1>1 DEF Alone, WorldMoves, TicksInv, WorldTypeOK
<1>3. ASSUME NEW p \in Processes, TickStep(p)
      PROVE  AloneInv'
  <2>1. p = Daemon
    <3>1. CASE p = Once
      <4>1. proc[Once].pc = "idle"
        BY <1>2 DEF AloneInv
      <4>2. TickStart(Once)
        BY <1>3, <3>1, <4>1 DEF TickStep, ReadRuntime, SaveRuntime, CheckRunning, RecordSkip, CreateJob, CreateRun,
           Dispatch, Notify, FinishRun, FinishJob, Advance, FinishTick, At
      <4> QED
        BY <1>2, <4>2 DEF TickStart, Alone
    <3> QED
      BY <3>1 DEF Processes
  <2> QED
    BY <1>1, <1>2, <1>3, <2>1, AloneStarts, AloneReads, AloneSavesRow, AloneChecks, AloneSkips, AloneCreatesJob,
       AloneCreatesRun, AloneDispatches, AloneNotifies, AloneFinishesRun, AloneFinishesJob, AloneAdvances,
       AloneFinishes DEF TickStep
<1>4. ASSUME \/ Tock \/ (\E i \in DOMAIN runs : AcceptRawCapture(i)) \/ UNCHANGED vars
             \/ \E s \in Present : EditFile(s) \/ \E value \in {"on", "off"} : SetScheduleEnabled(s, value)
      PROVE  AloneInv'
  <2>1. UNCHANGED <<runtime, proc, runs>>
    BY <1>4 DEF Tock, AcceptRawCapture, vars, EditFile, SetScheduleEnabled
  <2> QED
    BY <1>1, <1>2, <2>1, AloneStays
<1> QED
  BY <1>1, <1>2, <1>3, <1>4, AloneHands, AloneLeaves DEF Next

LEMMA AloneInit == Init => AloneInv
<1> SUFFICES ASSUME Init PROVE AloneInv
  OBVIOUS
<1> USE SchedulerAssumption
<1>1. proc[Once] = Idle /\ proc[Daemon] = Idle /\ Idle.pc = "idle" /\ runs = <<>> /\ faults = 0
      /\ \A s \in Schedules : runtime[s] = NoRow
  BY DEF Init, Processes, Idle
<1>2. RowIsCurrent /\ LastIsSeen /\ NextIsLater
  BY <1>1 DEF RowIsCurrent, LastIsSeen, NextIsLater, tick, Due, HasRun, Ticking, AtSchedule, NoRow
<1>3. NoOtherRun /\ RunsAreDue
  BY <1>1 DEF NoOtherRun, RunsAreDue, RunsOf, tick
<1>4. AttemptsArePaid
  <2>1. ASSUME NEW s, NEW w
        PROVE  Cardinality(Attempts(s, w)) = 0
    <3>1. Attempts(s, w) = {}
      BY <1>1 DEF Attempts
    <3> QED
      BY <3>1, FS_EmptySet
  <2> QED
    BY <1>1, <2>1 DEF AttemptsArePaid
<1> QED
  BY <1>1, <1>2, <1>3, <1>4 DEF AloneInv

\* What holds while the daemon alone ticks: its row is the store's, a schedule
\* has one run, and the attempts at a window are paid for.
THEOREM AloneInvariant == Spec => []AloneInv
<1>1. AloneInv /\ TicksInv /\ TicksInv' /\ [Next]_vars => AloneInv'
  BY AloneNext
<1> QED
  BY <1>1, TicksInvariant, AloneInit, PTL DEF Spec

\* The rows of the scheduler fit together (SaveSchedulerRuntime,
\* AddOutboxMessage before FinishAgentRun, UpdateJobStatus).
THEOREM RowsFitTogether == Spec => []SchedulerInv
<1>1. TicksInv /\ AloneInv => SchedulerInv
  <2>1. SUFFICES ASSUME TicksInv, AloneInv PROVE SchedulerInv
    OBVIOUS
  <2>2. clock \in 0..MaxClock /\ failures \in 0..MaxFailures /\ overrides \in [Schedules -> {"unset", "on", "off"}]
    BY <2>1 DEF TicksInv, WorldTypeOK, FailuresOK
  <2>3. cancelled \in BOOLEAN
    BY <2>1 DEF TicksInv, WorldTypeOK
  <2>4. ASSUME NEW s \in Schedules
        PROVE  runtime[s].next \in Windows[s] \cup {Never} /\ runtime[s].last \in 0..MaxClock \cup {Never}
    <3>1. runtime[s] \in Rows(s)
      BY <2>1 DEF TicksInv, StoreTypeOK
    <3> QED
      BY <2>2, <3>1, SchedulerAssumption DEF Rows
  <2>5. ASSUME NEW i \in DOMAIN runs
        PROVE  runs[i].status \in Finished \cup {"running", "none"} /\ runs[i].job \in {"none", "applying", "done", "failed"}
    <3>1. runs[i] \in Runs
      BY <2>1, Counts
    <3> QED
      BY <3>1 DEF Runs
  <2>6. notices \subseteq [run : DOMAIN runs, kind : {"result", "error"}] /\ byHand \in 0..Len(runs)
    BY <2>1 DEF TicksInv, StoreTypeOK
  <2>7. TypeOK
    BY <2>2, <2>3, <2>4, <2>5, <2>6 DEF TypeOK
  <2>8. NextIsLater
    BY <2>1 DEF AloneInv, NextIsLater
  <2> QED
    BY <2>1, <2>7, <2>8 DEF SchedulerInv, TicksInv
<1> QED
  BY <1>1, TicksInvariant, AloneInvariant, PTL

\* HasRunningSchedulerRun before CreateSchedulerRun: one run of a schedule at
\* a time, whatever crashed before.
THEOREM OneRunOfASchedule == Spec => []OneRunAtATime
<1>1. TicksInv /\ AloneInv => OneRunAtATime
  <2>1. SUFFICES ASSUME TicksInv, AloneInv, Alone, NEW i \in DOMAIN runs, NEW j \in DOMAIN runs,
                        i # j, runs[i].schedule = runs[j].schedule,
                        runs[i].kind = "schedule", runs[j].kind = "schedule",
                        runs[i].status = "running", runs[j].status = "running"
                 PROVE  FALSE
    BY DEF OneRunAtATime
  <2>2. runs[i].schedule \in Schedules
    <3>1. runs[i] \in Runs
      BY <2>1, Counts
    <3> QED
      BY <3>1 DEF Runs
  <2>3. i \in RunsOf(runs[i].schedule) /\ j \in RunsOf(runs[i].schedule)
    BY <2>1 DEF RunsOf, OfScheduler
  <2> QED
    BY <2>1, <2>2, <2>3 DEF AloneInv, NoOtherRun
<1> QED
  BY <1>1, TicksInvariant, AloneInvariant, PTL

\* runSchedule advances the row last: a window is run again only after a crash
\* or a failed statement.
THEOREM RepeatsArePaid == Spec => []RepeatsAreExplained
<1>1. TicksInv /\ AloneInv => RepeatsAreExplained
  <2>1. SUFFICES ASSUME TicksInv, AloneInv, Alone, NEW s \in Schedules, NEW w \in 0..MaxClock
                 PROVE  Cardinality(Attempts(s, w)) <= 1 + faults
    BY DEF RepeatsAreExplained
  <2>2. IsFiniteSet(Attempts(s, w))
    <3>1. Len(runs) \in Nat /\ DOMAIN runs = 1..Len(runs)
      BY <2>1, Counts
    <3>2. IsFiniteSet(1..Len(runs)) /\ Attempts(s, w) \subseteq 1..Len(runs)
      BY <3>1, FS_Interval DEF Attempts
    <3> QED
      BY <3>2, FS_Subset
  <2>3. Cardinality(Attempts(s, w)) \in Nat /\ faults \in Nat
    BY <2>1, <2>2, FS_CardinalityType, Counts
  <2>4. Cardinality(Attempts(s, w)) <= IF Passed(s, w) THEN 1 + faults ELSE faults
    BY <2>1 DEF AloneInv, AttemptsArePaid
  <2> QED
    BY <2>3, <2>4
<1> QED
  BY <1>1, TicksInvariant, AloneInvariant, PTL

\* A schedule's next run moves on from a window that was due.
MovesOn(s) ==
    Alone /\ runtime[s] # NoRow /\ runtime'[s].next # runtime[s].next /\ runtime[s].next <= clock

Accounted ==
    \A s \in Schedules :
       MovesOn(s) => \/ runtime'[s].hash # runtime[s].hash
                     \/ \E i \in DOMAIN runs : /\ runs[i].schedule = s /\ runs[i].window = runtime[s].next
                                               /\ runs[i].status \in Finished \ {"cancelled"}

LEMMA AccountedStep == TicksInv /\ AloneInv /\ [Next]_vars => Accounted
<1> SUFFICES ASSUME TicksInv, AloneInv, [Next]_vars, NEW s \in Schedules, MovesOn(s)
             PROVE  \/ runtime'[s].hash # runtime[s].hash
                    \/ \E i \in DOMAIN runs : /\ runs[i].schedule = s /\ runs[i].window = runtime[s].next
                                              /\ runs[i].status \in Finished \ {"cancelled"}
  BY DEF Accounted
<1>1. Alone /\ runtime' # runtime /\ runtime'[s] # runtime[s] /\ DOMAIN runtime = Schedules
  BY DEF MovesOn, TicksInv, StoreTypeOK
<1>2. PICK p \in Processes : SaveRuntime(p) \/ Advance(p)
  BY <1>1 DEF Next, TickStep, TickStart, ReadRuntime, CheckRunning, RecordSkip, CreateJob, CreateRun, Dispatch,
     Notify, FinishRun, FinishJob, FinishTick, Crash, StartByHand, EditFile, SetScheduleEnabled, AcceptRawCapture,
     EndByHand, Stop, Restart, Tock, vars
<1>3. p = Daemon
  BY <1>1, <1>2 DEF SaveRuntime, Advance, At, AloneInv, Processes
<1>4. PICK t : t = proc[Daemon]
  OBVIOUS
<1>5. CASE SaveRuntime(Daemon)
  <2>1. t.pc = "save" /\ runtime' = [runtime EXCEPT ![Head(t.left)] = t.row]
    BY <1>1, <1>4, <1>5 DEF SaveRuntime, At, Subject
  <2>2. s = Head(t.left) /\ runtime'[s] = t.row
    BY <1>1, <2>1
  <2> QED
    BY <1>1, <1>4, <2>1, <2>2, ReconciledLater
<1>6. CASE Advance(Daemon)
  <2>1. /\ t.pc = "advance" /\ t.pc \in Due /\ Daemon \in Processes
        /\ runtime' = [runtime EXCEPT ![Head(t.left)] = Advanced(Head(t.left), t.row, t.ended)]
    BY <1>1, <1>4, <1>6 DEF Advance, At, Subject, Due, Processes
  <2>2. s = Head(t.left) /\ t.row = runtime[s]
    BY <1>1, <1>4, <2>1, AtDue
  <2> QED
    BY <1>4, <2>1, <2>2 DEF TicksInv, RunOK
<1> QED
  BY <1>2, <1>3, <1>5, <1>6

\* reconcileSchedule, skipSchedule and runSchedule: a due window is passed over
\* only for a row that says so, or for an edited declaration.
THEOREM NoWindowIsLost == Spec => WindowsAreAccountedFor
<1>1. TicksInv /\ AloneInv /\ [Next]_vars => Accounted
  BY AccountedStep
<1>2. Accounted =>
         \A s \in Schedules :
            LET w == runtime[s].next
            IN  Alone /\ runtime[s] # NoRow /\ runtime'[s].next # w /\ w <= clock
                => \/ runtime'[s].hash # runtime[s].hash
                   \/ \E i \in DOMAIN runs : /\ runs[i].schedule = s /\ runs[i].window = w
                                             /\ runs[i].status \in Finished \ {"cancelled"}
  BY DEF Accounted, MovesOn
<1> QED
  BY <1>1, <1>2, TicksInvariant, AloneInvariant, PTL DEF Spec, WindowsAreAccountedFor

=============================================================================
