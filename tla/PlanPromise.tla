---------------------------- MODULE PlanPromise ----------------------------
(***************************************************************************)
(* What plan approval promises, however many handlers work on a plan and   *)
(* wherever they die: operations enter the audit log as applied only after *)
(* the plan was approved, each only after the ones before it, and nobody   *)
(* is told the plan is complete before all of them are there.              *)
(***************************************************************************)
EXTENDS Naturals

CONSTANTS Plans, Length  \* Length[p]: the number of operations of plan p

VARIABLES approved,  \* the plan was approved at some time
          logged,    \* its operations that are logged as applied
          reported   \* who says the plan is complete: plan, job or outbox

promiseVars == <<approved, logged, reported>>
Reporters == {"plan", "job", "outbox"}
AllLogged(p) == logged[p] = 1..Length[p]

PromiseInit ==
    /\ approved = [p \in Plans |-> FALSE]
    /\ logged = [p \in Plans |-> {}]
    /\ reported = [p \in Plans |-> {}]

Approve(p) ==
    /\ approved' = [approved EXCEPT ![p] = TRUE]
    /\ UNCHANGED <<logged, reported>>

LogNext(p) ==
    /\ approved[p]
    /\ \E i \in 1..Length[p] :
          /\ \A j \in 1..(i - 1) : j \in logged[p]
          /\ logged' = [logged EXCEPT ![p] = @ \cup {i}]
    /\ UNCHANGED <<approved, reported>>

\* A later status may take a report back; a new one needs the whole log.
Report(p) ==
    /\ \E S \in SUBSET Reporters :
          /\ S \subseteq reported[p] \/ AllLogged(p)
          /\ reported' = [reported EXCEPT ![p] = S]
    /\ UNCHANGED <<approved, logged>>

PromiseNext == \E p \in Plans : Approve(p) \/ LogNext(p) \/ Report(p)
PromiseSpec == PromiseInit /\ [][PromiseNext]_promiseVars
=============================================================================
