-------------------------- MODULE DeliveryPromise --------------------------
(***************************************************************************)
(* What the Matrix adapter promises, wherever the daemon dies and whatever *)
(* the homeserver loses: a message of the room is carried out at most      *)
(* once, and a notice of the outbox is never given up before it has been   *)
(* in the room.  It may be there more than once.                           *)
(***************************************************************************)
CONSTANTS Events, Notices

VARIABLES stage,  \* of each event: new, taken, done
          notice  \* of each notice: none, pending, shown, delivered

promiseVars == <<stage, notice>>

PromiseInit ==
    /\ stage = [e \in Events |-> "new"]
    /\ notice = [n \in Notices |-> "none"]

Take(e) ==
    /\ stage[e] = "new"
    /\ stage' = [stage EXCEPT ![e] = "taken"]
    /\ UNCHANGED notice

CarryOut(e) ==
    /\ stage[e] = "taken"
    /\ stage' = [stage EXCEPT ![e] = "done"]
    /\ UNCHANGED notice

Write(n) ==
    /\ notice[n] = "none"
    /\ notice' = [notice EXCEPT ![n] = "pending"]
    /\ UNCHANGED stage

Show(n) ==
    /\ notice[n] = "pending"
    /\ notice' = [notice EXCEPT ![n] = "shown"]
    /\ UNCHANGED stage

Settle(n) ==
    /\ notice[n] = "shown"
    /\ notice' = [notice EXCEPT ![n] = "delivered"]
    /\ UNCHANGED stage

PromiseNext ==
    \/ \E e \in Events : Take(e) \/ CarryOut(e)
    \/ \E n \in Notices : Write(n) \/ Show(n) \/ Settle(n)

PromiseSpec == PromiseInit /\ [][PromiseNext]_promiseVars
=============================================================================
