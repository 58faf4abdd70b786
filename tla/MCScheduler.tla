---------------------------- MODULE MCScheduler ----------------------------
(***************************************************************************)
(* Two schedules with overlapping windows, and what can interfere with     *)
(* them, few at a time.                                                    *)
(***************************************************************************)
EXTENDS Scheduler

CONSTANTS s1, s2, daemon, once

MCWindows == [s \in Schedules |-> IF s = s1 THEN {1, 2} ELSE {1}]

Calm == [registry |-> <<s1>>, barren |-> {}, outcomes |-> {"done"}, edits |-> 0, ticks |-> 0,
         agents |-> 0, stops |-> 0, accepts |-> 0, faults |-> 0]

MCScenarios ==
    {[Calm EXCEPT !.edits = 1, !.faults = 1],
     [Calm EXCEPT !.stops = 1, !.faults = 1, !.accepts = 1],
     [Calm EXCEPT !.edits = 2, !.stops = 1],
     [Calm EXCEPT !.registry = <<s1, s2>>, !.agents = 1, !.faults = 1],
     [Calm EXCEPT !.faults = 2, !.outcomes = {"done", "failed"}],
     [Calm EXCEPT !.ticks = 1, !.outcomes = {"partial"}],
     [Calm EXCEPT !.ticks = 1, !.edits = 1],
     [Calm EXCEPT !.registry = <<s1, s2>>, !.faults = 1],
     [Calm EXCEPT !.registry = <<s1, s2>>, !.barren = {s2}, !.stops = 1]}
=============================================================================
