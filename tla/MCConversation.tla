--------------------------- MODULE MCConversation ---------------------------
(***************************************************************************)
(* One process that serves the source, and two: a daemon and a poll-once   *)
(* in the same room.                                                       *)
(***************************************************************************)
EXTENDS Conversation

CONSTANTS h1, h2

Scenario(handlers, mode, messages, e, l, f) ==
    [config |-> [handlers |-> handlers, mode |-> mode], said |-> MaxMessages - messages,
     edits |-> MaxEdits - e, lapses |-> MaxLapses - l, faults |-> MaxFaults - f]

MCScenarios ==
    {Scenario({h1}, "hybrid", 5, 1, 0, 1),
     Scenario({h1}, "hybrid", 4, 1, 1, 2),
     Scenario({h1, h2}, "hybrid", 3, 1, 0, 1),
     Scenario({h1}, "off", 2, 1, 0, 1)}
=============================================================================
