----------------------------- MODULE MCDelivery -----------------------------
(***************************************************************************)
(* One user and the daemon's two loops, with one and with two bots; in one *)
(* configuration the allowlist, not the user id, keeps the bot's own posts *)
(* out.                                                                    *)
(***************************************************************************)
EXTENDS Delivery

CONSTANTS u1, kbot, sbot, nobody, b1

NoAuth == [tokenOf |-> nobody, user |-> nobody, session |-> nobody, password |-> FALSE]
Token(bot, user) == [NoAuth EXCEPT !.tokenOf = bot, !.user = user]
Password(bot) == [NoAuth EXCEPT !.password = TRUE, !.user = bot]
Cached(bot) == [NoAuth EXCEPT !.session = bot, !.password = TRUE, !.user = bot]

MCUsers == {u1}
Posted == [sender |-> u1, what |-> Input]
Scenario(k, s, allowed, briefs, opening, budget) ==
    [config |-> [knowledge |-> k, scheduler |-> s, allowed |-> allowed, briefs |-> briefs],
     room |-> opening, faults |-> MaxFaults - budget]

MCScenarios ==
    {Scenario(Cached(kbot), Token(sbot, sbot), {}, {b1}, <<>>, 1),
     Scenario(Token(kbot, nobody), NoAuth, {u1}, {}, <<Posted, Posted>>, 1),
     Scenario(Cached(kbot), Token(sbot, sbot), {}, {}, <<>>, 2),
     Scenario(Password(kbot), Token(sbot, nobody), {}, {b1}, <<>>, 1)}
=============================================================================
