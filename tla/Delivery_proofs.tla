-------------------------- MODULE Delivery_proofs --------------------------
(***************************************************************************)
(* The Matrix adapter for any scenarios, users, notices and bounds: its    *)
(* state is well typed, a message is carried out at most once and a notice *)
(* given up only after it was in the room, and the bots do not feed on     *)
(* their own posts when the settings keep them out.                        *)
(***************************************************************************)
EXTENDS Delivery, FiniteSetTheorems, SequenceTheorems, TLAPS

\* A non-empty set of naturals has a least element.
LEMMA LeastOfSet ==
    ASSUME NEW S \in SUBSET Nat, S # {}
    PROVE  Least(S) \in S /\ \A j \in S : Least(S) <= j
<1> DEFINE Below == {0..i : i \in S}
<1>1. Below \subseteq FiniteSubsetsOf(Nat) /\ Below # {}
  <2>1. \A i \in S : IsFiniteSet(0..i) /\ 0..i \in SUBSET Nat
    BY FS_Interval
  <2> QED
    BY <2>1 DEF FiniteSubsetsOf
<1>2. PICK T \in Below : \A U \in Below : <<U, T>> \notin StrictSubsetOrdering(Nat)
  <2> HIDE DEF Below
  <2> QED
    BY <1>1, WFMin, FS_StrictSubsetOrderingWellFounded
<1>3. PICK i \in S : T = 0..i
  BY <1>2
<1>4. ASSUME NEW j \in S, j < i PROVE FALSE
  <2>1. 0..j \in Below /\ 0..j \subseteq T /\ 0..j # T
    BY <1>3, <1>4
  <2>2. \A U \in SUBSET Nat, V \in SUBSET Nat :
           U \subseteq V /\ U # V => <<U, V>> \in StrictSubsetOrdering(Nat)
    BY DEF StrictSubsetOrdering
  <2>3. 0..j \in SUBSET Nat /\ T \in SUBSET Nat
    BY <1>3
  <2> HIDE DEF Below
  <2> QED
    BY <1>2, <2>1, <2>2, <2>3
<1>5. \A j \in S : i <= j
  BY <1>4
<1> QED
  BY <1>5 DEF Least

-----------------------------------------------------------------------------
Whats == {Input} \cup Answers \cup Notices
Posts == [sender : Users \cup BotAccounts(config), what : Whats]

RoomTypeOK ==
    /\ config.briefs \subseteq Briefs
    /\ room \in Seq(Posts)
    /\ Len(room) <= MaxRoom
    /\ since \in Nat /\ sinceFile \in Nat
    /\ sinceFile <= since /\ since <= Len(room)
LoopTypeOK ==
    /\ pc \in [Loops -> MatrixPcs \cup SchedulerPcs]
    /\ pc["matrix"] \in MatrixPcs /\ pc["scheduler"] \in SchedulerPcs
    /\ poll \in [upto : 0..Len(room), at : Nat]
    /\ failures \in Nat /\ failures < MaxFailures
StoreTypeOK ==
    /\ recorded \subseteq 1..Len(room)
    /\ effects \in [Events -> Nat]
    /\ outbox \in Seq(Notices)
    /\ delivered \subseteq Range(outbox)
    /\ queue \in [Loops -> SUBSET (DOMAIN outbox)]

\* The event the poll is at is one of its batch that is input.
AtInput ==
    pc["matrix"] \in {"take", "handle", "notify", "answer"} => at \in 1..poll.upto /\ IsAccepted(at)

\* What is recorded was input, and only that was carried out, once; not yet
\* so the event that HandleText has just recorded.
CarriedOutOnce ==
    /\ \A e \in recorded : IsAccepted(e)
    /\ \A e \in Events : effects[e] <= 1 /\ (effects[e] = 1 => e \in recorded)
    /\ pc["matrix"] = "handle" => at \in recorded /\ effects[at] = 0

\* A notice in the room is a row of the outbox, and a loop that goes to mark
\* a row has shown it.
ShownIsWritten == \A i \in DOMAIN room : room[i].what \in Notices => room[i].what \in Range(outbox)
MarkedIsShown ==
    \A l \in Loops : /\ pc[l] \in {"send", "mark"} => queue[l] # {}
                     /\ pc[l] = "mark" => \E i \in DOMAIN room : room[i].what = Subject(l)

LoopsInv ==
    /\ RoomTypeOK
    /\ LoopTypeOK
    /\ StoreTypeOK
    /\ AtInput
    /\ CarriedOutOnce
    /\ ShownIsWritten
    /\ MarkedIsShown

-----------------------------------------------------------------------------
\* A notice is not an answer or an input; the accounts are those of the bots.
LEMMA WhatsDiffer ==
    /\ Input \notin Notices /\ \A e : <<"answer", e>> \notin Notices
    /\ \A e \in Events : <<"answer", e>> \in Whats /\ <<"event", e>> \in Notices
    /\ \A n : ClientFor(n) \in BotAccounts(config)
BY DEF Input, Notices, Answers, Whats, ClientFor, BotAccounts

\* The rows pulled are rows of the outbox; the first of them is one.
LEMMA QueueRows ==
    ASSUME StoreTypeOK, NEW l \in Loops, queue[l] # {}
    PROVE  /\ Least(queue[l]) \in queue[l] /\ Least(queue[l]) \in DOMAIN outbox
           /\ Subject(l) \in Notices /\ Subject(l) \in Range(outbox)
<1>1. DOMAIN outbox = 1..Len(outbox) /\ \A i \in DOMAIN outbox : outbox[i] \in Notices
  BY DEF StoreTypeOK
<1>2. queue[l] \in SUBSET Nat /\ queue[l] \subseteq DOMAIN outbox
  BY <1>1 DEF StoreTypeOK
<1>3. Least(queue[l]) \in queue[l]
  BY <1>2, LeastOfSet
<1> QED
  BY <1>1, <1>2, <1>3 DEF Subject, Range

\* What a post leaves of the room.
LEMMA PostedRoom ==
    ASSUME RoomTypeOK, NEW s \in Users \cup BotAccounts(config), NEW w \in Whats, Post(s, w),
           UNCHANGED config
    PROVE  /\ room' \in Seq(Posts)' /\ Len(room') = Len(room) + 1 /\ Len(room') <= MaxRoom
           /\ DOMAIN room = 1..Len(room) /\ DOMAIN room' = 1..(Len(room) + 1)
           /\ \A i \in 1..Len(room) : room'[i] = room[i]
           /\ room'[Len(room) + 1].what = w
<1>1. Posts' = Posts /\ [sender |-> s, what |-> w] \in Posts
  BY DEF Posts, BotAccounts, SchedulerConfigured, Account, SessionMatches
<1>2. MaxRoom \in Nat /\ Len(room) \in Nat
  BY DeliveryBoundsAssumption DEF RoomTypeOK
<1>3. room' = Append(room, [sender |-> s, what |-> w]) /\ Len(room) < MaxRoom
  BY DEF Post
<1>4. room' \in Seq(Posts)
  BY <1>1, <1>3 DEF RoomTypeOK
<1>5. Len(room') = Len(room) + 1 /\ Len(room') <= MaxRoom
  BY <1>2, <1>3 DEF RoomTypeOK
<1>6. \A i \in 1..Len(room) : room'[i] = room[i]
  BY <1>3 DEF RoomTypeOK
<1>7. room'[Len(room) + 1] = [sender |-> s, what |-> w]
  BY <1>2, <1>3 DEF RoomTypeOK
<1> QED
  BY <1>1, <1>2, <1>4, <1>5, <1>6, <1>7 DEF RoomTypeOK

\* The poll goes on to an input of its batch or to the outbox.
LEMMA MovesToInput ==
    ASSUME RoomTypeOK, LoopTypeOK, NEW i \in Nat, NEW last \in 0..Len(room), MoveTo(i, last)
    PROVE  /\ poll' \in [upto : {last}, at : Nat]
           /\ \E label \in {"pull", "take"} :
                 /\ pc' = [pc EXCEPT !["matrix"] = label]
                 /\ label = "take" => poll'.at \in 1..last /\ IsAccepted(poll'.at)
           /\ \A j \in (i + 1)..last : IsAccepted(j) => pc'["matrix"] = "take" /\ poll'.at <= j
<1> DEFINE rest == {j \in (i + 1)..last : IsAccepted(j)}
<1> DEFINE n == NextAccepted(i, last)
<1>1. last \in Nat /\ rest \in SUBSET Nat /\ "matrix" \in DOMAIN pc
  BY DEF RoomTypeOK, LoopTypeOK, Loops
<1>2. CASE rest = {}
  <2>1. n = last + 1 /\ n > last
    BY <1>1, <1>2 DEF NextAccepted
  <2>2. \A j \in (i + 1)..last : ~IsAccepted(j)
    BY <1>2
  <2> HIDE DEF n, rest
  <2>3. poll' = [upto |-> last, at |-> 0] /\ pc' = [pc EXCEPT !["matrix"] = "pull"]
    BY <2>1 DEF MoveTo, Goto, n
  <2> QED
    BY <2>2, <2>3
<1>3. CASE rest # {}
  <2>1. n = Least(rest) /\ n \in rest /\ \A j \in rest : n <= j
    BY <1>1, <1>3, LeastOfSet DEF NextAccepted
  <2>2. n \in 1..last /\ n \in Nat /\ ~(n > last) /\ IsAccepted(n)
    BY <1>1, <2>1
  <2>3. \A j \in (i + 1)..last : IsAccepted(j) => n <= j
    BY <2>1
  <2> HIDE DEF n, rest
  <2>4. poll' = [upto |-> last, at |-> n] /\ pc' = [pc EXCEPT !["matrix"] = "take"]
    BY <2>2 DEF MoveTo, Goto, n
  <2>5. pc'["matrix"] = "take" /\ poll'.at = n
    BY <1>1, <2>4
  <2> QED
    BY <2>2, <2>3, <2>4, <2>5
<1> QED
  BY <1>2, <1>3

-----------------------------------------------------------------------------
\* The room only grows, by posts whose notices are rows of the outbox.
RoomGrows ==
    /\ config' = config
    /\ room' \in Seq(Posts') /\ Len(room') <= MaxRoom /\ Len(room) <= Len(room')
    /\ \A i \in 1..Len(room) : room'[i] = room[i]
    /\ \A i \in DOMAIN room' \ DOMAIN room : room'[i].what \in Notices => room'[i].what \in Range(outbox)

\* A step that leaves it alone, or posts once, makes it grow.
LEMMA RoomMayGrow ==
    ASSUME RoomTypeOK, UNCHANGED config
    PROVE  /\ UNCHANGED room => RoomGrows
           /\ \A s \in Users \cup BotAccounts(config), w \in Whats :
                 Post(s, w) /\ (w \in Notices => w \in Range(outbox)) => RoomGrows
<1>1. Posts' = Posts
  BY DEF Posts, BotAccounts, SchedulerConfigured, Account, SessionMatches
<1>2. UNCHANGED room => RoomGrows
  BY <1>1 DEF RoomGrows, RoomTypeOK
<1>3. ASSUME NEW s \in Users \cup BotAccounts(config), NEW w \in Whats,
             Post(s, w), w \in Notices => w \in Range(outbox)
      PROVE  RoomGrows
  <2>1. /\ room' \in Seq(Posts)' /\ Len(room') = Len(room) + 1 /\ Len(room') <= MaxRoom
        /\ DOMAIN room = 1..Len(room) /\ DOMAIN room' = 1..(Len(room) + 1)
        /\ \A i \in 1..Len(room) : room'[i] = room[i]
        /\ room'[Len(room) + 1].what = w
    BY <1>3, PostedRoom
  <2>2. Len(room) \in Nat
    BY DEF RoomTypeOK
  <2>3. \A i \in DOMAIN room' \ DOMAIN room : room'[i].what = w
    BY <2>1, <2>2
  <2> QED
    BY <1>3, <2>1, <2>2, <2>3 DEF RoomGrows
<1> QED
  BY <1>2, <1>3

\* What growth leaves as it was.
LEMMA GrowthKeeps ==
    ASSUME RoomTypeOK, ShownIsWritten, RoomGrows
    PROVE  /\ Len(room) \in Nat /\ Len(room') \in Nat /\ Len(room) <= Len(room')
           /\ DOMAIN room = 1..Len(room) /\ DOMAIN room' = 1..Len(room')
           /\ \A i \in 1..Len(room) : IsAccepted(i)' <=> IsAccepted(i)
           /\ \A n : (\E i \in DOMAIN room : room[i].what = n) => \E i \in DOMAIN room' : room'[i].what = n
           /\ \A i \in DOMAIN room' : room'[i].what \in Notices => room'[i].what \in Range(outbox)
           /\ Whats' = Whats
<1>1. /\ Len(room) \in Nat /\ Len(room') \in Nat
      /\ DOMAIN room = 1..Len(room) /\ DOMAIN room' = 1..Len(room')
  BY DEF RoomTypeOK, RoomGrows
<1>2. \A i \in 1..Len(room) : IsAccepted(i)' <=> IsAccepted(i)
  BY DEF RoomGrows, IsAccepted, IgnoredUsers, ResolvedUser, Account, SchedulerConfigured, SessionMatches
<1>3. \A i \in 1..Len(room) : i \in 1..Len(room') /\ room'[i] = room[i]
  BY <1>1 DEF RoomGrows
<1>4. \A i \in DOMAIN room' : room'[i].what \in Notices => room'[i].what \in Range(outbox)
  <2>1. ASSUME NEW i \in DOMAIN room', room'[i].what \in Notices
        PROVE  room'[i].what \in Range(outbox)
    <3>1. CASE i \in DOMAIN room
      BY <1>1, <1>3, <2>1, <3>1 DEF ShownIsWritten
    <3>2. CASE i \notin DOMAIN room
      BY <2>1, <3>2 DEF RoomGrows
    <3> QED
      BY <3>1, <3>2
  <2> QED
    BY <2>1
<1> QED
  BY <1>1, <1>2, <1>3, <1>4 DEF RoomGrows, Whats, Answers, Notices

\* At an event, the poll is at an input of its batch, which is in the room.
LEMMA AtIsInput ==
    ASSUME LoopsInv, pc["matrix"] \in {"take", "handle", "notify", "answer"}
    PROVE  /\ at \in 1..poll.upto /\ at \in 1..Len(room) /\ at \in Events /\ at \in Nat
           /\ IsAccepted(at) /\ poll.upto \in 0..Len(room)
BY DeliveryBoundsAssumption DEF LoopsInv, AtInput, LoopTypeOK, RoomTypeOK, Events, at

\* Every step makes the room grow, if only by nothing.
LEMMA RoomOnlyGrows == LoopsInv /\ [Next]_vars => RoomGrows
<1> SUFFICES ASSUME LoopsInv, [Next]_vars PROVE RoomGrows
  OBVIOUS
<1>1. UNCHANGED config /\ RoomTypeOK
  BY DEF LoopsInv, vars, Next, Restart, UserPosts, MatrixStep, SchedulerStep, FaultStep, Sync, Take, TakeFails,
         Handle, Notify, NotifyFails, Answer, AnswerFails, Pull, Send, SendFails, Mark, PullOrMarkFails,
         StoreToken, StoreTokenFails, Tick, TickFails, Crash
<1>2. CASE UNCHANGED room
  BY <1>1, <1>2, RoomMayGrow
<1>3. CASE Answer \/ AnswerFails
  <2>1. <<"answer", at>> \in Whats /\ <<"answer", at>> \notin Notices
    BY <1>3, AtIsInput, WhatsDiffer DEF Answer, AnswerFails
  <2>2. Account(config.knowledge) \in BotAccounts(config)
    BY DEF BotAccounts
  <2> QED
    BY <1>1, <1>2, <1>3, <2>1, <2>2, RoomMayGrow DEF Answer, AnswerFails
<1>4. ASSUME NEW l \in Loops, Send(l) \/ SendFails(l)
      PROVE  RoomGrows
  <2>1. Subject(l) \in Range(outbox) /\ Subject(l) \in Whats
    BY <1>4, QueueRows DEF Send, SendFails, LoopsInv, MarkedIsShown, Whats
  <2> QED
    BY <1>1, <1>2, <1>4, <2>1, WhatsDiffer, RoomMayGrow DEF Send, SendFails
<1>5. ASSUME NEW u \in Users, UserPosts(u)
      PROVE  RoomGrows
  <2>1. Input \in Whats /\ Input \notin Notices
    BY WhatsDiffer DEF Whats
  <2> QED
    BY <1>1, <1>5, <2>1, RoomMayGrow DEF UserPosts
<1>6. \/ UNCHANGED room \/ Answer \/ AnswerFails
      \/ \E l \in Loops : Send(l) \/ SendFails(l)
      \/ \E u \in Users : UserPosts(u)
  BY DEF vars, Next, Restart, MatrixStep, SchedulerStep, FaultStep, Sync, Take, TakeFails, Handle,
         Notify, NotifyFails, Pull, Mark, PullOrMarkFails, StoreToken, StoreTokenFails, Tick,
         TickFails, Crash, Loops
<1> QED
  BY <1>2, <1>3, <1>4, <1>5, <1>6

(***************************************************************************)
(* Failures: a loop that fails gives up its poll and the rows it pulled,   *)
(* and starts over; when it takes the daemon down, both do.                *)
(***************************************************************************)
FallsBack ==
    /\ pc' \in [Loops -> MatrixPcs \cup SchedulerPcs]
    /\ queue' \in [Loops -> SUBSET (DOMAIN outbox)]
    /\ \A l \in Loops : \/ pc'[l] = pc[l] /\ queue'[l] = queue[l]
                        \/ pc'[l] \in {"down", IF l = "matrix" THEN "sync" ELSE "tick"}
    /\ \/ poll' = poll
       \/ poll' = NoPoll /\ pc'["matrix"] \in {"down", "sync"}
    /\ failures' \in Nat /\ failures' < MaxFailures

\* It keeps the invariant, whatever the failed request left in the room.
LEMMA FallingBackKeeps ==
    ASSUME LoopsInv, FallsBack, RoomGrows, UNCHANGED <<storeVars, since, sinceFile>>
    PROVE  LoopsInv'
<1> USE DEF LoopsInv, storeVars
<1>1. /\ Len(room) \in Nat /\ Len(room') \in Nat /\ Len(room) <= Len(room')
      /\ DOMAIN room = 1..Len(room) /\ DOMAIN room' = 1..Len(room')
      /\ \A i \in 1..Len(room) : IsAccepted(i)' <=> IsAccepted(i)
      /\ \A n : (\E i \in DOMAIN room : room[i].what = n) => \E i \in DOMAIN room' : room'[i].what = n
      /\ \A i \in DOMAIN room' : room'[i].what \in Notices => room'[i].what \in Range(outbox)
  BY GrowthKeeps
<1>2. RoomTypeOK'
  BY <1>1 DEF RoomTypeOK, RoomGrows
<1>3. poll' \in [upto : 0..Len(room'), at : Nat]
  BY <1>1 DEF LoopTypeOK, FallsBack, NoPoll
<1>4. LoopTypeOK'
  BY <1>3 DEF LoopTypeOK, FallsBack, Loops, MatrixPcs, SchedulerPcs
<1>5. StoreTypeOK'
  BY <1>1 DEF StoreTypeOK, FallsBack, Events
<1>6. pc'["matrix"] \in {"take", "handle", "notify", "answer"} => pc'["matrix"] = pc["matrix"] /\ poll' = poll
  BY DEF FallsBack, Loops
<1>7. AtInput'
  <2>1. poll.upto \in 0..Len(room)
    BY DEF LoopTypeOK
  <2> QED
    BY <1>1, <1>6, <2>1 DEF AtInput, at
<1>8. CarriedOutOnce'
  BY <1>1, <1>6 DEF CarriedOutOnce, at, StoreTypeOK
<1>9. ShownIsWritten'
  BY <1>1 DEF ShownIsWritten
<1>10. MarkedIsShown'
  <2>1. \A l \in Loops : pc'[l] \in {"send", "mark"} => pc'[l] = pc[l] /\ queue'[l] = queue[l]
    BY DEF FallsBack
  <2> QED
    BY <1>1, <2>1 DEF MarkedIsShown, Subject
<1> QED
  BY <1>2, <1>4, <1>5, <1>7, <1>8, <1>9, <1>10

\* The daemon going down, a failed poll and a failed delivery are such.
LEMMA FailuresFallBack ==
    ASSUME LoopTypeOK, StoreTypeOK, UNCHANGED outbox
    PROVE  /\ Down => FallsBack
           /\ PollFails /\ UNCHANGED <<queue, failures>> => FallsBack
           /\ \A l \in Loops : DeliveryFails(l) => FallsBack
<1> USE DEF LoopTypeOK, StoreTypeOK, FallsBack, Loops, MatrixPcs, SchedulerPcs, Goto
<1>0. MaxFailures \in Nat \ {0}
  BY LimitsAssumption
<1>1. Down => FallsBack
  BY <1>0 DEF Down
<1>2. PollFails /\ UNCHANGED <<queue, failures>> => FallsBack
  BY DEF PollFails
<1>3. ASSUME NEW l \in Loops, DeliveryFails(l)
      PROVE  FallsBack
  <2>1. CASE l = "matrix"
    BY <1>3, <2>1 DEF DeliveryFails, PollFails
  <2>2. CASE l # "matrix" /\ failures + 1 >= MaxFailures
    BY <1>1, <1>3, <2>2 DEF DeliveryFails
  <2>3. CASE l # "matrix" /\ ~(failures + 1 >= MaxFailures)
    BY <1>0, <1>3, <2>3 DEF DeliveryFails
  <2> QED
    BY <2>1, <2>2, <2>3
<1> QED
  BY <1>1, <1>2, <1>3

-----------------------------------------------------------------------------
\* A crash, a failed statement, a failed request.
LEMMA FaultKeeps ==
    ASSUME LoopsInv, NEW l \in Loops,
           \/ Crash \/ AnswerFails \/ StoreTokenFails \/ TickFails
           \/ SendFails(l) \/ PullOrMarkFails(l)
    PROVE  LoopsInv'
<1>1. UNCHANGED <<storeVars, since, sinceFile, config>>
  BY DEF Crash, AnswerFails, StoreTokenFails, TickFails, SendFails, PullOrMarkFails, tokenVars
<1>2. FallsBack
  BY <1>1, FailuresFallBack DEF LoopsInv, Crash, AnswerFails, StoreTokenFails, TickFails, SendFails,
     PullOrMarkFails, storeVars, Loops
<1>3. RoomGrows
  BY RoomOnlyGrows DEF Next, FaultStep
<1> QED
  BY <1>1, <1>2, <1>3, FallingBackKeeps

\* The supervisor, and the users of the room.
LEMMA WorldKeeps ==
    ASSUME LoopsInv, Restart \/ \E u \in Users : UserPosts(u)
    PROVE  LoopsInv'
<1> USE DEF LoopsInv
<1>1. RoomGrows
  BY RoomOnlyGrows DEF Next
<1>2. /\ Len(room) \in Nat /\ Len(room') \in Nat /\ Len(room) <= Len(room')
      /\ DOMAIN room = 1..Len(room) /\ DOMAIN room' = 1..Len(room')
      /\ \A i \in 1..Len(room) : IsAccepted(i)' <=> IsAccepted(i)
      /\ \A n : (\E i \in DOMAIN room : room[i].what = n) => \E i \in DOMAIN room' : room'[i].what = n
      /\ \A i \in DOMAIN room' : room'[i].what \in Notices => room'[i].what \in Range(outbox)
  BY <1>1, GrowthKeeps
<1>3. UNCHANGED <<storeVars, poll, queue, failures>>
  BY DEF Restart, UserPosts
<1>4. UNCHANGED pc \/ pc' = [matrix |-> "sync", scheduler |-> "tick"]
  BY DEF Restart, UserPosts
<1>5. RoomTypeOK'
  BY <1>1, <1>2 DEF Restart, UserPosts, tokenVars, RoomTypeOK, RoomGrows
<1>6. LoopTypeOK'
  BY <1>2, <1>3, <1>4 DEF LoopTypeOK, Loops, MatrixPcs, SchedulerPcs
<1>7. StoreTypeOK'
  BY <1>2, <1>3 DEF StoreTypeOK, storeVars
<1>8. AtInput'
  <2>1. poll.upto \in 0..Len(room)
    BY DEF LoopTypeOK
  <2> QED
    BY <1>2, <1>3, <1>4, <2>1 DEF AtInput, at
<1>9. CarriedOutOnce'
  BY <1>2, <1>3, <1>4 DEF CarriedOutOnce, StoreTypeOK, at, storeVars
<1>10. ShownIsWritten'
  BY <1>2, <1>3 DEF ShownIsWritten, storeVars
<1>11. MarkedIsShown'
  <2>1. \A k \in Loops : pc'[k] \in {"send", "mark"} => pc'[k] = pc[k]
    BY <1>4 DEF Loops
  <2>2. UNCHANGED <<outbox, queue>>
    BY <1>3 DEF storeVars
  <2> QED
    BY <1>2, <2>1, <2>2 DEF MarkedIsShown, Subject
<1> QED
  BY <1>5, <1>6, <1>7, <1>8, <1>9, <1>10, <1>11

-----------------------------------------------------------------------------
(***************************************************************************)
(* PollOnce.  A poll that moves on reaches an input or the outbox; the     *)
(* scheduler loop, the rows it pulled and the outbox stay as they were,    *)
(* but for the notice that HandleText adds.                                *)
(***************************************************************************)
PollMoves ==
    /\ UNCHANGED <<queue, delivered, failures, since, sinceFile>>
    /\ UNCHANGED outbox \/ \E n \in Notices : outbox' = Append(outbox, n)
    /\ \E label \in {"take", "handle", "notify", "answer", "pull"} :
          /\ pc' = [pc EXCEPT !["matrix"] = label]
          /\ label # "pull" => poll'.at \in 1..poll'.upto /\ IsAccepted(poll'.at)
    /\ poll' \in [upto : 0..Len(room), at : Nat]

\* What such a step keeps, apart from what is recorded and carried out.
LEMMA PollingKeeps ==
    ASSUME LoopsInv, PollMoves, RoomGrows, recorded' \subseteq 1..Len(room), effects' \in [Events -> Nat]
    PROVE  RoomTypeOK' /\ LoopTypeOK' /\ StoreTypeOK' /\ AtInput' /\ ShownIsWritten' /\ MarkedIsShown'
<1> USE DEF LoopsInv
<1>1. /\ Len(room) \in Nat /\ Len(room') \in Nat /\ Len(room) <= Len(room')
      /\ DOMAIN room = 1..Len(room) /\ DOMAIN room' = 1..Len(room')
      /\ \A i \in 1..Len(room) : IsAccepted(i)' <=> IsAccepted(i)
      /\ \A n : (\E i \in DOMAIN room : room[i].what = n) => \E i \in DOMAIN room' : room'[i].what = n
      /\ \A i \in DOMAIN room' : room'[i].what \in Notices => room'[i].what \in Range(outbox)
  BY GrowthKeeps
<1>2. /\ outbox' \in Seq(Notices) /\ DOMAIN outbox \subseteq DOMAIN outbox'
      /\ \A i \in DOMAIN outbox : outbox'[i] = outbox[i]
      /\ Range(outbox) \subseteq Range(outbox')
  <2>1. outbox \in Seq(Notices) /\ DOMAIN outbox = 1..Len(outbox) /\ Len(outbox) \in Nat
    BY DEF StoreTypeOK
  <2>2. /\ outbox' \in Seq(Notices) /\ DOMAIN outbox \subseteq DOMAIN outbox'
        /\ \A i \in DOMAIN outbox : outbox'[i] = outbox[i]
    <3>1. CASE UNCHANGED outbox
      BY <2>1, <3>1
    <3>2. ASSUME NEW n \in Notices, outbox' = Append(outbox, n)
          PROVE  /\ outbox' \in Seq(Notices) /\ DOMAIN outbox' = 1..(Len(outbox) + 1)
                 /\ \A i \in DOMAIN outbox : outbox'[i] = outbox[i]
      BY <2>1, <3>2
    <3> QED
      BY <2>1, <3>1, <3>2 DEF PollMoves
  <2> QED
    BY <2>2 DEF Range
<1>3. pc' \in [Loops -> MatrixPcs \cup SchedulerPcs] /\ UNCHANGED <<queue, delivered>>
  BY DEF PollMoves, LoopTypeOK, MatrixPcs
<1>4. RoomTypeOK'
  BY <1>1 DEF RoomTypeOK, RoomGrows, PollMoves
<1>5. LoopTypeOK'
  <2>1. pc'["matrix"] \in MatrixPcs /\ pc'["scheduler"] \in SchedulerPcs
    BY DEF PollMoves, LoopTypeOK, MatrixPcs, Loops
  <2>2. poll' \in [upto : 0..Len(room'), at : Nat]
    BY <1>1 DEF PollMoves
  <2> QED
    BY <1>3, <2>1, <2>2 DEF LoopTypeOK, PollMoves
<1>6. StoreTypeOK'
  BY <1>1, <1>2, <1>3 DEF StoreTypeOK
<1>7. AtInput'
  <2>1. pc'["matrix"] \in {"take", "handle", "notify", "answer"} =>
           poll'.at \in 1..poll'.upto /\ IsAccepted(poll'.at)
    BY DEF PollMoves, LoopTypeOK, Loops
  <2>2. poll'.upto \in 0..Len(room)
    BY DEF PollMoves
  <2> QED
    BY <1>1, <2>1, <2>2 DEF AtInput, at
<1>8. ShownIsWritten'
  BY <1>1, <1>2 DEF ShownIsWritten
<1>9. MarkedIsShown'
  <2>1. \A l \in Loops : pc'[l] \in {"send", "mark"} => pc'[l] = pc[l]
    BY DEF PollMoves, LoopTypeOK, Loops
  <2>2. \A l \in Loops : queue[l] # {} => Subject(l)' = Subject(l)
    BY <1>2, <1>3, QueueRows DEF Subject
  <2> QED
    BY <1>1, <1>3, <2>1, <2>2 DEF MarkedIsShown
<1> QED
  BY <1>4, <1>5, <1>6, <1>7, <1>8, <1>9

PollStep == Sync \/ Take \/ TakeFails \/ Handle \/ Notify \/ NotifyFails \/ Answer

\* Each of them moves the poll on.
LEMMA PollStepMoves == LoopsInv /\ PollStep => PollMoves
<1> SUFFICES ASSUME LoopsInv, PollStep PROVE PollMoves
  OBVIOUS
<1> USE DEF LoopsInv
<1>1. UNCHANGED <<queue, delivered, failures, since, sinceFile>>
  BY DEF PollStep, Sync, Take, TakeFails, Handle, Notify, NotifyFails, Answer, storeVars, tokenVars
<1>2. UNCHANGED outbox \/ \E n \in Notices : outbox' = Append(outbox, n)
  <2>1. CASE Notify
    BY <2>1, AtIsInput, WhatsDiffer DEF Notify
  <2>2. CASE ~Notify
    <3>1. UNCHANGED outbox
      BY <2>2 DEF PollStep, Sync, Take, TakeFails, Handle, NotifyFails, Answer, storeVars
    <3> QED
      BY <3>1
  <2> QED
    BY <2>1, <2>2
<1> DEFINE Stays == /\ UNCHANGED poll
                    /\ \E label \in {"take", "handle", "notify", "answer"} : Goto("matrix", label)
           Moves == /\ poll' \in [upto : 0..Len(room), at : Nat]
                    /\ \E label \in {"pull", "take"} :
                          /\ pc' = [pc EXCEPT !["matrix"] = label]
                          /\ label = "take" => poll'.at \in 1..poll'.upto /\ IsAccepted(poll'.at)
<1>3. Moves \/ (Stays /\ pc["matrix"] \in {"take", "handle", "notify", "answer"})
  <2>1. CASE Sync
    <3>1. /\ MoveTo(since, Len(room))
          /\ since \in Nat /\ Len(room) \in Nat /\ Len(room) \in 0..Len(room)
      BY <2>1 DEF Sync, RoomTypeOK
    <3>2. /\ poll' \in [upto : {Len(room)}, at : Nat]
          /\ \E label \in {"pull", "take"} :
                /\ pc' = [pc EXCEPT !["matrix"] = label]
                /\ label = "take" => poll'.at \in 1..Len(room) /\ IsAccepted(poll'.at)
      BY <3>1, MovesToInput
    <3> QED
      BY <3>1, <3>2
  <2>2. CASE ~Sync
    <3>1. pc["matrix"] \in {"take", "handle", "notify", "answer"}
      BY <2>2 DEF PollStep, Take, TakeFails, Handle, Notify, NotifyFails, Answer
    <3>2. MoveTo(at, poll.upto) \/ Stays
      BY <2>2 DEF PollStep, Take, TakeFails, Handle, Notify, NotifyFails, Answer
    <3> QED
      BY <3>1, <3>2, AtIsInput, MovesToInput
  <2> QED
    BY <2>1, <2>2
<1>4. CASE Moves
  BY <1>1, <1>2, <1>4 DEF PollMoves
<1>5. CASE Stays /\ pc["matrix"] \in {"take", "handle", "notify", "answer"}
  <2>1. poll' = poll /\ poll \in [upto : 0..Len(room), at : Nat]
    BY <1>5 DEF LoopTypeOK
  <2>2. poll.at \in 1..poll.upto /\ IsAccepted(poll.at)
    BY <1>5, AtIsInput DEF at
  <2> QED
    BY <1>1, <1>2, <1>5, <2>1, <2>2 DEF PollMoves, Goto
<1> QED
  BY <1>3, <1>4, <1>5

(***************************************************************************)
(* INSERT OR IGNORE lets an event through once, and HandleText carries out *)
(* only what was let through.                                              *)
(***************************************************************************)
LEMMA PollStepKeeps == LoopsInv /\ PollStep => LoopsInv'
<1> SUFFICES ASSUME LoopsInv, PollStep PROVE LoopsInv'
  OBVIOUS
<1> USE DEF LoopsInv
<1>1. PollMoves
  BY PollStepMoves
<1>2. RoomGrows
  BY RoomOnlyGrows DEF Next, MatrixStep, FaultStep, PollStep
<1>3. /\ Len(room) \in Nat /\ \A i \in 1..Len(room) : IsAccepted(i)' <=> IsAccepted(i)
  BY <1>2, GrowthKeeps
<1>4. recorded' \subseteq 1..Len(room) /\ effects' \in [Events -> Nat] /\ CarriedOutOnce'
  <2>1. CASE Take
    <3>1. at \in 1..Len(room) /\ at \in Events /\ IsAccepted(at)
      BY <2>1, AtIsInput DEF Take
    <3>2. CASE IsNew(at)
      <4>1. recorded' = recorded \cup {at} /\ UNCHANGED <<poll, effects>>
        BY <2>1, <3>2 DEF Take
      <4>2. effects[at] = 0
        BY <3>1, <3>2 DEF CarriedOutOnce, StoreTypeOK, IsNew
      <4> QED
        BY <1>3, <3>1, <4>1, <4>2 DEF CarriedOutOnce, StoreTypeOK, at
    <3>3. CASE ~IsNew(at)
      <4>1. UNCHANGED <<recorded, effects>> /\ MoveTo(at, poll.upto)
        BY <2>1, <3>3 DEF Take
      <4>2. pc'["matrix"] # "handle"
        BY <4>1 DEF MoveTo, Goto, LoopTypeOK, Loops
      <4> QED
        BY <1>3, <4>1, <4>2 DEF CarriedOutOnce, StoreTypeOK
    <3> QED
      BY <3>2, <3>3
  <2>2. CASE Handle
    <3>1. at \in Events /\ at \in recorded /\ effects[at] = 0
      BY <2>2, AtIsInput DEF Handle, CarriedOutOnce
    <3>2. effects' = [effects EXCEPT ![at] = 1] /\ UNCHANGED recorded
      BY <2>2, <3>1 DEF Handle, StoreTypeOK
    <3>3. pc'["matrix"] # "handle"
      BY <2>2 DEF Handle, Goto, LoopTypeOK, Loops
    <3> QED
      BY <1>3, <3>1, <3>2, <3>3 DEF CarriedOutOnce, StoreTypeOK
  <2>3. CASE Sync \/ TakeFails \/ Notify \/ NotifyFails \/ Answer
    <3>1. UNCHANGED <<recorded, effects>>
      BY <2>3 DEF Sync, TakeFails, Notify, NotifyFails, Answer, storeVars
    <3>2. pc'["matrix"] # "handle"
      BY <2>3 DEF Sync, TakeFails, Notify, NotifyFails, Answer, MoveTo, Goto, LoopTypeOK, Loops
    <3> QED
      BY <1>3, <3>1, <3>2 DEF CarriedOutOnce, StoreTypeOK
  <2> QED
    BY <2>1, <2>2, <2>3 DEF PollStep
<1> QED
  BY <1>1, <1>2, <1>4, PollingKeeps

(***************************************************************************)
(* DeliverOutbox: a loop marks a row only after it has shown it; the last  *)
(* row ends its delivery.                                                  *)
(***************************************************************************)
OutboxStep(l) == Pull(l) \/ Send(l) \/ Mark(l)

\* What a loop that delivers does to the poll and to the other loop.
LEMMA OutboxStepKeeps == LoopsInv /\ (\E l \in Loops : OutboxStep(l)) => LoopsInv'
<1> SUFFICES ASSUME LoopsInv, NEW l \in Loops, OutboxStep(l) PROVE LoopsInv'
  OBVIOUS
<1> USE DEF LoopsInv
<1>0. MaxFailures \in Nat /\ 0 < MaxFailures
  BY LimitsAssumption
<1>1. UNCHANGED <<config, recorded, effects, outbox, since, sinceFile, poll>>
  BY DEF OutboxStep, Pull, Send, Mark, storeVars, tokenVars
<1>2. RoomGrows
  BY RoomOnlyGrows DEF Next, MatrixStep, SchedulerStep, OutboxStep, Loops
<1>3. /\ Len(room) \in Nat /\ Len(room') \in Nat /\ Len(room) <= Len(room')
      /\ DOMAIN room = 1..Len(room) /\ DOMAIN room' = 1..Len(room')
      /\ \A i \in 1..Len(room) : IsAccepted(i)' <=> IsAccepted(i)
      /\ \A n : (\E i \in DOMAIN room : room[i].what = n) => \E i \in DOMAIN room' : room'[i].what = n
      /\ \A i \in DOMAIN room' : room'[i].what \in Notices => room'[i].what \in Range(outbox)
  BY <1>2, GrowthKeeps
<1>4. \E label \in {"send", "mark", IF l = "matrix" THEN "token" ELSE "tick"} : pc' = [pc EXCEPT ![l] = label]
  BY DEF OutboxStep, Pull, Send, Mark, Delivered, Goto
<1>5. RoomTypeOK'
  BY <1>1, <1>2, <1>3 DEF RoomTypeOK, RoomGrows
<1>6. LoopTypeOK'
  <2>1. failures' \in {failures, 0}
    BY DEF OutboxStep, Pull, Send, Mark, Delivered
  <2>2. poll' \in [upto : 0..Len(room'), at : Nat]
    BY <1>1, <1>3 DEF LoopTypeOK
  <2>3. /\ pc' \in [Loops -> MatrixPcs \cup SchedulerPcs]
        /\ pc'["matrix"] \in MatrixPcs /\ pc'["scheduler"] \in SchedulerPcs
    BY <1>4 DEF LoopTypeOK, Loops, MatrixPcs, SchedulerPcs
  <2> QED
    BY <1>0, <2>1, <2>2, <2>3 DEF LoopTypeOK
<1>7. queue' \in [Loops -> SUBSET (DOMAIN outbox)] /\ \A k \in Loops : k # l => queue'[k] = queue[k]
  BY DEF OutboxStep, Pull, Send, Mark, Pulled, Pending, StoreTypeOK
<1>8. StoreTypeOK'
  <2>1. delivered' \subseteq Range(outbox)
    <3>1. CASE Mark(l)
      BY <3>1, QueueRows DEF Mark, MarkedIsShown, StoreTypeOK
    <3>2. CASE Pull(l) \/ Send(l)
      BY <3>2 DEF Pull, Send, StoreTypeOK, storeVars
    <3> QED
      BY <3>1, <3>2 DEF OutboxStep
  <2> QED
    BY <1>1, <1>3, <1>7, <2>1 DEF StoreTypeOK
<1>9. pc'["matrix"] \in {"take", "handle", "notify", "answer"} => pc'["matrix"] = pc["matrix"]
  BY <1>4 DEF LoopTypeOK, Loops
<1>10. AtInput'
  <2>1. poll.upto \in 0..Len(room)
    BY DEF LoopTypeOK
  <2> QED
    BY <1>1, <1>3, <1>9, <2>1 DEF AtInput, at
<1>11. CarriedOutOnce'
  BY <1>1, <1>3, <1>9 DEF CarriedOutOnce, StoreTypeOK, at
<1>12. ShownIsWritten'
  BY <1>1, <1>3 DEF ShownIsWritten
<1>13. MarkedIsShown'
  <2> DEFINE Ready(k) == /\ pc[k] \in {"send", "mark"} => queue[k] # {}
                         /\ pc[k] = "mark" => \E i \in DOMAIN room : room[i].what = Subject(k)
  <2>1. ASSUME NEW k \in Loops, k # l
        PROVE  Ready(k)'
    <3>1. pc'[k] = pc[k] /\ queue'[k] = queue[k] /\ Ready(k)
      BY <1>4, <1>7, <2>1 DEF LoopTypeOK, MarkedIsShown
    <3>2. Subject(k)' = Subject(k)
      BY <1>1, <3>1 DEF Subject
    <3> QED
      BY <1>3, <3>1, <3>2
  <2>2. Pull(l) => Ready(l)'
    <3> HAVE Pull(l)
    <3>1. queue'[l] = Pulled /\ (pc'[l] \in {"send", "mark"} => Pulled # {} /\ pc'[l] = "send")
      BY DEF Pull, Goto, Delivered, LoopTypeOK, StoreTypeOK
    <3> QED
      BY <3>1
  <2>3. Send(l) => Ready(l)'
    <3> HAVE Send(l)
    <3>1. queue' = queue /\ pc'[l] = "mark" /\ queue[l] # {}
      BY DEF Send, Goto, LoopTypeOK, MarkedIsShown
    <3>2. Subject(l) \in Whats /\ ClientFor(Subject(l)) \in Users \cup BotAccounts(config)
      BY <3>1, QueueRows, WhatsDiffer DEF Whats
    <3>3. room'[Len(room) + 1].what = Subject(l) /\ Len(room) + 1 \in DOMAIN room'
      <4>1. Post(ClientFor(Subject(l)), Subject(l)) /\ UNCHANGED config
        BY <1>1 DEF Send
      <4>2. room'[Len(room) + 1].what = Subject(l) /\ DOMAIN room' = 1..(Len(room) + 1)
        BY <3>2, <4>1, PostedRoom
      <4> QED
        BY <1>3, <4>2
    <3>4. Subject(l)' = Subject(l)
      BY <1>1, <3>1 DEF Subject
    <3>5. Len(room) + 1 \in DOMAIN room' /\ room'[Len(room) + 1].what = Subject(l)'
      BY <3>3, <3>4
    <3>6. \E i \in DOMAIN room' : room'[i].what = Subject(l)'
      BY <3>5
    <3> QED
      BY <3>1, <3>6
  <2>4. Mark(l) => Ready(l)'
    <3> HAVE Mark(l)
    <3>1. /\ queue'[l] = queue[l] \ {Least(queue[l])}
          /\ pc'[l] \in {"send", "mark"} => queue[l] # {Least(queue[l])} /\ pc'[l] = "send" /\ queue[l] # {}
      BY DEF Mark, Goto, Delivered, LoopTypeOK, StoreTypeOK, MarkedIsShown
    <3> QED
      BY <3>1
  <2> QED
    BY <2>1, <2>2, <2>3, <2>4 DEF OutboxStep, MarkedIsShown
<1> QED
  BY <1>5, <1>6, <1>8, <1>10, <1>11, <1>12, <1>13

(***************************************************************************)
(* The ends of a loop's round: the token is stored, a tick writes a brief. *)
(***************************************************************************)
LEMMA RoundKeeps == LoopsInv /\ (StoreToken \/ Tick) => LoopsInv'
<1> SUFFICES ASSUME LoopsInv, StoreToken \/ Tick PROVE LoopsInv'
  OBVIOUS
<1> USE DEF LoopsInv
<1>1. UNCHANGED <<config, room, recorded, effects, delivered, queue, failures>>
  BY DEF StoreToken, Tick, storeVars
<1>2. RoomGrows
  BY <1>1, RoomMayGrow
<1>3. /\ Len(room) \in Nat /\ \A i \in 1..Len(room) : IsAccepted(i)' <=> IsAccepted(i)
      /\ DOMAIN room' = DOMAIN room
  BY <1>1, <1>2, GrowthKeeps
<1>4. /\ outbox' \in Seq(Notices) /\ DOMAIN outbox \subseteq DOMAIN outbox'
      /\ \A i \in DOMAIN outbox : outbox'[i] = outbox[i]
      /\ Range(outbox) \subseteq Range(outbox')
  <2>1. outbox \in Seq(Notices) /\ DOMAIN outbox = 1..Len(outbox) /\ Len(outbox) \in Nat
    BY DEF StoreTypeOK
  <2>2. /\ outbox' \in Seq(Notices) /\ DOMAIN outbox \subseteq DOMAIN outbox'
        /\ \A i \in DOMAIN outbox : outbox'[i] = outbox[i]
    <3>1. CASE UNCHANGED outbox
      BY <2>1, <3>1
    <3>2. ASSUME NEW b \in config.briefs, outbox' = Append(outbox, <<"brief", b>>)
          PROVE  /\ outbox' \in Seq(Notices) /\ DOMAIN outbox' = 1..(Len(outbox) + 1)
                 /\ \A i \in DOMAIN outbox : outbox'[i] = outbox[i]
      <4>1. <<"brief", b>> \in Notices
        BY DEF RoomTypeOK, Notices
      <4> QED
        BY <2>1, <3>2, <4>1
    <3>3. UNCHANGED outbox \/ \E b \in config.briefs : outbox' = Append(outbox, <<"brief", b>>)
      BY DEF StoreToken, Tick, storeVars
    <3> QED
      BY <2>1, <3>1, <3>2, <3>3
  <2> QED
    BY <2>2 DEF Range
<1>5. \E l \in Loops : \E label \in {IF l = "matrix" THEN "sync" ELSE "pull"} : pc' = [pc EXCEPT ![l] = label]
  BY DEF StoreToken, Tick, Goto, Loops
<1>6. \A l \in Loops : pc'[l] \in {"take", "handle", "notify", "answer", "send", "mark"} => pc'[l] = pc[l]
  BY <1>5 DEF LoopTypeOK
<1>7. /\ poll' \in [upto : 0..Len(room), at : Nat]
      /\ pc'["matrix"] # "sync" => UNCHANGED poll
  BY <1>5 DEF StoreToken, Tick, LoopTypeOK, NoPoll, RoomTypeOK, Loops, Goto
<1>8. RoomTypeOK'
  <2>1. poll.upto \in Nat /\ poll.upto <= Len(room)
    BY DEF LoopTypeOK, RoomTypeOK
  <2> QED
    BY <1>1, <1>2, <2>1 DEF RoomTypeOK, RoomGrows, StoreToken, Tick, tokenVars
<1>9. LoopTypeOK'
  <2>1. /\ pc' \in [Loops -> MatrixPcs \cup SchedulerPcs]
        /\ pc'["matrix"] \in MatrixPcs /\ pc'["scheduler"] \in SchedulerPcs
    BY <1>5 DEF LoopTypeOK, Loops, MatrixPcs, SchedulerPcs
  <2> QED
    BY <1>1, <1>7, <2>1 DEF LoopTypeOK
<1>10. StoreTypeOK'
  BY <1>1, <1>4 DEF StoreTypeOK
<1>11. AtInput' /\ CarriedOutOnce'
  <2>1. pc'["matrix"] \in {"take", "handle", "notify", "answer"} => UNCHANGED <<pc["matrix"], poll>>
    BY <1>6, <1>7 DEF Loops
  <2>2. poll.upto \in 0..Len(room)
    BY DEF LoopTypeOK
  <2> QED
    BY <1>1, <1>3, <2>1, <2>2 DEF AtInput, CarriedOutOnce, StoreTypeOK, at
<1>12. ShownIsWritten'
  BY <1>1, <1>4 DEF ShownIsWritten
<1>13. MarkedIsShown'
  <2>1. \A l \in Loops : queue[l] # {} => Subject(l)' = Subject(l)
    BY <1>1, <1>4, QueueRows DEF Subject
  <2> QED
    BY <1>1, <1>6, <2>1 DEF MarkedIsShown
<1> QED
  BY <1>8, <1>9, <1>10, <1>11, <1>12, <1>13

-----------------------------------------------------------------------------
\* The invariant holds when the daemon starts on an empty store.
LEMMA LoopsInit == Init => LoopsInv
<1> SUFFICES ASSUME Init PROVE LoopsInv
  OBVIOUS
<1>1. PICK s \in Scenarios : config = s.config /\ room = s.room /\ faults = s.faults
  BY DEF Init
<1>2. /\ room \in Seq([sender : Users, what : {Input}]) /\ Len(room) <= MaxRoom
      /\ config.briefs \subseteq Briefs
  BY <1>1, ScenariosAssumption DEF Input
<1>3. RoomTypeOK
  <2>1. [sender : Users, what : {Input}] \subseteq Posts
    BY DEF Posts, Whats
  <2>2. room \in Seq(Posts)
    BY <1>2, <2>1, SeqMonotonic
  <2> QED
    BY <1>2, <2>2 DEF Init, RoomTypeOK
<1>4. LoopTypeOK
  BY <1>2, LimitsAssumption DEF Init, LoopTypeOK, NoPoll, Loops, MatrixPcs, SchedulerPcs
<1>5. StoreTypeOK
  BY DEF Init, StoreTypeOK, Range
<1>6. AtInput /\ CarriedOutOnce /\ MarkedIsShown
  BY DEF Init, AtInput, CarriedOutOnce, MarkedIsShown, Loops
<1>7. ShownIsWritten
  <2> DEFINE Opening == [sender : Users, what : {Input}]
  <2>1. room \in Seq(Opening)
    BY <1>2
  <2> HIDE DEF Opening
  <2>2. \A i \in DOMAIN room : room[i] \in Opening
    BY <2>1, LenProperties, ElementOfSeq
  <2> QED
    BY <2>2, WhatsDiffer DEF ShownIsWritten, Opening
<1> QED
  BY <1>3, <1>4, <1>5, <1>6, <1>7 DEF LoopsInv

\* No step of the daemon, its users or its supervisor breaks it.
LEMMA LoopsNext == LoopsInv /\ [Next]_vars => LoopsInv'
<1> SUFFICES ASSUME LoopsInv, [Next]_vars PROVE LoopsInv'
  OBVIOUS
<1>1. CASE UNCHANGED vars
  <2>1. /\ UNCHANGED <<config, room, storeVars, since, sinceFile>>
        /\ UNCHANGED <<pc, queue, poll, failures>>
    BY <1>1 DEF vars, tokenVars
  <2>2. RoomGrows
    BY <2>1, RoomMayGrow DEF LoopsInv
  <2>3. FallsBack
    BY <2>1 DEF LoopsInv, FallsBack, LoopTypeOK, StoreTypeOK
  <2> QED
    BY <2>1, <2>2, <2>3, FallingBackKeeps
<1>2. CASE Restart \/ \E u \in Users : UserPosts(u)
  BY <1>2, WorldKeeps
<1>3. CASE MatrixStep \/ SchedulerStep
  BY <1>3, PollStepKeeps, OutboxStepKeeps, RoundKeeps
     DEF MatrixStep, SchedulerStep, PollStep, OutboxStep, Loops
<1>4. CASE FaultStep
  BY <1>4, FaultKeeps, PollStepKeeps DEF FaultStep, PollStep, Loops
<1> QED
  BY <1>1, <1>2, <1>3, <1>4 DEF Next

(***************************************************************************)
(* The state of the daemon's two loops, the room and the store is well     *)
(* typed and fits together: a message is carried out at most once and only *)
(* after it was recorded, and a row is marked only after it was shown.     *)
(***************************************************************************)
THEOREM DeliveryInvariant == Spec => []LoopsInv
BY LoopsInit, LoopsNext, PTL DEF Spec

-----------------------------------------------------------------------------
(***************************************************************************)
(* The sync token.  Up to where it points, and further up to where the     *)
(* poll has come, every input is recorded or its sender was told.          *)
(***************************************************************************)
DealtWith(n) == \A e \in 1..n : IsAccepted(e) => e \in recorded \cup refused

TokenInv ==
    /\ DealtWith(since)
    /\ pc["matrix"] \in {"take", "handle", "notify", "answer"} => DealtWith(at - 1)
    /\ pc["matrix"] \in {"handle", "notify"} => at \in recorded
    /\ pc["matrix"] \in {"pull", "send", "mark", "token"} => DealtWith(poll.upto)

\* A step that forgets nobody leaves what was dealt with so.
LEMMA DealtWithStays ==
    ASSUME RoomTypeOK, RoomGrows, ShownIsWritten, recorded \subseteq recorded', refused \subseteq refused',
           NEW n \in Int, n <= Len(room), DealtWith(n)
    PROVE  \A e \in 1..n : IsAccepted(e)' => e \in recorded' \cup refused'
<1>1. Len(room) \in Nat /\ \A i \in 1..Len(room) : IsAccepted(i)' <=> IsAccepted(i)
  BY GrowthKeeps
<1> QED
  BY <1>1 DEF DealtWith

\* A poll that moves on from i dealt with everything it leaves behind.
LEMMA MovingOnSkipsNothing ==
    ASSUME LoopsInv, RoomGrows, recorded \subseteq recorded', refused \subseteq refused',
           NEW i \in Nat, NEW last \in 0..Len(room), i <= Len(room), MoveTo(i, last),
           \A e \in 1..i : IsAccepted(e)' => e \in recorded' \cup refused'
    PROVE  /\ pc'["matrix"] \in {"take", "pull"}
           /\ pc'["matrix"] = "take" => DealtWith(at - 1)'
           /\ pc'["matrix"] = "pull" => DealtWith(poll.upto)'
<1> USE DEF LoopsInv
<1>1. /\ Len(room) \in Nat
      /\ \A j \in 1..Len(room) : IsAccepted(j)' <=> IsAccepted(j)
  BY GrowthKeeps
<1>2. /\ poll' \in [upto : {last}, at : Nat]
      /\ \E label \in {"pull", "take"} :
            /\ pc' = [pc EXCEPT !["matrix"] = label]
            /\ label = "take" => poll'.at \in 1..last /\ IsAccepted(poll'.at)
      /\ \A j \in (i + 1)..last : IsAccepted(j) => pc'["matrix"] = "take" /\ poll'.at <= j
  BY MovesToInput
<1>3. pc'["matrix"] \in {"take", "pull"}
  BY <1>2 DEF LoopTypeOK, Loops
<1>4. poll'.at \in Nat /\ poll'.upto = last
  BY <1>2
<1>5. pc'["matrix"] = "take" => DealtWith(at - 1)'
  <2> SUFFICES ASSUME pc'["matrix"] = "take", NEW e \in 1..(poll'.at - 1), IsAccepted(e)'
               PROVE  e \in recorded' \cup refused'
    BY DEF DealtWith, at
  <2>1. poll'.at \in 1..last
    BY <1>2 DEF LoopTypeOK, Loops
  <2>2. e \in 1..last /\ IsAccepted(e) /\ e < poll'.at
    BY <1>1, <2>1
  <2>3. e \in 1..i
    BY <1>2, <2>1, <2>2
  <2> QED
    BY <2>3
<1>6. pc'["matrix"] = "pull" => DealtWith(poll.upto)'
  <2> SUFFICES ASSUME pc'["matrix"] = "pull", NEW e \in 1..last, IsAccepted(e)'
               PROVE  e \in recorded' \cup refused'
    BY <1>4 DEF DealtWith
  <2>1. IsAccepted(e)
    BY <1>1
  <2>2. e \in 1..i
    BY <1>2, <2>1
  <2> QED
    BY <2>2
<1> QED
  BY <1>3, <1>5, <1>6

\* Nobody is forgotten, and the token moves to the end of a finished poll, or
\* back to the one on disk.
LEMMA NobodyForgotten ==
    ASSUME LoopsInv, [Next]_vars
    PROVE  /\ recorded \subseteq recorded' /\ refused \subseteq refused'
           /\ since' \in {since, sinceFile} \/ (StoreToken /\ since' = poll.upto)
<1> USE DEF LoopsInv, storeVars, tokenVars
<1>1. CASE UNCHANGED vars \/ Restart \/ \E u \in Users : UserPosts(u)
  BY <1>1 DEF vars, Restart, UserPosts
<1>2. CASE MatrixStep \/ SchedulerStep
  BY <1>2 DEF MatrixStep, SchedulerStep, Sync, Take, Handle, Notify, Answer, Pull, Send, Mark, StoreToken, Tick
<1>3. CASE FaultStep
  BY <1>3 DEF FaultStep, Crash, TakeFails, NotifyFails, AnswerFails, StoreTokenFails, TickFails,
              SendFails, PullOrMarkFails
<1> QED
  BY <1>1, <1>2, <1>3 DEF Next

(***************************************************************************)
(* Where the poll can be after a step: it moved on from an event it is     *)
(* done with, stays at its event with that in recorded if HandleText goes  *)
(* on, delivers the outbox, or has ended.                                  *)
(***************************************************************************)
LEMMA WhereThePollIs ==
    ASSUME LoopsInv, TokenInv, [Next]_vars
    PROVE  \/ pc'["matrix"] \in {"down", "sync"}
           \/ UNCHANGED poll /\ pc'["matrix"] = pc["matrix"]
           \/ /\ UNCHANGED poll
              /\ pc["matrix"] \in {"take", "handle", "notify", "answer"} /\ pc'["matrix"] \in {"handle", "notify", "answer"}
              /\ pc'["matrix"] \in {"handle", "notify"} => at \in recorded'
           \/ /\ UNCHANGED poll
              /\ pc["matrix"] \in {"pull", "send", "mark"} /\ pc'["matrix"] \in {"send", "mark", "token"}
           \/ pc["matrix"] = "sync" /\ MoveTo(since, Len(room))
           \/ /\ pc["matrix"] \in {"take", "notify", "answer"} /\ MoveTo(at, poll.upto)
              /\ at \in recorded' \cup refused'
<1> USE DEF LoopsInv, Goto
<1>0. pc \in [Loops -> MatrixPcs \cup SchedulerPcs] /\ "matrix" \in Loops /\ "scheduler" \in Loops
  BY DEF LoopTypeOK, Loops
<1>1. CASE UNCHANGED vars \/ Restart \/ \E u \in Users : UserPosts(u)
  BY <1>0, <1>1 DEF vars, Restart, UserPosts
<1>2. CASE SchedulerStep
  BY <1>0, <1>2 DEF SchedulerStep, Tick, Pull, Send, Mark, Delivered
<1>3. CASE MatrixStep
  <2>1. CASE Sync \/ Answer
    BY <2>1 DEF Sync, Answer, storeVars
  <2>2. CASE Take
    BY <1>0, <2>2 DEF Take, IsNew
  <2>3. CASE Handle
    BY <1>0, <2>3 DEF Handle, TokenInv
  <2>4. CASE Notify
    BY <1>0, <2>4 DEF Notify, TokenInv
  <2>5. CASE Pull("matrix") \/ Send("matrix") \/ Mark("matrix")
    BY <1>0, <2>5 DEF Pull, Send, Mark, Delivered
  <2>6. CASE StoreToken
    BY <1>0, <2>6 DEF StoreToken
  <2> QED
    BY <1>3, <2>1, <2>2, <2>3, <2>4, <2>5, <2>6 DEF MatrixStep
<1>4. CASE FaultStep
  <2>1. CASE TakeFails \/ NotifyFails
    BY <1>0, <2>1 DEF TakeFails, NotifyFails
  <2>2. CASE Crash \/ StoreTokenFails
    BY <1>0, <2>2 DEF Crash, StoreTokenFails, Down
  <2>3. CASE AnswerFails
    BY <1>0, <2>3 DEF AnswerFails, PollFails
  <2>4. ASSUME NEW l \in Loops, DeliveryFails(l)
        PROVE  pc'["matrix"] \in {"down", "sync"} \/ (UNCHANGED poll /\ pc'["matrix"] = pc["matrix"])
    BY <1>0, <2>4 DEF DeliveryFails, PollFails, Down, Loops
  <2> QED
    BY <1>0, <1>4, <2>1, <2>2, <2>3, <2>4 DEF FaultStep, TickFails, SendFails, PullOrMarkFails
<1> QED
  BY <1>1, <1>2, <1>3, <1>4 DEF Next

\* No step moves the token past an input nobody dealt with.
LEMMA TokenNext == LoopsInv /\ TokenInv /\ [Next]_vars => TokenInv'
<1> SUFFICES ASSUME LoopsInv, TokenInv, [Next]_vars PROVE TokenInv'
  OBVIOUS
<1> USE DEF LoopsInv
<1>1. RoomGrows
  BY RoomOnlyGrows
<1>2. /\ recorded \subseteq recorded' /\ refused \subseteq refused'
      /\ since' \in {since, sinceFile} \/ (StoreToken /\ since' = poll.upto)
  BY NobodyForgotten
<1>3. /\ Len(room) \in Nat /\ since \in 0..Len(room) /\ sinceFile \in 0..since /\ poll.upto \in 0..Len(room)
      /\ poll.at \in Nat
  BY DEF RoomTypeOK, LoopTypeOK
<1>4. \A n \in Int : n <= Len(room) /\ DealtWith(n) =>
         \A e \in 1..n : IsAccepted(e)' => e \in recorded' \cup refused'
  BY <1>1, <1>2, DealtWithStays
<1>5. DealtWith(since)'
  <2>1. DealtWith(since) /\ (StoreToken => DealtWith(poll.upto))
    BY DEF TokenInv, StoreToken
  <2>2. \A e \in 1..since' : IsAccepted(e)' => e \in recorded' \cup refused'
    BY <1>2, <1>3, <1>4, <2>1
  <2> QED
    BY <2>2 DEF DealtWith
<1>6. ASSUME UNCHANGED poll, pc["matrix"] \in {"take", "handle", "notify", "answer"}
      PROVE  DealtWith(at - 1)'
  <2>1. poll.at - 1 \in Int /\ poll.at - 1 <= Len(room) /\ DealtWith(poll.at - 1)
    BY <1>3, <1>6, AtIsInput DEF TokenInv, at
  <2>2. \A e \in 1..(poll'.at - 1) : IsAccepted(e)' => e \in recorded' \cup refused'
    BY <1>4, <1>6, <2>1
  <2> QED
    BY <2>2 DEF DealtWith, at
<1>7. ASSUME UNCHANGED poll, pc["matrix"] \in {"pull", "send", "mark", "token"}
      PROVE  DealtWith(poll.upto)'
  <2>1. DealtWith(poll.upto)
    BY <1>7 DEF TokenInv
  <2>2. \A e \in 1..poll'.upto : IsAccepted(e)' => e \in recorded' \cup refused'
    BY <1>3, <1>4, <1>7, <2>1
  <2> QED
    BY <2>2 DEF DealtWith
<1>8. CASE pc'["matrix"] \in {"down", "sync"}
  BY <1>5, <1>8 DEF TokenInv
<1>9. CASE UNCHANGED poll /\ pc'["matrix"] = pc["matrix"]
  BY <1>2, <1>5, <1>6, <1>7, <1>9 DEF TokenInv, at
<1>10. CASE /\ UNCHANGED poll
            /\ pc["matrix"] \in {"take", "handle", "notify", "answer"} /\ pc'["matrix"] \in {"handle", "notify", "answer"}
            /\ pc'["matrix"] \in {"handle", "notify"} => at \in recorded'
  BY <1>5, <1>6, <1>10 DEF TokenInv, at
<1>11. CASE /\ UNCHANGED poll
            /\ pc["matrix"] \in {"pull", "send", "mark"} /\ pc'["matrix"] \in {"send", "mark", "token"}
  BY <1>5, <1>7, <1>11 DEF TokenInv
<1>12. CASE pc["matrix"] = "sync" /\ MoveTo(since, Len(room))
  <2>1. \A e \in 1..since : IsAccepted(e)' => e \in recorded' \cup refused'
    BY <1>3, <1>4 DEF TokenInv
  <2>2. /\ pc'["matrix"] \in {"take", "pull"}
        /\ pc'["matrix"] = "take" => DealtWith(at - 1)'
        /\ pc'["matrix"] = "pull" => DealtWith(poll.upto)'
    BY <1>1, <1>2, <1>3, <1>12, <2>1, MovingOnSkipsNothing
  <2> QED
    BY <1>5, <2>2 DEF TokenInv
<1>13. CASE /\ pc["matrix"] \in {"take", "notify", "answer"} /\ MoveTo(at, poll.upto)
            /\ at \in recorded' \cup refused'
  <2>1. at \in Nat /\ at <= Len(room) /\ DealtWith(at - 1) /\ at - 1 \in Int /\ at - 1 <= Len(room)
    BY <1>3, <1>13, AtIsInput DEF TokenInv
  <2>2. \A e \in 1..(at - 1) : IsAccepted(e)' => e \in recorded' \cup refused'
    BY <1>4, <2>1
  <2>3. \A e \in 1..at : IsAccepted(e)' => e \in recorded' \cup refused'
    BY <1>13, <2>1, <2>2
  <2>4. /\ pc'["matrix"] \in {"take", "pull"}
        /\ pc'["matrix"] = "take" => DealtWith(at - 1)'
        /\ pc'["matrix"] = "pull" => DealtWith(poll.upto)'
    BY <1>1, <1>2, <1>3, <1>13, <2>1, <2>3, MovingOnSkipsNothing
  <2> QED
    BY <1>5, <2>4 DEF TokenInv
<1> QED
  BY <1>8, <1>9, <1>10, <1>11, <1>12, <1>13, WhereThePollIs

(***************************************************************************)
(* The two invariants together, and what the runs check of them.           *)
(***************************************************************************)
LEMMA TokenInit == Init => TokenInv
<1> SUFFICES ASSUME Init PROVE TokenInv
  OBVIOUS
<1>1. since = 0 /\ pc["matrix"] = "sync"
  BY DEF Init
<1> QED
  BY <1>1 DEF TokenInv, DealtWith

\* The accounts the daemon posts as are ignored, or the allowlist keeps them out.
BotsKeptOut ==
    \A b \in BotAccounts(config) :
        b \in IgnoredUsers(config) \/ (config.allowed # {} /\ b \notin config.allowed)

\* A token that is configured with its own account's user id is enough, as are
\* a cached session and a password: runDaemon has checked the rest.
LEMMA NamedTokensSuffice ==
    ASSUME Starts(config),
           \A auth \in {config.knowledge, config.scheduler} :
              auth.tokenOf # NoUser => auth.user = auth.tokenOf
    PROVE  BotsKeptOut
BY DEF BotsKeptOut, BotAccounts, IgnoredUsers, Starts, Usable, SchedulerConfigured, Account, ResolvedUser,
       SessionMatches

\* The settings do not change, and what is in the room stays.
LEMMA BotsStayOut == LoopsInv /\ BotsKeptOut /\ [Next]_vars => BotsKeptOut'
<1> SUFFICES ASSUME LoopsInv, BotsKeptOut, [Next]_vars PROVE BotsKeptOut'
  OBVIOUS
<1>1. UNCHANGED config
  BY RoomOnlyGrows DEF RoomGrows
<1> QED
  BY <1>1 DEF BotsKeptOut, BotAccounts, IgnoredUsers, SchedulerConfigured, Account, ResolvedUser, SessionMatches

\* TypeOK and NothingSkipped are parts of the two invariants.
LEMMA LoopsInvImplies == LoopsInv /\ TokenInv => TypeOK /\ NothingSkipped
<1> SUFFICES ASSUME LoopsInv, TokenInv PROVE TypeOK /\ NothingSkipped
  OBVIOUS
<1>1. TypeOK
  <2>1. room \in Seq([sender : Users \cup BotAccounts(config), what : {Input} \cup Answers \cup Notices])
    BY DEF LoopsInv, RoomTypeOK, Posts, Whats
  <2>2. recorded \subseteq Events
    BY DeliveryBoundsAssumption DEF LoopsInv, RoomTypeOK, StoreTypeOK, Events
  <2>3. Range(outbox) \subseteq Notices
    BY DEF LoopsInv, StoreTypeOK, Range
  <2> QED
    BY <2>1, <2>2, <2>3 DEF TypeOK, LoopsInv, RoomTypeOK, LoopTypeOK, StoreTypeOK
<1>2. NothingSkipped
  BY DEF TokenInv, DealtWith, NothingSkipped
<1> QED
  BY <1>1, <1>2

(***************************************************************************)
(* The rows, the loops' queues and the room fit together in every state of *)
(* the daemon (TypeOK), for any scenarios and bounds.                      *)
(***************************************************************************)
THEOREM DeliveryTypes == Spec => []TypeOK
<1>1. Init => LoopsInv /\ TokenInv
  BY LoopsInit, TokenInit
<1>2. LoopsInv /\ TokenInv /\ [Next]_vars => (LoopsInv /\ TokenInv)'
  BY LoopsNext, TokenNext
<1>3. LoopsInv /\ TokenInv => TypeOK
  BY LoopsInvImplies
<1> QED
  BY <1>1, <1>2, <1>3, PTL DEF Spec

(***************************************************************************)
(* runMatrixDaemonLoop's token is never past an input that is neither      *)
(* recorded nor answered with the error of its record, whatever failed.    *)
(***************************************************************************)
THEOREM TokenSkipsNothing == Spec => []NothingSkipped
<1>1. Init => LoopsInv /\ TokenInv
  BY LoopsInit, TokenInit
<1>2. LoopsInv /\ TokenInv /\ [Next]_vars => (LoopsInv /\ TokenInv)'
  BY LoopsNext, TokenNext
<1>3. LoopsInv /\ TokenInv => NothingSkipped
  BY LoopsInvImplies
<1> QED
  BY <1>1, <1>2, <1>3, PTL DEF Spec

(***************************************************************************)
(* With settings that keep the bots' accounts out (and named tokens,       *)
(* sessions and passwords all do) the run's whole invariant holds: in      *)
(* particular no bot takes its own or the other's post for input.          *)
(***************************************************************************)
THEOREM BotsDoNotEcho == Spec /\ BotsKeptOut => []DeliveryInv
<1>1. Init => LoopsInv /\ TokenInv
  BY LoopsInit, TokenInit
<1>2. LoopsInv /\ TokenInv /\ BotsKeptOut /\ [Next]_vars => (LoopsInv /\ TokenInv /\ BotsKeptOut)'
  BY LoopsNext, TokenNext, BotsStayOut
<1>3. LoopsInv /\ TokenInv /\ BotsKeptOut => DeliveryInv
  <2> SUFFICES ASSUME LoopsInv, TokenInv, BotsKeptOut PROVE DeliveryInv
    OBVIOUS
  <2>1. NoEcho
    BY DEF LoopsInv, CarriedOutOnce, IsAccepted, BotsKeptOut, NoEcho
  <2> QED
    BY <2>1, LoopsInvImplies DEF DeliveryInv
<1> QED
  BY <1>1, <1>2, <1>3, PTL DEF Spec

-----------------------------------------------------------------------------
(***************************************************************************)
(* The adapter implements DeliveryPromise: what its stages and notices are *)
(* in a state of the invariant.                                            *)
(***************************************************************************)
Shown(n) == \E i \in DOMAIN room : room[i].what = n

LEMMA TimesOf ==
    ASSUME RoomTypeOK, NEW n
    PROVE  Times(n) \in Nat /\ (Times(n) > 0 <=> Shown(n))
<1> DEFINE places == {i \in 1..Len(room) : room[i].what = n}
<1>1. DOMAIN room = 1..Len(room) /\ Len(room) \in Nat
  BY DEF RoomTypeOK
<1>2. IsFiniteSet(1..Len(room))
  BY <1>1, FS_Interval
<1>3. IsFiniteSet(places)
  BY <1>2, FS_Subset
<1>4. Cardinality(places) \in Nat /\ (Cardinality(places) = 0 <=> places = {})
  BY <1>3, FS_CardinalityType, FS_EmptySet
<1>5. places # {} <=> Shown(n)
  BY <1>1 DEF Shown
<1> QED
  BY <1>4, <1>5 DEF Times

Stages ==
    /\ \A e \in Events :
          StageOf(e) = IF effects[e] = 1 THEN "done" ELSE IF e \in recorded THEN "taken" ELSE "new"
    /\ \A n \in Notices :
          NoticeOf(n) = IF n \in delivered THEN "delivered"
                        ELSE IF n \notin Range(outbox) THEN "none"
                        ELSE IF Shown(n) THEN "shown" ELSE "pending"

LEMMA StagesOf == LoopsInv => Stages
<1> SUFFICES ASSUME LoopsInv PROVE Stages
  OBVIOUS
<1>1. ASSUME NEW e \in Events
      PROVE  StageOf(e) = IF effects[e] = 1 THEN "done" ELSE IF e \in recorded THEN "taken" ELSE "new"
  <2>1. effects[e] = 0 \/ effects[e] = 1
    BY DEF LoopsInv, StoreTypeOK, CarriedOutOnce
  <2> QED
    BY <2>1 DEF StageOf
<1>2. ASSUME NEW n \in Notices
      PROVE  NoticeOf(n) = IF n \in delivered THEN "delivered"
                           ELSE IF n \notin Range(outbox) THEN "none"
                           ELSE IF Shown(n) THEN "shown" ELSE "pending"
  <2>1. Times(n) \in Nat /\ (Times(n) > 0 <=> Shown(n))
    BY TimesOf DEF LoopsInv
  <2>2. Times(n) = 0 <=> ~Shown(n)
    BY <2>1
  <2> QED
    BY <2>1, <2>2 DEF NoticeOf
<1> QED
  BY <1>1, <1>2 DEF Stages

LEMMA PromiseStarts == Init => Promise!PromiseInit
<1> SUFFICES ASSUME Init PROVE Promise!PromiseInit
  OBVIOUS
<1>1. LoopsInv
  BY LoopsInit
<1>2. recorded = {} /\ delivered = {} /\ Range(outbox) = {} /\ \A e \in Events : effects[e] # 1
  BY DEF Init, Range
<1>3. /\ \A e \in Events : StageOf(e) = "new"
      /\ \A n \in Notices : NoticeOf(n) = "none"
  BY <1>1, <1>2, StagesOf DEF Stages
<1> QED
  BY <1>3 DEF Promise!PromiseInit

\* What leaves the rows of the events alone leaves their stages alone; what
\* leaves the outbox alone and shows nothing that waits, the notices.
LEMMA StagesStay ==
    ASSUME UNCHANGED <<recorded, effects>>
    PROVE  [e \in Events |-> StageOf(e)'] = [e \in Events |-> StageOf(e)]
BY DEF StageOf

LEMMA NoticesStay ==
    ASSUME Stages, Stages', UNCHANGED <<outbox, delivered>>,
           \A n \in Range(outbox) \ delivered : Shown(n)' <=> Shown(n)
    PROVE  [n \in Notices |-> NoticeOf(n)'] = [n \in Notices |-> NoticeOf(n)]
BY DEF Stages, Notices

\* INSERT OR IGNORE of a new event, and HandleText.
LEMMA TakeRefines ==
    ASSUME LoopsInv, Stages, Stages', Take
    PROVE  Promise!PromiseNext \/ UNCHANGED Promise!promiseVars
<1>1. PICK e \in Events : e = at
  BY AtIsInput DEF Take
<1>2. UNCHANGED <<room, effects, outbox, delivered>>
  BY DEF Take
<1>3. [n \in Notices |-> NoticeOf(n)'] = [n \in Notices |-> NoticeOf(n)]
  BY <1>2, NoticesStay DEF Shown
<1>4. CASE UNCHANGED recorded
  BY <1>2, <1>3, <1>4, StagesStay DEF Promise!promiseVars
<1>5. CASE recorded' = recorded \cup {e} /\ e \notin recorded
  <2>1. effects[e] # 1
    BY <1>1, <1>5 DEF LoopsInv, CarriedOutOnce
  <2>2. StageOf(e) = "new" /\ StageOf(e)' = "taken"
    BY <1>2, <1>5, <2>1 DEF Stages
  <2>3. \A d \in Events \ {e} : StageOf(d)' = StageOf(d)
    BY <1>2, <1>5 DEF Stages
  <2> QED
    BY <1>3, <2>2, <2>3 DEF Promise!Take, Promise!PromiseNext
<1> QED
  BY <1>1, <1>4, <1>5 DEF Take, IsNew

LEMMA HandleRefines ==
    ASSUME LoopsInv, Stages, Stages', Handle
    PROVE  Promise!PromiseNext
<1>1. PICK e \in Events : e = at
  BY AtIsInput DEF Handle
<1>2. e \in recorded /\ effects[e] = 0
  BY <1>1 DEF Handle, LoopsInv, CarriedOutOnce
<1>3. UNCHANGED <<room, recorded, outbox, delivered>> /\ effects' = [effects EXCEPT ![e] = @ + 1]
  BY <1>1 DEF Handle
<1>4. [n \in Notices |-> NoticeOf(n)'] = [n \in Notices |-> NoticeOf(n)]
  BY <1>3, NoticesStay DEF Shown
<1>5. effects'[e] = 1 /\ \A d \in Events \ {e} : effects'[d] = effects[d]
  BY <1>2, <1>3 DEF LoopsInv, StoreTypeOK
<1>6. StageOf(e) = "taken" /\ StageOf(e)' = "done"
  BY <1>2, <1>5 DEF Stages
<1>7. \A d \in Events \ {e} : StageOf(d)' = StageOf(d)
  BY <1>3, <1>5 DEF Stages
<1> QED
  BY <1>4, <1>6, <1>7 DEF Promise!CarryOut, Promise!PromiseNext

\* AddOutboxMessage, of a message's notice or a schedule's.
LEMMA AppendRefines ==
    ASSUME LoopsInv, Stages, Stages', NEW n \in Notices, outbox' = Append(outbox, n),
           UNCHANGED <<room, recorded, effects, delivered>>
    PROVE  Promise!Write(n) \/ UNCHANGED Promise!promiseVars
<1>1. [e \in Events |-> StageOf(e)'] = [e \in Events |-> StageOf(e)]
  BY StagesStay
<1>2. Range(outbox') = Range(outbox) \cup {n}
  <2>1. outbox \in Seq(Notices) /\ Len(outbox) \in Nat
    BY DEF LoopsInv, StoreTypeOK
  <2>2. DOMAIN outbox = 1..Len(outbox) /\ DOMAIN outbox' = 1..(Len(outbox) + 1)
    BY <2>1
  <2>3. outbox'[Len(outbox) + 1] = n /\ \A i \in DOMAIN outbox : outbox'[i] = outbox[i]
    BY <2>1
  <2> QED
    BY <2>1, <2>2, <2>3 DEF Range
<1>3. \A k : Shown(k)' <=> Shown(k)
  BY DEF Shown
<1>4. \A k \in Notices \ {n} : NoticeOf(k)' = NoticeOf(k)
  BY <1>2, <1>3 DEF Stages
<1>5. CASE n \in Range(outbox)
  <2>1. NoticeOf(n)' = NoticeOf(n)
    BY <1>2, <1>3, <1>5 DEF Stages
  <2> QED
    BY <1>1, <1>4, <2>1 DEF Promise!promiseVars
<1>6. CASE n \notin Range(outbox)
  <2>1. n \notin delivered /\ ~Shown(n)
    BY <1>6 DEF LoopsInv, StoreTypeOK, ShownIsWritten, Shown
  <2>2. NoticeOf(n) = "none" /\ NoticeOf(n)' = "pending"
    BY <1>2, <1>3, <1>6, <2>1 DEF Stages
  <2> QED
    BY <1>1, <1>4, <2>2 DEF Promise!Write
<1> QED
  BY <1>5, <1>6

\* A post of a message or an answer shows no notice; one of a notice shows
\* that one, which may have been there before.
LEMMA PostRefines ==
    ASSUME LoopsInv, Stages, Stages', UNCHANGED <<config, storeVars>>,
           NEW s \in Users \cup BotAccounts(config), NEW w \in Whats, Post(s, w),
           w \in Notices => w \in Range(outbox)
    PROVE  (w \in Notices /\ Promise!Show(w)) \/ UNCHANGED Promise!promiseVars
<1>1. UNCHANGED <<recorded, effects, outbox, delivered>>
  BY DEF storeVars
<1>2. [e \in Events |-> StageOf(e)'] = [e \in Events |-> StageOf(e)]
  BY <1>1, StagesStay
<1>3. /\ DOMAIN room = 1..Len(room) /\ DOMAIN room' = 1..(Len(room) + 1) /\ Len(room) \in Nat
      /\ \A i \in 1..Len(room) : room'[i] = room[i]
      /\ room'[Len(room) + 1].what = w
  BY PostedRoom DEF LoopsInv, RoomTypeOK
<1>4. /\ \A k : k # w => (Shown(k)' <=> Shown(k))
      /\ Shown(w)'
  BY <1>3 DEF Shown
<1>5. CASE w \notin Notices \/ w \in delivered \/ Shown(w)
  <2>1. Range(outbox) \subseteq Notices
    BY DEF LoopsInv, StoreTypeOK, Range
  <2>2. \A n \in Range(outbox) \ delivered : Shown(n)' <=> Shown(n)
    BY <1>4, <1>5, <2>1
  <2> QED
    BY <1>1, <1>2, <2>2, NoticesStay DEF Promise!promiseVars
<1>6. CASE w \in Notices /\ w \notin delivered /\ ~Shown(w)
  <2>1. NoticeOf(w) = "pending" /\ NoticeOf(w)' = "shown"
    BY <1>1, <1>4, <1>6 DEF Stages
  <2>2. \A n \in Notices \ {w} : NoticeOf(n)' = NoticeOf(n)
    BY <1>1, <1>4 DEF Stages
  <2> QED
    BY <1>2, <1>6, <2>1, <2>2 DEF Promise!Show
<1> QED
  BY <1>5, <1>6

\* MarkOutboxDelivered, of a row that was shown and that the other loop may
\* have marked.
LEMMA MarkRefines ==
    ASSUME LoopsInv, Stages, Stages', NEW l \in Loops, Mark(l)
    PROVE  Promise!PromiseNext \/ UNCHANGED Promise!promiseVars
<1>1. Subject(l) \in Notices /\ Subject(l) \in Range(outbox) /\ Shown(Subject(l))
  BY QueueRows DEF Mark, LoopsInv, MarkedIsShown, Shown
<1>2. PICK n \in Notices : n = Subject(l)
  BY <1>1
<1>3. UNCHANGED <<room, recorded, effects, outbox>> /\ delivered' = delivered \cup {n}
  BY <1>2 DEF Mark
<1>4. n \in Range(outbox) /\ Shown(n)
  BY <1>1, <1>2
<1>5. [e \in Events |-> StageOf(e)'] = [e \in Events |-> StageOf(e)]
  BY <1>3, StagesStay
<1>6. \A k : Shown(k)' <=> Shown(k)
  BY <1>3 DEF Shown
<1>7. \A k \in Notices \ {n} : NoticeOf(k)' = NoticeOf(k)
  BY <1>3, <1>6 DEF Stages
<1>8. CASE n \in delivered
  <2>1. NoticeOf(n)' = NoticeOf(n)
    BY <1>3, <1>4, <1>6, <1>8 DEF Stages
  <2> QED
    BY <1>5, <1>7, <2>1 DEF Promise!promiseVars
<1>9. CASE n \notin delivered
  <2>1. NoticeOf(n) = "shown" /\ NoticeOf(n)' = "delivered"
    BY <1>3, <1>4, <1>6, <1>9 DEF Stages
  <2> QED
    BY <1>5, <1>7, <2>1 DEF Promise!Settle, Promise!PromiseNext
<1> QED
  BY <1>8, <1>9

LEMMA PromiseStep ==
    LoopsInv /\ Stages /\ Stages' /\ [Next]_vars => [Promise!PromiseNext]_(Promise!promiseVars)
<1> SUFFICES ASSUME LoopsInv, Stages, Stages', [Next]_vars
             PROVE  Promise!PromiseNext \/ UNCHANGED Promise!promiseVars
  OBVIOUS
<1>1. CASE Take
  BY <1>1, TakeRefines
<1>2. CASE Handle
  BY <1>2, HandleRefines
<1>3. CASE Notify \/ Tick
  <2>1. CASE UNCHANGED outbox
    <3>1. UNCHANGED <<room, recorded, effects, outbox, delivered>>
      BY <1>3, <2>1 DEF Notify, Tick
    <3> QED
      BY <3>1, StagesStay, NoticesStay DEF Promise!promiseVars, Shown
  <2>2. ASSUME NEW n \in Notices, outbox' = Append(outbox, n)
        PROVE  Promise!PromiseNext \/ UNCHANGED Promise!promiseVars
    <3>1. UNCHANGED <<room, recorded, effects, delivered>>
      BY <1>3 DEF Notify, Tick
    <3> QED
      BY <2>2, <3>1, AppendRefines DEF Promise!PromiseNext
  <2>3. CASE Notify
    BY <2>2, <2>3, AtIsInput, WhatsDiffer DEF Notify
  <2>4. CASE Tick
    <3>1. \A b \in config.briefs : <<"brief", b>> \in Notices
      BY DEF LoopsInv, RoomTypeOK, Notices
    <3> QED
      BY <2>1, <2>2, <2>4, <3>1 DEF Tick
  <2> QED
    BY <1>3, <2>3, <2>4
<1>4. ASSUME NEW l \in Loops, Mark(l)
      PROVE  Promise!PromiseNext \/ UNCHANGED Promise!promiseVars
  BY <1>4, MarkRefines
<1>5. ASSUME UNCHANGED <<config, storeVars>>,
             NEW s \in Users \cup BotAccounts(config), NEW w \in Whats, Post(s, w),
             w \in Notices => w \in Range(outbox)
      PROVE  Promise!PromiseNext \/ UNCHANGED Promise!promiseVars
  BY <1>5, PostRefines DEF Promise!PromiseNext
<1>6. CASE UNCHANGED <<room, storeVars>>
  <2>1. UNCHANGED <<room, recorded, effects, outbox, delivered>>
    BY <1>6 DEF storeVars
  <2> QED
    BY <2>1, StagesStay, NoticesStay DEF Promise!promiseVars, Shown
<1>7. CASE Answer \/ AnswerFails
  <2>1. <<"answer", at>> \in Whats /\ <<"answer", at>> \notin Notices
    BY <1>7, AtIsInput, WhatsDiffer DEF Answer, AnswerFails
  <2>2. Account(config.knowledge) \in BotAccounts(config)
    BY DEF BotAccounts
  <2>3. UNCHANGED <<config, storeVars>>
    BY <1>7 DEF Answer, AnswerFails
  <2> QED
    BY <1>5, <1>6, <1>7, <2>1, <2>2, <2>3 DEF Answer, AnswerFails
<1>8. ASSUME NEW l \in Loops, Send(l) \/ SendFails(l)
      PROVE  Promise!PromiseNext \/ UNCHANGED Promise!promiseVars
  <2>1. Subject(l) \in Range(outbox) /\ Subject(l) \in Whats
    BY <1>8, QueueRows DEF Send, SendFails, LoopsInv, MarkedIsShown, Whats
  <2>2. UNCHANGED <<config, storeVars>>
    BY <1>8 DEF Send, SendFails
  <2> QED
    BY <1>5, <1>6, <1>8, <2>1, <2>2, WhatsDiffer DEF Send, SendFails
<1>9. ASSUME NEW u \in Users, UserPosts(u)
      PROVE  Promise!PromiseNext \/ UNCHANGED Promise!promiseVars
  <2>1. Input \in Whats /\ Input \notin Notices
    BY WhatsDiffer DEF Whats
  <2> QED
    BY <1>5, <1>9, <2>1 DEF UserPosts
<1>10. \/ UNCHANGED <<room, storeVars>> \/ Take \/ Handle \/ Notify \/ Tick \/ Answer \/ AnswerFails
       \/ \E l \in Loops : Mark(l) \/ Send(l) \/ SendFails(l)
       \/ \E u \in Users : UserPosts(u)
  BY DEF vars, storeVars, Next, Restart, MatrixStep, SchedulerStep, FaultStep, Sync, TakeFails,
         NotifyFails, Pull, PullOrMarkFails, StoreToken, StoreTokenFails, TickFails, Crash, Loops
<1> QED
  BY <1>1, <1>2, <1>3, <1>4, <1>6, <1>7, <1>8, <1>9, <1>10

(***************************************************************************)
(* The adapter keeps the promise of DeliveryPromise, whatever crashes,     *)
(* fails or is raced by the other loop: HandleText carries a message out   *)
(* at most once, and MarkOutboxDelivered only marks what was in the room.  *)
(***************************************************************************)
THEOREM DeliveryKeepsPromise == Spec => KeepsPromise
<1>1. Init => LoopsInv
  BY LoopsInit
<1>2. LoopsInv /\ [Next]_vars => LoopsInv'
  BY LoopsNext
<1>3. LoopsInv => Stages
  BY StagesOf
<1> QED
  BY <1>1, <1>2, <1>3, PromiseStarts, PromiseStep, PTL DEF Spec, KeepsPromise, Promise!PromiseSpec

=============================================================================
