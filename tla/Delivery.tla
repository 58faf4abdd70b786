------------------------------ MODULE Delivery ------------------------------
(***************************************************************************)
(* The daemon's Matrix adapter (internal/adapters/matrix and the loops of  *)
(* cmd/openwhisker/main.go).  The Matrix loop reads the room from its sync *)
(* token on, hands each accepted message to HandleText, answers, delivers  *)
(* the outbox and stores the token; the scheduler loop writes notices of   *)
(* its own and delivers the same outbox.  Both loops post into the room    *)
(* they read from.  The homeserver is external: a request it fails may     *)
(* have been carried out.                                                  *)
(***************************************************************************)
EXTENDS Naturals, Sequences, FiniteSets, Functions

CONSTANTS Users,          \* the accounts that write to the bot
          NoUser,
          Scenarios,      \* settings of a daemon, the notices its schedules and other
                          \* processes will write, the room it first syncs, its fault budget
          Briefs,         \* those notices of all scenarios
          PullLimit,      \* rows of one PullOutbox, 20 in the code
          MaxFailures,    \* schedulerMaxConsecutiveFailures
          MaxPosts,       \* bound: messages of the users
          MaxRoom,        \* bound: events in the room
          MaxFaults       \* bound: crashes, failed statements and requests

ASSUME LimitsAssumption == PullLimit \in Nat \ {0} /\ MaxFailures \in Nat \ {0}
ASSUME DeliveryBoundsAssumption == MaxPosts \in Nat /\ MaxRoom \in Nat /\ MaxFaults \in Nat
ASSUME NoUserAssumption == NoUser \notin Users
ASSUME ScenariosAssumption ==
    \A s \in Scenarios : /\ s.config.briefs \subseteq Briefs
                         /\ s.room \in Seq([sender : Users, what : {<<"input", 0>>}])
                         /\ Len(s.room) <= MaxRoom
                         /\ s.faults \in Nat

VARIABLES config,    \* the settings of the daemon: credentials, allowed senders, briefs
          room,      \* the timeline; an event's id is its position
          since,     \* the loop's sync token
          sinceFile, \* the token on disk
          recorded,  \* adapter_events
          effects,   \* how often HandleText carried out each event
          outbox,    \* outbox_messages by created_at
          delivered, \* the rows whose status is delivered
          pc,        \* what each loop does next
          queue,     \* the rows a loop pulled and has not delivered, by their place
          poll,      \* the poll under way: its next_batch, the event it is at
          failures,  \* consecutiveFailures
          refused,   \* events whose record failed and whose sender was told so
          faults

storeVars == <<recorded, effects, outbox, delivered>>
tokenVars == <<since, sinceFile, refused>>
vars == <<config, room, storeVars, tokenVars, poll, pc, queue, failures, faults>>

Loops == {"matrix", "scheduler"}
Events == 1..MaxRoom
Notices == {<<"event", e>> : e \in Events} \cup {<<"brief", b>> : b \in Briefs}
Answers == {<<"answer", e>> : e \in Events}
Input == <<"input", 0>>
NoPoll == [upto |-> 0, at |-> 0]
at == poll.at
MatrixPcs == {"down", "sync", "take", "handle", "notify", "answer", "pull", "send", "mark", "token"}
SchedulerPcs == {"down", "tick", "pull", "send", "mark"}

-----------------------------------------------------------------------------
(***************************************************************************)
(* Credentials.  An access token is used as it is, its account is not      *)
(* looked up; a cached session is used when it is the configured user's;   *)
(* a password needs the user.                                              *)
(***************************************************************************)
SessionMatches(auth) ==
    /\ auth.session # NoUser
    /\ auth.user \in {NoUser, auth.session}

Usable(auth) ==
    \/ auth.tokenOf # NoUser
    \/ SessionMatches(auth)
    \/ auth.password /\ auth.user # NoUser

\* matrixClientForAuth: the account its client posts as.
Account(auth) ==
    IF auth.tokenOf # NoUser THEN auth.tokenOf
    ELSE IF SessionMatches(auth) THEN auth.session ELSE auth.user

\* matrixClientForAuth: the user id it returns.
ResolvedUser(auth) ==
    IF auth.tokenOf # NoUser THEN auth.user ELSE Account(auth)

SchedulerConfigured(c) ==
    \/ c.scheduler.tokenOf # NoUser
    \/ c.scheduler.password
    \/ c.scheduler.user # NoUser

\* daemonMatrixEnabled: a cached session alone does not enable Matrix.
MatrixEnabled(c) ==
    c.knowledge.tokenOf # NoUser \/ (c.knowledge.password /\ c.knowledge.user # NoUser)

\* runDaemon goes on to its loops, with a Matrix adapter.
Starts(c) ==
    /\ MatrixEnabled(c)
    /\ Usable(c.knowledge)
    /\ SchedulerConfigured(c) => c.scheduler.user # NoUser /\ Usable(c.scheduler)

\* Mutant: IgnoredUserIDs holds the knowledge bot only.
IgnoredUsersButScheduler(c) == {ResolvedUser(c.knowledge)} \ {NoUser}

\* matrixDeliveryConfig: the accounts whose messages are not input.
IgnoredUsers(c) ==
    ({ResolvedUser(c.knowledge)}
        \cup (IF SchedulerConfigured(c) THEN {ResolvedUser(c.scheduler)} ELSE {})) \ {NoUser}

BotAccounts(c) ==
    {Account(c.knowledge)} \cup (IF SchedulerConfigured(c) THEN {Account(c.scheduler)} ELSE {})

\* clientForActor: the knowledge client stands in for a missing one.
ClientFor(n) ==
    IF n[1] = "brief" /\ SchedulerConfigured(config)
    THEN Account(config.scheduler) ELSE Account(config.knowledge)

\* PollOnce: isTextMessage, shouldIgnoreSender, senderAllowed.
IsAccepted(i) ==
    /\ room[i].sender \notin IgnoredUsers(config)
    /\ config.allowed = {} \/ room[i].sender \in config.allowed

Least(S) == CHOOSE i \in S : \A j \in S : i <= j

\* The next event the poll handles; past the batch when there is none.
NextAccepted(i, last) ==
    LET rest == {j \in (i + 1)..last : IsAccepted(j)}
    IN  IF rest = {} THEN last + 1 ELSE Least(rest)

-----------------------------------------------------------------------------
Goto(l, label) == pc' = [pc EXCEPT ![l] = label]
Fault == faults < MaxFaults /\ faults' = faults + 1
Post(sender, what) ==
    /\ Len(room) < MaxRoom
    /\ room' = Append(room, [sender |-> sender, what |-> what])

Inputs == {i \in 1..Len(room) : room[i].what = Input}
Times(what) == Cardinality({i \in 1..Len(room) : room[i].what = what})

\* Both loops end: the process died, or errCh stopped it.
Down ==
    /\ pc' = [l \in Loops |-> "down"]
    /\ queue' = [l \in Loops |-> {}]
    /\ poll' = NoPoll
    /\ failures' = 0

Crash ==
    /\ pc["matrix"] # "down"
    /\ Fault
    /\ Down
    /\ UNCHANGED <<config, room, storeVars, tokenVars>>

\* readMatrixSince; both loops start afresh.
Restart ==
    /\ pc["matrix"] = "down"
    /\ pc' = [matrix |-> "sync", scheduler |-> "tick"]
    /\ since' = sinceFile
    /\ UNCHANGED <<config, room, storeVars, sinceFile, refused, poll, queue, failures, faults>>

UserPosts(u) ==
    /\ Cardinality(Inputs) < MaxPosts
    /\ Post(u, Input)
    /\ UNCHANGED <<config, storeVars, tokenVars, poll, pc, queue, failures, faults>>

-----------------------------------------------------------------------------
(***************************************************************************)
(* PollOnce.                                                               *)
(***************************************************************************)
\* From event i on: the next accepted one, or the outbox.
MoveTo(i, last) ==
    LET n == NextAccepted(i, last)
    IN  /\ poll' = [upto |-> last, at |-> IF n > last THEN 0 ELSE n]
        /\ Goto("matrix", IF n > last THEN "pull" ELSE "take")

Sync ==
    /\ pc["matrix"] = "sync"
    /\ MoveTo(since, Len(room))
    /\ UNCHANGED <<config, room, storeVars, tokenVars, queue, failures, faults>>

\* The error of a poll: the daemon polls again from the token it has.
PollFails == Goto("matrix", "sync") /\ poll' = NoPoll

\* Mutant: the number of inserted rows is not looked at.
IsNewAlways(e) == TRUE

\* TryRecordAdapterEvent: INSERT OR IGNORE.
IsNew(e) == e \notin recorded

Take ==
    /\ pc["matrix"] = "take"
    /\ IF IsNew(at)
       THEN recorded' = recorded \cup {at} /\ Goto("matrix", "handle") /\ UNCHANGED poll
       ELSE MoveTo(at, poll.upto) /\ UNCHANGED recorded
    /\ UNCHANGED <<config, room, effects, outbox, delivered, tokenVars,
                   queue, failures, faults>>

\* The record fails: HandleText returns the error, which is the answer.
TakeFails ==
    /\ pc["matrix"] = "take"
    /\ Fault
    /\ Goto("matrix", "answer")
    /\ UNCHANGED <<config, room, storeVars, tokenVars, poll, queue, failures>>

\* What HandleText goes on to: a notice of its own, an answer (an error is
\* one), or an error next to the notice of the failed job.
Handle ==
    /\ pc["matrix"] = "handle"
    /\ effects' = [effects EXCEPT ![at] = @ + 1]
    /\ \E next \in {"notify", "answer"} : Goto("matrix", next)
    /\ UNCHANGED <<config, room, recorded, outbox, delivered, tokenVars, poll, queue, failures, faults>>

\* AddOutboxMessage; an error of the handler is answered as well.
Notify ==
    /\ pc["matrix"] = "notify"
    /\ outbox' = Append(outbox, <<"event", at>>)
    /\ MoveTo(at, poll.upto) \/ (Goto("matrix", "answer") /\ UNCHANGED poll)
    /\ UNCHANGED <<config, room, recorded, effects, delivered, tokenVars,
                   queue, failures, faults>>

NotifyFails ==
    /\ pc["matrix"] = "notify"
    /\ Fault
    /\ Goto("matrix", "answer")
    /\ UNCHANGED <<config, room, storeVars, tokenVars, poll, queue, failures>>

Answer ==
    /\ pc["matrix"] = "answer"
    /\ Post(Account(config.knowledge), <<"answer", at>>)
    /\ refused' = IF at \in recorded THEN refused ELSE refused \cup {at}
    /\ MoveTo(at, poll.upto)
    /\ UNCHANGED <<config, storeVars, since, sinceFile, queue, failures, faults>>

\* The request failed, before or after the homeserver took it.
AnswerFails ==
    /\ pc["matrix"] = "answer"
    /\ Fault
    /\ Post(Account(config.knowledge), <<"answer", at>>) \/ UNCHANGED room
    /\ PollFails
    /\ UNCHANGED <<config, storeVars, tokenVars, queue, failures>>

-----------------------------------------------------------------------------
(***************************************************************************)
(* DeliverOutbox, which both loops run on the one outbox.                  *)
(***************************************************************************)
Pending == {i \in DOMAIN outbox : outbox[i] \notin delivered}

\* Mutant: the limit comes before the status.
PulledOfFirst == {i \in Pending : i <= PullLimit}

\* ListPendingOutbox: the oldest rows that are pending.
Pulled == {i \in Pending : Cardinality({j \in Pending : j < i}) < PullLimit}

\* The row a loop is about to deliver.
Subject(l) == outbox[Least(queue[l])]

\* DeliverOutbox returned nil.
Delivered(l) ==
    IF l = "matrix" THEN Goto(l, "token") /\ UNCHANGED failures
                    ELSE Goto(l, "tick") /\ failures' = 0

\* DeliverOutbox returned an error: a failed poll, or a failed tick, of
\* which the daemon bears MaxFailures - 1 in a row.
DeliveryFails(l) ==
    IF l = "matrix"
    THEN PollFails /\ queue' = [queue EXCEPT ![l] = {}] /\ UNCHANGED failures
    ELSE IF failures + 1 >= MaxFailures
    THEN Down
    ELSE /\ Goto(l, "tick") /\ UNCHANGED poll
         /\ queue' = [queue EXCEPT ![l] = {}]
         /\ failures' = failures + 1

Pull(l) ==
    /\ pc[l] = "pull"
    /\ queue' = [queue EXCEPT ![l] = Pulled]
    /\ IF Pulled = {} THEN Delivered(l) ELSE Goto(l, "send") /\ UNCHANGED failures
    /\ UNCHANGED <<config, room, storeVars, tokenVars, poll, faults>>

Send(l) ==
    /\ pc[l] = "send"
    /\ Post(ClientFor(Subject(l)), Subject(l))
    /\ Goto(l, "mark")
    /\ UNCHANGED <<config, storeVars, tokenVars, poll, queue, failures, faults>>

SendFails(l) ==
    /\ pc[l] = "send"
    /\ Fault
    /\ Post(ClientFor(Subject(l)), Subject(l)) \/ UNCHANGED room
    /\ DeliveryFails(l)
    /\ UNCHANGED <<config, storeVars, tokenVars>>

\* MarkOutboxDelivered.
Mark(l) ==
    /\ pc[l] = "mark"
    /\ delivered' = delivered \cup {Subject(l)}
    /\ queue' = [queue EXCEPT ![l] = @ \ {Least(@)}]
    /\ IF queue[l] = {Least(queue[l])} THEN Delivered(l) ELSE Goto(l, "send") /\ UNCHANGED failures
    /\ UNCHANGED <<config, room, recorded, effects, outbox, tokenVars, poll, faults>>

PullOrMarkFails(l) ==
    /\ pc[l] \in {"pull", "mark"}
    /\ Fault
    /\ DeliveryFails(l)
    /\ UNCHANGED <<config, room, storeVars, tokenVars>>

-----------------------------------------------------------------------------
\* Mutant: the token of now, not the one the poll got.
StoreTokenOfNow ==
    /\ pc["matrix"] = "token"
    /\ since' = Len(room) /\ sinceFile' = Len(room)
    /\ poll' = NoPoll
    /\ Goto("matrix", "sync")
    /\ UNCHANGED <<config, room, storeVars, refused, queue, failures, faults>>

\* runMatrixDaemonLoop: the token moves in memory, then writeMatrixSince.
StoreToken ==
    /\ pc["matrix"] = "token"
    /\ since' = poll.upto /\ sinceFile' = poll.upto
    /\ poll' = NoPoll
    /\ Goto("matrix", "sync")
    /\ UNCHANGED <<config, room, storeVars, refused, queue, failures, faults>>

\* An error of writeMatrixSince ends the loop, and with it the daemon.
StoreTokenFails ==
    /\ pc["matrix"] = "token"
    /\ Fault
    /\ Down
    /\ UNCHANGED <<config, room, storeVars, tokenVars>>

\* runSchedulerDaemonTick: a run may leave a notice, then the delivery.
Tick ==
    /\ pc["scheduler"] = "tick"
    /\ \/ UNCHANGED outbox
       \/ \E b \in config.briefs : <<"brief", b>> \notin Range(outbox) /\ outbox' = Append(outbox, <<"brief", b>>)
    /\ Goto("scheduler", "pull")
    /\ UNCHANGED <<config, room, recorded, effects, delivered, tokenVars, poll, queue, failures, faults>>

\* Service.Tick returned an error.
TickFails ==
    /\ pc["scheduler"] = "tick"
    /\ Fault
    /\ DeliveryFails("scheduler")
    /\ UNCHANGED <<config, room, storeVars, tokenVars>>

-----------------------------------------------------------------------------
Init ==
    /\ \E s \in Scenarios : Starts(s.config) /\ config = s.config /\ room = s.room /\ faults = s.faults
    /\ since = 0 /\ sinceFile = 0
    /\ recorded = {}
    /\ effects = [e \in Events |-> 0]
    /\ outbox = <<>>
    /\ delivered = {}
    /\ pc = [matrix |-> "sync", scheduler |-> "tick"]
    /\ queue = [l \in Loops |-> {}]
    /\ poll = NoPoll
    /\ failures = 0
    /\ refused = {}

MatrixStep ==
    Sync \/ Take \/ Handle \/ Notify \/ Answer \/ Pull("matrix") \/ Send("matrix") \/ Mark("matrix") \/ StoreToken
SchedulerStep == Tick \/ Pull("scheduler") \/ Send("scheduler") \/ Mark("scheduler")
FaultStep ==
    \/ Crash \/ TakeFails \/ NotifyFails \/ AnswerFails \/ StoreTokenFails \/ TickFails
    \/ \E l \in Loops : SendFails(l) \/ PullOrMarkFails(l)

Next == Restart \/ (\E u \in Users : UserPosts(u)) \/ MatrixStep \/ SchedulerStep \/ FaultStep

Spec == Init /\ [][Next]_vars

\* The loops run for ever and a supervisor restarts the daemon; users and
\* faults owe nothing.
FairSpec == Spec /\ WF_vars(MatrixStep) /\ WF_vars(SchedulerStep) /\ WF_vars(Restart)

-----------------------------------------------------------------------------
TypeOK ==
    /\ room \in Seq([sender : Users \cup BotAccounts(config), what : {Input} \cup Answers \cup Notices])
    /\ sinceFile <= since /\ since <= Len(room)
    /\ recorded \subseteq Events
    /\ effects \in [Events -> Nat]
    /\ Range(outbox) \subseteq Notices
    /\ delivered \subseteq Range(outbox)
    /\ pc["matrix"] \in MatrixPcs /\ pc["scheduler"] \in SchedulerPcs
    /\ \A l \in Loops : queue[l] \subseteq DOMAIN outbox
    /\ failures < MaxFailures

(***************************************************************************)
(* The bots never take their own posts, or each other's, for input         *)
(* (docs/30-design/matrix-adapter.md:685): both write into the room the    *)
(* poll reads from, and an answer to a post would be a post again.         *)
(***************************************************************************)
NoEcho == \A e \in recorded : room[e].sender \notin BotAccounts(config)

\* The token is never past an input that is neither recorded nor answered
\* with the error of its record (PollOnce returns next_batch only when it has
\* walked through the whole batch).
NothingSkipped == \A e \in 1..since : IsAccepted(e) => e \in recorded \cup refused

(***************************************************************************)
(* The token, the rows and the loops' queues fit together, what is         *)
(* recorded as a message came from a user, and none is skipped.            *)
(***************************************************************************)
DeliveryInv == TypeOK /\ NoEcho /\ NothingSkipped

StageOf(e) ==
    CASE effects[e] > 1 -> "repeated"
      [] effects[e] = 1 -> "done"
      [] effects[e] = 0 /\ e \in recorded -> "taken"
      [] OTHER -> "new"

NoticeOf(n) ==
    CASE n \in delivered -> "delivered"
      [] n \notin delivered /\ n \in Range(outbox) /\ Times(n) > 0 -> "shown"
      [] n \notin delivered /\ n \in Range(outbox) /\ Times(n) = 0 -> "pending"
      [] OTHER -> "none"

Promise == INSTANCE DeliveryPromise
    WITH stage <- [e \in Events |-> StageOf(e)], notice <- [n \in Notices |-> NoticeOf(n)]

(***************************************************************************)
(* A message replayed after a crash or a failed poll is not carried out    *)
(* again, and a notice is marked delivered only after it was in the room.  *)
(***************************************************************************)
KeepsPromise == Promise!PromiseSpec

(***************************************************************************)
(* The sync token never gets ahead of the messages: those that wait in the *)
(* room are recorded in the end, or their sender is told that they were    *)
(* not.                                                                    *)
(***************************************************************************)
MessagesAreTaken ==
    LET Waiting == \E e \in 1..Len(room) : IsAccepted(e) /\ e \notin recorded \cup refused
    IN  Waiting ~> ~Waiting

(***************************************************************************)
(* The outbox is delivered in the end, whatever failed on the way and      *)
(* whichever loop had pulled a notice.                                     *)
(***************************************************************************)
NoticesArrive == Pending # {} ~> Pending = {}
=============================================================================
