---------------------------- MODULE Conversation ----------------------------
(***************************************************************************)
(* One source's chat with the core (core/adapter.go, intent_router.go,     *)
(* ingest.go and the capture buckets of plans.go and store.go): messages   *)
(* that open, extend, close and organize a group of captures, and the      *)
(* question the router asks when it cannot tell.  A handler is a process   *)
(* that runs HandleText; each of its store statements and vault accesses   *)
(* is a step.  Bucket b writes note b; a note is the sequence of the texts *)
(* and the user's edits it holds, and its own hash.                        *)
(***************************************************************************)
EXTENDS Naturals, Sequences, FiniteSets, Functions

CONSTANTS Handlers,
          Scenarios,     \* the handlers that run, the router's mode, the bounds used up
          MaxMessages,   \* bound: messages of the source
          MaxEdits,      \* bound: edits of raw notes by the user
          MaxLapses,     \* bound: deadlines that pass
          MaxFaults      \* bound: crashes and failed statements

ASSUME ConversationBoundsAssumption ==
    MaxMessages \in Nat /\ MaxEdits \in Nat /\ MaxLapses \in Nat /\ MaxFaults \in Nat
ASSUME ScenariosAssumption ==
    \A s \in Scenarios : /\ IsFiniteSet(s.config.handlers) /\ s.config.handlers \subseteq Handlers
                         /\ s.said \in 0..MaxMessages

VARIABLES config,
          rows,       \* capture_buckets
          notes,      \* the raw notes, << >> for none
          done,       \* of each note, whether its ingest job is done and has the source's key
          questions,  \* pending_clarifications, by the message that prompted them
          plans,      \* the plans organized from buckets, by creation
          hs,         \* the handlers
          said,       \* messages received
          told,       \* texts whose sender was told that they are saved
          slipped,    \* questions a statement about which failed
          torn,       \* buckets whose append was interrupted or failed after its write
          edits, lapses, faults

vars == <<config, rows, notes, done, questions, plans, hs, said, told, slipped, torn, edits, lapses, faults>>

static == <<config, said, slipped, torn, edits, lapses, faults>>

Messages == 1..MaxMessages
Buckets == 1..MaxMessages
Edit == 0

Statuses == {"active", "closed", "expired", "hash_mismatch", "organized"}
NoRow == [status |-> "none", count |-> 0, hash |-> <<>>, late |-> FALSE, updated |-> 0]
NoQuestion == [status |-> "none", late |-> FALSE, asked |-> 0]
Idle == [pc |-> "idle", msg |-> 0, text |-> 0, kind |-> "none", bucket |-> 0, row |-> NoRow,
         question |-> 0]

\* What a text says by its wording: a rule of the router, an answer to a
\* question, a slash command, or nothing a rule knows.
RuleKinds == {"create", "append", "close", "organize", "approve", "reject"}
AnswerKinds == {"pick_append", "pick_create", "cancel"}
SlashKinds == {"raw", "organize_last", "decide"}
Kinds == RuleKinds \cup AnswerKinds \cup SlashKinds \cup {"free"}

Running == config.handlers
Alone == Cardinality(Running) = 1

-----------------------------------------------------------------------------
Fault == faults < MaxFaults /\ faults' = faults + 1

Become(h, r) == hs' = [hs EXCEPT ![h] = r]
Goto(h, label) == Become(h, [hs[h] EXCEPT !.pc = label])
At(h, label) == h \in Running /\ hs[h].pc = label

\* HandleText returns; Saves is what it reports as saved.
Reply(h, saves) == Become(h, Idle) /\ told' = told \cup saves
Refuse(h) == Reply(h, {})

Latest(S) == CHOOSE b \in S : \A c \in S : rows[c].updated <= rows[b].updated

\* ActiveCaptureBucket: the latest active row, its deadline is not looked at.
Active == LET S == {b \in Buckets : rows[b].status = "active"} IN IF S = {} THEN 0 ELSE Latest(S)

(***************************************************************************)
(* ORDER BY updated_at: rows are numbered in that order.  The time is      *)
(* taken before the statement is sent, so a row that another process has   *)
(* stamped since may stand above the one that is saved now.                *)
(***************************************************************************)
Places(b) ==
    LET n == Cardinality({c \in Buckets : rows[c].updated > 0} \cup {b})
    IN  IF Alone THEN {n} ELSE 1..n

\* Row b leaves its place and comes in at k.
Restamp(b, k) ==
    LET old == rows[b].updated
        left(c) == IF old > 0 /\ rows[c].updated > old THEN rows[c].updated - 1 ELSE rows[c].updated
    IN  [c \in Buckets |-> IF c = b THEN k ELSE IF left(c) >= k THEN left(c) + 1 ELSE left(c)]

\* SaveCaptureBucket: every column but started_at is the caller's.
SaveRow(b, row) ==
    \E k \in Places(b) :
        rows' = [c \in Buckets |-> [(IF c = b THEN row ELSE rows[c]) EXCEPT !.updated = Restamp(b, k)[c]]]

PendingPlans == {p \in 1..Len(plans) : plans[p].status = "awaiting_approval"}

\* The plan that was applied took the raw note from the inbox to the processed
\* ones: its text stays, nothing is at the old path any more.
Moved(b) == \E p \in DOMAIN plans : plans[p].of = b /\ plans[p].moved

-----------------------------------------------------------------------------
(***************************************************************************)
(* The world: messages, edits, time, crashes.                              *)
(***************************************************************************)
\* HandleText of a new event; a slash command passes the router by, and
\* without a router every other text is a capture of its own.
Receive(h, kind) ==
    /\ At(h, "idle")
    /\ said < MaxMessages
    /\ said' = said + 1
    /\ Become(h, LET r == [Idle EXCEPT !.msg = said + 1, !.text = said + 1]
                 IN  CASE kind = "organize_last" -> [r EXCEPT !.pc = "last", !.kind = kind]
                       [] kind = "decide" -> [r EXCEPT !.pc = kind]
                       [] kind = "raw" \/ (config.mode = "off" /\ kind \notin SlashKinds) ->
                              [r EXCEPT !.pc = "ingest", !.kind = "raw"]
                       [] OTHER -> [r EXCEPT !.pc = "question", !.kind = kind])
    /\ UNCHANGED <<config, rows, notes, done, questions, plans, told, slipped, torn, edits, lapses, faults>>

EditNote(b) ==
    /\ notes[b] # <<>>
    /\ edits < MaxEdits
    /\ edits' = edits + 1
    /\ notes' = [notes EXCEPT ![b] = Append(@, Edit)]
    /\ UNCHANGED <<config, rows, done, questions, plans, hs, said, told, slipped, torn, lapses, faults>>

\* captureBucketTTL or intentClarificationTTL passes.
Lapse ==
    /\ lapses < MaxLapses
    /\ lapses' = lapses + 1
    /\ \/ \E b \in Buckets : /\ rows[b].status = "active" /\ ~rows[b].late
                             /\ rows' = [rows EXCEPT ![b].late = TRUE]
                             /\ UNCHANGED questions
       \/ \E q \in Messages : /\ questions[q].status = "pending" /\ ~questions[q].late
                              /\ questions' = [questions EXCEPT ![q].late = TRUE]
                              /\ UNCHANGED rows
    /\ UNCHANGED <<config, notes, done, plans, hs, said, told, slipped, torn, edits, faults>>

Crash(h) ==
    /\ h \in Running /\ hs[h].pc # "idle"
    /\ Fault
    /\ Become(h, Idle)
    /\ torn' = IF hs[h].pc = "store" /\ hs[h].kind = "append" THEN torn \cup {hs[h].bucket} ELSE torn
    /\ UNCHANGED <<config, rows, notes, done, questions, plans, said, told, slipped, edits, lapses>>

-----------------------------------------------------------------------------
(***************************************************************************)
(* classifyIntent: the pending question first, then the rules, then the    *)
(* model.                                                                  *)
(***************************************************************************)
\* ExpirePendingClarifications, then ActivePendingClarification.
Expired == [q \in Messages |->
    IF questions[q].status = "pending" /\ questions[q].late
    THEN [questions[q] EXCEPT !.status = "expired"] ELSE questions[q]]

PendingQuestion ==
    LET S == {q \in Messages : questions[q].status = "pending" /\ ~questions[q].late}
    IN  IF S = {} THEN 0 ELSE CHOOSE q \in S : \A r \in S : r <= q

ReadQuestion(h) ==
    /\ At(h, "question")
    /\ questions' = Expired
    /\ Become(h, [hs[h] EXCEPT !.question = PendingQuestion,
                               !.pc = IF PendingQuestion = 0 THEN "classify" ELSE "settle"])
    /\ UNCHANGED <<rows, notes, done, plans, told, static>>

\* An error of the query is audited, and the message is taken as any other.
ReadQuestionFails(h) ==
    /\ At(h, "question")
    /\ Fault
    /\ questions' = Expired
    /\ slipped' = slipped \cup ({PendingQuestion} \ {0})
    /\ Goto(h, "classify")
    /\ UNCHANGED <<config, rows, notes, done, plans, said, told, torn, edits, lapses>>

\* Mutant: the answer does not resolve the question.
VerdictForgotten(kind) == IF kind \in {"pick_append", "pick_create"} THEN "pending" ELSE "cancelled"

Verdict(kind) == IF kind \in {"pick_append", "pick_create"} THEN "resolved" ELSE "cancelled"

\* buildResultFromClarificationAction: the action is for the text asked about.
AfterSettling(h) ==
    LET r == hs[h] IN
    CASE r.kind = "pick_append" -> Become(h, [r EXCEPT !.pc = "append", !.text = r.question])
      [] r.kind = "pick_create" -> Become(h, [r EXCEPT !.pc = "ingest", !.text = r.question, !.kind = "create"])
      [] r.kind = "cancel" -> Become(h, Idle)
      [] OTHER -> Become(h, [r EXCEPT !.pc = "classify", !.question = 0])

\* Mutant: a message that is no answer leaves the question open.
SettleAnswersOnly(h) ==
    /\ At(h, "settle")
    /\ questions' = IF hs[h].kind \in AnswerKinds
                    THEN [questions EXCEPT ![hs[h].question].status = Verdict(hs[h].kind)] ELSE questions
    /\ AfterSettling(h)
    /\ UNCHANGED <<rows, notes, done, plans, told, static>>

\* UpdatePendingClarificationStatus; any other message supersedes the question.
Settle(h) ==
    /\ At(h, "settle")
    /\ questions' = [questions EXCEPT ![hs[h].question].status = Verdict(hs[h].kind)]
    /\ AfterSettling(h)
    /\ UNCHANGED <<rows, notes, done, plans, told, static>>

\* Its error is dropped.
SettleFails(h) ==
    /\ At(h, "settle")
    /\ Fault
    /\ slipped' = slipped \cup {hs[h].question}
    /\ AfterSettling(h)
    /\ UNCHANGED <<config, rows, notes, done, questions, plans, said, told, torn, edits, lapses>>

\* synthesizeClarification: there is only something to ask with an active bucket.
Asking == IF Active = 0 THEN {} ELSE {"ask"}

\* modelIntentToRuleResult: what an answer of the model can come to.
ModelIntents ==
    {"create", "organize", "approve", "reject", "unclear"} \cup Asking \cup
    (IF Active = 0 THEN {} ELSE {"append", "close"})

Intents(kind) ==
    IF kind \in RuleKinds THEN {kind}
    ELSE IF config.mode = "hybrid" THEN ModelIntents ELSE {"unclear"}

Classify(h) ==
    /\ At(h, "classify")
    /\ \E i \in Intents(hs[h].kind) :
          Become(h, CASE i = "unclear" -> Idle
                      [] i = "create" -> [hs[h] EXCEPT !.pc = "ingest", !.kind = i]
                      [] i = "ask" -> [hs[h] EXCEPT !.pc = i, !.bucket = Active]
                      [] OTHER -> [hs[h] EXCEPT !.pc = i])
    /\ UNCHANGED <<rows, notes, done, questions, plans, told, static>>

\* SavePendingClarification.
Ask(h) ==
    /\ At(h, "ask")
    /\ questions' = [questions EXCEPT ![hs[h].text] =
                        [status |-> "pending", late |-> FALSE, asked |-> hs[h].bucket]]
    /\ Become(h, Idle)
    /\ UNCHANGED <<rows, notes, done, plans, told, static>>

-----------------------------------------------------------------------------
(***************************************************************************)
(* IngestRaw and CreateRawBucket.                                          *)
(***************************************************************************)
\* Apply of the plan that creates the note.
Ingest(h) ==
    /\ At(h, "ingest")
    /\ LET b == hs[h].msg
       IN  /\ notes' = [notes EXCEPT ![b] = <<hs[h].text>>]
           /\ Become(h, [hs[h] EXCEPT !.pc = "finish", !.bucket = b])
    /\ UNCHANGED <<rows, done, questions, plans, told, static>>

\* CreateRawBucket: other active buckets of the source stay as they are.
FirstRow(h) == [status |-> "active", count |-> 1, hash |-> <<hs[h].text>>, late |-> FALSE, updated |-> 0]

\* The job is done: a /raw is finished, a bucket still needs its row, with the
\* hash that Apply returned.
FinishIngest(h) ==
    /\ At(h, "finish")
    /\ done' = [done EXCEPT ![hs[h].bucket] = IF hs[h].kind = "raw" THEN "raw" ELSE "keyed"]
    /\ IF hs[h].kind = "raw"
       THEN Reply(h, {hs[h].text})
       ELSE /\ Become(h, [hs[h] EXCEPT !.pc = "store", !.row = FirstRow(h)])
            /\ UNCHANGED told
    /\ UNCHANGED <<rows, notes, questions, plans, static>>

-----------------------------------------------------------------------------
(***************************************************************************)
(* AppendRawBucket, CloseRawBucket and OrganizeCaptureBucket: the active   *)
(* row is looked up, read again by its id, checked, and written back whole.*)
(***************************************************************************)
Find(h, op) ==
    /\ At(h, op)
    /\ \/ /\ Active # 0
          /\ Become(h, [hs[h] EXCEPT !.pc = "get", !.kind = op, !.bucket = Active])
       \/ Active = 0 /\ op # "organize" /\ Become(h, Idle)
       \/ Active = 0 /\ op = "organize" /\ Become(h, [hs[h] EXCEPT !.pc = "last", !.kind = "last"])
    /\ UNCHANGED <<rows, notes, done, questions, plans, told, static>>

\* With the row in memory: the status to write, and what comes next.
Holding(h, status, label) ==
    Become(h, [hs[h] EXCEPT !.row = [rows[hs[h].bucket] EXCEPT !.status = status], !.pc = label])

\* A row that is not active is refused, one past its deadline is shut.
Get(h) ==
    /\ At(h, "get")
    /\ hs[h].kind \in {"append", "organize"}
    /\ LET row == rows[hs[h].bucket]
       IN  \/ row.status # "active" /\ Become(h, Idle)
           \/ row.status = "active" /\ row.late /\ Holding(h, "expired", "shut")
           \/ row.status = "active" /\ ~row.late /\ Holding(h, "active", "compare")
    /\ UNCHANGED <<rows, notes, done, questions, plans, told, static>>

\* CloseRawBucket: to close a row that is not active any more is no error.
GetToClose(h) ==
    /\ At(h, "get")
    /\ hs[h].kind = "close"
    /\ \/ rows[hs[h].bucket].status # "active" /\ Become(h, Idle)
       \/ rows[hs[h].bucket].status = "active" /\ Holding(h, "closed", "store")
    /\ UNCHANGED <<rows, notes, done, questions, plans, told, static>>

\* The hash guard, of OrganizeCaptureBucket and of AppendRawBucket; a note that
\* is gone is an error, and leaves the row as it is.
Compare(h) ==
    /\ At(h, "compare")
    /\ Become(h, IF Moved(hs[h].bucket) THEN Idle
                 ELSE IF notes[hs[h].bucket] # hs[h].row.hash
                 THEN [hs[h] EXCEPT !.row.status = "hash_mismatch", !.pc = "shut"]
                 ELSE [hs[h] EXCEPT !.pc = IF hs[h].kind = "append" THEN "apply" ELSE "context"])
    /\ UNCHANGED <<rows, notes, done, questions, plans, told, static>>

\* closeBucket; its error is dropped.
Shut(h) ==
    /\ At(h, "shut")
    /\ SaveRow(hs[h].bucket, hs[h].row)
    /\ Become(h, Idle)
    /\ UNCHANGED <<notes, done, questions, plans, told, static>>

\* Mutant: the row keeps the hash it was read with.
NextRowOldHash(h) == [hs[h].row EXCEPT !.count = @ + 1, !.late = FALSE]

\* The row after an append: its hash is that of what Apply wrote.
NextRow(h) == [hs[h].row EXCEPT !.count = @ + 1, !.late = FALSE,
                                !.hash = Append(hs[h].row.hash, hs[h].text)]

\* Mutant: the rewrite carries no before_hash and is rendered on the current note.
ApplyAppendUnguarded(h) ==
    /\ At(h, "apply")
    /\ LET b == hs[h].bucket
       IN  /\ notes' = [notes EXCEPT ![b] = Append(@, hs[h].text)]
           /\ Become(h, [hs[h] EXCEPT !.pc = "store", !.row = NextRow(h)])
    /\ UNCHANGED <<rows, done, questions, plans, told, static>>

\* Apply rewrites the whole note, if it still has the row's hash.
ApplyAppend(h) ==
    /\ At(h, "apply")
    /\ LET b == hs[h].bucket
       IN  IF ~Moved(b) /\ notes[b] = hs[h].row.hash
           THEN /\ notes' = [notes EXCEPT ![b] = Append(@, hs[h].text)]
                /\ Become(h, [hs[h] EXCEPT !.pc = "store", !.row = NextRow(h)])
           ELSE Become(h, Idle) /\ UNCHANGED notes
    /\ UNCHANGED <<rows, done, questions, plans, told, static>>

\* buildRawOrganizerContext reads the note.
ReadContext(h) ==
    /\ At(h, "context")
    /\ Become(h, IF Moved(hs[h].bucket) THEN Idle ELSE [hs[h] EXCEPT !.pc = "plan"])
    /\ UNCHANGED <<rows, notes, done, questions, plans, told, static>>

\* The organizer answered; prepareApprovalPlan, whose Prepare takes the note's
\* hash, or fails the plan when the note is gone.  OrganizeSourceLast has no
\* row to write.
SavePlan(h) ==
    LET b == hs[h].bucket
    IN  /\ At(h, "plan")
        /\ IF Moved(b)
           THEN Become(h, Idle) /\ UNCHANGED plans
           ELSE /\ plans' = Append(plans, [of |-> b, before |-> notes[b], moved |-> FALSE,
                                          status |-> "awaiting_approval"])
                /\ Become(h, IF hs[h].kind \in {"last", "organize_last"} THEN Idle
                             ELSE [hs[h] EXCEPT !.row.status = "organized", !.pc = "store"])
        /\ UNCHANGED <<rows, notes, done, questions, told, static>>

\* SaveCaptureBucket, the last statement but the job's.
Store(h) ==
    /\ At(h, "store")
    /\ SaveRow(hs[h].bucket, hs[h].row)
    /\ Reply(h, IF hs[h].kind \in {"create", "append"} THEN {hs[h].text} ELSE {})
    /\ UNCHANGED <<notes, done, questions, plans, static>>

\* The notes OrganizeSourceLast and /organize last choose the latest of.
Candidates(kind) == {b \in Buckets : done[b] \in (IF kind = "last" THEN {"keyed"} ELSE {"keyed", "raw"})}

Last(h) ==
    /\ At(h, "last")
    /\ LET S == Candidates(hs[h].kind)
       IN  Become(h, IF S = {} THEN Idle
                     ELSE [hs[h] EXCEPT !.bucket = CHOOSE b \in S : \A c \in S : c <= b, !.pc = "context"])
    /\ UNCHANGED <<rows, notes, done, questions, plans, told, static>>

\* A statement, a read, an Apply or the organizer fails: HandleText returns the
\* error, as Shut and CloseRawBucket's reply do without one.
Fails(h) ==
    /\ h \in Running
    /\ hs[h].pc \in {"ask", "ingest", "finish", "append", "close", "organize", "get", "compare", "shut",
                     "apply", "context", "plan", "store", "last"}
    /\ Fault
    /\ Refuse(h)
    /\ torn' = IF hs[h].pc = "store" /\ hs[h].kind = "append" THEN torn \cup {hs[h].bucket} ELSE torn
    /\ UNCHANGED <<config, rows, notes, done, questions, plans, said, slipped, edits, lapses>>

(***************************************************************************)
(* Approve and Reject of a plan, which PlanApproval details.  The move is  *)
(* the plan's last operation: it is made only of the note that Prepare     *)
(* saw, and what fails after it fails the plan and leaves the note moved.  *)
(***************************************************************************)
Approved(p) ==
    \/ plans' = [plans EXCEPT ![p].status = "failed"]
    \/ /\ ~Moved(plans[p].of) /\ notes[plans[p].of] = plans[p].before
       /\ \E s \in {"applied", "failed"} : plans' = [plans EXCEPT ![p].status = s, ![p].moved = TRUE]

Rejected(p) == plans' = [plans EXCEPT ![p].status = "rejected"]

\* resolveUniquePendingPlan, then the plan it found.
Decide(h, op) ==
    /\ At(h, op)
    /\ \/ Cardinality(PendingPlans) # 1 /\ UNCHANGED plans
       \/ /\ Cardinality(PendingPlans) = 1
          /\ \E p \in PendingPlans : IF op = "reject" THEN Rejected(p) ELSE Approved(p)
    /\ Become(h, Idle)
    /\ UNCHANGED <<rows, notes, done, questions, told, static>>

\* /approve and /reject name their plan; one that is not awaiting is an error.
DecideNamed(h) ==
    /\ At(h, "decide")
    /\ \/ UNCHANGED plans
       \/ \E p \in PendingPlans : Rejected(p) \/ Approved(p)
    /\ Become(h, Idle)
    /\ UNCHANGED <<rows, notes, done, questions, told, static>>

-----------------------------------------------------------------------------
Init ==
    /\ \E s \in Scenarios :
          config = s.config /\ edits = s.edits /\ lapses = s.lapses /\ faults = s.faults /\ said = s.said
    /\ rows = [b \in Buckets |-> NoRow]
    /\ notes = [b \in Buckets |-> <<>>]
    /\ done = [b \in Buckets |-> "none"]
    /\ questions = [q \in Messages |-> NoQuestion]
    /\ plans = <<>>
    /\ hs = [h \in Handlers |-> Idle]
    /\ told = {} /\ slipped = {} /\ torn = {}

RouterStep(h) == ReadQuestion(h) \/ Settle(h) \/ Classify(h) \/ Ask(h) \/ DecideNamed(h) \/ \E op \in {"approve", "reject"} : Decide(h, op)
CaptureStep(h) == Ingest(h) \/ FinishIngest(h) \/ ApplyAppend(h) \/ Store(h) \/ Shut(h)
BucketStep(h) == (\E op \in {"append", "close", "organize"} : Find(h, op)) \/ Get(h) \/ GetToClose(h) \/ Compare(h)
OrganizeStep(h) == Last(h) \/ ReadContext(h) \/ SavePlan(h)
FaultStep(h) == Crash(h) \/ ReadQuestionFails(h) \/ SettleFails(h) \/ Fails(h)

Next ==
    \/ \E h \in Handlers, k \in Kinds : Receive(h, k)
    \/ \E h \in Handlers : RouterStep(h) \/ CaptureStep(h) \/ BucketStep(h) \/ OrganizeStep(h) \/ FaultStep(h)
    \/ \E b \in Buckets : EditNote(b)
    \/ Lapse

Spec == Init /\ [][Next]_vars

-----------------------------------------------------------------------------
Copies(t) == UNION {{<<b, i>> : i \in {j \in DOMAIN notes[b] : notes[b][j] = t}} : b \in Buckets}

TypeOK ==
    /\ \A b \in Buckets : /\ rows[b].status \in Statuses \cup {"none"}
                          /\ rows[b].late \in BOOLEAN /\ rows[b].count \in Nat
                          /\ Range(notes[b]) \subseteq Messages \cup {Edit}
                          /\ rows[b].status # "none" => rows[b].count = Len(rows[b].hash)
    /\ \A h \in Handlers : hs[h].kind \in Kinds \cup {"none", "last"} /\ hs[h].bucket \in Buckets \cup {0}
    /\ told \subseteq 1..said
    /\ \A b \in Buckets : done[b] # "none" => notes[b] # <<>>

(***************************************************************************)
(* A text whose sender was told that it is saved is in a note, and no text *)
(* is saved twice, unless its question was answered twice because marking  *)
(* it failed or two processes had read it.                                 *)
(***************************************************************************)
SavedOnce ==
    \A t \in Messages :
        /\ t \in told => Copies(t) # {}
        /\ (Alone /\ t \notin slipped) => Cardinality(Copies(t)) <= 1

(***************************************************************************)
(* The router never writes into a raw note the user has edited             *)
(* (docs/40-api/capture-bucket.md, "Hash guard"): no text follows an edit, *)
(* whichever handler had read the note or the row before.                  *)
(***************************************************************************)
NoTextAfterEdit ==
    \A b \in Buckets : \A i, j \in 1..Len(notes[b]) : notes[b][i] = Edit /\ i < j => notes[b][j] = Edit

(***************************************************************************)
(* "Append to the group" is about the group that was active when the       *)
(* question was asked: whatever came in between has either superseded the  *)
(* question or left the group the active one.                              *)
(***************************************************************************)
AnswerGoesWhereAsked ==
    \A h \in Handlers :
        LET q == hs[h].question
        IN  (Alone /\ hs[h].pc = "apply" /\ q # 0 /\ q \notin slipped) => hs[h].bucket = questions[q].asked

(***************************************************************************)
(* A group is given up as changed from outside only when the user changed  *)
(* it, or an append was cut off between its note and its row.              *)
(***************************************************************************)
MismatchMeansChanged ==
    \A b \in Buckets :
        (Alone /\ rows[b].status = "hash_mismatch") => Edit \in Range(notes[b]) \/ b \in torn

(***************************************************************************)
(* The rows of the buckets tell the truth: how often they were written to, *)
(* that a done job has a note, and why they were given up.                 *)
(***************************************************************************)
BucketsInv == TypeOK /\ MismatchMeansChanged
=============================================================================
