------------------------ MODULE Conversation_proofs ------------------------
(***************************************************************************)
(* The chat for any handlers, scenarios and bounds: what handlers hold in  *)
(* hand fits the notes and the rows, nothing is written behind the user's  *)
(* edit, and, while one process serves the source, a text is saved once    *)
(* and an answer goes to the group it was asked about.                     *)
(***************************************************************************)
EXTENDS Conversation, FiniteSetTheorems, SequenceTheorems, TLAPS

-----------------------------------------------------------------------------
(***************************************************************************)
(* What a handler has in hand at each place, and what that means for the   *)
(* notes and the rows, however many processes serve the source.            *)
(***************************************************************************)
Pcs == {"idle", "question", "settle", "classify", "ask", "decide", "approve", "reject", "ingest", "finish",
        "append", "close", "organize", "get", "compare", "shut", "apply", "context", "plan", "store", "last"}

Rows == [status : Statuses \cup {"none"}, count : Nat, hash : Seq(Messages), late : BOOLEAN,
         updated : Nat]
Questions == [status : {"none", "pending", "expired", "resolved", "cancelled"}, late : BOOLEAN,
              asked : Buckets \cup {0}]
Contents == Seq(Messages \cup {Edit})
HandlerRecords == [pc : Pcs, msg : 0..MaxMessages, text : 0..MaxMessages, kind : Kinds \cup {"none", "last"},
                   bucket : Buckets \cup {0}, row : Rows, question : 0..MaxMessages]

TablesOK ==
    /\ config.handlers \subseteq Handlers /\ IsFiniteSet(config.handlers)
    /\ said \in 0..MaxMessages
    /\ rows \in [Buckets -> Rows]
    /\ \A b \in Buckets : rows[b].count = Len(rows[b].hash)
    /\ notes \in [Buckets -> Contents]
    /\ done \in [Buckets -> {"none", "raw", "keyed"}]
    /\ questions \in [Messages -> Questions]
    /\ hs \in [Handlers -> HandlerRecords]

\* The places where a handler works on a bucket, and on one with a row.
AtBucket(r) == r.pc \in {"ask", "finish", "get", "compare", "shut", "apply", "context", "plan", "store"}
HasRow(r) ==
    \/ r.pc \in {"get", "compare", "shut", "apply"}
    \/ r.pc \in {"context", "plan"} /\ r.kind = "organize"
    \/ r.pc = "store" /\ r.kind # "create"

\* Apply has written the text of its message, or of the message asked about.
Ingested(r) == r.pc = "finish" \/ (r.pc = "store" /\ r.kind = "create")
Written(r) == Ingested(r) \/ (r.pc = "store" /\ r.kind = "append")

Holds(b, t) == \E i \in DOMAIN notes[b] : notes[b][i] = t

KindFits(r) ==
    /\ r.kind = "raw" => r.pc \in {"ingest", "finish"}
    /\ r.kind = "organize_last" => r.pc \in {"last", "context", "plan"}
    /\ r.kind = "last" => r.pc \in {"last", "context", "plan"}
    /\ r.pc = "ingest" => r.kind \in {"raw", "create"}
    /\ r.pc = "finish" => r.kind \in {"raw", "create"}
    /\ r.pc \in {"get", "store"} => r.kind \in {"create", "append", "close", "organize"}
    /\ r.pc = "get" => r.kind # "create"
    /\ r.pc \in {"compare", "shut"} => r.kind \in {"append", "organize"}
    /\ r.pc = "apply" => r.kind = "append"
    /\ r.pc \in {"context", "plan"} => r.kind \in {"organize", "last", "organize_last"}
    /\ r.pc = "last" => r.kind \in {"last", "organize_last"}

HandlerOK(r) ==
    /\ KindFits(r)
    /\ r.row.count = Len(r.row.hash)
    /\ r.pc # "idle" => r.msg \in 1..said /\ r.text \in 1..said
    /\ r.pc = "settle" => r.question \in 1..said
    /\ AtBucket(r) => r.bucket # 0
    /\ HasRow(r) => rows[r.bucket].status # "none"
    /\ r.pc \in {"compare", "apply", "shut", "store"} => r.row.status # "none"
    /\ Ingested(r) => r.bucket = r.msg
    /\ Written(r) => Holds(r.bucket, r.text)
    /\ r.pc # "idle" /\ ~Ingested(r) => notes[r.msg] = <<>>

NotesOK ==
    /\ \A b \in Buckets : (rows[b].status # "none" \/ done[b] # "none") => notes[b] # <<>>
    /\ \A b \in Buckets : notes[b] # <<>> => b <= said
    /\ \A b \in Buckets : \A i \in DOMAIN notes[b] : notes[b][i] <= said
    /\ \A q \in Messages : questions[q].status # "none" => q <= said
    /\ told \subseteq 1..said
    /\ \A t \in told : \E b \in Buckets : Holds(b, t)

MessagesDiffer ==
    \A g, h \in Handlers : hs[g].pc # "idle" /\ hs[h].pc # "idle" /\ hs[g].msg = hs[h].msg => g = h

ChatInv ==
    /\ TablesOK
    /\ NotesOK
    /\ \A h \in Handlers : HandlerOK(hs[h]) /\ (h \notin Running => hs[h] = Idle)
    /\ MessagesDiffer
    /\ NoTextAfterEdit

-----------------------------------------------------------------------------
(***************************************************************************)
(* One process alone.                                                      *)
(***************************************************************************)
\* Nobody but the router has written the bucket, and no append was cut off.
Clean(b) == ~Holds(b, Edit) /\ b \notin torn

\* The row is what the note holds, but while an append goes from one to the other.
Appending(r) == r.pc = "store" /\ r.kind = "append"

RowsMatch(r) ==
    \A b \in Buckets :
       /\ rows[b].status # "none" /\ Clean(b) => rows[b].hash = notes[b] \/ (Appending(r) /\ r.bucket = b)
       /\ rows[b].status = "hash_mismatch" => ~Clean(b)

\* The row in hand is the one in the table, or the next.
RowInHand(r) ==
    /\ HasRow(r) /\ r.pc # "get" /\ ~Written(r) /\ Clean(r.bucket) => r.row.hash = rows[r.bucket].hash
    /\ r.pc = "finish" /\ Clean(r.bucket) => notes[r.bucket] = <<r.text>>
    /\ r.pc = "store" /\ Written(r) /\ Clean(r.bucket) => r.row.hash = notes[r.bucket]
    /\ r.pc # "idle" /\ r.row.status = "hash_mismatch" => r.pc = "shut" /\ ~Clean(r.bucket)

\* A question that no statement failed on is the last one, about the group
\* that is active, until a message is past settling it.
Quiet(r) == r.pc \in {"idle", "question", "decide", "settle"} \/ r.kind \in {"raw", "organize_last"}
Open(q) == questions[q].status = "pending" /\ q \notin slipped

QuestionsOK(r) ==
    \A q \in Messages :
       Open(q) => /\ Active = questions[q].asked
                  /\ \A p \in Messages : questions[p].status = "pending" => p <= q
                  /\ Quiet(r) /\ (r.pc = "settle" => r.question = q)

AnswerInHand(r) ==
    /\ r.pc # "idle" => r.msg = said /\ questions[r.msg].status = "none" /\ ~Open(r.text)
    /\ r.pc \in {"question", "settle", "classify", "ask"} => r.text = r.msg
    /\ r.pc \in {"question", "classify", "ask"} => r.question = 0
    /\ r.pc = "settle" => questions[r.question].status = "pending"
    /\ r.pc = "ask" => r.bucket = Active
    /\ r.question # 0 /\ r.question \notin slipped =>
          /\ r.pc = "append" => Active = questions[r.question].asked
          /\ r.pc \in {"get", "compare", "apply"} /\ r.kind = "append" => r.bucket = questions[r.question].asked

\* Of a text there is one copy, and none while it is still to be written.
Waits(r, t) == r.pc # "idle" /\ ~Written(r) /\ r.text = t

OneCopy(t) ==
    \A b, c \in Buckets : \A i \in DOMAIN notes[b], j \in DOMAIN notes[c] :
       notes[b][i] = t /\ notes[c][j] = t => b = c /\ i = j

CopiesOK(r) ==
    \A t \in Messages :
       t \notin slipped => OneCopy(t) /\ (Open(t) \/ Waits(r, t) => \A b \in Buckets : ~Holds(b, t))

SoleOK(r) == RowsMatch(r) /\ RowInHand(r) /\ QuestionsOK(r) /\ AnswerInHand(r) /\ CopiesOK(r)

SoleInv == Alone => \A h \in Running : SoleOK(hs[h])

-----------------------------------------------------------------------------
(***************************************************************************)
(* The latest of a set of rows, and of a set of notes.                     *)
(***************************************************************************)
\* A bounded non-empty set of naturals has a greatest element.
LEMMA GreatestOfSet ==
    ASSUME NEW M \in Nat, NEW S \in SUBSET (0..M), S # {}
    PROVE  \E i \in S : \A j \in S : j <= i
<1> DEFINE Above == {i..M : i \in S}
<1>1. Above \subseteq FiniteSubsetsOf(0..M) /\ Above # {}
  <2>1. \A i \in S : IsFiniteSet(i..M) /\ i..M \in SUBSET (0..M)
    BY FS_Interval
  <2> QED
    BY <2>1 DEF FiniteSubsetsOf
<1>2. PICK T \in Above : \A U \in Above : <<U, T>> \notin StrictSubsetOrdering(0..M)
  <2> HIDE DEF Above
  <2> QED
    BY <1>1, WFMin, FS_StrictSubsetOrderingWellFounded
<1>3. PICK i \in S : T = i..M
  BY <1>2
<1>4. ASSUME NEW j \in S, i < j PROVE FALSE
  <2>1. j..M \in Above /\ j..M \subseteq T /\ j..M # T
    BY <1>3, <1>4
  <2>2. \A U \in SUBSET (0..M), V \in SUBSET (0..M) :
           U \subseteq V /\ U # V => <<U, V>> \in StrictSubsetOrdering(0..M)
    BY DEF StrictSubsetOrdering
  <2>3. j..M \in SUBSET (0..M) /\ T \in SUBSET (0..M)
    BY <1>3
  <2> HIDE DEF Above
  <2> QED
    BY <1>2, <2>1, <2>2, <2>3
<1>5. \A j \in S : j <= i
  BY <1>4
<1> QED
  BY <1>5

\* Some row of a few has the latest stamp.
LEMMA GreatestByStamp ==
    ASSUME NEW S \in SUBSET (1..MaxMessages), S # {}, \A b \in S : rows[b].updated \in Nat
    PROVE  \E b \in S : \A c \in S : rows[c].updated <= rows[b].updated
<1> DEFINE Later(b) == {c \in S : rows[b].updated <= rows[c].updated}
           Laters == {Later(b) : b \in S}
<1>1. Laters \subseteq FiniteSubsetsOf(1..MaxMessages) /\ Laters # {}
  <2>1. IsFiniteSet(1..MaxMessages)
    BY ConversationBoundsAssumption, FS_Interval
  <2>2. \A b \in S : Later(b) \in SUBSET (1..MaxMessages)
    OBVIOUS
  <2>3. \A T \in SUBSET (1..MaxMessages) : IsFiniteSet(T)
    BY <2>1, FS_Subset
  <2> HIDE DEF Later
  <2> QED
    BY <2>2, <2>3 DEF FiniteSubsetsOf
<1>2. PICK T \in Laters : \A U \in Laters : <<U, T>> \notin StrictSubsetOrdering(1..MaxMessages)
  <2> HIDE DEF Laters
  <2> QED
    BY <1>1, WFMin, FS_StrictSubsetOrderingWellFounded
<1>3. PICK b \in S : T = Later(b)
  BY <1>2
<1>4. ASSUME NEW c \in S, ~(rows[c].updated <= rows[b].updated) PROVE FALSE
  <2>1. Later(c) \in Laters /\ Later(c) \subseteq T /\ b \in T /\ b \notin Later(c)
    <3>1. rows[b].updated \in Nat /\ rows[c].updated \in Nat /\ rows[b].updated <= rows[c].updated
      BY <1>4
    <3>2. b \in Later(b) /\ b \notin Later(c)
      BY <1>4, <3>1
    <3>3. ASSUME NEW x \in Later(c) PROVE x \in Later(b)
      <4>1. x \in S /\ rows[x].updated \in Nat /\ rows[c].updated <= rows[x].updated
        BY <3>3
      <4> QED
        BY <3>1, <4>1
    <3> QED
      BY <1>3, <3>2, <3>3
  <2>2. \A U \in SUBSET (1..MaxMessages), V \in SUBSET (1..MaxMessages) :
           U \subseteq V /\ U # V => <<U, V>> \in StrictSubsetOrdering(1..MaxMessages)
    BY DEF StrictSubsetOrdering
  <2>3. Later(c) \in SUBSET (1..MaxMessages) /\ T \in SUBSET (1..MaxMessages)
    BY <1>3
  <2> HIDE DEF Later, Laters
  <2> QED
    BY <1>2, <2>1, <2>2, <2>3
<1> QED
  BY <1>4

\* ActiveCaptureBucket returns an active row, if there is one.
LEMMA ActiveIsActive ==
    ASSUME rows \in [Buckets -> Rows]
    PROVE  Active \in Buckets \cup {0} /\ (Active # 0 => rows[Active].status = "active")
<1> USE ConversationBoundsAssumption
<1>1. PICK S : S = {b \in Buckets : rows[b].status = "active"}
  OBVIOUS
<1>2. CASE S = {}
  BY <1>1, <1>2 DEF Active
<1>3. CASE S # {}
  <2>1. S \in SUBSET (1..MaxMessages) /\ \A b \in S : rows[b].updated \in Nat
    BY <1>1 DEF Rows, Buckets
  <2>2. \E b \in S : \A c \in S : rows[c].updated <= rows[b].updated
    BY <1>3, <2>1, GreatestByStamp
  <2>3. Latest(S) \in S
    BY <2>2 DEF Latest
  <2>4. Active = Latest(S)
    BY <1>1, <1>3 DEF Active
  <2> QED
    BY <1>1, <2>3, <2>4 DEF Buckets
<1> QED
  BY <1>2, <1>3

\* It depends on the statuses and the order of the rows alone.
LEMMA ActiveStays ==
    ASSUME \A b \in Buckets : rows'[b].status = rows[b].status /\ rows'[b].updated = rows[b].updated
    PROVE  Active' = Active
<1>1. PICK S : S = {b \in Buckets : rows[b].status = "active"}
  OBVIOUS
<1>2. S = {b \in Buckets : rows'[b].status = "active"}
  BY <1>1
<1>3. CASE S = {}
  BY <1>1, <1>2, <1>3 DEF Active
<1>4. CASE S # {}
  <2>1. \A b \in S : (\A c \in S : rows'[c].updated <= rows'[b].updated)
                 <=> (\A c \in S : rows[c].updated <= rows[b].updated)
    BY <1>1
  <2>2. (CHOOSE b \in S : \A c \in S : rows'[c].updated <= rows'[b].updated)
      = (CHOOSE b \in S : \A c \in S : rows[c].updated <= rows[b].updated)
    BY <2>1
  <2>3. Active = CHOOSE b \in S : \A c \in S : rows[c].updated <= rows[b].updated
    BY <1>1, <1>4 DEF Active, Latest
  <2>4. Active' = CHOOSE b \in S : \A c \in S : rows'[c].updated <= rows'[b].updated
    BY <1>2, <1>4 DEF Active, Latest
  <2> QED
    BY <2>2, <2>3, <2>4
<1> QED
  BY <1>3, <1>4

\* ActivePendingClarification returns a pending question, if there is one.
LEMMA PendingIsPending ==
    ASSUME questions \in [Messages -> Questions]
    PROVE  /\ PendingQuestion \in Messages \cup {0}
           /\ PendingQuestion # 0 => questions[PendingQuestion].status = "pending" /\ ~questions[PendingQuestion].late
<1> USE ConversationBoundsAssumption
<1>1. PICK S : S = {q \in Messages : questions[q].status = "pending" /\ ~questions[q].late}
  OBVIOUS
<1>2. CASE S = {}
  BY <1>1, <1>2 DEF PendingQuestion
<1>3. CASE S # {}
  <2>1. \E q \in S : \A r \in S : r <= q
    <3>1. S \in SUBSET (0..MaxMessages)
      BY <1>1 DEF Messages
    <3> QED
      BY <1>3, <3>1, GreatestOfSet
  <2>2. (CHOOSE q \in S : \A r \in S : r <= q) \in S
    BY <2>1
  <2>3. PendingQuestion = CHOOSE q \in S : \A r \in S : r <= q
    BY <1>1, <1>3 DEF PendingQuestion
  <2> QED
    BY <1>1, <2>2, <2>3 DEF Messages
<1> QED
  BY <1>2, <1>3

\* The question that is the last of all is the one it returns.
LEMMA PendingIsLast ==
    ASSUME questions \in [Messages -> Questions],
           NEW q \in Messages, questions[q].status = "pending", ~questions[q].late,
           \A p \in Messages : questions[p].status = "pending" => p <= q
    PROVE  PendingQuestion = q
<1> USE ConversationBoundsAssumption
<1>1. PICK S : S = {p \in Messages : questions[p].status = "pending" /\ ~questions[p].late}
  OBVIOUS
<1>2. q \in S /\ \A r \in S : r <= q
  BY <1>1
<1>3. PendingQuestion = CHOOSE p \in S : \A r \in S : r <= p
  BY <1>1, <1>2 DEF PendingQuestion
<1>4. \A p \in S : (\A r \in S : r <= p) => p = q
  BY <1>1, <1>2 DEF Messages
<1> QED
  BY <1>2, <1>3, <1>4

\* OrganizeSourceLast and /organize last choose one of their candidates.
LEMMA LastIsCandidate ==
    ASSUME NEW S \in SUBSET Buckets, S # {}
    PROVE  (CHOOSE b \in S : \A c \in S : c <= b) \in S
<1>1. S \in SUBSET (0..MaxMessages) /\ MaxMessages \in Nat
  BY ConversationBoundsAssumption DEF Buckets
<1>2. \E b \in S : \A c \in S : c <= b
  BY <1>1, GreatestOfSet
<1> QED
  BY <1>2

-----------------------------------------------------------------------------
(***************************************************************************)
(* The shapes of steps.                                                    *)
(***************************************************************************)
\* SaveCaptureBucket writes one row, and puts the stamps in order.
LEMMA SaveRowSaves ==
    ASSUME rows \in [Buckets -> Rows], NEW b \in Buckets, NEW row \in Rows, SaveRow(b, row)
    PROVE  /\ rows' \in [Buckets -> Rows]
           /\ \A c \in Buckets : LET new == IF c = b THEN row ELSE rows[c]
                                 IN  /\ rows'[c].status = new.status
                                     /\ rows'[c].count = new.count
                                     /\ rows'[c].hash = new.hash
<1>1. PICK k \in Nat :
         rows' = [c \in Buckets |-> [(IF c = b THEN row ELSE rows[c]) EXCEPT !.updated = Restamp(b, k)[c]]]
  <2>1. Places(b) \subseteq Nat
    <3>1. IsFiniteSet(Buckets)
      BY ConversationBoundsAssumption, FS_Interval DEF Buckets
    <3>2. Cardinality({c \in Buckets : rows[c].updated > 0} \cup {b}) \in Nat
      BY <3>1, FS_Subset, FS_CardinalityType
    <3>3. PICK n \in Nat : n = Cardinality({c \in Buckets : rows[c].updated > 0} \cup {b})
      BY <3>2
    <3>4. Places(b) = IF Alone THEN {n} ELSE 1..n
      BY <3>3 DEF Places
    <3> QED
      BY <3>4
  <2> QED
    BY <2>1 DEF SaveRow
<1>2. ASSUME NEW c \in Buckets PROVE Restamp(b, k)[c] \in Nat
  <2>1. rows[b].updated \in Nat /\ rows[c].updated \in Nat
    BY DEF Rows
  <2> QED
    BY <2>1 DEF Restamp
<1>3. ASSUME NEW c \in Buckets
      PROVE  LET new == IF c = b THEN row ELSE rows[c]
             IN  /\ rows'[c] \in Rows
                 /\ rows'[c].status = new.status
                 /\ rows'[c].count = new.count
                 /\ rows'[c].hash = new.hash
  <2>1. PICK stamp \in Nat : stamp = Restamp(b, k)[c]
    BY <1>2
  <2>2. PICK new \in Rows : new = IF c = b THEN row ELSE rows[c]
    OBVIOUS
  <2>3. rows'[c] = [new EXCEPT !.updated = stamp]
    BY <1>1, <2>1, <2>2
  <2> QED
    BY <2>2, <2>3 DEF Rows
<1>4. DOMAIN rows' = Buckets /\ rows' = [c \in Buckets |-> rows'[c]]
  BY <1>1
<1> QED
  BY <1>3, <1>4

\* A handler that holds nothing is in order in any state.
LEMMA IdleIsOK == Idle \in HandlerRecords /\ HandlerOK(Idle) /\ Idle.pc = "idle"
BY ConversationBoundsAssumption
   DEF Idle, NoRow, HandlerRecords, Pcs, Rows, Contents, Buckets, Messages, HandlerOK, KindFits, AtBucket, HasRow,
       Ingested, Written

\* What a handler must fit does not change with the tables it leaves alone.
LEMMA SameTables ==
    ASSUME UNCHANGED <<rows, notes, said>>, NEW r PROVE HandlerOK(r) => HandlerOK(r)'
BY DEF HandlerOK, Holds

\* A step that changes the handler, and perhaps a question.
LEMMA LightStep ==
    ASSUME ChatInv, NEW h \in Handlers, NEW r \in HandlerRecords, hs' = [hs EXCEPT ![h] = r],
           UNCHANGED <<config, rows, notes, done, said, told>>,
           questions' \in [Messages -> Questions],
           \A q \in Messages : questions'[q].status # "none" => q <= said,
           HandlerOK(r), h \in Running \/ r = Idle,
           r.pc # "idle" => hs[h].pc # "idle" /\ r.msg = hs[h].msg
    PROVE  ChatInv'
<1>1. TablesOK'
  BY DEF ChatInv, TablesOK
<1>2. NotesOK'
  BY DEF ChatInv, NotesOK, Holds
<1>3. hs'[h] = r /\ \A g \in Handlers : g # h => hs'[g] = hs[g]
  BY DEF ChatInv, TablesOK
<1>4. (\A g \in Handlers : HandlerOK(hs[g]) /\ (g \notin Running => hs[g] = Idle))'
  <2> SUFFICES ASSUME NEW g \in Handlers
               PROVE  HandlerOK(hs[g])' /\ (g \notin Running => hs[g] = Idle)'
    OBVIOUS
  <2>1. HandlerOK(hs'[g])
    BY <1>3 DEF ChatInv
  <2>2. PICK x : x = hs'[g]
    OBVIOUS
  <2>3. HandlerOK(x)'
    BY <2>1, <2>2, SameTables
  <2>4. HandlerOK(hs[g])'
    BY <2>2, <2>3 DEF HandlerOK, Holds
  <2>5. (g \notin Running => hs[g] = Idle)'
    BY <1>3 DEF ChatInv, Running
  <2> QED
    BY <2>4, <2>5
<1>5. MessagesDiffer'
  BY <1>3 DEF ChatInv, MessagesDiffer
<1>6. NoTextAfterEdit'
  BY DEF ChatInv, NoTextAfterEdit
<1> QED
  BY <1>1, <1>2, <1>4, <1>5, <1>6 DEF ChatInv

-----------------------------------------------------------------------------
(***************************************************************************)
(* The steps that leave the notes and the rows alone.                      *)
(***************************************************************************)
\* The questions after the expired ones are marked are still questions.
LEMMA ExpiredAreQuestions ==
    ASSUME questions \in [Messages -> Questions]
    PROVE  /\ Expired \in [Messages -> Questions]
           /\ \A q \in Messages : Expired[q].status # "none" => questions[q].status # "none"
BY DEF Expired, Questions

\* Marking a question leaves it one.
LEMMA MarkedAreQuestions ==
    ASSUME questions \in [Messages -> Questions], NEW q \in Messages, NEW k
    PROVE  LET marked == [questions EXCEPT ![q].status = Verdict(k)]
           IN  /\ marked \in [Messages -> Questions]
               /\ \A p \in Messages : marked[p].status # "none" => p = q \/ questions[p].status # "none"
BY DEF Verdict, Questions, Messages

LEMMA ReadQuestionKeeps ==
    ASSUME ChatInv, NEW h \in Handlers, ReadQuestion(h) PROVE ChatInv'
<1> USE ConversationBoundsAssumption
<1>1. h \in Running /\ hs[h] \in HandlerRecords /\ HandlerOK(hs[h]) /\ hs[h].pc = "question"
  BY DEF ChatInv, TablesOK, ReadQuestion, At
<1>2. PICK q \in 0..MaxMessages : q = PendingQuestion /\ (q # 0 => q \in 1..said)
  <2>1. PendingQuestion \in Messages \cup {0}
    BY PendingIsPending DEF ChatInv, TablesOK
  <2>2. PendingQuestion # 0 => questions[PendingQuestion].status = "pending"
    BY PendingIsPending DEF ChatInv, TablesOK
  <2>3. PendingQuestion # 0 => PendingQuestion <= said
    BY <2>1, <2>2 DEF ChatInv, NotesOK
  <2> QED
    BY <2>1, <2>3 DEF Messages, ChatInv, TablesOK
<1>3. PICK r : r = [hs[h] EXCEPT !.question = q, !.pc = IF q = 0 THEN "classify" ELSE "settle"]
  OBVIOUS
<1>4. r \in HandlerRecords
  BY <1>1, <1>3 DEF HandlerRecords, Pcs
<1>5. HandlerOK(r) /\ r.pc # "idle" /\ r.msg = hs[h].msg
  BY <1>1, <1>2, <1>3 DEF HandlerRecords, HandlerOK, KindFits, AtBucket, HasRow, Ingested, Written
<1>6. /\ hs' = [hs EXCEPT ![h] = r] /\ UNCHANGED <<config, rows, notes, done, said, told>>
      /\ questions' = Expired
  BY <1>2, <1>3 DEF ReadQuestion, Become, static
<1>7. questions' \in [Messages -> Questions] /\ \A p \in Messages : questions'[p].status # "none" => p <= said
  BY <1>6, ExpiredAreQuestions DEF ChatInv, TablesOK, NotesOK
<1> QED
  BY <1>1, <1>4, <1>5, <1>6, <1>7, LightStep

\* Where a step of the router or of the look at a row ends, it changes hs alone.
LEMMA OnlyHandler ==
    ASSUME ChatInv, NEW h \in Handlers, NEW r \in HandlerRecords, hs' = [hs EXCEPT ![h] = r],
           UNCHANGED <<config, rows, notes, done, said, told, questions>>,
           HandlerOK(r), h \in Running \/ r = Idle,
           r.pc # "idle" => hs[h].pc # "idle" /\ r.msg = hs[h].msg
    PROVE  ChatInv'
<1>1. questions' \in [Messages -> Questions] /\ \A p \in Messages : questions'[p].status # "none" => p <= said
  BY DEF ChatInv, TablesOK, NotesOK
<1> QED
  BY <1>1, LightStep

\* HandleText returns, and nothing else changes.
LEMMA OnlyReturns ==
    ASSUME ChatInv, NEW h \in Handlers, hs' = [hs EXCEPT ![h] = Idle],
           UNCHANGED <<config, rows, notes, done, said, told, questions>>
    PROVE  ChatInv'
BY IdleIsOK, OnlyHandler

LEMMA ReadQuestionFailsKeeps ==
    ASSUME ChatInv, NEW h \in Handlers, ReadQuestionFails(h) PROVE ChatInv'
<1> USE ConversationBoundsAssumption
<1>1. h \in Running /\ hs[h] \in HandlerRecords /\ HandlerOK(hs[h]) /\ hs[h].pc = "question"
  BY DEF ChatInv, TablesOK, ReadQuestionFails, At
<1>2. PICK r : r = [hs[h] EXCEPT !.pc = "classify"]
  OBVIOUS
<1>3. r \in HandlerRecords
  BY <1>1, <1>2 DEF HandlerRecords, Pcs
<1>4. HandlerOK(r) /\ r.pc # "idle" /\ r.msg = hs[h].msg
  BY <1>1, <1>2 DEF HandlerRecords, HandlerOK, KindFits, AtBucket, HasRow, Ingested, Written
<1>5. /\ hs' = [hs EXCEPT ![h] = r] /\ UNCHANGED <<config, rows, notes, done, said, told>>
      /\ questions' = Expired
  BY <1>2 DEF ReadQuestionFails, Goto, Become
<1>6. questions' \in [Messages -> Questions] /\ \A p \in Messages : questions'[p].status # "none" => p <= said
  BY <1>5, ExpiredAreQuestions DEF ChatInv, TablesOK, NotesOK
<1> QED
  BY <1>1, <1>3, <1>4, <1>5, <1>6, LightStep

\* After a question is settled, or was to be: the places the handler may be at.
LEMMA AfterSettlingIs ==
    ASSUME ChatInv, NEW h \in Handlers, At(h, "settle"), AfterSettling(h)
    PROVE  \E r \in HandlerRecords :
              /\ hs' = [hs EXCEPT ![h] = r] /\ HandlerOK(r)
              /\ r.pc # "idle" => r.msg = hs[h].msg
<1> USE ConversationBoundsAssumption
<1>1. h \in Running /\ hs[h] \in HandlerRecords /\ HandlerOK(hs[h]) /\ hs[h].pc = "settle"
  BY DEF ChatInv, TablesOK, At
<1>2. hs[h].question \in 1..said /\ said \in 0..MaxMessages /\ hs[h].question \in 0..MaxMessages
  <2>1. hs[h].question \in 1..said /\ said \in 0..MaxMessages
    BY <1>1 DEF HandlerOK, ChatInv, TablesOK
  <2> QED
    BY <2>1
<1>3. PICK r : hs' = [hs EXCEPT ![h] = r] /\
         r = CASE hs[h].kind = "pick_append" -> [hs[h] EXCEPT !.pc = "append", !.text = hs[h].question]
               [] hs[h].kind = "pick_create" -> [hs[h] EXCEPT !.pc = "ingest", !.text = hs[h].question,
                                                             !.kind = "create"]
               [] hs[h].kind = "cancel" -> Idle
               [] OTHER -> [hs[h] EXCEPT !.pc = "classify", !.question = 0]
  BY DEF AfterSettling, Become
<1>4. CASE hs[h].kind = "pick_append"
  <2>1. r = [hs[h] EXCEPT !.pc = "append", !.text = hs[h].question]
    BY <1>3, <1>4
  <2>2. r \in HandlerRecords
    BY <1>1, <1>2, <2>1 DEF HandlerRecords, Pcs
  <2>3. HandlerOK(r) /\ r.msg = hs[h].msg
    BY <1>1, <1>2, <2>1 DEF HandlerRecords, HandlerOK, KindFits, AtBucket, HasRow, Ingested, Written
  <2> QED
    BY <1>3, <2>2, <2>3
<1>5. CASE hs[h].kind = "pick_create"
  <2>1. r = [hs[h] EXCEPT !.pc = "ingest", !.text = hs[h].question, !.kind = "create"]
    BY <1>3, <1>5
  <2>2. r \in HandlerRecords
    BY <1>1, <1>2, <2>1 DEF HandlerRecords, Pcs, Kinds, RuleKinds
  <2>3. HandlerOK(r) /\ r.msg = hs[h].msg
    BY <1>1, <1>2, <2>1 DEF HandlerRecords, HandlerOK, KindFits, AtBucket, HasRow, Ingested, Written
  <2> QED
    BY <1>3, <2>2, <2>3
<1>6. CASE hs[h].kind = "cancel"
  BY <1>3, <1>6, IdleIsOK
<1>7. CASE hs[h].kind \notin {"pick_append", "pick_create", "cancel"}
  <2>1. r = [hs[h] EXCEPT !.pc = "classify", !.question = 0]
    BY <1>3, <1>7
  <2>2. r \in HandlerRecords
    <3>1. 0 \in 0..MaxMessages
      OBVIOUS
    <3> QED
      BY <1>1, <2>1, <3>1 DEF HandlerRecords, Pcs
  <2>3. HandlerOK(r) /\ r.msg = hs[h].msg
    BY <1>1, <1>2, <2>1 DEF HandlerRecords, HandlerOK, KindFits, AtBucket, HasRow, Ingested, Written
  <2> QED
    BY <1>3, <2>2, <2>3
<1> QED
  BY <1>4, <1>5, <1>6, <1>7

LEMMA SettleKeeps ==
    ASSUME ChatInv, NEW h \in Handlers, Settle(h) \/ SettleFails(h) PROVE ChatInv'
<1> USE ConversationBoundsAssumption
<1>1. At(h, "settle") /\ AfterSettling(h)
  BY DEF Settle, SettleFails
<1>6. UNCHANGED <<config, rows, notes, done, said, told>>
  BY DEF Settle, SettleFails, static
<1>7. questions' = [questions EXCEPT ![hs[h].question].status = Verdict(hs[h].kind)] \/ UNCHANGED questions
  BY DEF Settle, SettleFails
<1>2. h \in Running /\ hs[h].pc = "settle" /\ hs[h].question \in 1..said /\ said \in 0..MaxMessages
  BY <1>1 DEF ChatInv, TablesOK, HandlerOK, At
<1>3. PICK r \in HandlerRecords : /\ hs' = [hs EXCEPT ![h] = r] /\ HandlerOK(r)
                                  /\ r.pc # "idle" => r.msg = hs[h].msg
  BY <1>1, AfterSettlingIs
<1>4. questions' \in [Messages -> Questions] /\ \A p \in Messages : questions'[p].status # "none" => p <= said
  <2>1. questions \in [Messages -> Questions] /\ \A p \in Messages : questions[p].status # "none" => p <= said
    BY DEF ChatInv, TablesOK, NotesOK
  <2>2. PICK q \in Messages : q = hs[h].question /\ q <= said
    BY <1>2 DEF Messages
  <2>3. CASE questions' = [questions EXCEPT ![q].status = Verdict(hs[h].kind)]
    BY <2>1, <2>2, <2>3, MarkedAreQuestions
  <2> QED
    BY <1>7, <2>1, <2>2, <2>3
<1>5. r.pc # "idle" => hs[h].pc # "idle" /\ r.msg = hs[h].msg
  BY <1>2, <1>3
<1> QED
  BY <1>2, <1>3, <1>4, <1>5, <1>6, LightStep

\* What a rule or the model can come to.
LEMMA IntentsAre ==
    ASSUME NEW k, NEW i \in Intents(k)
    PROVE  i \in RuleKinds \cup {"unclear"} \/ (i = "ask" /\ Active # 0)
BY DEF Intents, ModelIntents, Asking, RuleKinds

LEMMA ClassifyKeeps ==
    ASSUME ChatInv, NEW h \in Handlers, Classify(h) PROVE ChatInv'
<1> USE ConversationBoundsAssumption
<1>1. h \in Running /\ hs[h] \in HandlerRecords /\ HandlerOK(hs[h]) /\ hs[h].pc = "classify"
  BY DEF ChatInv, TablesOK, Classify, At
<1>2. PICK i \in Intents(hs[h].kind) :
         hs' = [hs EXCEPT ![h] = CASE i = "unclear" -> Idle
                      [] i = "create" -> [hs[h] EXCEPT !.pc = "ingest", !.kind = i]
                      [] i = "ask" -> [hs[h] EXCEPT !.pc = i, !.bucket = Active]
                      [] OTHER -> [hs[h] EXCEPT !.pc = i]]
  BY DEF Classify, Become
<1>3. UNCHANGED <<config, rows, notes, done, said, told, questions>>
  BY DEF Classify, static
<1>4. CASE i = "unclear"
  BY <1>2, <1>3, <1>4, OnlyReturns
<1>5. CASE i = "create"
  <2>1. PICK r : r = [hs[h] EXCEPT !.pc = "ingest", !.kind = "create"]
    OBVIOUS
  <2>2. r \in HandlerRecords
    BY <1>1, <2>1 DEF HandlerRecords, Pcs, Kinds, RuleKinds
  <2>3. HandlerOK(r) /\ r.pc # "idle" /\ r.msg = hs[h].msg
    BY <1>1, <2>1 DEF HandlerRecords, HandlerOK, KindFits, AtBucket, HasRow, Ingested, Written
  <2> QED
    BY <1>1, <1>2, <1>3, <1>5, <2>1, <2>2, <2>3, OnlyHandler
<1>6. CASE i = "ask"
  <2>1. PICK b \in Buckets : b = Active
    BY <1>2, <1>6, IntentsAre, ActiveIsActive DEF ChatInv, TablesOK, RuleKinds
  <2>2. PICK r : r = [hs[h] EXCEPT !.pc = "ask", !.bucket = b]
    OBVIOUS
  <2>3. r \in HandlerRecords
    BY <1>1, <2>1, <2>2 DEF HandlerRecords, Pcs
  <2>5. b # 0
    BY <2>1 DEF Buckets
  <2>4. HandlerOK(r) /\ r.pc # "idle" /\ r.msg = hs[h].msg
    BY <1>1, <2>2, <2>5 DEF HandlerRecords, HandlerOK, KindFits, AtBucket, HasRow, Ingested, Written
  <2> QED
    BY <1>1, <1>2, <1>3, <1>6, <2>1, <2>2, <2>3, <2>4, OnlyHandler
<1>7. CASE i \in RuleKinds \ {"create"}
  <2>1. PICK r : r = [hs[h] EXCEPT !.pc = i]
    OBVIOUS
  <2>2. r \in HandlerRecords
    BY <1>1, <1>7, <2>1 DEF HandlerRecords, Pcs, RuleKinds
  <2>3. HandlerOK(r) /\ r.pc # "idle" /\ r.msg = hs[h].msg
    BY <1>1, <1>7, <2>1 DEF HandlerRecords, HandlerOK, KindFits, AtBucket, HasRow, Ingested, Written, RuleKinds
  <2>4. i \notin {"unclear", "create", "ask"}
    BY <1>7 DEF RuleKinds
  <2> QED
    BY <1>1, <1>2, <1>3, <2>1, <2>2, <2>3, <2>4, OnlyHandler
<1> QED
  BY <1>4, <1>5, <1>6, <1>7, IntentsAre

LEMMA AskKeeps ==
    ASSUME ChatInv, NEW h \in Handlers, Ask(h) PROVE ChatInv'
<1> USE ConversationBoundsAssumption
<1>1. /\ hs[h].pc = "ask" /\ UNCHANGED <<config, rows, notes, done, said, told>>
      /\ hs' = [hs EXCEPT ![h] = Idle]
      /\ questions' = [questions EXCEPT ![hs[h].text] =
                           [status |-> "pending", late |-> FALSE, asked |-> hs[h].bucket]]
  BY DEF Ask, At, Become, static
<1>2. hs[h].text \in 1..said /\ said \in 0..MaxMessages /\ hs[h].bucket \in Buckets \cup {0}
  BY <1>1 DEF ChatInv, TablesOK, HandlerOK, HandlerRecords
<1>3. questions' \in [Messages -> Questions] /\ \A p \in Messages : questions'[p].status # "none" => p <= said
  <2>1. questions \in [Messages -> Questions] /\ \A p \in Messages : questions[p].status # "none" => p <= said
    BY DEF ChatInv, TablesOK, NotesOK
  <2>2. PICK t \in Messages : t = hs[h].text /\ t <= said
    BY <1>2 DEF Messages
  <2>3. PICK q \in Questions : q = [status |-> "pending", late |-> FALSE, asked |-> hs[h].bucket]
    BY <1>2 DEF Questions
  <2> QED
    BY <1>1, <2>1, <2>2, <2>3
<1> QED
  BY <1>1, <1>3, IdleIsOK, LightStep

LEMMA DecideKeeps ==
    ASSUME ChatInv, NEW h \in Handlers, DecideNamed(h) \/ \E op \in {"approve", "reject"} : Decide(h, op)
    PROVE  ChatInv'
BY OnlyReturns DEF DecideNamed, Decide, Become, static

\* Find: the bucket that is active is looked up.
LEMMA FindKeeps ==
    ASSUME ChatInv, NEW h \in Handlers, NEW op \in {"append", "close", "organize"}, Find(h, op) PROVE ChatInv'
<1> USE ConversationBoundsAssumption
<1>1. h \in Running /\ hs[h] \in HandlerRecords /\ HandlerOK(hs[h]) /\ hs[h].pc = op
  BY DEF ChatInv, TablesOK, Find, At
<1>2. UNCHANGED <<config, rows, notes, done, said, told, questions>>
  BY DEF Find, static
<1>3. CASE hs' = [hs EXCEPT ![h] = Idle]
  BY <1>2, <1>3, OnlyReturns
<1>4. CASE Active # 0 /\ hs' = [hs EXCEPT ![h] = [hs[h] EXCEPT !.pc = "get", !.kind = op, !.bucket = Active]]
  <2>1. Active \in Buckets /\ rows[Active].status = "active"
    BY <1>4, ActiveIsActive DEF ChatInv, TablesOK
  <2>2. PICK b \in Buckets : b = Active /\ b # 0 /\ rows[b].status = "active"
    BY <1>4, <2>1
  <2>3. PICK r : r = [hs[h] EXCEPT !.pc = "get", !.kind = op, !.bucket = b]
    OBVIOUS
  <2>4. r \in HandlerRecords
    BY <1>1, <2>2, <2>3 DEF HandlerRecords, Pcs, Kinds, RuleKinds
  <2>5. HandlerOK(r) /\ r.pc # "idle" /\ r.msg = hs[h].msg
    BY <1>1, <2>2, <2>3 DEF HandlerRecords, HandlerOK, KindFits, AtBucket, HasRow, Ingested, Written
  <2> QED
    BY <1>1, <1>2, <1>4, <2>2, <2>3, <2>4, <2>5, OnlyHandler
<1>5. CASE op = "organize" /\ hs' = [hs EXCEPT ![h] = [hs[h] EXCEPT !.pc = "last", !.kind = "last"]]
  <2>1. PICK r : r = [hs[h] EXCEPT !.pc = "last", !.kind = "last"]
    OBVIOUS
  <2>2. r \in HandlerRecords
    BY <1>1, <2>1 DEF HandlerRecords, Pcs
  <2>3. HandlerOK(r) /\ r.pc # "idle" /\ r.msg = hs[h].msg
    BY <1>1, <1>5, <2>1 DEF HandlerRecords, HandlerOK, KindFits, AtBucket, HasRow, Ingested, Written
  <2> QED
    BY <1>1, <1>2, <1>5, <2>1, <2>2, <2>3, OnlyHandler
<1> QED
  BY <1>3, <1>4, <1>5 DEF Find, Become

\* The row of a handler that works on one.
LEMMA RowOfHandler ==
    ASSUME ChatInv, NEW h \in Handlers, AtBucket(hs[h])
    PROVE  /\ hs[h].bucket \in Buckets /\ rows[hs[h].bucket] \in Rows
           /\ rows[hs[h].bucket].count = Len(rows[hs[h].bucket].hash)
<1>1. hs[h].bucket \in Buckets
  BY DEF ChatInv, TablesOK, HandlerOK, HandlerRecords
<1> QED
  BY <1>1 DEF ChatInv, TablesOK

\* Holding: the row comes into the handler's hand.
LEMMA HoldingKeeps ==
    ASSUME ChatInv, NEW h \in Handlers, At(h, "get"), NEW s \in Statuses,
           NEW label \in {"shut", "compare", "store"}, Holding(h, s, label),
           label = "store" <=> hs[h].kind = "close",
           UNCHANGED <<config, rows, notes, done, said, told, questions>>
    PROVE  ChatInv'
<1> USE ConversationBoundsAssumption
<1>1. h \in Running /\ hs[h] \in HandlerRecords /\ HandlerOK(hs[h]) /\ hs[h].pc = "get"
  BY DEF ChatInv, TablesOK, At
<1>2. PICK row \in Rows : /\ row = rows[hs[h].bucket]
                          /\ row.count = Len(row.hash)
  BY <1>1, RowOfHandler DEF AtBucket
<1>3. PICK new : new = [row EXCEPT !.status = s]
  OBVIOUS
<1>4. new \in Rows /\ new.count = Len(new.hash) /\ new.status # "none"
  BY <1>2, <1>3 DEF Rows, Statuses
<1>5. PICK r : r = [hs[h] EXCEPT !.row = new, !.pc = label]
  OBVIOUS
<1>6. r \in HandlerRecords
  BY <1>1, <1>4, <1>5 DEF HandlerRecords, Pcs
<1>7. HandlerOK(r) /\ r.pc # "idle" /\ r.msg = hs[h].msg
  BY <1>1, <1>4, <1>5 DEF HandlerRecords, HandlerOK, KindFits, AtBucket, HasRow, Ingested, Written
<1>8. hs' = [hs EXCEPT ![h] = r]
  BY <1>2, <1>3, <1>5 DEF Holding, Become
<1> QED
  BY <1>1, <1>6, <1>7, <1>8, OnlyHandler

LEMMA GetKeeps ==
    ASSUME ChatInv, NEW h \in Handlers, Get(h) PROVE ChatInv'
<1>1. At(h, "get") /\ hs[h].kind # "close" /\ UNCHANGED <<config, rows, notes, done, said, told, questions>>
  BY DEF Get, static
<1>2. CASE Become(h, Idle)
  BY <1>1, <1>2, OnlyReturns DEF Become
<1>3. CASE Holding(h, "expired", "shut") \/ Holding(h, "active", "compare")
  BY <1>1, <1>3, HoldingKeeps DEF Statuses
<1> QED
  BY <1>2, <1>3 DEF Get

LEMMA GetToCloseKeeps ==
    ASSUME ChatInv, NEW h \in Handlers, GetToClose(h) PROVE ChatInv'
<1>1. At(h, "get") /\ hs[h].kind = "close" /\ UNCHANGED <<config, rows, notes, done, said, told, questions>>
  BY DEF GetToClose, static
<1>2. CASE Become(h, Idle)
  BY <1>1, <1>2, OnlyReturns DEF Become
<1>3. CASE Holding(h, "closed", "store")
  BY <1>1, <1>3, HoldingKeeps DEF Statuses
<1> QED
  BY <1>2, <1>3 DEF GetToClose

LEMMA CompareKeeps ==
    ASSUME ChatInv, NEW h \in Handlers, Compare(h) PROVE ChatInv'
<1> USE ConversationBoundsAssumption
<1>1. h \in Running /\ hs[h] \in HandlerRecords /\ HandlerOK(hs[h]) /\ hs[h].pc = "compare"
  BY DEF ChatInv, TablesOK, Compare, At
<1>2. UNCHANGED <<config, rows, notes, done, said, told, questions>>
  BY DEF Compare, static
<1>3. CASE hs' = [hs EXCEPT ![h] = [hs[h] EXCEPT !.row.status = "hash_mismatch", !.pc = "shut"]]
  <2>1. PICK row \in Rows : row = hs[h].row /\ row.count = Len(row.hash)
    BY <1>1 DEF HandlerRecords, HandlerOK
  <2>2. PICK new : new = [row EXCEPT !.status = "hash_mismatch"]
    OBVIOUS
  <2>3. new \in Rows /\ new.count = Len(new.hash) /\ new.status # "none"
    BY <2>1, <2>2 DEF Rows, Statuses
  <2>4. PICK r : r = [hs[h] EXCEPT !.row = new, !.pc = "shut"]
    OBVIOUS
  <2>5. hs' = [hs EXCEPT ![h] = r]
    BY <1>1, <1>3, <2>1, <2>2, <2>4 DEF HandlerRecords
  <2>6. r \in HandlerRecords
    BY <1>1, <2>3, <2>4 DEF HandlerRecords, Pcs
  <2>7. HandlerOK(r) /\ r.pc # "idle" /\ r.msg = hs[h].msg
    BY <1>1, <2>3, <2>4 DEF HandlerRecords, HandlerOK, KindFits, AtBucket, HasRow, Ingested, Written
  <2> QED
    BY <1>1, <1>2, <2>5, <2>6, <2>7, OnlyHandler
<1>4. CASE hs' = [hs EXCEPT ![h] = [hs[h] EXCEPT !.pc = IF hs[h].kind = "append" THEN "apply" ELSE "context"]]
  <2>1. PICK r : r = [hs[h] EXCEPT !.pc = IF hs[h].kind = "append" THEN "apply" ELSE "context"]
    OBVIOUS
  <2>2. r \in HandlerRecords
    BY <1>1, <2>1 DEF HandlerRecords, Pcs
  <2>3. HandlerOK(r) /\ r.pc # "idle" /\ r.msg = hs[h].msg
    BY <1>1, <2>1 DEF HandlerRecords, HandlerOK, KindFits, AtBucket, HasRow, Ingested, Written
  <2> QED
    BY <1>1, <1>2, <1>4, <2>1, <2>2, <2>3, OnlyHandler
<1>5. CASE hs' = [hs EXCEPT ![h] = Idle]
  BY <1>2, <1>5, OnlyReturns
<1> QED
  BY <1>3, <1>4, <1>5 DEF Compare, Become

LEMMA ReadContextKeeps ==
    ASSUME ChatInv, NEW h \in Handlers, ReadContext(h) PROVE ChatInv'
<1> USE ConversationBoundsAssumption
<1>1. h \in Running /\ hs[h] \in HandlerRecords /\ HandlerOK(hs[h]) /\ hs[h].pc = "context"
  BY DEF ChatInv, TablesOK, ReadContext, At
<1>2. UNCHANGED <<config, rows, notes, done, said, told, questions>>
  BY DEF ReadContext, static
<1>3. CASE hs' = [hs EXCEPT ![h] = Idle]
  BY <1>2, <1>3, OnlyReturns
<1>4. CASE hs' = [hs EXCEPT ![h] = [hs[h] EXCEPT !.pc = "plan"]]
  <2>1. PICK r : r = [hs[h] EXCEPT !.pc = "plan"]
    OBVIOUS
  <2>2. r \in HandlerRecords
    BY <1>1, <2>1 DEF HandlerRecords, Pcs
  <2>3. HandlerOK(r) /\ r.pc # "idle" /\ r.msg = hs[h].msg
    BY <1>1, <2>1 DEF HandlerRecords, HandlerOK, KindFits, AtBucket, HasRow, Ingested, Written
  <2> QED
    BY <1>1, <1>2, <1>4, <2>1, <2>2, <2>3, OnlyHandler
<1> QED
  BY <1>3, <1>4 DEF ReadContext, Become

LEMMA SavePlanKeeps ==
    ASSUME ChatInv, NEW h \in Handlers, SavePlan(h) PROVE ChatInv'
<1> USE ConversationBoundsAssumption
<1>1. h \in Running /\ hs[h] \in HandlerRecords /\ HandlerOK(hs[h]) /\ hs[h].pc = "plan"
  BY DEF ChatInv, TablesOK, SavePlan, At
<1>2. UNCHANGED <<config, rows, notes, done, said, told, questions>>
  BY DEF SavePlan, static
<1>3. CASE hs' = [hs EXCEPT ![h] = Idle]
  BY <1>2, <1>3, OnlyReturns
<1>4. CASE /\ hs[h].kind \notin {"last", "organize_last"}
           /\ hs' = [hs EXCEPT ![h] = [hs[h] EXCEPT !.row.status = "organized", !.pc = "store"]]
  <2>1. PICK row \in Rows : row = hs[h].row /\ row.count = Len(row.hash)
    BY <1>1 DEF HandlerRecords, HandlerOK
  <2>2. PICK new : new = [row EXCEPT !.status = "organized"]
    OBVIOUS
  <2>3. new \in Rows /\ new.count = Len(new.hash) /\ new.status # "none"
    BY <2>1, <2>2 DEF Rows, Statuses
  <2>4. PICK r : r = [hs[h] EXCEPT !.row = new, !.pc = "store"]
    OBVIOUS
  <2>5. hs' = [hs EXCEPT ![h] = r]
    BY <1>1, <1>4, <2>1, <2>2, <2>4 DEF HandlerRecords
  <2>6. r \in HandlerRecords
    BY <1>1, <2>3, <2>4 DEF HandlerRecords, Pcs
  <2>7. HandlerOK(r) /\ r.pc # "idle" /\ r.msg = hs[h].msg
    BY <1>1, <1>4, <2>3, <2>4 DEF HandlerRecords, HandlerOK, KindFits, AtBucket, HasRow, Ingested, Written
  <2> QED
    BY <1>1, <1>2, <2>5, <2>6, <2>7, OnlyHandler
<1> QED
  BY <1>3, <1>4 DEF SavePlan, Become

LEMMA LastKeeps ==
    ASSUME ChatInv, NEW h \in Handlers, Last(h) PROVE ChatInv'
<1> USE ConversationBoundsAssumption
<1>1. h \in Running /\ hs[h] \in HandlerRecords /\ HandlerOK(hs[h]) /\ hs[h].pc = "last"
  BY DEF ChatInv, TablesOK, Last, At
<1>2. UNCHANGED <<config, rows, notes, done, said, told, questions>>
  BY DEF Last, static
<1>3. PICK S \in SUBSET Buckets : S = Candidates(hs[h].kind)
  BY DEF Candidates
<1>4. CASE S = {}
  BY <1>2, <1>3, <1>4, OnlyReturns DEF Last, Become
<1>5. CASE S # {}
  <2>1. PICK b \in Buckets : b = CHOOSE c \in S : \A d \in S : d <= c
    BY <1>5, LastIsCandidate
  <2>2. PICK r : r = [hs[h] EXCEPT !.bucket = b, !.pc = "context"]
    OBVIOUS
  <2>3. hs' = [hs EXCEPT ![h] = r]
    BY <1>3, <1>5, <2>1, <2>2 DEF Last, Become
  <2>4. r \in HandlerRecords
    BY <1>1, <2>1, <2>2 DEF HandlerRecords, Pcs
  <2>5. b # 0
    BY DEF Buckets
  <2>6. HandlerOK(r) /\ r.pc # "idle" /\ r.msg = hs[h].msg
    BY <1>1, <2>2, <2>5 DEF HandlerRecords, HandlerOK, KindFits, AtBucket, HasRow, Ingested, Written
  <2> QED
    BY <1>1, <1>2, <2>3, <2>4, <2>6, OnlyHandler
<1> QED
  BY <1>4, <1>5

LEMMA TroubleKeeps ==
    ASSUME ChatInv, NEW h \in Handlers, Crash(h) \/ Fails(h) PROVE ChatInv'
<1>1. UNCHANGED told /\ UNCHANGED <<config, rows, notes, done, said, questions>>
  BY DEF Crash, Fails, Refuse, Reply
<1> QED
  BY <1>1, OnlyReturns DEF Crash, Fails, Refuse, Reply, Become

-----------------------------------------------------------------------------
(***************************************************************************)
(* The steps that write a note, a row, or what is told.                    *)
(***************************************************************************)
\* What the handlers a step leaves alone hold in hand fits what a step leaves.
LEMMA OthersFit ==
    ASSUME ChatInv, NEW g \in Handlers, hs'[g] = hs[g],
           said \in Nat, said' \in Nat, said <= said',
           \A b \in Buckets : rows[b].status # "none" => rows'[b].status # "none",
           \A b \in Buckets : notes[b] = <<>> /\ notes'[b] # <<>> => hs[g].pc = "idle" \/ hs[g].msg # b,
           \A b \in Buckets, t \in Messages : Holds(b, t) => Holds(b, t)'
    PROVE  HandlerOK(hs[g])'
<1> USE ConversationBoundsAssumption
<1>1. PICK r \in HandlerRecords : r = hs[g] /\ HandlerOK(r)
  BY DEF ChatInv, TablesOK
<1>2. said \in 0..MaxMessages
  BY DEF ChatInv, TablesOK
<1>3. r.pc # "idle" => r.msg \in 1..said' /\ r.text \in 1..said'
  BY <1>1 DEF HandlerOK
<1>4. r.pc = "settle" => r.question \in 1..said'
  BY <1>1 DEF HandlerOK
<1>5. HasRow(r) => rows'[r.bucket].status # "none"
  <2>1. HasRow(r) => r.bucket \in Buckets
    BY <1>1 DEF HandlerOK, HandlerRecords, HasRow, AtBucket
  <2> QED
    BY <1>1, <2>1 DEF HandlerOK
<1>6. Written(r) => Holds(r.bucket, r.text)'
  <2>1. Written(r) => r.bucket \in Buckets
    BY <1>1 DEF HandlerOK, HandlerRecords, Written, Ingested, AtBucket
  <2>2. Written(r) => r.text \in Messages
    BY <1>1, <1>2 DEF HandlerOK, Written, Ingested, Messages
  <2> QED
    BY <1>1, <2>1, <2>2 DEF HandlerOK
<1>7. r.pc # "idle" /\ ~Ingested(r) => notes'[r.msg] = <<>>
  <2> SUFFICES ASSUME r.pc # "idle", ~Ingested(r) PROVE notes'[r.msg] = <<>>
    OBVIOUS
  <2>1. r.msg \in Buckets /\ notes[r.msg] = <<>>
    BY <1>1, <1>2 DEF HandlerOK, Buckets
  <2> QED
    BY <1>1, <2>1
<1>8. HandlerOK(r)'
  BY <1>1, <1>3, <1>4, <1>5, <1>6, <1>7 DEF HandlerOK
<1> QED
  BY <1>1, <1>8 DEF HandlerOK, Holds

\* The parts of the invariant after a step of one handler.
LEMMA HeavyStep ==
    ASSUME ChatInv, NEW h \in Running, NEW r \in HandlerRecords, hs' = [hs EXCEPT ![h] = r],
           UNCHANGED <<config, questions>>, said \in Nat, said' \in Nat, said <= said',
           rows' \in [Buckets -> Rows], \A b \in Buckets : rows'[b].count = Len(rows'[b].hash),
           notes' \in [Buckets -> Contents], done' \in [Buckets -> {"none", "raw", "keyed"}],
           said' \in 0..MaxMessages,
           \A b \in Buckets : rows[b].status # "none" => rows'[b].status # "none",
           \A b \in Buckets : notes[b] = <<>> /\ notes'[b] # <<>> => hs[h].pc # "idle" /\ b = hs[h].msg,
           \A b \in Buckets, t \in Messages : Holds(b, t) => Holds(b, t)',
           \A b \in Buckets : (rows'[b].status # "none" \/ done'[b] # "none") => notes'[b] # <<>>,
           \A b \in Buckets : \A i \in DOMAIN notes'[b] : notes'[b][i] <= said',
           told' \subseteq 1..said', \A t \in told' : t \in told \/ \E b \in Buckets : Holds(b, t)',
           HandlerOK(r)', NoTextAfterEdit',
           r.pc # "idle" => \A g \in Handlers : hs[g].pc # "idle" /\ hs[g].msg = r.msg => g = h
    PROVE  ChatInv'
<1> USE ConversationBoundsAssumption
<1>1. h \in Handlers
  BY DEF ChatInv, TablesOK, Running
<1>2. TablesOK'
  BY <1>1 DEF ChatInv, TablesOK
<1>3. NotesOK'
  <2>1. \A b \in Buckets : notes'[b] # <<>> => b <= said'
    <3>1. hs[h].pc # "idle" => hs[h].msg <= said
      BY <1>1 DEF ChatInv, HandlerOK
    <3>2. \A b \in Buckets : notes[b] # <<>> => b <= said
      BY DEF ChatInv, NotesOK
    <3> QED
      BY <3>1, <3>2 DEF Buckets
  <2>2. \A q \in Messages : questions'[q].status # "none" => q <= said'
    BY DEF ChatInv, NotesOK, Messages
  <2>3. \A t \in told : \E b \in Buckets : Holds(b, t)'
    <3>1. \A t \in told : t \in Messages /\ \E b \in Buckets : Holds(b, t)
      BY DEF ChatInv, NotesOK, TablesOK, Messages
    <3> QED
      BY <3>1
  <2>4. (\A t \in told : \E b \in Buckets : Holds(b, t))'
    BY <2>3
  <2> QED
    BY <2>1, <2>2, <2>4 DEF NotesOK
<1>4. hs'[h] = r /\ \A g \in Handlers : g # h => hs'[g] = hs[g]
  BY <1>1 DEF ChatInv, TablesOK
<1>5. ASSUME NEW g \in Handlers PROVE HandlerOK(hs[g])' /\ (g \notin Running => hs[g] = Idle)'
  <2>1. (g \notin Running => hs[g] = Idle)'
    BY <1>4 DEF ChatInv, Running
  <2>2. CASE g = h
    <3>1. hs'[g] = r
      BY <1>4, <2>2
    <3>2. HandlerOK(hs[g])'
      BY <3>1 DEF HandlerOK, Holds
    <3> QED
      BY <2>1, <3>2
  <2>3. CASE g # h
    <3>1. \A b \in Buckets : notes[b] = <<>> /\ notes'[b] # <<>> => hs[g].pc = "idle" \/ hs[g].msg # b
      BY <1>1, <2>3 DEF ChatInv, MessagesDiffer
    <3> QED
      BY <1>4, <2>1, <2>3, <3>1, OthersFit
  <2> QED
    BY <2>2, <2>3
<1>6. MessagesDiffer'
  BY <1>1, <1>4 DEF ChatInv, MessagesDiffer
<1> QED
  BY <1>2, <1>3, <1>5, <1>6 DEF ChatInv

\* A text or an edit at the end of a note.
LEMMA AppendedNote ==
    ASSUME notes \in [Buckets -> Contents], NEW b \in Buckets, NEW x \in Messages \cup {Edit},
           notes' = [notes EXCEPT ![b] = Append(@, x)]
    PROVE  /\ notes' \in [Buckets -> Contents]
           /\ notes'[b] # <<>>
           /\ \A c \in Buckets : c # b => notes'[c] = notes[c]
           /\ DOMAIN notes'[b] = 1..Len(notes[b]) + 1 /\ notes'[b][Len(notes[b]) + 1] = x
           /\ Len(notes[b]) \in Nat /\ DOMAIN notes[b] = 1..Len(notes[b])
           /\ \A i \in DOMAIN notes[b] : i \in DOMAIN notes'[b] /\ notes'[b][i] = notes[b][i]
<1>1. PICK s \in Contents : s = notes[b]
  OBVIOUS
<1>2. notes'[b] = Append(s, x) /\ \A c \in Buckets : c # b => notes'[c] = notes[c]
  BY <1>1
<1>3. /\ Append(s, x) \in Contents /\ Len(Append(s, x)) = Len(s) + 1 /\ Append(s, x)[Len(s) + 1] = x
      /\ \A i \in 1..Len(s) : Append(s, x)[i] = s[i]
      /\ Len(s) \in Nat /\ DOMAIN s = 1..Len(s) /\ DOMAIN Append(s, x) = 1..Len(s) + 1
      /\ Append(s, x) # <<>>
  BY <1>1 DEF Contents
<1>4. notes' \in [Buckets -> Contents]
  BY <1>1, <1>3
<1> QED
  BY <1>1, <1>2, <1>3, <1>4

\* What it holds then.
LEMMA AppendedHolds ==
    ASSUME notes \in [Buckets -> Contents], NEW b \in Buckets, NEW x \in Messages \cup {Edit},
           notes' = [notes EXCEPT ![b] = Append(@, x)], NEW c \in Buckets, NEW t
    PROVE  Holds(c, t)' <=> Holds(c, t) \/ (c = b /\ t = x)
<1>1. CASE c = b
  BY <1>1, AppendedNote DEF Holds
<1>2. CASE c # b
  BY <1>2, AppendedNote DEF Holds
<1> QED
  BY <1>1, <1>2

\* The record of a handler that has just got its message.
Fresh(pc, kind) == [pc |-> pc, msg |-> said + 1, text |-> said + 1, kind |-> kind, bucket |-> 0,
                    row |-> NoRow, question |-> 0]

LEMMA ReceivedIs ==
    ASSUME NEW h \in Handlers, NEW k \in Kinds, Receive(h, k)
    PROVE  \E pc \in {"last", "decide", "ingest", "question"}, kind \in Kinds \cup {"none"} :
              /\ hs' = [hs EXCEPT ![h] = Fresh(pc, kind)]
              /\ pc = "last" => kind = "organize_last"
              /\ pc = "decide" => kind = "none"
              /\ pc = "ingest" => kind = "raw"
              /\ pc = "question" => kind \notin {"raw", "organize_last", "decide"}
<1> USE DEF Fresh
<1>1. PICK r : r = [Idle EXCEPT !.msg = said + 1, !.text = said + 1]
  OBVIOUS
<1>2. r = Fresh("idle", "none")
  BY <1>1 DEF Idle
<1>3. /\ [r EXCEPT !.pc = "last", !.kind = k] = Fresh("last", k)
      /\ [r EXCEPT !.pc = k] = Fresh(k, "none")
      /\ [r EXCEPT !.pc = "ingest", !.kind = "raw"] = Fresh("ingest", "raw")
      /\ [r EXCEPT !.pc = "question", !.kind = k] = Fresh("question", k)
  <2>1. [r EXCEPT !.pc = "last", !.kind = k] = Fresh("last", k)
    <3>1. [r EXCEPT !.pc = "last"] = Fresh("last", "none")
      BY <1>2
    <3>2. [Fresh("last", "none") EXCEPT !.kind = k] = Fresh("last", k)
      OBVIOUS
    <3>3. [r EXCEPT !.pc = "last", !.kind = k] = [[r EXCEPT !.pc = "last"] EXCEPT !.kind = k]
      OBVIOUS
    <3> QED
      BY <3>1, <3>2, <3>3
  <2>2. [r EXCEPT !.pc = k] = Fresh(k, "none")
    BY <1>2
  <2>3. [r EXCEPT !.pc = "ingest", !.kind = "raw"] = Fresh("ingest", "raw")
    <3>1. [r EXCEPT !.pc = "ingest"] = Fresh("ingest", "none")
      BY <1>2
    <3>2. [Fresh("ingest", "none") EXCEPT !.kind = "raw"] = Fresh("ingest", "raw")
      OBVIOUS
    <3>3. [r EXCEPT !.pc = "ingest", !.kind = "raw"] = [[r EXCEPT !.pc = "ingest"] EXCEPT !.kind = "raw"]
      OBVIOUS
    <3> QED
      BY <3>1, <3>2, <3>3
  <2>4. [r EXCEPT !.pc = "question", !.kind = k] = Fresh("question", k)
    <3>1. [r EXCEPT !.pc = "question"] = Fresh("question", "none")
      BY <1>2
    <3>2. [Fresh("question", "none") EXCEPT !.kind = k] = Fresh("question", k)
      OBVIOUS
    <3>3. [r EXCEPT !.pc = "question", !.kind = k] = [[r EXCEPT !.pc = "question"] EXCEPT !.kind = k]
      OBVIOUS
    <3> QED
      BY <3>1, <3>2, <3>3
  <2> QED
    BY <2>1, <2>2, <2>3, <2>4
<1>4. hs' = [hs EXCEPT ![h] =
          CASE k = "organize_last" -> [r EXCEPT !.pc = "last", !.kind = k]
            [] k = "decide" -> [r EXCEPT !.pc = k]
            [] k = "raw" \/ (config.mode = "off" /\ k \notin SlashKinds) -> [r EXCEPT !.pc = "ingest", !.kind = "raw"]
            [] OTHER -> [r EXCEPT !.pc = "question", !.kind = k]]
  BY <1>1 DEF Receive, Become
<1> HIDE DEF Fresh
<1>5. hs' = [hs EXCEPT ![h] =
          CASE k = "organize_last" -> Fresh("last", k)
            [] k = "decide" -> Fresh(k, "none")
            [] k = "raw" \/ (config.mode = "off" /\ k \notin SlashKinds) -> Fresh("ingest", "raw")
            [] OTHER -> Fresh("question", k)]
  BY <1>3, <1>4
<1>6. CASE k = "organize_last"
  <2>1. hs' = [hs EXCEPT ![h] = Fresh("last", "organize_last")]
    BY <1>5, <1>6 DEF SlashKinds
  <2> QED
    BY <2>1 DEF Kinds, SlashKinds
<1>7. CASE k = "decide"
  <2>1. hs' = [hs EXCEPT ![h] = Fresh("decide", "none")]
    BY <1>5, <1>7 DEF SlashKinds
  <2> QED
    BY <2>1
<1>8. CASE k \notin {"organize_last", "decide"} /\ (k = "raw" \/ (config.mode = "off" /\ k \notin SlashKinds))
  <2>1. hs' = [hs EXCEPT ![h] = Fresh("ingest", "raw")]
    BY <1>5, <1>8
  <2> QED
    BY <2>1 DEF Kinds, SlashKinds
<1>9. CASE k \notin {"organize_last", "decide"} /\ ~(k = "raw" \/ (config.mode = "off" /\ k \notin SlashKinds))
  <2>1. hs' = [hs EXCEPT ![h] = Fresh("question", k)]
    BY <1>5, <1>9
  <2> QED
    BY <1>9, <2>1
<1> QED
  BY <1>6, <1>7, <1>8, <1>9

\* HandleText begins.
LEMMA ReceiveKeeps ==
    ASSUME ChatInv, NEW h \in Handlers, NEW k \in Kinds, Receive(h, k) PROVE ChatInv'
<1> USE ConversationBoundsAssumption
<1>1. h \in Running /\ hs[h].pc = "idle" /\ said \in 0..MaxMessages /\ said < MaxMessages /\ said' = said + 1
  BY DEF ChatInv, TablesOK, Receive, At
<1>2. UNCHANGED <<config, rows, notes, done, questions, told>>
  BY DEF Receive
<1>4. PICK pc \in {"last", "decide", "ingest", "question"}, kind \in Kinds \cup {"none"} :
         /\ hs' = [hs EXCEPT ![h] = Fresh(pc, kind)]
         /\ pc = "last" => kind = "organize_last"
         /\ pc = "decide" => kind = "none"
         /\ pc = "ingest" => kind = "raw"
         /\ pc = "question" => kind \notin {"raw", "organize_last", "decide"}
  BY ReceivedIs
<1>5. PICK r : r = Fresh(pc, kind)
  OBVIOUS
<1>6. r \in HandlerRecords /\ r.msg = said + 1 /\ r.text = said + 1 /\ r.pc = pc /\ r.kind = kind /\ r.row = NoRow
  <2>1. NoRow \in Rows /\ <<>> \in Contents /\ 0 \in 0..MaxMessages /\ said + 1 \in 0..MaxMessages
    BY <1>1 DEF NoRow, Rows, Contents
  <2>2. pc \in Pcs
    BY DEF Pcs
  <2> QED
    BY <1>5, <2>1, <2>2 DEF HandlerRecords, Fresh
<1>7. notes[said + 1] = <<>> /\ said + 1 \in Buckets
  <2>1. said + 1 \in Buckets /\ ~(said + 1 <= said)
    BY <1>1 DEF Buckets
  <2>2. \A b \in Buckets : notes[b] # <<>> => b <= said
    BY DEF ChatInv, NotesOK
  <2> QED
    BY <2>1, <2>2
<1>8. HandlerOK(r)'
  <2>1. r.row.count = Len(r.row.hash)
    BY <1>6 DEF NoRow
  <2>2. r.msg \in 1..said' /\ r.text \in 1..said' /\ notes'[r.msg] = <<>>
    BY <1>1, <1>2, <1>6, <1>7
  <2>3. ~AtBucket(r) /\ ~HasRow(r) /\ ~Written(r) /\ ~Ingested(r) /\ r.pc \notin {"settle", "compare", "apply", "shut", "store"}
    BY <1>4, <1>6 DEF AtBucket, HasRow, Written, Ingested
  <2>4. KindFits(r)
    BY <1>4, <1>6 DEF KindFits, Kinds, RuleKinds, AnswerKinds, SlashKinds
  <2> QED
    BY <2>1, <2>2, <2>3, <2>4 DEF HandlerOK
<1>9. r.pc # "idle" => \A g \in Handlers : hs[g].pc # "idle" /\ hs[g].msg = r.msg => g = h
  <2>1. \A g \in Handlers : hs[g].pc # "idle" => hs[g].msg \in 1..said
    BY DEF ChatInv, HandlerOK
  <2> QED
    BY <1>1, <1>6, <2>1
<1>10. hs' = [hs EXCEPT ![h] = r] /\ said' \in Nat /\ said \in Nat /\ said <= said' /\ said' \in 0..MaxMessages
  BY <1>1, <1>4, <1>5
<1>11. /\ rows' \in [Buckets -> Rows] /\ \A b \in Buckets : rows'[b].count = Len(rows'[b].hash)
       /\ notes' \in [Buckets -> Contents] /\ done' \in [Buckets -> {"none", "raw", "keyed"}]
       /\ \A b \in Buckets : (rows'[b].status # "none" \/ done'[b] # "none") => notes'[b] # <<>>
  BY <1>2 DEF ChatInv, TablesOK, NotesOK
<1>12. \A b \in Buckets : \A i \in DOMAIN notes'[b] : notes'[b][i] <= said'
  <2>1. \A b \in Buckets : \A i \in DOMAIN notes[b] : notes[b][i] \in Messages \cup {Edit}
    BY DEF ChatInv, TablesOK, Contents
  <2>2. \A b \in Buckets : \A i \in DOMAIN notes[b] : notes[b][i] <= said
    BY DEF ChatInv, NotesOK
  <2> QED
    BY <1>1, <1>2, <2>1, <2>2 DEF Messages, Edit
<1>13. told' \subseteq 1..said' /\ told' = told
  <2>1. told \subseteq 1..said
    BY DEF ChatInv, NotesOK
  <2> QED
    BY <1>1, <1>2, <2>1
<1>14. /\ \A b \in Buckets : rows[b].status # "none" => rows'[b].status # "none"
       /\ \A b \in Buckets : ~(notes[b] = <<>> /\ notes'[b] # <<>>)
       /\ \A b \in Buckets, t \in Messages : Holds(b, t) => Holds(b, t)'
       /\ NoTextAfterEdit'
  BY <1>2 DEF Holds, ChatInv, NoTextAfterEdit
<1> QED
  BY <1>1, <1>2, <1>6, <1>8, <1>9, <1>10, <1>11, <1>12, <1>13, <1>14, HeavyStep

\* The user's editor.
LEMMA EditNoteKeeps ==
    ASSUME ChatInv, NEW b \in Buckets, EditNote(b) PROVE ChatInv'
<1> USE ConversationBoundsAssumption
<1>1. /\ notes[b] # <<>> /\ notes' = [notes EXCEPT ![b] = Append(@, Edit)]
      /\ UNCHANGED <<config, rows, done, questions, hs, said, told>>
  BY DEF EditNote
<1>2. notes \in [Buckets -> Contents] /\ said \in 0..MaxMessages
  BY DEF ChatInv, TablesOK
<1>3. /\ notes' \in [Buckets -> Contents]
      /\ notes'[b] # <<>>
      /\ \A c \in Buckets : c # b => notes'[c] = notes[c]
      /\ DOMAIN notes'[b] = 1..Len(notes[b]) + 1 /\ notes'[b][Len(notes[b]) + 1] = Edit
      /\ Len(notes[b]) \in Nat /\ DOMAIN notes[b] = 1..Len(notes[b])
      /\ \A i \in DOMAIN notes[b] : i \in DOMAIN notes'[b] /\ notes'[b][i] = notes[b][i]
  BY <1>1, <1>2, AppendedNote
<1>4. \A c \in Buckets : \A t : Holds(c, t) => Holds(c, t)'
  BY <1>1, <1>2, AppendedHolds
<1>5. TablesOK'
  BY <1>1, <1>3 DEF ChatInv, TablesOK
<1>6. NotesOK'
  <2>1. \A c \in Buckets : (rows[c].status # "none" \/ done[c] # "none") => notes'[c] # <<>>
    BY <1>3 DEF ChatInv, NotesOK
  <2>2. \A c \in Buckets : notes'[c] # <<>> => c <= said
    BY <1>1, <1>3 DEF ChatInv, NotesOK
  <2>3. \A c \in Buckets : \A i \in DOMAIN notes'[c] : notes'[c][i] <= said
    <3>1. \A c \in Buckets : \A i \in DOMAIN notes[c] : notes[c][i] <= said
      BY DEF ChatInv, NotesOK
    <3>2. \A i \in DOMAIN notes'[b] : i \in DOMAIN notes[b] \/ i = Len(notes[b]) + 1
      BY <1>3
    <3>3. Edit <= said
      BY <1>2 DEF Edit
    <3> QED
      BY <1>3, <3>1, <3>2, <3>3
  <2>4. \A t \in told : \E c \in Buckets : Holds(c, t)'
    BY <1>4 DEF ChatInv, NotesOK
  <2>5. (\A t \in told : \E c \in Buckets : Holds(c, t))'
    BY <1>1, <2>4
  <2> QED
    BY <1>1, <2>1, <2>2, <2>3, <2>5 DEF ChatInv, NotesOK
<1>7. ASSUME NEW g \in Handlers PROVE HandlerOK(hs[g])' /\ (g \notin Running => hs[g] = Idle)'
  <2>1. hs'[g] = hs[g] /\ said' = said /\ said \in Nat /\ said <= said'
    BY <1>1, <1>2
  <2>2. /\ \A c \in Buckets : rows[c].status # "none" => rows'[c].status # "none"
        /\ \A c \in Buckets : notes[c] = <<>> /\ notes'[c] # <<>> => hs[g].pc = "idle" \/ hs[g].msg # c
    BY <1>1, <1>3
  <2>3. HandlerOK(hs[g])'
    BY <1>4, <2>1, <2>2, OthersFit
  <2> QED
    BY <1>1, <2>3 DEF ChatInv, Running
<1>8. MessagesDiffer'
  BY <1>1 DEF ChatInv, MessagesDiffer
<1>9. NoTextAfterEdit'
  <2>1. ASSUME NEW c \in Buckets, NEW i \in 1..Len(notes'[c]), NEW j \in 1..Len(notes'[c]),
               notes'[c][i] = Edit, i < j
        PROVE  notes'[c][j] = Edit
    <3>1. CASE c = b
      <4>1. i \in 1..Len(notes[b]) + 1 /\ j \in 1..Len(notes[b]) + 1
        BY <1>3, <2>1, <3>1 DEF Contents
      <4>2. CASE j = Len(notes[b]) + 1
        BY <1>3, <3>1, <4>2
      <4>3. CASE j # Len(notes[b]) + 1
        <5>1. i \in 1..Len(notes[b]) /\ j \in 1..Len(notes[b])
          BY <1>3, <2>1, <4>1, <4>3
        <5>2. notes[b][i] = Edit
          BY <1>3, <2>1, <3>1, <5>1
        <5>3. notes[b][j] = Edit
          BY <2>1, <5>1, <5>2 DEF ChatInv, NoTextAfterEdit
        <5> QED
          BY <1>3, <3>1, <5>1, <5>3
      <4> QED
        BY <4>2, <4>3
    <3>2. CASE c # b
      BY <1>3, <2>1, <3>2 DEF ChatInv, NoTextAfterEdit
    <3> QED
      BY <3>1, <3>2
  <2> QED
    BY <2>1 DEF NoTextAfterEdit
<1> QED
  BY <1>5, <1>6, <1>7, <1>8, <1>9 DEF ChatInv

\* A deadline passes.
LEMMA LapseKeeps == ASSUME ChatInv, Lapse PROVE ChatInv'
<1> USE ConversationBoundsAssumption
<1>1. UNCHANGED <<config, notes, done, hs, said, told>>
  BY DEF Lapse
<1>2. /\ rows' \in [Buckets -> Rows]
      /\ \A b \in Buckets : rows'[b].status = rows[b].status /\ rows'[b].count = Len(rows'[b].hash)
  <2>1. rows \in [Buckets -> Rows] /\ \A b \in Buckets : rows[b].count = Len(rows[b].hash)
    BY DEF ChatInv, TablesOK
  <2>2. CASE UNCHANGED rows
    BY <2>1, <2>2
  <2>3. CASE \E b \in Buckets : rows' = [rows EXCEPT ![b].late = TRUE]
    <3>1. PICK b \in Buckets : rows' = [rows EXCEPT ![b].late = TRUE]
      BY <2>3
    <3>2. PICK row \in Rows : row = rows[b] /\ row.count = Len(row.hash)
      BY <2>1
    <3>3. PICK new : new = [row EXCEPT !.late = TRUE]
      OBVIOUS
    <3>4. new \in Rows /\ new.status = row.status /\ new.count = Len(new.hash)
      BY <3>2, <3>3 DEF Rows
    <3>5. rows' = [rows EXCEPT ![b] = new]
      BY <3>1, <3>2, <3>3
    <3> QED
      BY <2>1, <3>2, <3>4, <3>5
  <2> QED
    BY <2>2, <2>3 DEF Lapse
<1>3. questions' \in [Messages -> Questions] /\ \A q \in Messages : questions'[q].status = questions[q].status
  <2>1. questions \in [Messages -> Questions]
    BY DEF ChatInv, TablesOK
  <2>2. CASE UNCHANGED questions
    BY <2>1, <2>2
  <2>3. CASE \E q \in Messages : questions' = [questions EXCEPT ![q].late = TRUE]
    <3>1. PICK q \in Messages : questions' = [questions EXCEPT ![q].late = TRUE]
      BY <2>3
    <3>2. PICK old \in Questions : old = questions[q]
      BY <2>1
    <3>3. PICK new : new = [old EXCEPT !.late = TRUE]
      OBVIOUS
    <3>4. new \in Questions /\ new.status = old.status
      BY <3>2, <3>3 DEF Questions
    <3>5. questions' = [questions EXCEPT ![q] = new]
      BY <3>1, <3>2, <3>3
    <3> QED
      BY <2>1, <3>2, <3>4, <3>5
  <2> QED
    BY <2>2, <2>3 DEF Lapse
<1>4. TablesOK'
  BY <1>1, <1>2, <1>3 DEF ChatInv, TablesOK
<1>5. NotesOK'
  <2>1. (\A t \in told : \E c \in Buckets : Holds(c, t))'
    BY <1>1 DEF ChatInv, NotesOK, Holds
  <2> QED
    BY <1>1, <1>2, <1>3, <2>1 DEF ChatInv, NotesOK
<1>6. ASSUME NEW g \in Handlers PROVE HandlerOK(hs[g])' /\ (g \notin Running => hs[g] = Idle)'
  <2>1. hs'[g] = hs[g] /\ said' = said /\ said \in Nat /\ said <= said'
    BY <1>1 DEF ChatInv, TablesOK
  <2>2. /\ \A c \in Buckets : rows[c].status # "none" => rows'[c].status # "none"
        /\ \A c \in Buckets : notes[c] = <<>> /\ notes'[c] # <<>> => hs[g].pc = "idle" \/ hs[g].msg # c
        /\ \A c \in Buckets, t \in Messages : Holds(c, t) => Holds(c, t)'
    BY <1>1, <1>2 DEF Holds
  <2>3. HandlerOK(hs[g])'
    BY <2>1, <2>2, OthersFit
  <2> QED
    BY <1>1, <2>3 DEF ChatInv, Running
<1>7. MessagesDiffer' /\ NoTextAfterEdit'
  BY <1>1 DEF ChatInv, MessagesDiffer, NoTextAfterEdit
<1> QED
  BY <1>4, <1>5, <1>6, <1>7 DEF ChatInv

\* What a step that writes leaves as it was, for HeavyStep.
LEMMA TablesAsTheyWere ==
    ASSUME ChatInv, NEW h \in Running
    PROVE  /\ h \in Handlers /\ hs[h] \in HandlerRecords /\ HandlerOK(hs[h]) /\ said \in 0..MaxMessages /\ said \in Nat
           /\ rows \in [Buckets -> Rows] /\ \A b \in Buckets : rows[b].count = Len(rows[b].hash)
           /\ notes \in [Buckets -> Contents] /\ done \in [Buckets -> {"none", "raw", "keyed"}]
           /\ \A b \in Buckets : (rows[b].status # "none" \/ done[b] # "none") => notes[b] # <<>>
           /\ \A b \in Buckets : \A i \in DOMAIN notes[b] : notes[b][i] <= said
           /\ told \subseteq 1..said
           /\ hs[h].pc # "idle" => /\ hs[h].msg \in Messages /\ hs[h].text \in Messages /\ hs[h].text <= said
                                   /\ \A g \in Handlers : hs[g].pc # "idle" /\ hs[g].msg = hs[h].msg => g = h
           /\ AtBucket(hs[h]) => hs[h].bucket \in Buckets
<1>1. h \in Handlers /\ said \in 0..MaxMessages /\ said \in Nat
  BY ConversationBoundsAssumption DEF ChatInv, TablesOK, Running
<1>2. hs[h].pc # "idle" => hs[h].msg \in Messages /\ hs[h].text \in Messages /\ hs[h].text <= said
  BY <1>1, ConversationBoundsAssumption DEF ChatInv, HandlerOK, Messages
<1>3. hs[h].pc # "idle" => \A g \in Handlers : hs[g].pc # "idle" /\ hs[g].msg = hs[h].msg => g = h
  BY <1>1 DEF ChatInv, MessagesDiffer
<1>4. AtBucket(hs[h]) => hs[h].bucket \in Buckets
  BY <1>1, RowOfHandler
<1> QED
  BY <1>1, <1>2, <1>3, <1>4 DEF ChatInv, TablesOK, NotesOK

\* Apply creates the note.
LEMMA IngestKeeps ==
    ASSUME ChatInv, NEW h \in Handlers, Ingest(h) PROVE ChatInv'
<1> USE ConversationBoundsAssumption
<1>1. h \in Running /\ hs[h].pc = "ingest"
  BY DEF Ingest, At
<1>2. PICK b \in Buckets, t \in Messages : b = hs[h].msg /\ t = hs[h].text /\ t <= said
  BY <1>1, TablesAsTheyWere DEF Buckets, Messages
<1>3. /\ notes' = [notes EXCEPT ![b] = <<t>>]
      /\ hs' = [hs EXCEPT ![h] = [hs[h] EXCEPT !.pc = "finish", !.bucket = b]]
      /\ UNCHANGED <<config, rows, done, questions, said, told>>
  BY <1>2 DEF Ingest, Become, static
<1>4. /\ hs[h] \in HandlerRecords /\ HandlerOK(hs[h]) /\ said \in 0..MaxMessages /\ said \in Nat
      /\ rows \in [Buckets -> Rows] /\ \A c \in Buckets : rows[c].count = Len(rows[c].hash)
      /\ notes \in [Buckets -> Contents] /\ done \in [Buckets -> {"none", "raw", "keyed"}]
      /\ \A c \in Buckets : (rows[c].status # "none" \/ done[c] # "none") => notes[c] # <<>>
      /\ \A c \in Buckets : \A i \in DOMAIN notes[c] : notes[c][i] <= said
      /\ told \subseteq 1..said
      /\ \A g \in Handlers : hs[g].pc # "idle" /\ hs[g].msg = b => g = h
  BY <1>1, <1>2, TablesAsTheyWere
<1>5. notes[b] = <<>>
  BY <1>1, <1>2, <1>4 DEF HandlerOK, Ingested
<1>6. <<t>> \in Contents /\ <<t>> # <<>> /\ Len(<<t>>) = 1 /\ DOMAIN <<t>> = {1} /\ <<t>>[1] = t
  BY DEF Contents
<1>7. notes' \in [Buckets -> Contents] /\ notes'[b] = <<t>> /\ \A c \in Buckets : c # b => notes'[c] = notes[c]
  BY <1>3, <1>4, <1>6
<1>8. \A c \in Buckets, x \in Messages : Holds(c, x) => Holds(c, x)'
  <2>1. \A x : ~Holds(b, x)
    BY <1>5 DEF Holds
  <2> QED
    BY <1>7, <2>1 DEF Holds
<1>9. PICK r : r = [hs[h] EXCEPT !.pc = "finish", !.bucket = b]
  OBVIOUS
<1>10. r \in HandlerRecords /\ r.pc = "finish" /\ r.bucket = b /\ r.msg = b /\ r.text = t
  BY <1>2, <1>4, <1>9 DEF HandlerRecords, Pcs
<1>11. HandlerOK(r)'
  <2>1. KindFits(r)
    BY <1>1, <1>4, <1>9 DEF HandlerRecords, HandlerOK, KindFits
  <2>2. r.row.count = Len(r.row.hash)
    BY <1>4, <1>9 DEF HandlerRecords, HandlerOK
  <2>3. b \in 1..said' /\ t \in 1..said' /\ b # 0
    BY <1>1, <1>2, <1>3, <1>4 DEF HandlerOK
  <2>4. Holds(b, t)'
    BY <1>6, <1>7 DEF Holds
  <2>5. ~HasRow(r) /\ Ingested(r)
    BY <1>10 DEF HasRow, Ingested
  <2> QED
    BY <1>10, <2>1, <2>2, <2>3, <2>4, <2>5 DEF HandlerOK
<1>12. NoTextAfterEdit'
  <2>1. ASSUME NEW c \in Buckets, NEW i \in 1..Len(notes'[c]), NEW j \in 1..Len(notes'[c]),
               notes'[c][i] = Edit, i < j
        PROVE  notes'[c][j] = Edit
    <3>1. CASE c = b
      BY <1>6, <1>7, <2>1, <3>1
    <3>2. CASE c # b
      BY <1>7, <2>1, <3>2 DEF ChatInv, NoTextAfterEdit
    <3> QED
      BY <3>1, <3>2
  <2> QED
    BY <2>1 DEF NoTextAfterEdit
<1>13. /\ rows' \in [Buckets -> Rows] /\ \A c \in Buckets : rows'[c].count = Len(rows'[c].hash)
       /\ done' \in [Buckets -> {"none", "raw", "keyed"}]
       /\ UNCHANGED <<config, questions>> /\ said' \in 0..MaxMessages /\ said' \in Nat /\ said <= said'
       /\ \A c \in Buckets : rows[c].status # "none" => rows'[c].status # "none"
  BY <1>3, <1>4
<1>14. \A c \in Buckets : (rows'[c].status # "none" \/ done'[c] # "none") => notes'[c] # <<>>
  BY <1>3, <1>4, <1>6, <1>7
<1>15. \A c \in Buckets : \A i \in DOMAIN notes'[c] : notes'[c][i] <= said'
  BY <1>2, <1>3, <1>4, <1>6, <1>7
<1>16. /\ told' \subseteq 1..said' /\ hs' = [hs EXCEPT ![h] = r]
       /\ \A x \in told' : x \in told \/ \E c \in Buckets : Holds(c, x)'
  BY <1>3, <1>4, <1>9
<1>18. r.pc # "idle" => \A g \in Handlers : hs[g].pc # "idle" /\ hs[g].msg = r.msg => g = h
  BY <1>4, <1>10
<1>17. \A c \in Buckets : notes[c] = <<>> /\ notes'[c] # <<>> => hs[h].pc # "idle" /\ c = hs[h].msg
  BY <1>1, <1>2, <1>7
<1> QED
  BY <1>1, <1>4, <1>7, <1>8, <1>10, <1>11, <1>12, <1>13, <1>14, <1>15, <1>16, <1>17, <1>18, HeavyStep

\* The ingest job is done.
LEMMA FinishIngestKeeps ==
    ASSUME ChatInv, NEW h \in Handlers, FinishIngest(h) PROVE ChatInv'
<1> USE ConversationBoundsAssumption
<1>1. h \in Running /\ hs[h].pc = "finish"
  BY DEF FinishIngest, At
<1>2. PICK b \in Buckets, t \in Messages : b = hs[h].bucket /\ t = hs[h].text /\ t <= said
  BY <1>1, TablesAsTheyWere DEF AtBucket
<1>3. UNCHANGED <<config, rows, notes, questions, said>>
  BY DEF FinishIngest, static
<1>4. /\ hs[h] \in HandlerRecords /\ HandlerOK(hs[h]) /\ said \in 0..MaxMessages /\ said \in Nat
      /\ rows \in [Buckets -> Rows] /\ \A c \in Buckets : rows[c].count = Len(rows[c].hash)
      /\ notes \in [Buckets -> Contents] /\ done \in [Buckets -> {"none", "raw", "keyed"}]
      /\ \A c \in Buckets : (rows[c].status # "none" \/ done[c] # "none") => notes[c] # <<>>
      /\ \A c \in Buckets : \A i \in DOMAIN notes[c] : notes[c][i] <= said
      /\ told \subseteq 1..said
      /\ \A g \in Handlers : hs[g].pc # "idle" /\ hs[g].msg = hs[h].msg => g = h
  BY <1>1, TablesAsTheyWere
<1>5. Holds(b, t) /\ notes[b] # <<>> /\ b = hs[h].msg /\ hs[h].kind \in {"raw", "create"}
  BY <1>1, <1>2, <1>4 DEF HandlerOK, Written, Ingested, Holds, KindFits
<1>6. done' = [done EXCEPT ![b] = IF hs[h].kind = "raw" THEN "raw" ELSE "keyed"]
  BY <1>2 DEF FinishIngest
<1>7. /\ done' \in [Buckets -> {"none", "raw", "keyed"}]
      /\ \A c \in Buckets : (rows'[c].status # "none" \/ done'[c] # "none") => notes'[c] # <<>>
  BY <1>3, <1>4, <1>5, <1>6
<1>8. \E r \in HandlerRecords :
         /\ hs' = [hs EXCEPT ![h] = r]
         /\ (r = Idle /\ told' = told \cup {t}) \/ (r.msg = hs[h].msg /\ told' = told)
         /\ HandlerOK(r)
  <2>1. CASE hs[h].kind = "raw"
    <3>1. hs' = [hs EXCEPT ![h] = Idle] /\ told' = told \cup {t}
      BY <1>2, <2>1 DEF FinishIngest, Reply, Become
    <3> QED
      <4>1. PICK r : r = Idle
        OBVIOUS
      <4>2. r \in HandlerRecords /\ HandlerOK(r)
        BY <4>1, IdleIsOK
      <4> QED
        BY <3>1, <4>1, <4>2
  <2>2. CASE hs[h].kind # "raw"
    <3>1. PICK row : row = [status |-> "active", count |-> 1, hash |-> <<t>>, late |-> FALSE, updated |-> 0]
      OBVIOUS
    <3>2. <<t>> \in Seq(Messages) /\ Len(<<t>>) = 1 /\ 0 \in 0..MaxMessages
      OBVIOUS
    <3>3. row \in Rows /\ row.count = Len(row.hash) /\ row.status # "none"
      BY <3>1, <3>2 DEF Rows, Statuses
    <3>4. FirstRow(h) = row
      BY <1>2, <3>1 DEF FirstRow
    <3>5. PICK r : r = [hs[h] EXCEPT !.pc = "store", !.row = row]
      OBVIOUS
    <3>6. hs' = [hs EXCEPT ![h] = r] /\ told' = told
      BY <2>2, <3>4, <3>5 DEF FinishIngest, Become
    <3>7. r \in HandlerRecords /\ r.msg = hs[h].msg /\ r.kind = "create" /\ r.pc = "store"
      BY <1>4, <1>5, <2>2, <3>3, <3>5 DEF HandlerRecords, Pcs
    <3>8. HandlerOK(r)
      BY <1>1, <1>4, <1>5, <2>2, <3>3, <3>5 DEF HandlerRecords, HandlerOK, KindFits, AtBucket, HasRow, Ingested, Written
    <3> QED
      BY <3>6, <3>7, <3>8
  <2> QED
    BY <2>1, <2>2
<1>9. PICK r \in HandlerRecords : /\ hs' = [hs EXCEPT ![h] = r]
                                  /\ (r = Idle /\ told' = told \cup {t}) \/ (r.msg = hs[h].msg /\ told' = told)
                                  /\ HandlerOK(r)
  BY <1>8
<1>10. HandlerOK(r)'
  BY <1>3, <1>9, SameTables
<1>11. told' \subseteq 1..said' /\ \A x \in told' : x \in told \/ \E c \in Buckets : Holds(c, x)'
  <2>1. Holds(b, t)' /\ t \in 1..said'
    BY <1>2, <1>3, <1>4, <1>5 DEF Holds, Messages
  <2> QED
    BY <1>3, <1>4, <1>9, <2>1
<1>12. r.pc # "idle" => \A g \in Handlers : hs[g].pc # "idle" /\ hs[g].msg = r.msg => g = h
  BY <1>4, <1>9, IdleIsOK
<1>13. /\ rows' \in [Buckets -> Rows] /\ \A c \in Buckets : rows'[c].count = Len(rows'[c].hash)
       /\ notes' \in [Buckets -> Contents]
       /\ UNCHANGED <<config, questions>> /\ said' \in 0..MaxMessages /\ said' \in Nat /\ said <= said'
       /\ \A c \in Buckets : rows[c].status # "none" => rows'[c].status # "none"
       /\ \A c \in Buckets : notes[c] = <<>> /\ notes'[c] # <<>> => hs[h].pc # "idle" /\ c = hs[h].msg
       /\ \A c \in Buckets, x \in Messages : Holds(c, x) => Holds(c, x)'
       /\ \A c \in Buckets : \A i \in DOMAIN notes'[c] : notes'[c][i] <= said'
  BY <1>3, <1>4 DEF Holds
<1>14. NoTextAfterEdit'
  BY <1>3 DEF ChatInv, NoTextAfterEdit
<1> QED
  BY <1>1, <1>4, <1>7, <1>9, <1>10, <1>11, <1>12, <1>13, <1>14, HeavyStep

\* Apply rewrites the note of a group.
LEMMA ApplyAppendKeeps ==
    ASSUME ChatInv, NEW h \in Handlers, ApplyAppend(h) PROVE ChatInv'
<1> USE ConversationBoundsAssumption
<1>1. h \in Running /\ hs[h].pc = "apply" /\ UNCHANGED <<config, rows, done, questions, said, told>>
  BY DEF ApplyAppend, At, static
<1>2. PICK b \in Buckets, t \in Messages : b = hs[h].bucket /\ t = hs[h].text /\ t <= said
  BY <1>1, TablesAsTheyWere DEF AtBucket
<1>3. /\ hs[h] \in HandlerRecords /\ HandlerOK(hs[h]) /\ said \in 0..MaxMessages /\ said \in Nat
      /\ rows \in [Buckets -> Rows] /\ \A c \in Buckets : rows[c].count = Len(rows[c].hash)
      /\ notes \in [Buckets -> Contents] /\ done \in [Buckets -> {"none", "raw", "keyed"}]
      /\ \A c \in Buckets : (rows[c].status # "none" \/ done[c] # "none") => notes[c] # <<>>
      /\ \A c \in Buckets : \A i \in DOMAIN notes[c] : notes[c][i] <= said
      /\ told \subseteq 1..said
      /\ \A g \in Handlers : hs[g].pc # "idle" /\ hs[g].msg = hs[h].msg => g = h
  BY <1>1, TablesAsTheyWere
<1>4. CASE Moved(b) \/ notes[b] # hs[h].row.hash
  BY <1>1, <1>2, <1>4, OnlyReturns DEF ApplyAppend, Become
<1>5. CASE ~Moved(b) /\ notes[b] = hs[h].row.hash
  <2>1. notes' = [notes EXCEPT ![b] = Append(@, t)] /\ hs' = [hs EXCEPT ![h] = [hs[h] EXCEPT !.pc = "store", !.row = NextRow(h)]]
    BY <1>2, <1>5 DEF ApplyAppend, Become
  <2>2. /\ notes' \in [Buckets -> Contents]
        /\ notes'[b] # <<>>
        /\ \A c \in Buckets : c # b => notes'[c] = notes[c]
        /\ DOMAIN notes'[b] = 1..Len(notes[b]) + 1 /\ notes'[b][Len(notes[b]) + 1] = t
        /\ Len(notes[b]) \in Nat /\ DOMAIN notes[b] = 1..Len(notes[b])
        /\ \A i \in DOMAIN notes[b] : i \in DOMAIN notes'[b] /\ notes'[b][i] = notes[b][i]
    BY <1>3, <2>1, AppendedNote
  <2>3. /\ \A c \in Buckets, x \in Messages : Holds(c, x) => Holds(c, x)'
        /\ Holds(b, t)'
    BY <1>3, <2>1, AppendedHolds
  <2>4. rows[b].status # "none" /\ notes[b] # <<>> /\ hs[h].kind = "append"
    BY <1>1, <1>2, <1>3 DEF HandlerOK, HasRow, KindFits
  <2>5. PICK row \in Rows : row = hs[h].row /\ row.count = Len(row.hash)
    BY <1>3 DEF HandlerRecords, HandlerOK
  <2>6. PICK new : new = [row EXCEPT !.count = row.count + 1, !.late = FALSE, !.hash = Append(row.hash, t)]
    OBVIOUS
  <2>7. new \in Rows /\ new.count = Len(new.hash) /\ new.status = row.status
    <3>1. Append(row.hash, t) \in Seq(Messages) /\ Len(Append(row.hash, t)) = Len(row.hash) + 1 /\ row.count + 1 \in Nat
      BY <2>5 DEF Rows
    <3> QED
      BY <2>5, <2>6, <3>1 DEF Rows
  <2>8. NextRow(h) = new
    BY <1>2, <2>5, <2>6 DEF NextRow
  <2>9. row.status # "none"
    BY <1>1, <1>3, <2>5 DEF HandlerOK
  <2>10. PICK r : r = [hs[h] EXCEPT !.pc = "store", !.row = new]
    OBVIOUS
  <2>11. r \in HandlerRecords /\ r.msg = hs[h].msg /\ r.pc = "store" /\ r.kind = "append" /\ r.bucket = b /\ r.text = t
    BY <1>2, <1>3, <2>4, <2>7, <2>10 DEF HandlerRecords, Pcs
  <2>12. HandlerOK(r)'
    <3>1. KindFits(r)
      BY <2>4, <2>11 DEF KindFits
    <3>2. r.row = new
      BY <1>3, <2>10 DEF HandlerRecords
    <3>3. r.msg \in 1..said' /\ t \in 1..said' /\ b # 0 /\ notes[r.msg] = <<>> /\ r.msg \in Buckets
      BY <1>1, <1>2, <1>3, <2>11 DEF HandlerOK, Ingested, Buckets
    <3>4. notes'[r.msg] = <<>> /\ rows'[b].status # "none"
      BY <1>1, <2>2, <2>4, <3>3
    <3>5. ~Ingested(r)
      BY <2>11 DEF Ingested
    <3> QED
      BY <2>3, <2>7, <2>9, <2>11, <3>1, <3>2, <3>3, <3>4, <3>5 DEF HandlerOK
  <2>13. NoTextAfterEdit'
    <3>1. ASSUME NEW c \in Buckets, NEW i \in 1..Len(notes'[c]), NEW j \in 1..Len(notes'[c]),
                 notes'[c][i] = Edit, i < j
          PROVE  notes'[c][j] = Edit
      <4>1. CASE c = b
        <5>1. i \in DOMAIN notes[b]
          BY <2>2, <3>1, <4>1 DEF Contents
        <5>2. notes[b][i] \in Messages
          BY <1>5, <2>5, <5>1 DEF Rows
        <5> QED
          BY <2>2, <3>1, <4>1, <5>1, <5>2 DEF Messages, Edit
      <4>2. CASE c # b
        BY <2>2, <3>1, <4>2 DEF ChatInv, NoTextAfterEdit
      <4> QED
        BY <4>1, <4>2
    <3> QED
      BY <3>1 DEF NoTextAfterEdit
  <2>14. \A c \in Buckets : \A i \in DOMAIN notes'[c] : notes'[c][i] <= said'
    <3>1. \A i \in DOMAIN notes'[b] : i \in DOMAIN notes[b] \/ i = Len(notes[b]) + 1
      BY <2>2
    <3> QED
      <4> TAKE c \in Buckets
      <4> TAKE i \in DOMAIN notes'[c]
      <4>1. said' = said
        BY <1>1
      <4>2. CASE c # b
        BY <1>3, <2>2, <4>1, <4>2
      <4>3. CASE c = b
        <5>1. CASE i \in DOMAIN notes[b]
          BY <1>3, <2>2, <4>1, <4>3, <5>1
        <5>2. CASE i = Len(notes[b]) + 1
          BY <1>2, <2>2, <4>1, <4>3, <5>2
        <5> QED
          BY <3>1, <4>3, <5>1, <5>2
      <4> QED
        BY <4>2, <4>3
  <2>15. /\ rows' \in [Buckets -> Rows] /\ \A c \in Buckets : rows'[c].count = Len(rows'[c].hash)
         /\ done' \in [Buckets -> {"none", "raw", "keyed"}]
         /\ UNCHANGED <<config, questions>> /\ said' \in 0..MaxMessages /\ said' \in Nat /\ said <= said'
         /\ \A c \in Buckets : rows[c].status # "none" => rows'[c].status # "none"
         /\ \A c \in Buckets : notes[c] = <<>> /\ notes'[c] # <<>> => hs[h].pc # "idle" /\ c = hs[h].msg
    BY <1>1, <1>3, <2>2, <2>4
  <2>16. /\ \A c \in Buckets : (rows'[c].status # "none" \/ done'[c] # "none") => notes'[c] # <<>>
         /\ told' \subseteq 1..said' /\ hs' = [hs EXCEPT ![h] = r]
         /\ \A x \in told' : x \in told \/ \E c \in Buckets : Holds(c, x)'
    BY <1>1, <1>3, <2>1, <2>2, <2>8, <2>10
  <2>17. r.pc # "idle" => \A g \in Handlers : hs[g].pc # "idle" /\ hs[g].msg = r.msg => g = h
    BY <1>3, <2>11
  <2> QED
    BY <1>1, <1>3, <2>2, <2>3, <2>11, <2>12, <2>13, <2>14, <2>15, <2>16, <2>17, HeavyStep
<1> QED
  BY <1>4, <1>5

\* SaveCaptureBucket, by Store and by Shut.
LEMMA SavingKeeps ==
    ASSUME ChatInv, NEW h \in Handlers, Store(h) \/ Shut(h) PROVE ChatInv'
<1> USE ConversationBoundsAssumption
<1>1. /\ h \in Running /\ hs[h].pc \in {"store", "shut"} /\ hs' = [hs EXCEPT ![h] = Idle]
      /\ UNCHANGED <<config, notes, done, questions, said>>
  BY DEF Store, Shut, At, static, Reply, Become
<1>2. PICK b \in Buckets, t \in Messages : b = hs[h].bucket /\ t = hs[h].text /\ t <= said
  BY <1>1, TablesAsTheyWere DEF AtBucket
<1>3. /\ hs[h] \in HandlerRecords /\ HandlerOK(hs[h]) /\ said \in 0..MaxMessages /\ said \in Nat
      /\ rows \in [Buckets -> Rows] /\ \A c \in Buckets : rows[c].count = Len(rows[c].hash)
      /\ notes \in [Buckets -> Contents] /\ done \in [Buckets -> {"none", "raw", "keyed"}]
      /\ \A c \in Buckets : (rows[c].status # "none" \/ done[c] # "none") => notes[c] # <<>>
      /\ \A c \in Buckets : \A i \in DOMAIN notes[c] : notes[c][i] <= said
      /\ told \subseteq 1..said
  BY <1>1, TablesAsTheyWere
<1>4. PICK row \in Rows : row = hs[h].row /\ row.count = Len(row.hash) /\ row.status # "none"
  BY <1>1, <1>3 DEF HandlerRecords, HandlerOK
<1>5. SaveRow(b, row)
  BY <1>2, <1>4 DEF Store, Shut
<1>6. /\ rows' \in [Buckets -> Rows]
      /\ \A c \in Buckets : LET new == IF c = b THEN row ELSE rows[c]
                            IN  /\ rows'[c].status = new.status
                                /\ rows'[c].count = new.count
                                /\ rows'[c].hash = new.hash
  BY <1>3, <1>5, SaveRowSaves
<1>7. /\ \A c \in Buckets : rows'[c].count = Len(rows'[c].hash)
      /\ \A c \in Buckets : rows[c].status # "none" => rows'[c].status # "none"
      /\ \A c \in Buckets : rows'[c].status # "none" => c = b \/ rows[c].status # "none"
  BY <1>3, <1>4, <1>6
<1>8. notes[b] # <<>>
  BY <1>1, <1>2, <1>3 DEF HandlerOK, HasRow, Written, Ingested, Holds
<1>9. told' = told \/ (told' = told \cup {t} /\ Holds(b, t))
  <2>1. CASE Shut(h)
    BY <2>1 DEF Shut
  <2>2. CASE Store(h) /\ hs[h].kind \notin {"create", "append"}
    BY <2>2 DEF Store, Reply
  <2>3. CASE Store(h) /\ hs[h].kind \in {"create", "append"}
    <3>1. Holds(b, t)
      BY <1>2, <1>3, <2>3 DEF Store, At, HandlerOK, Written, Ingested
    <3> QED
      BY <1>2, <2>3, <3>1 DEF Store, Reply
  <2> QED
    BY <2>1, <2>2, <2>3
<1>10. told' \subseteq 1..said' /\ \A x \in told' : x \in told \/ \E c \in Buckets : Holds(c, x)'
  <2>1. told' \subseteq 1..said'
    <3>1. t \in 1..said
      BY <1>2, <1>3 DEF Messages
    <3> QED
      BY <1>1, <1>3, <1>9, <3>1
  <2>2. Holds(b, t) => Holds(b, t)'
    BY <1>1 DEF Holds
  <2> QED
    BY <1>9, <2>1, <2>2
<1>11. PICK r : r = Idle
  OBVIOUS
<1>12. r \in HandlerRecords /\ HandlerOK(r)' /\ r.pc = "idle" /\ hs' = [hs EXCEPT ![h] = r]
  <2>1. HandlerOK(r)'
    BY <1>11, ConversationBoundsAssumption
       DEF Idle, NoRow, HandlerOK, KindFits, AtBucket, HasRow, Ingested, Written
  <2> QED
    BY <1>1, <1>11, <2>1, IdleIsOK
<1>13. /\ notes' \in [Buckets -> Contents] /\ done' \in [Buckets -> {"none", "raw", "keyed"}]
       /\ UNCHANGED <<config, questions>> /\ said' \in 0..MaxMessages /\ said' \in Nat /\ said <= said'
       /\ \A c \in Buckets : notes[c] = <<>> /\ notes'[c] # <<>> => hs[h].pc # "idle" /\ c = hs[h].msg
       /\ \A c \in Buckets, x \in Messages : Holds(c, x) => Holds(c, x)'
       /\ \A c \in Buckets : \A i \in DOMAIN notes'[c] : notes'[c][i] <= said'
  BY <1>1, <1>3 DEF Holds
<1>14. \A c \in Buckets : (rows'[c].status # "none" \/ done'[c] # "none") => notes'[c] # <<>>
  BY <1>1, <1>3, <1>7, <1>8
<1>15. NoTextAfterEdit'
  BY <1>1 DEF ChatInv, NoTextAfterEdit
<1> QED
  BY <1>1, <1>3, <1>6, <1>7, <1>10, <1>12, <1>13, <1>14, <1>15, HeavyStep

-----------------------------------------------------------------------------
(***************************************************************************)
(* The invariant of any number of processes.                               *)
(***************************************************************************)
LEMMA ChatInit == Init => ChatInv
<1> USE ConversationBoundsAssumption
<1> SUFFICES ASSUME Init PROVE ChatInv
  OBVIOUS
<1>1. /\ config.handlers \subseteq Handlers /\ IsFiniteSet(config.handlers) /\ said \in 0..MaxMessages
  BY ScenariosAssumption DEF Init
<1>2. /\ \A b \in Buckets : rows[b] = NoRow /\ notes[b] = <<>> /\ done[b] = "none"
      /\ \A q \in Messages : questions[q] = NoQuestion
      /\ \A h \in Handlers : hs[h] = Idle
      /\ told = {}
  BY DEF Init
<1>3. NoRow \in Rows /\ NoRow.count = Len(NoRow.hash) /\ NoRow.status = "none" /\ <<>> \in Contents
  BY DEF NoRow, Rows, Contents
<1>4. NoQuestion \in Questions /\ NoQuestion.status = "none"
  BY DEF NoQuestion, Questions
<1>5. rows = [b \in Buckets |-> NoRow] /\ notes = [b \in Buckets |-> <<>>] /\ done = [b \in Buckets |-> "none"]
      /\ questions = [q \in Messages |-> NoQuestion] /\ hs = [h \in Handlers |-> Idle]
  BY DEF Init
<1>6. TablesOK
  <2>1. rows \in [Buckets -> Rows] /\ notes \in [Buckets -> Contents] /\ questions \in [Messages -> Questions]
    BY <1>3, <1>4, <1>5
  <2>2. hs \in [Handlers -> HandlerRecords] /\ done \in [Buckets -> {"none", "raw", "keyed"}]
    BY <1>5, IdleIsOK
  <2> QED
    BY <1>1, <1>2, <1>3, <2>1, <2>2 DEF TablesOK
<1>7. NotesOK
  BY <1>2, <1>3, <1>4 DEF NotesOK
<1>8. \A h \in Handlers : HandlerOK(hs[h]) /\ (h \notin Running => hs[h] = Idle)
  BY <1>2, IdleIsOK
<1>9. MessagesDiffer
  BY <1>2, IdleIsOK DEF MessagesDiffer
<1>10. NoTextAfterEdit
  BY <1>2 DEF NoTextAfterEdit
<1> QED
  BY <1>6, <1>7, <1>8, <1>9, <1>10 DEF ChatInv

LEMMA ChatNext == ChatInv /\ [Next]_vars => ChatInv'
<1> SUFFICES ASSUME ChatInv, [Next]_vars PROVE ChatInv'
  OBVIOUS
<1>1. ASSUME NEW h \in Handlers, NEW k \in Kinds, Receive(h, k) PROVE ChatInv'
  BY <1>1, ReceiveKeeps
<1>2. ASSUME NEW h \in Handlers, RouterStep(h) PROVE ChatInv'
  BY <1>2, ReadQuestionKeeps, SettleKeeps, ClassifyKeeps, AskKeeps, DecideKeeps DEF RouterStep
<1>3. ASSUME NEW h \in Handlers, CaptureStep(h) PROVE ChatInv'
  BY <1>3, IngestKeeps, FinishIngestKeeps, ApplyAppendKeeps, SavingKeeps DEF CaptureStep
<1>4. ASSUME NEW h \in Handlers, BucketStep(h) PROVE ChatInv'
  BY <1>4, FindKeeps, GetKeeps, GetToCloseKeeps, CompareKeeps DEF BucketStep
<1>5. ASSUME NEW h \in Handlers, OrganizeStep(h) PROVE ChatInv'
  BY <1>5, LastKeeps, ReadContextKeeps, SavePlanKeeps DEF OrganizeStep
<1>6. ASSUME NEW h \in Handlers, FaultStep(h) PROVE ChatInv'
  BY <1>6, TroubleKeeps, ReadQuestionFailsKeeps, SettleKeeps DEF FaultStep
<1>7. ASSUME NEW b \in Buckets, EditNote(b) PROVE ChatInv'
  BY <1>7, EditNoteKeeps
<1>8. CASE Lapse
  BY <1>8, LapseKeeps
<1>9. CASE UNCHANGED vars
  <2>1. UNCHANGED <<config, rows, notes, done, questions, hs, said, told>>
    BY <1>9 DEF vars
  <2>2. TablesOK' /\ MessagesDiffer' /\ NoTextAfterEdit'
    BY <2>1 DEF ChatInv, TablesOK, MessagesDiffer, NoTextAfterEdit
  <2>3. NotesOK'
    BY <2>1 DEF ChatInv, NotesOK, Holds
  <2>4. ASSUME NEW g \in Handlers PROVE HandlerOK(hs[g])' /\ (g \notin Running => hs[g] = Idle)'
    BY <2>1 DEF ChatInv, HandlerOK, Holds, Running
  <2> QED
    BY <2>2, <2>3, <2>4 DEF ChatInv
<1> QED
  BY <1>1, <1>2, <1>3, <1>4, <1>5, <1>6, <1>7, <1>8, <1>9 DEF Next

(***************************************************************************)
(* With any number of processes in HandleText, what each holds in hand     *)
(* fits the notes, the rows and the questions.                             *)
(***************************************************************************)
THEOREM ChatInvariant == Spec => []ChatInv
<1> QED
  BY ChatInit, ChatNext, PTL DEF Spec

-----------------------------------------------------------------------------
(***************************************************************************)
(* One process alone.  What its steps leave of the parts of SoleOK.        *)
(***************************************************************************)
\* The notes and the rows' hashes are as they were.
LEMMA RowsMatchStays ==
    ASSUME NEW r, NEW s, RowsMatch(r), UNCHANGED notes, torn \subseteq torn',
           \A b \in Buckets : rows'[b].status = rows[b].status /\ rows'[b].hash = rows[b].hash,
           Appending(r) => r.bucket \in torn'
    PROVE  RowsMatch(s)'
<1> SUFFICES ASSUME NEW b \in Buckets
             PROVE  /\ rows'[b].status # "none" /\ Clean(b)' => rows'[b].hash = notes'[b]
                    /\ rows'[b].status = "hash_mismatch" => ~Clean(b)'
  BY DEF RowsMatch
<1>1. Clean(b)' => Clean(b) /\ b \notin torn'
  BY DEF Clean, Holds
<1> QED
  BY <1>1 DEF RowsMatch

\* No question is asked or answered while the active bucket stays, or none is open.
LEMMA QuestionsStay ==
    ASSUME NEW r, NEW s, QuestionsOK(r), UNCHANGED questions, slipped \subseteq slipped',
           Quiet(r) => Active' = Active /\ Quiet(s) /\ s.pc # "settle"
    PROVE  QuestionsOK(s)'
<1> SUFFICES ASSUME NEW q \in Messages, Open(q)'
             PROVE  /\ Active' = questions'[q].asked
                    /\ \A p \in Messages : questions'[p].status = "pending" => p <= q
                    /\ Quiet(s) /\ (s.pc = "settle" => s.question = q)
  BY DEF QuestionsOK, Open
<1>1. Open(q)
  BY DEF Open
<1> QED
  BY <1>1 DEF QuestionsOK

\* Nothing is written, and no text comes to be waiting to be.
LEMMA CopiesStay ==
    ASSUME NEW r, NEW s, CopiesOK(r), UNCHANGED notes, slipped \subseteq slipped',
           \A t \in Messages : t \notin slipped' /\ (Open(t)' \/ Waits(s, t)) =>
              Open(t) \/ Waits(r, t) \/ \A b \in Buckets : ~Holds(b, t)
    PROVE  CopiesOK(s)'
<1> SUFFICES ASSUME NEW t \in Messages, t \notin slipped'
             PROVE  OneCopy(t)' /\ (Open(t)' \/ Waits(s, t) => \A b \in Buckets : ~Holds(b, t)')
  BY DEF CopiesOK, Waits
<1>1. OneCopy(t)'
  BY DEF CopiesOK, OneCopy
<1>2. ASSUME Open(t)' \/ Waits(s, t), NEW b \in Buckets PROVE ~Holds(b, t)'
  BY <1>2 DEF CopiesOK, Holds
<1> QED
  BY <1>1, <1>2

\* The message in hand is carried on.
LEMMA AnswerStays ==
    ASSUME NEW r, NEW s, AnswerInHand(r), UNCHANGED <<said, questions, slipped>>, r.pc # "idle",
           s.msg = r.msg, s.text = r.text, s.question = r.question,
           s.pc \notin {"question", "settle", "classify", "ask", "append"},
           s.question # 0 /\ s.question \notin slipped /\ s.pc \in {"get", "compare", "apply"} /\ s.kind = "append" =>
              s.bucket = questions[s.question].asked
    PROVE  AnswerInHand(s)'
BY DEF AnswerInHand, Open

\* The record of a handler that holds nothing fits.
LEMMA IdleFits == RowInHand(Idle)' /\ AnswerInHand(Idle)' /\ Quiet(Idle) /\ Idle.pc = "idle" /\ ~Appending(Idle)
BY DEF Idle, NoRow, RowInHand, AnswerInHand, Quiet, HasRow, Written, Ingested, Appending

\* What holds of the record is what holds of the handler.
LEMMA InHand ==
    ASSUME NEW h, NEW s, hs'[h] = s, SoleOK(s)' PROVE SoleOK(hs[h])'
<1>1. /\ RowsMatch(s)' => RowsMatch(hs[h])'
      /\ RowInHand(s)' => RowInHand(hs[h])'
  BY DEF RowsMatch, Clean, Holds, RowInHand
<1>2. QuestionsOK(s)' => QuestionsOK(hs[h])'
  BY DEF QuestionsOK, Open, Active, Latest
<1>3. AnswerInHand(s)' => AnswerInHand(hs[h])'
  BY DEF AnswerInHand, Open, Active, Latest
<1>4. CopiesOK(s)' => CopiesOK(hs[h])'
  BY DEF CopiesOK, OneCopy, Open, Holds
<1> QED
  BY <1>1, <1>2, <1>3, <1>4 DEF SoleOK

\* The rows are as they were, but for deadlines.
LEMMA ActiveKept == ASSUME UNCHANGED rows PROVE Active' = Active
BY ActiveStays

\* HandleText returns, or dies.
LEMMA SoleReturns ==
    ASSUME ChatInv, NEW h \in Handlers, SoleOK(hs[h]), hs' = [hs EXCEPT ![h] = Idle],
           UNCHANGED <<rows, notes, questions>>, slipped \subseteq slipped', torn \subseteq torn',
           Appending(hs[h]) => hs[h].bucket \in torn'
    PROVE  SoleOK(hs[h])'
<1>1. PICK r : r = hs[h]
  OBVIOUS
<1>2. SoleOK(r)
  BY <1>1
<1>3. hs'[h] = Idle
  BY DEF ChatInv, TablesOK
<1>4. RowsMatch(Idle)'
  BY <1>1, <1>2, RowsMatchStays DEF SoleOK
<1>5. QuestionsOK(Idle)'
  BY <1>2, IdleFits, ActiveKept, QuestionsStay DEF SoleOK
<1>6. CopiesOK(Idle)'
  <2>1. \A t \in Messages : t \notin slipped' /\ (Open(t)' \/ Waits(Idle, t)) => Open(t)
    BY IdleFits DEF Open, Waits
  <2> QED
    BY <1>2, <2>1, CopiesStay DEF SoleOK
<1>7. SoleOK(Idle)'
  BY <1>4, <1>5, <1>6, IdleFits DEF SoleOK
<1> QED
  BY <1>3, <1>7, InHand

\* The handler goes on with what it has, and writes nothing.
LEMMA SoleGoesOn ==
    ASSUME ChatInv, NEW h \in Handlers, SoleOK(hs[h]), NEW s, hs' = [hs EXCEPT ![h] = s],
           UNCHANGED <<rows, notes, questions, slipped, torn>>,
           hs[h].pc # "idle", s.text = hs[h].text, ~Appending(hs[h]),
           Written(hs[h]) => Written(s),
           Quiet(hs[h]) => Quiet(s) /\ s.pc # "settle",
           RowInHand(s)', AnswerInHand(s)'
    PROVE  SoleOK(hs[h])'
<1>1. PICK r : r = hs[h]
  OBVIOUS
<1>2. SoleOK(r)
  BY <1>1
<1>3. hs'[h] = s
  BY DEF ChatInv, TablesOK
<1>4. RowsMatch(s)'
  BY <1>1, <1>2, RowsMatchStays DEF SoleOK
<1>5. QuestionsOK(s)'
  BY <1>1, <1>2, ActiveKept, QuestionsStay DEF SoleOK
<1>6. CopiesOK(s)'
  <2>1. \A t \in Messages : t \notin slipped' /\ (Open(t)' \/ Waits(s, t)) => Open(t) \/ Waits(r, t)
    BY <1>1 DEF Open, Waits
  <2> QED
    BY <1>2, <2>1, CopiesStay DEF SoleOK
<1>7. SoleOK(s)'
  BY <1>4, <1>5, <1>6 DEF SoleOK
<1> QED
  BY <1>3, <1>7, InHand

LEMMA SoleFind ==
    ASSUME ChatInv, NEW h \in Handlers, SoleOK(hs[h]), NEW op \in {"append", "close", "organize"}, Find(h, op)
    PROVE  SoleOK(hs[h])'
<1>1. PICK r \in HandlerRecords : r = hs[h] /\ HandlerOK(r) /\ r.pc = op /\ SoleOK(r)
  BY DEF ChatInv, TablesOK, Find, At
<1>2. UNCHANGED <<rows, notes, questions, slipped, torn, said>>
  BY DEF Find, static
<1>3. ~Appending(r) /\ ~Written(r) /\ ~Quiet(r)
  BY <1>1 DEF Appending, Written, Ingested, Quiet, HandlerOK, KindFits
<1>4. CASE hs' = [hs EXCEPT ![h] = Idle]
  BY <1>1, <1>2, <1>3, <1>4, SoleReturns
<1>5. CASE Active # 0 /\ hs' = [hs EXCEPT ![h] = [hs[h] EXCEPT !.pc = "get", !.kind = op, !.bucket = Active]]
  <2>1. PICK b : b = Active
    OBVIOUS
  <2>2. PICK s : s = [r EXCEPT !.pc = "get", !.kind = op, !.bucket = b]
    OBVIOUS
  <2>3. /\ s.pc = "get" /\ s.kind = op /\ s.bucket = b /\ s.row = r.row
        /\ s.msg = r.msg /\ s.text = r.text /\ s.question = r.question
    BY <1>1, <2>2 DEF HandlerRecords
  <2>4. RowInHand(s)'
    BY <1>1, <2>3 DEF RowInHand, SoleOK, HasRow, Written, Ingested
  <2>5. s.question # 0 /\ s.question \notin slipped /\ s.kind = "append" => b = questions[s.question].asked
    BY <1>1, <2>1, <2>3 DEF AnswerInHand, SoleOK
  <2>6. AnswerInHand(s)'
    BY <1>1, <1>2, <2>3, <2>5, AnswerStays DEF SoleOK
  <2>7. hs' = [hs EXCEPT ![h] = s]
    BY <1>1, <1>5, <2>1, <2>2
  <2> QED
    BY <1>1, <1>2, <1>3, <2>3, <2>4, <2>6, <2>7, SoleGoesOn
<1>6. CASE op = "organize" /\ hs' = [hs EXCEPT ![h] = [hs[h] EXCEPT !.pc = "last", !.kind = "last"]]
  <2>1. PICK s : s = [r EXCEPT !.pc = "last", !.kind = "last"]
    OBVIOUS
  <2>2. /\ s.pc = "last" /\ s.kind = "last" /\ s.bucket = r.bucket /\ s.row = r.row
        /\ s.msg = r.msg /\ s.text = r.text /\ s.question = r.question
    BY <1>1, <2>1 DEF HandlerRecords
  <2>3. RowInHand(s)'
    BY <1>1, <2>2 DEF RowInHand, SoleOK, HasRow, Written, Ingested
  <2>4. AnswerInHand(s)'
    BY <1>1, <1>2, <2>2, AnswerStays DEF SoleOK
  <2>5. hs' = [hs EXCEPT ![h] = s]
    BY <1>1, <1>6, <2>1
  <2> QED
    BY <1>1, <1>2, <1>3, <2>2, <2>3, <2>4, <2>5, SoleGoesOn
<1> QED
  BY <1>4, <1>5, <1>6 DEF Find, Become

\* The row that was read again has the hash of the row.
LEMMA SoleHolding ==
    ASSUME ChatInv, NEW h \in Handlers, SoleOK(hs[h]), At(h, "get"), NEW st \in Statuses \ {"hash_mismatch"},
           NEW label \in {"shut", "compare", "store"}, Holding(h, st, label),
           label = "store" <=> hs[h].kind = "close",
           UNCHANGED <<rows, notes, questions, slipped, torn, said>>
    PROVE  SoleOK(hs[h])'
<1>1. PICK r \in HandlerRecords : r = hs[h] /\ HandlerOK(r) /\ r.pc = "get" /\ SoleOK(r)
  BY DEF ChatInv, TablesOK, At
<1>2. ~Appending(r) /\ ~Written(r) /\ ~Quiet(r)
  BY <1>1 DEF Appending, Written, Ingested, Quiet, HandlerOK, KindFits
<1>3. PICK row \in Rows : row = rows[r.bucket]
  BY <1>1, RowOfHandler DEF AtBucket
<1>4. PICK new : new = [row EXCEPT !.status = st]
  OBVIOUS
<1>5. new.hash = row.hash /\ new.status = st
  BY <1>3, <1>4 DEF Rows
<1>6. PICK s : s = [r EXCEPT !.row = new, !.pc = label]
  OBVIOUS
<1>7. /\ s.pc = label /\ s.kind = r.kind /\ s.bucket = r.bucket /\ s.row = new
      /\ s.msg = r.msg /\ s.text = r.text /\ s.question = r.question
  BY <1>1, <1>6 DEF HandlerRecords
<1>8. RowInHand(s)'
  <2>1. s.row.status # "hash_mismatch" /\ s.pc # "finish"
    BY <1>5, <1>7
  <2>2. s.row.hash = rows'[s.bucket].hash
    BY <1>3, <1>5, <1>7
  <2>3. s.pc = "store" => s.kind = "close"
    BY <1>1, <1>7
  <2> QED
    BY <2>1, <2>2, <2>3 DEF RowInHand, Written, Ingested
<1>9. s.question # 0 /\ s.question \notin slipped /\ s.kind = "append" => s.bucket = questions[s.question].asked
  BY <1>1, <1>7 DEF AnswerInHand, SoleOK
<1>10. AnswerInHand(s)'
  BY <1>1, <1>7, <1>9, AnswerStays DEF SoleOK
<1>11. hs' = [hs EXCEPT ![h] = s]
  BY <1>1, <1>3, <1>4, <1>6 DEF Holding, Become
<1> QED
  BY <1>1, <1>2, <1>7, <1>8, <1>10, <1>11, SoleGoesOn

LEMMA SoleGet ==
    ASSUME ChatInv, NEW h \in Handlers, SoleOK(hs[h]), Get(h) \/ GetToClose(h) PROVE SoleOK(hs[h])'
<1>1. At(h, "get") /\ UNCHANGED <<rows, notes, questions, slipped, torn, said>>
  BY DEF Get, GetToClose, static
<1>2. CASE Become(h, Idle)
  <2>1. ~Appending(hs[h])
    BY <1>1 DEF At, Appending
  <2> QED
    BY <1>1, <1>2, <2>1, SoleReturns DEF Become
<1>3. CASE hs[h].kind # "close" /\ (Holding(h, "expired", "shut") \/ Holding(h, "active", "compare"))
  BY <1>1, <1>3, SoleHolding DEF Statuses
<1>4. CASE hs[h].kind = "close" /\ Holding(h, "closed", "store")
  BY <1>1, <1>4, SoleHolding DEF Statuses
<1> QED
  BY <1>2, <1>3, <1>4 DEF Get, GetToClose

\* The guard: with a clean note the hash in hand is the note's.
LEMMA SoleCompare ==
    ASSUME ChatInv, NEW h \in Handlers, SoleOK(hs[h]), Compare(h) PROVE SoleOK(hs[h])'
<1>1. PICK r \in HandlerRecords : r = hs[h] /\ HandlerOK(r) /\ r.pc = "compare" /\ SoleOK(r)
  BY DEF ChatInv, TablesOK, Compare, At
<1>2. UNCHANGED <<rows, notes, questions, slipped, torn, said>>
  BY DEF Compare, static
<1>3. ~Appending(r) /\ ~Written(r) /\ ~Quiet(r) /\ HasRow(r) /\ r.kind \in {"append", "organize"}
  BY <1>1 DEF Appending, Written, Ingested, Quiet, HandlerOK, KindFits, HasRow
<1>4. /\ r.bucket \in Buckets
      /\ Clean(r.bucket) => r.row.hash = rows[r.bucket].hash
      /\ r.row.status # "hash_mismatch"
  BY <1>1, <1>3, RowOfHandler DEF SoleOK, RowInHand, AtBucket
<1>5. CASE notes[r.bucket] # r.row.hash /\
           hs' = [hs EXCEPT ![h] = [hs[h] EXCEPT !.row.status = "hash_mismatch", !.pc = "shut"]]
  <2>1. PICK row \in Rows : row = r.row
    BY <1>1 DEF HandlerRecords
  <2>2. PICK new : new = [row EXCEPT !.status = "hash_mismatch"]
    OBVIOUS
  <2>3. new.hash = row.hash
    BY <2>1, <2>2 DEF Rows
  <2>4. PICK s : s = [r EXCEPT !.row = new, !.pc = "shut"]
    OBVIOUS
  <2>5. /\ s.pc = "shut" /\ s.kind = r.kind /\ s.bucket = r.bucket /\ s.row = new
        /\ s.msg = r.msg /\ s.text = r.text /\ s.question = r.question
    BY <1>1, <2>4 DEF HandlerRecords
  <2>6. hs' = [hs EXCEPT ![h] = s]
    BY <1>1, <1>5, <2>1, <2>2, <2>4 DEF HandlerRecords
  <2>7. ~Clean(r.bucket)
    <3>1. rows[r.bucket].status # "none"
      BY <1>1, <1>3 DEF HandlerOK
    <3>2. Clean(r.bucket) => rows[r.bucket].hash = notes[r.bucket]
      BY <1>1, <1>3, <1>4, <3>1 DEF SoleOK, RowsMatch
    <3> QED
      BY <1>4, <1>5, <3>2
  <2>8. RowInHand(s)'
    <3>1. ~Clean(s.bucket)'
      BY <1>2, <2>5, <2>7 DEF Clean, Holds
    <3> QED
      BY <2>5, <3>1 DEF RowInHand, Written, Ingested
  <2>9. AnswerInHand(s)'
    BY <1>1, <1>2, <2>5, AnswerStays DEF SoleOK
  <2> QED
    BY <1>1, <1>2, <1>3, <2>5, <2>6, <2>8, <2>9, SoleGoesOn
<1>6. CASE hs' = [hs EXCEPT ![h] = [hs[h] EXCEPT !.pc = IF hs[h].kind = "append" THEN "apply" ELSE "context"]]
  <2>1. PICK s : s = [r EXCEPT !.pc = IF r.kind = "append" THEN "apply" ELSE "context"]
    OBVIOUS
  <2>2. /\ s.pc = IF r.kind = "append" THEN "apply" ELSE "context"
        /\ s.kind = r.kind /\ s.bucket = r.bucket /\ s.row = r.row
        /\ s.msg = r.msg /\ s.text = r.text /\ s.question = r.question
    BY <1>1, <2>1 DEF HandlerRecords
  <2>3. RowInHand(s)'
    <3>1. Clean(s.bucket)' => Clean(r.bucket)
      BY <1>2, <2>2 DEF Clean, Holds
    <3> QED
      BY <1>2, <1>4, <2>2, <3>1 DEF RowInHand, Written, Ingested
  <2>4. s.question # 0 /\ s.question \notin slipped /\ s.kind = "append" => s.bucket = questions[s.question].asked
    BY <1>1, <2>2 DEF AnswerInHand, SoleOK
  <2>5. AnswerInHand(s)'
    BY <1>1, <1>2, <2>2, <2>4, AnswerStays DEF SoleOK
  <2>6. hs' = [hs EXCEPT ![h] = s]
    BY <1>1, <1>6, <2>1
  <2> QED
    BY <1>1, <1>2, <1>3, <2>2, <2>3, <2>5, <2>6, SoleGoesOn
<1>7. CASE hs' = [hs EXCEPT ![h] = Idle]
  BY <1>1, <1>2, <1>3, <1>7, SoleReturns
<1> QED
  BY <1>1, <1>5, <1>6, <1>7 DEF Compare, Become


\* A statement fails, the process dies, or a plan is decided.
LEMMA SoleTrouble ==
    ASSUME ChatInv, NEW h \in Handlers, SoleOK(hs[h]), Crash(h) \/ Fails(h) PROVE SoleOK(hs[h])'
<1>1. hs' = [hs EXCEPT ![h] = Idle] /\ UNCHANGED <<rows, notes, questions, slipped>>
  BY DEF Crash, Fails, Refuse, Reply, Become
<1>2. torn \subseteq torn' /\ (Appending(hs[h]) => hs[h].bucket \in torn')
  BY DEF Crash, Fails, Appending
<1> QED
  BY <1>1, <1>2, SoleReturns

LEMMA SoleDecide ==
    ASSUME ChatInv, NEW h \in Handlers, SoleOK(hs[h]), DecideNamed(h) \/ \E op \in {"approve", "reject"} : Decide(h, op)
    PROVE  SoleOK(hs[h])'
<1>1. hs' = [hs EXCEPT ![h] = Idle] /\ UNCHANGED <<rows, notes, questions, slipped, torn>>
  BY DEF DecideNamed, Decide, Become, static
<1>2. ~Appending(hs[h])
  BY DEF DecideNamed, Decide, At, Appending
<1> QED
  BY <1>1, <1>2, SoleReturns

LEMMA SoleReadContext ==
    ASSUME ChatInv, NEW h \in Handlers, SoleOK(hs[h]), ReadContext(h) PROVE SoleOK(hs[h])'
<1>1. PICK r \in HandlerRecords : r = hs[h] /\ HandlerOK(r) /\ r.pc = "context" /\ SoleOK(r)
  BY DEF ChatInv, TablesOK, ReadContext, At
<1>2. UNCHANGED <<rows, notes, questions, slipped, torn, said>>
  BY DEF ReadContext, static
<1>3. CASE hs' = [hs EXCEPT ![h] = Idle]
  <2>1. ~Appending(r)
    BY <1>1 DEF Appending
  <2> QED
    BY <1>1, <1>2, <1>3, <2>1, SoleReturns
<1>4. PICK s : s = [r EXCEPT !.pc = "plan"]
  OBVIOUS
<1>5. /\ s.pc = "plan" /\ s.kind = r.kind /\ s.bucket = r.bucket /\ s.row = r.row
      /\ s.msg = r.msg /\ s.text = r.text /\ s.question = r.question
  BY <1>1, <1>4 DEF HandlerRecords
<1>6. r.kind \in {"organize", "last", "organize_last"}
  BY <1>1 DEF HandlerOK, KindFits
<1>7. ~Appending(r) /\ ~Written(r) /\ (Quiet(r) => Quiet(s)) /\ s.pc # "settle"
  BY <1>1, <1>5 DEF Appending, Written, Ingested, Quiet
<1>8. RowInHand(s)'
  <2>1. Clean(s.bucket)' => Clean(r.bucket)
    BY <1>2, <1>5 DEF Clean, Holds
  <2>2. HasRow(s) => HasRow(r)
    BY <1>1, <1>5 DEF HasRow
  <2>3. ~Written(s)
    BY <1>5 DEF Written, Ingested
  <2>4. r.row.status # "hash_mismatch"
    BY <1>1 DEF SoleOK, RowInHand
  <2>5. HasRow(r) /\ Clean(r.bucket) => r.row.hash = rows[r.bucket].hash
    BY <1>1, <1>7 DEF SoleOK, RowInHand
  <2> QED
    BY <1>2, <1>5, <2>1, <2>2, <2>3, <2>4, <2>5 DEF RowInHand
<1>9. AnswerInHand(s)'
  BY <1>1, <1>2, <1>5, AnswerStays DEF SoleOK
<1>10. CASE hs' = [hs EXCEPT ![h] = s]
  BY <1>1, <1>2, <1>5, <1>7, <1>8, <1>9, <1>10, SoleGoesOn
<1> QED
  BY <1>1, <1>3, <1>4, <1>10 DEF ReadContext, Become

\* The row to write is the one in hand, organized.
LEMMA SoleSavePlan ==
    ASSUME ChatInv, NEW h \in Handlers, SoleOK(hs[h]), SavePlan(h) PROVE SoleOK(hs[h])'
<1>1. PICK r \in HandlerRecords : r = hs[h] /\ HandlerOK(r) /\ r.pc = "plan" /\ SoleOK(r)
  BY DEF ChatInv, TablesOK, SavePlan, At
<1>2. UNCHANGED <<rows, notes, questions, slipped, torn, said>>
  BY DEF SavePlan, static
<1>3. r.kind \in {"organize", "last", "organize_last"} /\ ~Appending(r) /\ ~Written(r)
  BY <1>1 DEF HandlerOK, KindFits, Appending, Written, Ingested
<1>4. CASE hs' = [hs EXCEPT ![h] = Idle]
  BY <1>1, <1>2, <1>3, <1>4, SoleReturns
<1>5. CASE /\ r.kind = "organize"
           /\ hs' = [hs EXCEPT ![h] = [hs[h] EXCEPT !.row.status = "organized", !.pc = "store"]]
  <2>1. PICK row \in Rows : row = r.row
    BY <1>1 DEF HandlerRecords
  <2>2. PICK new : new = [row EXCEPT !.status = "organized"]
    OBVIOUS
  <2>3. new.hash = row.hash /\ new.status = "organized"
    BY <2>1, <2>2 DEF Rows
  <2>4. PICK s : s = [r EXCEPT !.row = new, !.pc = "store"]
    OBVIOUS
  <2>5. /\ s.pc = "store" /\ s.kind = r.kind /\ s.bucket = r.bucket /\ s.row = new
        /\ s.msg = r.msg /\ s.text = r.text /\ s.question = r.question
    BY <1>1, <2>4 DEF HandlerRecords
  <2>6. hs' = [hs EXCEPT ![h] = s]
    BY <1>1, <1>5, <2>1, <2>2, <2>4 DEF HandlerRecords
  <2>7. ~Written(s) /\ ~Quiet(r) /\ HasRow(r)
    BY <1>1, <1>5, <2>5 DEF Written, Ingested, Quiet, HasRow
  <2>8. RowInHand(s)'
    <3>1. Clean(s.bucket)' => Clean(r.bucket)
      BY <1>2, <2>5 DEF Clean, Holds
    <3>2. Clean(r.bucket) => r.row.hash = rows[r.bucket].hash
      BY <1>1, <1>3, <2>7 DEF SoleOK, RowInHand
    <3> QED
      BY <1>2, <2>1, <2>3, <2>5, <2>7, <3>1, <3>2 DEF RowInHand
  <2>9. AnswerInHand(s)'
    BY <1>1, <1>2, <2>5, AnswerStays DEF SoleOK
  <2> QED
    BY <1>1, <1>2, <1>3, <2>5, <2>6, <2>7, <2>8, <2>9, SoleGoesOn
<1> QED
  BY <1>1, <1>3, <1>4, <1>5 DEF SavePlan, Become

LEMMA SoleLast ==
    ASSUME ChatInv, NEW h \in Handlers, SoleOK(hs[h]), Last(h) PROVE SoleOK(hs[h])'
<1>1. PICK r \in HandlerRecords : r = hs[h] /\ HandlerOK(r) /\ r.pc = "last" /\ SoleOK(r)
  BY DEF ChatInv, TablesOK, Last, At
<1>2. UNCHANGED <<rows, notes, questions, slipped, torn, said>>
  BY DEF Last, static
<1>3. r.kind \in {"last", "organize_last"} /\ ~Appending(r) /\ ~Written(r)
  BY <1>1 DEF HandlerOK, KindFits, Appending, Written, Ingested
<1>4. CASE hs' = [hs EXCEPT ![h] = Idle]
  BY <1>1, <1>2, <1>3, <1>4, SoleReturns
<1>5. ASSUME NEW b, hs' = [hs EXCEPT ![h] = [hs[h] EXCEPT !.bucket = b, !.pc = "context"]]
      PROVE  SoleOK(hs[h])'
  <2>1. PICK s : s = [r EXCEPT !.bucket = b, !.pc = "context"]
    OBVIOUS
  <2>2. /\ s.pc = "context" /\ s.kind = r.kind /\ s.row = r.row
        /\ s.msg = r.msg /\ s.text = r.text /\ s.question = r.question
    BY <1>1, <2>1 DEF HandlerRecords
  <2>3. ~Written(s) /\ ~HasRow(s) /\ (Quiet(r) => Quiet(s))
    BY <1>1, <1>3, <2>2 DEF Written, Ingested, HasRow, Quiet
  <2>4. RowInHand(s)'
    <3>1. r.row.status # "hash_mismatch"
      BY <1>1 DEF SoleOK, RowInHand
    <3> QED
      BY <2>2, <2>3, <3>1 DEF RowInHand
  <2>5. AnswerInHand(s)'
    BY <1>1, <1>2, <2>2, AnswerStays DEF SoleOK
  <2>6. hs' = [hs EXCEPT ![h] = s]
    BY <1>1, <1>5, <2>1
  <2> QED
    BY <1>1, <1>2, <1>3, <2>2, <2>3, <2>4, <2>5, <2>6, SoleGoesOn
<1> QED
  BY <1>4, <1>5 DEF Last, Become

\* Past settling, no question is open: a rule or the model may go on.
LEMMA SoleClassify ==
    ASSUME ChatInv, NEW h \in Handlers, SoleOK(hs[h]), Classify(h) PROVE SoleOK(hs[h])'
<1>1. PICK r \in HandlerRecords : r = hs[h] /\ HandlerOK(r) /\ r.pc = "classify" /\ SoleOK(r)
  BY DEF ChatInv, TablesOK, Classify, At
<1>2. UNCHANGED <<rows, notes, questions, slipped, torn, said>>
  BY DEF Classify, static
<1>3. ~Appending(r) /\ ~Written(r) /\ ~Quiet(r) /\ r.question = 0 /\ r.text = r.msg /\ r.row.status # "hash_mismatch"
  BY <1>1 DEF HandlerOK, KindFits, Appending, Written, Ingested, Quiet, SoleOK, AnswerInHand, RowInHand
<1>4. PICK i \in Intents(r.kind) :
         hs' = [hs EXCEPT ![h] = CASE i = "unclear" -> Idle
                      [] i = "create" -> [r EXCEPT !.pc = "ingest", !.kind = i]
                      [] i = "ask" -> [r EXCEPT !.pc = i, !.bucket = Active]
                      [] OTHER -> [r EXCEPT !.pc = i]]
  BY <1>1 DEF Classify, Become
<1>5. CASE i = "unclear"
  BY <1>1, <1>2, <1>3, <1>4, <1>5, SoleReturns
<1>6. CASE i = "create"
  <2>1. PICK s : s = [r EXCEPT !.pc = "ingest", !.kind = "create"]
    OBVIOUS
  <2>2. s.pc = "ingest" /\ s.row = r.row /\ s.msg = r.msg /\ s.text = r.text /\ s.question = r.question
    BY <1>1, <2>1 DEF HandlerRecords
  <2>3. RowInHand(s)'
    BY <1>3, <2>2 DEF RowInHand, HasRow, Written, Ingested
  <2>4. AnswerInHand(s)'
    BY <1>1, <1>2, <2>2, AnswerStays DEF SoleOK
  <2>5. hs' = [hs EXCEPT ![h] = s]
    BY <1>4, <1>6, <2>1
  <2> QED
    BY <1>1, <1>2, <1>3, <2>2, <2>3, <2>4, <2>5, SoleGoesOn
<1>7. CASE i = "ask"
  <2>1. PICK b : b = Active
    OBVIOUS
  <2>2. PICK s : s = [r EXCEPT !.pc = "ask", !.bucket = b]
    OBVIOUS
  <2>3. s.pc = "ask" /\ s.bucket = b /\ s.row = r.row /\ s.msg = r.msg /\ s.text = r.text /\ s.question = r.question
    BY <1>1, <2>2 DEF HandlerRecords
  <2>4. RowInHand(s)'
    BY <1>3, <2>3 DEF RowInHand, HasRow, Written, Ingested
  <2>5. Active' = b
    BY <1>2, <2>1, ActiveKept
  <2>6. AnswerInHand(s)'
    BY <1>1, <1>2, <1>3, <2>3, <2>5 DEF SoleOK, AnswerInHand, Open
  <2>7. hs' = [hs EXCEPT ![h] = s]
    BY <1>4, <1>7, <2>1, <2>2
  <2> QED
    BY <1>1, <1>2, <1>3, <2>3, <2>4, <2>6, <2>7, SoleGoesOn
<1>8. CASE i \in RuleKinds \ {"create"}
  <2>1. PICK s : s = [r EXCEPT !.pc = i]
    OBVIOUS
  <2>2. s.pc = i /\ s.row = r.row /\ s.msg = r.msg /\ s.text = r.text /\ s.question = r.question
    BY <1>1, <2>1 DEF HandlerRecords
  <2>3. i \in {"append", "close", "organize", "approve", "reject"}
    BY <1>8 DEF RuleKinds
  <2>4. RowInHand(s)'
    BY <1>3, <2>2, <2>3 DEF RowInHand, HasRow, Written, Ingested
  <2>5. AnswerInHand(s)'
    BY <1>1, <1>2, <1>3, <2>2, <2>3 DEF SoleOK, AnswerInHand, Open
  <2>6. hs' = [hs EXCEPT ![h] = s]
    BY <1>4, <2>1, <2>3
  <2> QED
    BY <1>1, <1>2, <1>3, <2>2, <2>3, <2>4, <2>5, <2>6, SoleGoesOn
<1> QED
  BY <1>5, <1>6, <1>7, <1>8, IntentsAre

\* A group's first row has the hash of its note.
LEMMA SoleFinish ==
    ASSUME ChatInv, NEW h \in Handlers, SoleOK(hs[h]), FinishIngest(h) PROVE SoleOK(hs[h])'
<1>1. PICK r \in HandlerRecords : r = hs[h] /\ HandlerOK(r) /\ r.pc = "finish" /\ SoleOK(r)
  BY DEF ChatInv, TablesOK, FinishIngest, At
<1>2. UNCHANGED <<rows, notes, questions, slipped, torn, said>>
  BY DEF FinishIngest, static
<1>3. r.kind \in {"raw", "create"} /\ ~Appending(r) /\ Written(r)
  BY <1>1 DEF HandlerOK, KindFits, Appending, Written, Ingested
<1>4. CASE r.kind = "raw"
  <2>1. hs' = [hs EXCEPT ![h] = Idle]
    BY <1>1, <1>4 DEF FinishIngest, Reply, Become
  <2> QED
    BY <1>1, <1>2, <1>3, <2>1, SoleReturns
<1>5. CASE r.kind = "create"
  <2>1. PICK row : row = [status |-> "active", count |-> 1, hash |-> <<r.text>>, late |-> FALSE, updated |-> 0]
    OBVIOUS
  <2>2. PICK s : s = [r EXCEPT !.pc = "store", !.row = row]
    OBVIOUS
  <2>3. /\ s.pc = "store" /\ s.row = row /\ s.kind = r.kind /\ s.bucket = r.bucket
        /\ s.msg = r.msg /\ s.text = r.text /\ s.question = r.question
        /\ row.hash = <<r.text>> /\ row.status = "active"
    BY <1>1, <2>1, <2>2 DEF HandlerRecords
  <2>4. hs' = [hs EXCEPT ![h] = s]
    BY <1>1, <1>5, <2>1, <2>2 DEF FinishIngest, FirstRow, Become
  <2>5. RowInHand(s)'
    <3>1. Clean(s.bucket)' => Clean(r.bucket)
      BY <1>2, <2>3 DEF Clean, Holds
    <3>2. Clean(r.bucket) => notes[r.bucket] = <<r.text>>
      BY <1>1 DEF SoleOK, RowInHand
    <3>3. Written(s)
      BY <1>5, <2>3 DEF Written, Ingested
    <3> QED
      BY <1>2, <2>3, <3>1, <3>2, <3>3 DEF RowInHand
  <2>6. AnswerInHand(s)'
    BY <1>1, <1>2, <2>3, AnswerStays DEF SoleOK
  <2>7. Written(s) /\ ~Quiet(r)
    BY <1>1, <1>5, <2>3 DEF Written, Ingested, Quiet
  <2> QED
    BY <1>1, <1>2, <1>3, <2>3, <2>4, <2>5, <2>6, <2>7, SoleGoesOn
<1> QED
  BY <1>3, <1>4, <1>5

\* The router's statements about questions: the notes and the rows stay.
LEMMA SoleRouter ==
    ASSUME ChatInv, NEW h \in Handlers, SoleOK(hs[h]), NEW s, hs' = [hs EXCEPT ![h] = s],
           UNCHANGED <<rows, notes, torn>>, slipped \subseteq slipped', ~Appending(hs[h]),
           \A t \in Messages : t \notin slipped' /\ (Open(t)' \/ Waits(s, t)) =>
              Open(t) \/ Waits(hs[h], t) \/ \A b \in Buckets : ~Holds(b, t),
           RowInHand(s)', QuestionsOK(s)', AnswerInHand(s)'
    PROVE  SoleOK(hs[h])'
<1>1. PICK r : r = hs[h]
  OBVIOUS
<1>2. SoleOK(r)
  BY <1>1
<1>3. hs'[h] = s
  BY DEF ChatInv, TablesOK
<1>4. RowsMatch(s)'
  BY <1>1, <1>2, RowsMatchStays DEF SoleOK
<1>5. UNCHANGED notes
  OBVIOUS
<1>6. \A t \in Messages : t \notin slipped' /\ (Open(t)' \/ Waits(s, t)) =>
         Open(t) \/ Waits(r, t) \/ \A b \in Buckets : ~Holds(b, t)
  BY <1>1
<1>7. CopiesOK(s)'
  <2>1. CopiesOK(r)
    BY <1>2 DEF SoleOK
  <2> QED
    BY <1>5, <1>6, <2>1, CopiesStay
<1>8. SoleOK(s)'
  BY <1>4, <1>7 DEF SoleOK
<1> QED
  BY <1>3, <1>8, InHand

\* A new message has no copy and no question.
LEMMA SoleReceive ==
    ASSUME ChatInv, NEW h \in Handlers, SoleOK(hs[h]), NEW k \in Kinds, Receive(h, k) PROVE SoleOK(hs[h])'
<1> USE ConversationBoundsAssumption
<1>1. PICK r \in HandlerRecords : r = hs[h] /\ r.pc = "idle" /\ SoleOK(r)
  BY DEF ChatInv, TablesOK, Receive, At
<1>2. said \in 0..MaxMessages /\ said < MaxMessages /\ said' = said + 1 /\ UNCHANGED <<rows, notes, questions, slipped, torn>>
  BY DEF ChatInv, TablesOK, Receive
<1>3. PICK pc \in {"last", "decide", "ingest", "question"}, kind \in Kinds \cup {"none"} :
         /\ hs' = [hs EXCEPT ![h] = Fresh(pc, kind)]
         /\ pc = "last" => kind = "organize_last"
         /\ pc = "ingest" => kind = "raw"
  BY ReceivedIs
<1>4. PICK s : s = Fresh(pc, kind)
  OBVIOUS
<1>5. /\ s.pc = pc /\ s.msg = said + 1 /\ s.text = said + 1 /\ s.kind = kind /\ s.question = 0
      /\ s.row.status = "none"
  BY <1>4 DEF Fresh, NoRow
<1>6. RowInHand(s)'
  BY <1>5 DEF RowInHand, HasRow, Written, Ingested
<1>7. Quiet(s) /\ s.pc # "settle"
  BY <1>3, <1>5 DEF Quiet
<1>8. QuestionsOK(s)'
  BY <1>1, <1>2, <1>7, ActiveKept, QuestionsStay DEF SoleOK
<1>9. said + 1 \in Messages /\ questions[said + 1].status = "none" /\ \A b \in Buckets : ~Holds(b, said + 1)
  <2>1. said + 1 \in Messages /\ ~(said + 1 <= said)
    BY <1>2 DEF Messages
  <2>2. \A q \in Messages : questions[q].status # "none" => q <= said
    BY DEF ChatInv, NotesOK
  <2>3. \A b \in Buckets : \A i \in DOMAIN notes[b] : notes[b][i] <= said
    BY DEF ChatInv, NotesOK
  <2> QED
    BY <2>1, <2>2, <2>3 DEF Holds
<1>10. AnswerInHand(s)'
  BY <1>2, <1>3, <1>5, <1>9 DEF AnswerInHand, Open
<1>11. \A t \in Messages : t \notin slipped' /\ (Open(t)' \/ Waits(s, t)) =>
          Open(t) \/ Waits(hs[h], t) \/ \A b \in Buckets : ~Holds(b, t)
  BY <1>2, <1>5, <1>9 DEF Open, Waits
<1>12. ~Appending(hs[h]) /\ hs' = [hs EXCEPT ![h] = s]
  BY <1>1, <1>3, <1>4 DEF Appending
<1> QED
  BY <1>2, <1>6, <1>8, <1>10, <1>11, <1>12, SoleRouter

\* The questions that are still open were so, and are not late.
LEMMA ExpiredKeepsOpen ==
    ASSUME questions \in [Messages -> Questions], questions' = Expired, NEW q \in Messages
    PROVE  /\ questions'[q].asked = questions[q].asked
           /\ questions[q].status = "none" => questions'[q].status = "none"
           /\ questions'[q].status = "pending" <=> questions[q].status = "pending" /\ ~questions[q].late
<1>1. PICK old \in Questions : old = questions[q]
  OBVIOUS
<1>2. questions'[q] = IF old.status = "pending" /\ old.late THEN [old EXCEPT !.status = "expired"] ELSE old
  BY <1>1 DEF Expired
<1> QED
  BY <1>1, <1>2 DEF Questions

\* The query finds the question that is open, if one is.
LEMMA OpenIsFound ==
    ASSUME ChatInv, NEW r, QuestionsOK(r), questions' = Expired, slipped \subseteq slipped', UNCHANGED rows,
           NEW q \in Messages, Open(q)'
    PROVE  /\ Open(q) /\ PendingQuestion = q /\ Active' = questions'[q].asked
           /\ \A p \in Messages : questions'[p].status = "pending" => p <= q
<1>1. questions \in [Messages -> Questions]
  BY DEF ChatInv, TablesOK
<1>2. Open(q) /\ questions[q].status = "pending" /\ ~questions[q].late
  BY <1>1, ExpiredKeepsOpen DEF Open
<1>3. \A p \in Messages : questions[p].status = "pending" => p <= q
  BY <1>2 DEF QuestionsOK
<1>4. PendingQuestion = q
  BY <1>1, <1>2, <1>3, PendingIsLast
<1>5. Active' = questions'[q].asked
  BY <1>1, <1>2, ActiveKept, ExpiredKeepsOpen DEF QuestionsOK
<1>6. \A p \in Messages : questions'[p].status = "pending" => p <= q
  BY <1>1, <1>3, ExpiredKeepsOpen
<1> QED
  BY <1>2, <1>4, <1>5, <1>6

LEMMA SoleReadQuestion ==
    ASSUME ChatInv, NEW h \in Handlers, SoleOK(hs[h]), ReadQuestion(h) \/ ReadQuestionFails(h)
    PROVE  SoleOK(hs[h])'
<1> USE ConversationBoundsAssumption
<1>1. PICK r \in HandlerRecords : r = hs[h] /\ HandlerOK(r) /\ r.pc = "question" /\ SoleOK(r)
  BY DEF ChatInv, TablesOK, ReadQuestion, ReadQuestionFails, At
<1>2. UNCHANGED <<rows, notes, torn, said>> /\ questions' = Expired /\ slipped \subseteq slipped'
  BY DEF ReadQuestion, ReadQuestionFails, static
<1>3. questions \in [Messages -> Questions]
  BY DEF ChatInv, TablesOK
<1>4. PICK q \in Messages \cup {0} : q = PendingQuestion /\ (q # 0 => questions[q].status = "pending" /\ ~questions[q].late)
  BY <1>3, PendingIsPending
<1>5. /\ r.text = r.msg /\ r.msg = said /\ r.question = 0 /\ r.msg \in Messages /\ questions[r.msg].status = "none"
      /\ r.row.status # "hash_mismatch" /\ ~Appending(r) /\ ~Written(r)
  <2>1. r.msg \in 1..said /\ said \in 0..MaxMessages
    BY <1>1 DEF HandlerOK, ChatInv, TablesOK
  <2>2. r.msg \in Messages
    BY <2>1 DEF Messages
  <2> QED
    BY <1>1, <2>2 DEF SoleOK, AnswerInHand, RowInHand, Appending, Written, Ingested
<1>6. PICK s : /\ hs' = [hs EXCEPT ![h] = s]
               /\ s.row = r.row /\ s.msg = r.msg /\ s.text = r.text /\ s.kind = r.kind
               /\ \/ s.pc = "settle" /\ s.question = q /\ q # 0
                  \/ s.pc = "classify" /\ s.question = 0 /\ (q = 0 \/ q \in slipped')
  <2>1. CASE ReadQuestion(h)
    <3>1. PICK s : s = [r EXCEPT !.question = q, !.pc = IF q = 0 THEN "classify" ELSE "settle"]
      OBVIOUS
    <3>2. /\ s.row = r.row /\ s.msg = r.msg /\ s.text = r.text /\ s.kind = r.kind
          /\ s.question = q /\ s.pc = IF q = 0 THEN "classify" ELSE "settle"
      BY <1>1, <3>1 DEF HandlerRecords
    <3>3. hs' = [hs EXCEPT ![h] = s]
      BY <1>1, <1>4, <2>1, <3>1 DEF ReadQuestion, Become
    <3> QED
      BY <3>2, <3>3
  <2>2. CASE ReadQuestionFails(h)
    <3>1. PICK s : s = [r EXCEPT !.pc = "classify"]
      OBVIOUS
    <3>2. /\ s.row = r.row /\ s.msg = r.msg /\ s.text = r.text /\ s.kind = r.kind
          /\ s.question = 0 /\ s.pc = "classify"
      BY <1>1, <1>5, <3>1 DEF HandlerRecords
    <3>3. hs' = [hs EXCEPT ![h] = s] /\ (q = 0 \/ q \in slipped')
      BY <1>1, <1>4, <2>2, <3>1 DEF ReadQuestionFails, Goto, Become
    <3> QED
      BY <3>2, <3>3
  <2> QED
    BY <2>1, <2>2
<1>7. RowInHand(s)'
  BY <1>5, <1>6 DEF RowInHand, HasRow, Written, Ingested
<1>8. QuestionsOK(s)'
  <2> SUFFICES ASSUME NEW p \in Messages, Open(p)'
               PROVE  /\ Active' = questions'[p].asked
                      /\ \A o \in Messages : questions'[o].status = "pending" => o <= p
                      /\ Quiet(s) /\ (s.pc = "settle" => s.question = p)
    BY DEF QuestionsOK, Open
  <2>1. QuestionsOK(r)
    BY <1>1 DEF SoleOK
  <2>2. /\ PendingQuestion = p /\ Active' = questions'[p].asked
        /\ \A o \in Messages : questions'[o].status = "pending" => o <= p
    BY <1>2, <2>1, OpenIsFound
  <2>3. q = p /\ p # 0 /\ p \notin slipped'
    BY <1>4, <2>2 DEF Messages, Open
  <2>4. s.pc = "settle" /\ s.question = p
    BY <1>6, <2>3
  <2> QED
    BY <2>2, <2>4 DEF Quiet
<1>9. AnswerInHand(s)'
  <2>1. questions'[r.msg].status = "none"
    BY <1>2, <1>3, <1>5, ExpiredKeepsOpen
  <2>2. s.pc = "settle" => questions'[s.question].status = "pending"
    BY <1>2, <1>3, <1>4, <1>6, ExpiredKeepsOpen
  <2> QED
    BY <1>2, <1>5, <1>6, <2>1, <2>2 DEF AnswerInHand, Open
<1>10. \A t \in Messages : t \notin slipped' /\ (Open(t)' \/ Waits(s, t)) => Open(t) \/ Waits(r, t)
  <2>1. \A t \in Messages : Open(t)' => Open(t)
    BY <1>2, <1>3, ExpiredKeepsOpen DEF Open
  <2>2. \A t \in Messages : Waits(s, t) => Waits(r, t)
    BY <1>1, <1>5, <1>6 DEF Waits
  <2> QED
    BY <2>1, <2>2
<1> QED
  BY <1>1, <1>2, <1>5, <1>6, <1>7, <1>8, <1>9, <1>10, SoleRouter

\* What the handler goes on with, once its question is marked or failed to be.
LEMMA SettledIs ==
    ASSUME NEW h, NEW r \in HandlerRecords, r = hs[h], AfterSettling(h)
    PROVE  \E s : /\ hs' = [hs EXCEPT ![h] = s]
                  /\ \/ s = Idle
                     \/ /\ s.row = r.row /\ s.msg = r.msg
                        /\ \/ s.pc = "append" /\ s.text = r.question /\ s.question = r.question
                           \/ s.pc = "ingest" /\ s.text = r.question
                           \/ s.pc = "classify" /\ s.text = r.text /\ s.question = 0
<1>1. CASE r.kind = "pick_append"
  <2>1. PICK s : s = [r EXCEPT !.pc = "append", !.text = r.question]
    OBVIOUS
  <2>2. hs' = [hs EXCEPT ![h] = s]
    BY <1>1, <2>1 DEF AfterSettling, Become
  <2>3. s.row = r.row /\ s.msg = r.msg /\ s.pc = "append" /\ s.text = r.question /\ s.question = r.question
    BY <2>1 DEF HandlerRecords
  <2> QED
    BY <2>2, <2>3
<1>2. CASE r.kind = "pick_create"
  <2>1. PICK s : s = [r EXCEPT !.pc = "ingest", !.text = r.question, !.kind = "create"]
    OBVIOUS
  <2>2. hs' = [hs EXCEPT ![h] = s]
    BY <1>2, <2>1 DEF AfterSettling, Become
  <2>3. s.row = r.row /\ s.msg = r.msg /\ s.pc = "ingest" /\ s.text = r.question
    BY <2>1 DEF HandlerRecords
  <2> QED
    BY <2>2, <2>3
<1>3. CASE r.kind = "cancel"
  <2>1. PICK s : s = Idle
    OBVIOUS
  <2>2. hs' = [hs EXCEPT ![h] = s]
    BY <1>3, <2>1 DEF AfterSettling, Become
  <2> QED
    BY <2>1, <2>2
<1>4. CASE r.kind \notin {"pick_append", "pick_create", "cancel"}
  <2>1. PICK s : s = [r EXCEPT !.pc = "classify", !.question = 0]
    OBVIOUS
  <2>2. hs' = [hs EXCEPT ![h] = s]
    BY <1>4, <2>1 DEF AfterSettling, Become
  <2>3. s.row = r.row /\ s.msg = r.msg /\ s.pc = "classify" /\ s.text = r.text /\ s.question = 0
    BY <2>1 DEF HandlerRecords
  <2> QED
    BY <2>2, <2>3
<1> QED
  BY <1>1, <1>2, <1>3, <1>4

\* The question is answered, superseded or a slip: none is open.
LEMMA SoleSettle ==
    ASSUME ChatInv, NEW h \in Handlers, SoleOK(hs[h]), Settle(h) \/ SettleFails(h) PROVE SoleOK(hs[h])'
<1> USE ConversationBoundsAssumption
<1>1. PICK r \in HandlerRecords : r = hs[h] /\ HandlerOK(r) /\ r.pc = "settle" /\ SoleOK(r)
  BY DEF ChatInv, TablesOK, Settle, SettleFails, At
<1>2. UNCHANGED <<rows, notes, torn, said>> /\ slipped \subseteq slipped' /\ AfterSettling(h)
  BY DEF Settle, SettleFails, static
<1>3. questions \in [Messages -> Questions] /\ said \in 0..MaxMessages
  BY DEF ChatInv, TablesOK
<1>4. PICK q \in Messages : q = r.question /\ questions[q].status = "pending"
  <2>1. r.question \in 1..said /\ questions[r.question].status = "pending"
    BY <1>1 DEF HandlerOK, SoleOK, AnswerInHand
  <2>2. r.question \in Messages
    BY <1>3, <2>1 DEF Messages
  <2> QED
    BY <2>1, <2>2
<1>5. /\ \A p \in Messages : questions'[p].asked = questions[p].asked
      /\ \A p \in Messages : p # q => questions'[p].status = questions[p].status
      /\ questions'[q].status # "pending" \/ q \in slipped'
  <2>1. CASE Settle(h)
    <3>1. questions' = [questions EXCEPT ![q].status = Verdict(r.kind)]
      BY <1>1, <1>4, <2>1 DEF Settle
    <3>2. PICK old \in Questions : old = questions[q]
      BY <1>3
    <3>3. PICK new : new = [old EXCEPT !.status = Verdict(r.kind)]
      OBVIOUS
    <3>4. new.asked = old.asked /\ new.status # "pending"
      BY <3>2, <3>3 DEF Questions, Verdict
    <3>5. questions' = [questions EXCEPT ![q] = new]
      BY <3>1, <3>2, <3>3
    <3> QED
      BY <1>3, <3>2, <3>4, <3>5
  <2>2. CASE SettleFails(h)
    BY <1>1, <1>4, <2>2 DEF SettleFails
  <2> QED
    BY <2>1, <2>2
<1>6. \A p \in Messages : Open(p) => p = q
  BY <1>1, <1>4 DEF SoleOK, QuestionsOK
<1>7. \A p \in Messages : ~Open(p)'
  BY <1>2, <1>5, <1>6 DEF Open
<1>8. q \notin slipped' => Open(q) /\ Active' = questions'[q].asked
  BY <1>1, <1>2, <1>4, <1>5, ActiveKept DEF Open, SoleOK, QuestionsOK
<1>9. /\ r.text = r.msg /\ r.msg = said /\ r.msg \in Messages /\ questions'[r.msg].status = "none"
      /\ r.row.status # "hash_mismatch" /\ ~Appending(r) /\ ~Written(r)
  <2>1. r.msg \in 1..said
    BY <1>1 DEF HandlerOK
  <2>2. r.msg \in Messages
    BY <1>3, <2>1 DEF Messages
  <2>3. r.msg = said /\ r.text = r.msg /\ questions[r.msg].status = "none" /\ r.row.status # "hash_mismatch"
    BY <1>1 DEF SoleOK, AnswerInHand, RowInHand
  <2>4. r.msg # q
    BY <1>4, <2>3
  <2> QED
    BY <1>1, <1>5, <2>2, <2>3, <2>4 DEF Appending, Written, Ingested
<1>10. PICK s : /\ hs' = [hs EXCEPT ![h] = s]
                /\ \/ s = Idle
                   \/ /\ s.row = r.row /\ s.msg = r.msg
                      /\ \/ s.pc = "append" /\ s.text = q /\ s.question = q
                         \/ s.pc = "ingest" /\ s.text = q
                         \/ s.pc = "classify" /\ s.text = r.text /\ s.question = 0
  BY <1>1, <1>2, <1>4, SettledIs
<1>11. RowInHand(s)' /\ (s.pc = "idle" \/ s # Idle)
  <2>1. CASE s = Idle
    BY <2>1, IdleFits
  <2>2. CASE s # Idle
    BY <1>9, <1>10, <2>2 DEF RowInHand, HasRow, Written, Ingested
  <2> QED
    BY <2>1, <2>2
<1>12. QuestionsOK(s)'
  BY <1>7 DEF QuestionsOK, Open
<1>13. AnswerInHand(s)'
  <2>1. CASE s = Idle
    BY <2>1, IdleFits
  <2>2. CASE s # Idle
    <3>1. s.text \in Messages
      BY <1>9, <1>10, <2>2
    <3>2. s.msg = said' /\ questions'[s.msg].status = "none" /\ ~Open(s.text)'
      BY <1>2, <1>7, <1>9, <1>10, <2>2, <3>1
    <3> QED
      BY <1>8, <1>9, <1>10, <2>2, <3>2 DEF AnswerInHand, Open
  <2> QED
    BY <2>1, <2>2
<1>14. \A t \in Messages : t \notin slipped' /\ (Open(t)' \/ Waits(s, t)) => Open(t) \/ Waits(r, t)
  <2> SUFFICES ASSUME NEW t \in Messages, t \notin slipped', Waits(s, t) PROVE Open(t) \/ Waits(r, t)
    BY <1>7
  <2>1. s # Idle /\ (t = q \/ t = r.text)
    BY <1>10, IdleFits DEF Waits
  <2> QED
    BY <1>1, <1>8, <1>9, <2>1 DEF Waits
<1> QED
  BY <1>1, <1>2, <1>9, <1>10, <1>11, <1>12, <1>13, <1>14, SoleRouter

\* The new question is the last, and about the group that is active.
LEMMA SoleAsk ==
    ASSUME ChatInv, NEW h \in Handlers, SoleOK(hs[h]), Ask(h) PROVE SoleOK(hs[h])'
<1> USE ConversationBoundsAssumption
<1>1. PICK r \in HandlerRecords : r = hs[h] /\ HandlerOK(r) /\ r.pc = "ask" /\ SoleOK(r)
  BY DEF ChatInv, TablesOK, Ask, At
<1>2. UNCHANGED <<rows, notes, slipped, torn, said>> /\ hs' = [hs EXCEPT ![h] = Idle]
  BY DEF Ask, Become, static
<1>3. questions \in [Messages -> Questions] /\ said \in 0..MaxMessages
  BY DEF ChatInv, TablesOK
<1>4. r.text = said /\ r.bucket = Active
  BY <1>1 DEF SoleOK, AnswerInHand
<1>5. said \in Messages
  <2>1. r.text \in 1..said
    BY <1>1 DEF HandlerOK
  <2> QED
    BY <1>3, <1>4, <2>1 DEF Messages
<1>6. PICK b : b = Active
  OBVIOUS
<1>7. /\ \A p \in Messages : p # said => questions'[p] = questions[p]
      /\ questions'[said].status = "pending" /\ questions'[said].asked = b
  <2>1. PICK new : new = [status |-> "pending", late |-> FALSE, asked |-> b]
    OBVIOUS
  <2>2. questions' = [questions EXCEPT ![said] = new]
    BY <1>1, <1>4, <1>6, <2>1 DEF Ask
  <2> QED
    BY <1>3, <1>5, <2>1, <2>2
<1>8. Active' = b
  BY <1>2, <1>6, ActiveKept
<1>9. ~Quiet(r) /\ ~Appending(r) /\ ~Written(r)
  BY <1>1 DEF HandlerOK, KindFits, Quiet, Appending, Written, Ingested
<1>10. \A p \in Messages : Open(p)' => p = said
  BY <1>1, <1>2, <1>7, <1>9 DEF SoleOK, QuestionsOK, Open
<1>11. PICK s : s = Idle
  OBVIOUS
<1>12. Quiet(s) /\ s.pc = "idle" /\ RowInHand(s)' /\ AnswerInHand(s)'
  BY <1>11, IdleFits
<1>13. QuestionsOK(s)'
  <2>1. \A p \in Messages : questions'[p].status = "pending" => p <= said
    <3>1. \A p \in Messages : questions[p].status # "none" => p <= said
      BY DEF ChatInv, NotesOK
    <3> QED
      BY <1>3, <1>7, <3>1
  <2> SUFFICES ASSUME NEW q \in Messages, Open(q)'
               PROVE  /\ Active' = questions'[q].asked
                      /\ \A p \in Messages : questions'[p].status = "pending" => p <= q
                      /\ Quiet(s) /\ (s.pc = "settle" => s.question = q)
    BY DEF QuestionsOK, Open
  <2> QED
    BY <1>7, <1>8, <1>10, <1>12, <2>1
<1>14. \A t \in Messages : t \notin slipped' /\ (Open(t)' \/ Waits(s, t)) => Waits(r, t)
  BY <1>1, <1>4, <1>9, <1>10, <1>12 DEF Waits
<1> QED
  BY <1>1, <1>2, <1>9, <1>11, <1>12, <1>13, <1>14, SoleRouter

\* A text or an edit at the end of a note: one copy more of it, and of no other.
LEMMA CopiesAppended ==
    ASSUME notes \in [Buckets -> Contents], NEW b \in Buckets, NEW x \in Messages \cup {Edit},
           notes' = [notes EXCEPT ![b] = Append(@, x)],
           NEW t \in Messages, OneCopy(t), t = x => \A c \in Buckets : ~Holds(c, t)
    PROVE  OneCopy(t)' /\ (t # x => \A c \in Buckets : Holds(c, t)' => Holds(c, t))
<1>1. /\ \A c \in Buckets : c # b => notes'[c] = notes[c]
      /\ DOMAIN notes'[b] = 1..Len(notes[b]) + 1 /\ notes'[b][Len(notes[b]) + 1] = x
      /\ Len(notes[b]) \in Nat /\ DOMAIN notes[b] = 1..Len(notes[b])
      /\ \A i \in DOMAIN notes[b] : i \in DOMAIN notes'[b] /\ notes'[b][i] = notes[b][i]
  BY AppendedNote
<1>2. \A c \in Buckets : \A i \in DOMAIN notes'[c] :
         \/ i \in DOMAIN notes[c] /\ notes'[c][i] = notes[c][i]
         \/ c = b /\ i = Len(notes[b]) + 1 /\ notes'[c][i] = x
  <2> SUFFICES ASSUME NEW c \in Buckets, NEW i \in DOMAIN notes'[c]
               PROVE  \/ i \in DOMAIN notes[c] /\ notes'[c][i] = notes[c][i]
                      \/ c = b /\ i = Len(notes[b]) + 1 /\ notes'[c][i] = x
    OBVIOUS
  <2>1. CASE c # b
    BY <1>1, <2>1
  <2>2. CASE c = b
    <3>1. i \in DOMAIN notes[b] \/ i = Len(notes[b]) + 1
      BY <1>1, <2>2
    <3> QED
      BY <1>1, <2>2, <3>1
  <2> QED
    BY <2>1, <2>2
<1>3. CASE t = x
  <2>1. \A c \in Buckets : \A i \in DOMAIN notes'[c] : notes'[c][i] = t => c = b /\ i = Len(notes[b]) + 1
    BY <1>2, <1>3 DEF Holds
  <2> QED
    BY <1>3, <2>1 DEF OneCopy
<1>4. CASE t # x
  <2>1. \A c \in Buckets : \A i \in DOMAIN notes'[c] :
           notes'[c][i] = t => i \in DOMAIN notes[c] /\ notes[c][i] = t
    BY <1>2, <1>4
  <2>2. OneCopy(t)'
    BY <2>1 DEF OneCopy
  <2>3. \A c \in Buckets : Holds(c, t)' => Holds(c, t)
    BY <2>1 DEF Holds
  <2> QED
    BY <2>2, <2>3
<1> QED
  BY <1>3, <1>4

\* What is not clean stays so, and what is clean was.
LEMMA CleanWas ==
    ASSUME notes \in [Buckets -> Contents], NEW b \in Buckets, NEW x \in Messages \cup {Edit},
           notes' = [notes EXCEPT ![b] = Append(@, x)], torn \subseteq torn', NEW c \in Buckets, Clean(c)'
    PROVE  Clean(c) /\ (c = b => x # Edit)
BY AppendedHolds DEF Clean

\* The handler writes the text it had waiting.
LEMMA CopiesWritten ==
    ASSUME notes \in [Buckets -> Contents], NEW b \in Buckets, NEW r, NEW s, r.text \in Messages,
           notes' = [notes EXCEPT ![b] = Append(@, r.text)], UNCHANGED <<questions, slipped>>,
           CopiesOK(r), AnswerInHand(r), r.pc # "idle", ~Written(r), Written(s)
    PROVE  CopiesOK(s)'
<1> SUFFICES ASSUME NEW t \in Messages, t \notin slipped
             PROVE  OneCopy(t)' /\ (Open(t)' \/ Waits(s, t) => \A b2 \in Buckets : ~Holds(b2, t)')
  BY DEF CopiesOK, Waits
<1>1. OneCopy(t) /\ (Open(t) \/ Waits(r, t) => \A c \in Buckets : ~Holds(c, t))
  BY DEF CopiesOK
<1>2. t = r.text => \A c \in Buckets : ~Holds(c, t)
  BY <1>1 DEF Waits
<1>3. OneCopy(t)' /\ (t # r.text => \A c \in Buckets : Holds(c, t)' => Holds(c, t))
  BY <1>1, <1>2, CopiesAppended
<1>4. Open(t)' => Open(t) /\ t # r.text
  BY DEF Open, AnswerInHand
<1>5. ~Waits(s, t)
  BY DEF Waits
<1> QED
  BY <1>1, <1>3, <1>4, <1>5

\* The note that Apply creates holds the text alone.
LEMMA SoleIngest ==
    ASSUME ChatInv, NEW h \in Handlers, SoleOK(hs[h]), Ingest(h) PROVE SoleOK(hs[h])'
<1> USE ConversationBoundsAssumption
<1>1. PICK r \in HandlerRecords : r = hs[h] /\ HandlerOK(r) /\ r.pc = "ingest" /\ SoleOK(r)
  BY DEF ChatInv, TablesOK, Ingest, At
<1>2. UNCHANGED <<rows, questions, slipped, torn, said>>
  BY DEF Ingest, static
<1>3. PICK b \in Buckets, t \in Messages : b = r.msg /\ t = r.text
  BY <1>1, TablesAsTheyWere DEF Ingest, At, Buckets, Messages
<1>4. notes \in [Buckets -> Contents] /\ notes[b] = <<>> /\ rows[b].status = "none"
  <2>1. notes[b] = <<>>
    BY <1>1, <1>3 DEF HandlerOK, Ingested
  <2> QED
    BY <2>1 DEF ChatInv, TablesOK, NotesOK
<1>5. notes' = [notes EXCEPT ![b] = Append(@, t)] /\ notes'[b] = <<t>> /\ \A c \in Buckets : c # b => notes'[c] = notes[c]
  <2>1. notes' = [notes EXCEPT ![b] = <<t>>]
    BY <1>1, <1>3 DEF Ingest
  <2>2. Append(<<>>, t) = <<t>>
    OBVIOUS
  <2>3. notes' = [notes EXCEPT ![b] = Append(notes[b], t)]
    BY <1>4, <2>1, <2>2
  <2> QED
    BY <1>4, <2>1, <2>3
<1>6. PICK s : s = [r EXCEPT !.pc = "finish", !.bucket = b]
  OBVIOUS
<1>7. /\ s.pc = "finish" /\ s.bucket = b /\ s.kind = r.kind /\ s.row = r.row
      /\ s.msg = r.msg /\ s.text = t /\ s.question = r.question
  BY <1>1, <1>3, <1>6 DEF HandlerRecords
<1>8. hs' = [hs EXCEPT ![h] = s]
  BY <1>1, <1>3, <1>6 DEF Ingest, Become
<1>9. ~Appending(r) /\ ~Written(r) /\ Written(s) /\ (Quiet(r) => Quiet(s))
  BY <1>1, <1>7 DEF Appending, Written, Ingested, Quiet
<1>10. RowsMatch(s)'
  <2> SUFFICES ASSUME NEW c \in Buckets
               PROVE  /\ rows'[c].status # "none" /\ Clean(c)' => rows'[c].hash = notes'[c]
                      /\ rows'[c].status = "hash_mismatch" => ~Clean(c)'
    BY DEF RowsMatch
  <2>1. CASE c = b
    BY <1>2, <1>4, <2>1
  <2>2. CASE c # b
    <3>1. Clean(c)' => Clean(c)
      BY <1>2, <1>4, <1>5, CleanWas
    <3> QED
      BY <1>1, <1>2, <1>5, <1>9, <2>2, <3>1 DEF SoleOK, RowsMatch
  <2> QED
    BY <2>1, <2>2
<1>11. RowInHand(s)'
  <2>1. r.row.status # "hash_mismatch"
    BY <1>1 DEF SoleOK, RowInHand
  <2> QED
    BY <1>5, <1>7, <2>1 DEF RowInHand, HasRow
<1>12. QuestionsOK(s)'
  BY <1>1, <1>2, <1>7, <1>9, ActiveKept, QuestionsStay DEF SoleOK
<1>13. AnswerInHand(s)'
  BY <1>1, <1>2, <1>3, <1>7, AnswerStays DEF SoleOK
<1>14. CopiesOK(s)'
  BY <1>1, <1>2, <1>3, <1>4, <1>5, <1>9, CopiesWritten DEF SoleOK
<1>15. hs'[h] = s /\ SoleOK(s)'
  <2>1. hs'[h] = s
    BY <1>8 DEF ChatInv, TablesOK
  <2> QED
    BY <1>10, <1>11, <1>12, <1>13, <1>14, <2>1 DEF SoleOK
<1> QED
  BY <1>15, InHand

\* The rewritten note is ahead of the row in the table, and what the row in hand says.
LEMMA SoleApply ==
    ASSUME ChatInv, NEW h \in Handlers, SoleOK(hs[h]), ApplyAppend(h) PROVE SoleOK(hs[h])'
<1> USE ConversationBoundsAssumption
<1>1. PICK r \in HandlerRecords : r = hs[h] /\ HandlerOK(r) /\ r.pc = "apply" /\ SoleOK(r)
  BY DEF ChatInv, TablesOK, ApplyAppend, At
<1>2. UNCHANGED <<rows, questions, slipped, torn, said>>
  BY DEF ApplyAppend, static
<1>3. PICK b \in Buckets, t \in Messages : b = r.bucket /\ t = r.text
  BY <1>1, TablesAsTheyWere DEF ApplyAppend, At, AtBucket
<1>4. notes \in [Buckets -> Contents]
  BY DEF ChatInv, TablesOK
<1>5. ~Appending(r) /\ ~Written(r) /\ ~Quiet(r) /\ r.kind = "append" /\ r.row.status # "hash_mismatch"
  BY <1>1 DEF Appending, Written, Ingested, Quiet, HandlerOK, KindFits, SoleOK, RowInHand
<1>6. CASE Moved(b) \/ notes[b] # r.row.hash
  BY <1>1, <1>2, <1>3, <1>5, <1>6, SoleReturns DEF ApplyAppend, Become
<1>7. CASE ~Moved(b) /\ notes[b] = r.row.hash
  <2>1. notes' = [notes EXCEPT ![b] = Append(@, t)] /\ hs' = [hs EXCEPT ![h] = [hs[h] EXCEPT !.pc = "store", !.row = NextRow(h)]]
    BY <1>1, <1>3, <1>7 DEF ApplyAppend, Become
  <2>2. notes'[b] = Append(notes[b], t) /\ \A c \in Buckets : c # b => notes'[c] = notes[c]
    BY <1>4, <2>1
  <2>3. PICK row \in Rows : row = r.row
    BY <1>1 DEF HandlerRecords
  <2>4. PICK new : new = [row EXCEPT !.count = row.count + 1, !.late = FALSE, !.hash = Append(row.hash, t)]
    OBVIOUS
  <2>5. new.hash = Append(row.hash, t) /\ new.status = row.status
    BY <2>3, <2>4 DEF Rows
  <2>6. NextRow(h) = new
    BY <1>1, <1>3, <2>3, <2>4 DEF NextRow
  <2>7. PICK s : s = [r EXCEPT !.pc = "store", !.row = new]
    OBVIOUS
  <2>8. /\ s.pc = "store" /\ s.bucket = b /\ s.kind = "append" /\ s.row = new
        /\ s.msg = r.msg /\ s.text = t /\ s.question = r.question
    BY <1>1, <1>3, <1>5, <2>7 DEF HandlerRecords
  <2>9. hs' = [hs EXCEPT ![h] = s]
    BY <1>1, <2>1, <2>6, <2>7
  <2>10. Appending(s) /\ Written(s)
    BY <2>8 DEF Appending, Written
  <2>11. RowsMatch(s)'
    <3> SUFFICES ASSUME NEW c \in Buckets
                 PROVE  /\ rows'[c].status # "none" /\ Clean(c)' => rows'[c].hash = notes'[c] \/ (Appending(s) /\ s.bucket = c)
                        /\ rows'[c].status = "hash_mismatch" => ~Clean(c)'
      BY DEF RowsMatch, Appending
    <3>1. Clean(c)' => Clean(c)
      BY <1>2, <1>4, <2>1, CleanWas
    <3>2. CASE c = b
      BY <1>1, <1>2, <2>8, <2>10, <3>1, <3>2 DEF SoleOK, RowsMatch
    <3>3. CASE c # b
      BY <1>1, <1>2, <1>5, <2>2, <3>1, <3>3 DEF SoleOK, RowsMatch
    <3> QED
      BY <3>2, <3>3
  <2>12. RowInHand(s)'
    BY <1>5, <1>7, <2>2, <2>3, <2>5, <2>8, <2>10 DEF RowInHand
  <2>13. QuestionsOK(s)'
    BY <1>1, <1>2, <1>5, QuestionsStay DEF SoleOK
  <2>14. AnswerInHand(s)'
    BY <1>1, <1>2, <1>3, <2>8, AnswerStays DEF SoleOK
  <2>15. CopiesOK(s)'
    BY <1>1, <1>2, <1>3, <1>4, <1>5, <2>1, <2>10, CopiesWritten DEF SoleOK
  <2>16. hs'[h] = s /\ SoleOK(s)'
    <3>1. hs'[h] = s
      BY <2>9 DEF ChatInv, TablesOK
    <3> QED
      BY <2>11, <2>12, <2>13, <2>14, <2>15, <3>1 DEF SoleOK
  <2> QED
    BY <2>16, InHand
<1> QED
  BY <1>6, <1>7

\* SaveCaptureBucket brings the row up to the note, or leaves its hash.
LEMMA SoleSaving ==
    ASSUME ChatInv, NEW h \in Handlers, SoleOK(hs[h]), Store(h) \/ Shut(h) PROVE SoleOK(hs[h])'
<1> USE ConversationBoundsAssumption
<1>1. PICK r \in HandlerRecords : r = hs[h] /\ HandlerOK(r) /\ r.pc \in {"store", "shut"} /\ SoleOK(r)
  BY DEF ChatInv, TablesOK, Store, Shut, At
<1>2. UNCHANGED <<notes, questions, slipped, torn>> /\ hs' = [hs EXCEPT ![h] = Idle]
  BY DEF Store, Shut, Reply, Become, static
<1>3. PICK b \in Buckets : b = r.bucket
  BY <1>1, RowOfHandler DEF AtBucket
<1>4. PICK row \in Rows : row = r.row
  BY <1>1 DEF HandlerRecords
<1>5. \A c \in Buckets : LET new == IF c = b THEN row ELSE rows[c]
                         IN  /\ rows'[c].status = new.status
                             /\ rows'[c].hash = new.hash
  <2>1. SaveRow(b, row) /\ rows \in [Buckets -> Rows]
    BY <1>1, <1>3, <1>4 DEF Store, Shut, ChatInv, TablesOK
  <2> QED
    BY <2>1, SaveRowSaves
<1>6. Clean(b) => row.hash = notes[b]
  <2>1. CASE Written(r)
    BY <1>1, <1>3, <1>4, <2>1 DEF SoleOK, RowInHand, Written, Ingested
  <2>2. CASE ~Written(r)
    <3>1. HasRow(r) /\ ~Appending(r) /\ r.pc # "get"
      BY <1>1, <2>2 DEF HasRow, Written, Ingested, Appending
    <3>2. rows[b].status # "none"
      BY <1>1, <1>3, <3>1 DEF HandlerOK
    <3>3. Clean(b) => rows[b].hash = notes[b]
      BY <1>1, <3>1, <3>2 DEF SoleOK, RowsMatch
    <3>4. Clean(b) => row.hash = rows[b].hash
      BY <1>1, <1>3, <1>4, <2>2, <3>1 DEF SoleOK, RowInHand
    <3> QED
      BY <3>3, <3>4
  <2> QED
    BY <2>1, <2>2
<1>7. row.status = "hash_mismatch" => ~Clean(b)
  BY <1>1, <1>3, <1>4 DEF SoleOK, RowInHand
<1>8. PICK s : s = Idle
  OBVIOUS
<1>9. Quiet(s) /\ s.pc = "idle" /\ ~Appending(s) /\ RowInHand(s)' /\ AnswerInHand(s)'
  BY <1>8, IdleFits
<1>10. RowsMatch(s)'
  <2> SUFFICES ASSUME NEW c \in Buckets
               PROVE  /\ rows'[c].status # "none" /\ Clean(c)' => rows'[c].hash = notes'[c]
                      /\ rows'[c].status = "hash_mismatch" => ~Clean(c)'
    BY DEF RowsMatch
  <2>1. Clean(c)' => Clean(c)
    BY <1>2 DEF Clean, Holds
  <2>2. CASE c = b
    BY <1>2, <1>5, <1>6, <1>7, <2>1, <2>2
  <2>3. CASE c # b
    BY <1>1, <1>2, <1>3, <1>5, <2>1, <2>3 DEF SoleOK, RowsMatch
  <2> QED
    BY <2>2, <2>3
<1>11. ~Quiet(r)
  BY <1>1 DEF HandlerOK, KindFits, Quiet
<1>12. QuestionsOK(s)'
  BY <1>1, <1>2, <1>11, QuestionsStay DEF SoleOK
<1>13. CopiesOK(s)'
  <2>1. \A t \in Messages : t \notin slipped' /\ (Open(t)' \/ Waits(s, t)) => Open(t)
    BY <1>2, <1>9 DEF Open, Waits
  <2> QED
    BY <1>1, <1>2, <2>1, CopiesStay DEF SoleOK
<1>14. hs'[h] = s /\ SoleOK(s)'
  <2>1. hs'[h] = s
    BY <1>2, <1>8 DEF ChatInv, TablesOK
  <2> QED
    BY <1>9, <1>10, <1>12, <1>13, <2>1 DEF SoleOK
<1> QED
  BY <1>14, InHand

\* The user's edit: the bucket is not clean any more, and no text comes or goes.
LEMMA SoleEdit ==
    ASSUME ChatInv, NEW h \in Handlers, SoleOK(hs[h]), NEW b \in Buckets, EditNote(b) PROVE SoleOK(hs[h])'
<1>1. PICK r \in HandlerRecords : r = hs[h] /\ HandlerOK(r) /\ SoleOK(r)
  BY DEF ChatInv, TablesOK
<1>2. /\ UNCHANGED <<rows, questions, hs, said, slipped, torn>>
      /\ notes' = [notes EXCEPT ![b] = Append(@, Edit)] /\ notes \in [Buckets -> Contents]
  BY DEF EditNote, ChatInv, TablesOK
<1>3. /\ \A c \in Buckets : c # b => notes'[c] = notes[c]
      /\ \A c \in Buckets : Clean(c)' => Clean(c) /\ c # b
  <2>1. \A c \in Buckets : Clean(c)' => Clean(c) /\ (c = b => FALSE)
    BY <1>2, CleanWas
  <2> QED
    BY <1>2, <2>1, AppendedNote
<1>4. RowsMatch(r)'
  BY <1>1, <1>2, <1>3 DEF SoleOK, RowsMatch
<1>5. RowInHand(r)'
  <2>1. AtBucket(r) => r.bucket \in Buckets
    BY <1>1, RowOfHandler
  <2>2. AtBucket(r) /\ Clean(r.bucket)' => Clean(r.bucket) /\ notes'[r.bucket] = notes[r.bucket]
    BY <1>3, <2>1
  <2>3. HasRow(r) \/ r.pc \in {"finish", "store", "shut"} => AtBucket(r)
    BY DEF HasRow, AtBucket
  <2> QED
    BY <1>1, <1>2, <2>2, <2>3 DEF SoleOK, RowInHand
<1>6. QuestionsOK(r)'
  BY <1>1, <1>2, ActiveKept DEF SoleOK, QuestionsOK, Open
<1>7. AnswerInHand(r)'
  BY <1>1, <1>2, ActiveKept DEF SoleOK, AnswerInHand, Open
<1>8. CopiesOK(r)'
  <2> SUFFICES ASSUME NEW t \in Messages, t \notin slipped
               PROVE  OneCopy(t)' /\ (Open(t)' \/ Waits(r, t) => \A c \in Buckets : ~Holds(c, t)')
    BY <1>2 DEF CopiesOK, Waits
  <2>1. t # Edit
    BY DEF Messages, Edit
  <2>2. OneCopy(t) /\ (Open(t) \/ Waits(r, t) => \A c \in Buckets : ~Holds(c, t))
    BY <1>1 DEF SoleOK, CopiesOK
  <2>3. OneCopy(t)' /\ \A c \in Buckets : Holds(c, t)' => Holds(c, t)
    BY <1>2, <2>1, <2>2, CopiesAppended
  <2>4. Open(t)' => Open(t)
    BY <1>2 DEF Open
  <2> QED
    BY <2>2, <2>3, <2>4
<1>9. hs'[h] = r /\ SoleOK(r)'
  BY <1>1, <1>2, <1>4, <1>5, <1>6, <1>7, <1>8 DEF SoleOK
<1> QED
  BY <1>9, InHand

\* Nothing but deadlines has changed.
LEMMA SoleStands ==
    ASSUME ChatInv, NEW h \in Handlers, SoleOK(hs[h]), UNCHANGED <<hs, notes, said, slipped, torn>>,
           \A b \in Buckets : /\ rows'[b].status = rows[b].status
                              /\ rows'[b].hash = rows[b].hash
                              /\ rows'[b].updated = rows[b].updated,
           \A q \in Messages : questions'[q].status = questions[q].status /\ questions'[q].asked = questions[q].asked
    PROVE  SoleOK(hs[h])'
<1>1. PICK r \in HandlerRecords : r = hs[h] /\ HandlerOK(r) /\ SoleOK(r)
  BY DEF ChatInv, TablesOK
<1>2. Active' = Active
  BY ActiveStays
<1>3. \A c \in Buckets : Clean(c)' => Clean(c)
  BY DEF Clean, Holds
<1>4. /\ r.pc # "idle" => r.msg \in Messages /\ r.text \in Messages
      /\ r.pc = "settle" => r.question \in Messages
      /\ r.question # 0 => r.question \in Messages
  <2>1. said \in 0..MaxMessages /\ MaxMessages \in Nat
    BY ConversationBoundsAssumption DEF ChatInv, TablesOK
  <2>2. /\ r.pc # "idle" => r.msg \in 1..said /\ r.text \in 1..said
        /\ r.pc = "settle" => r.question \in 1..said
        /\ r.question \in 0..MaxMessages
    BY <1>1 DEF HandlerOK, HandlerRecords
  <2> QED
    BY <2>1, <2>2 DEF Messages
<1>5. RowsMatch(r)'
  BY <1>1, <1>3 DEF SoleOK, RowsMatch
<1>6. RowInHand(r)'
  <2>1. HasRow(r) => r.bucket \in Buckets
    BY <1>1, RowOfHandler DEF HasRow, AtBucket
  <2>2. Clean(r.bucket)' => Clean(r.bucket)
    BY DEF Clean, Holds
  <2> QED
    BY <1>1, <2>1, <2>2 DEF SoleOK, RowInHand
<1>7. QuestionsOK(r)'
  BY <1>1, <1>2 DEF SoleOK, QuestionsOK, Open
<1>8. AnswerInHand(r)'
  BY <1>1, <1>2, <1>4 DEF SoleOK, AnswerInHand, Open
<1>9. CopiesOK(r)'
  <2>1. \A t \in Messages : t \notin slipped' /\ (Open(t)' \/ Waits(r, t)) => Open(t) \/ Waits(r, t)
    BY DEF Open
  <2> QED
    BY <1>1, <2>1, CopiesStay DEF SoleOK
<1>10. hs'[h] = r /\ SoleOK(r)'
  BY <1>1, <1>5, <1>6, <1>7, <1>8, <1>9 DEF SoleOK
<1> QED
  BY <1>10, InHand

LEMMA SoleLapse == ASSUME ChatInv, NEW h \in Handlers, SoleOK(hs[h]), Lapse PROVE SoleOK(hs[h])'
<1>1. UNCHANGED <<hs, notes, said, slipped, torn>>
  BY DEF Lapse
<1>2. rows \in [Buckets -> Rows] /\ questions \in [Messages -> Questions]
  BY DEF ChatInv, TablesOK
<1>3. \A b \in Buckets : /\ rows'[b].status = rows[b].status
                         /\ rows'[b].hash = rows[b].hash
                         /\ rows'[b].updated = rows[b].updated
  <2>1. CASE UNCHANGED rows
    BY <2>1
  <2>2. ASSUME NEW b \in Buckets, rows' = [rows EXCEPT ![b].late = TRUE] PROVE <1>3
    <3>1. PICK row \in Rows : row = rows[b]
      BY <1>2
    <3>2. PICK new : new = [row EXCEPT !.late = TRUE]
      OBVIOUS
    <3>3. new.status = row.status /\ new.hash = row.hash /\ new.updated = row.updated
      BY <3>1, <3>2 DEF Rows
    <3>4. rows' = [rows EXCEPT ![b] = new]
      BY <2>2, <3>1, <3>2
    <3> QED
      BY <1>2, <3>1, <3>3, <3>4
  <2> QED
    BY <2>1, <2>2 DEF Lapse
<1>4. \A q \in Messages : questions'[q].status = questions[q].status /\ questions'[q].asked = questions[q].asked
  <2>1. CASE UNCHANGED questions
    BY <2>1
  <2>2. ASSUME NEW q \in Messages, questions' = [questions EXCEPT ![q].late = TRUE] PROVE <1>4
    <3>1. PICK old \in Questions : old = questions[q]
      BY <1>2
    <3>2. PICK new : new = [old EXCEPT !.late = TRUE]
      OBVIOUS
    <3>3. new.status = old.status /\ new.asked = old.asked
      BY <3>1, <3>2 DEF Questions
    <3>4. questions' = [questions EXCEPT ![q] = new]
      BY <2>2, <3>1, <3>2
    <3> QED
      BY <1>2, <3>1, <3>3, <3>4
  <2> QED
    BY <2>1, <2>2 DEF Lapse
<1> QED
  BY <1>1, <1>3, <1>4, SoleStands

\* One process has no other beside it.
LEMMA AloneIsOne ==
    ASSUME ChatInv, Alone, NEW h \in Running PROVE \A g \in Running : g = h
<1>1. IsFiniteSet(Running) /\ Cardinality(Running) = 1
  BY DEF ChatInv, TablesOK, Running, Alone
<1>2. PICK x : Running = {x}
  BY <1>1, FS_Singleton
<1> QED
  BY <1>2

\* Who takes a step is running, and goes on with the same processes.
LEMMA StepsAreRun ==
    ASSUME NEW h \in Handlers,
           \/ \E k \in Kinds : Receive(h, k)
           \/ RouterStep(h) \/ CaptureStep(h) \/ BucketStep(h) \/ OrganizeStep(h) \/ FaultStep(h)
    PROVE  h \in Running /\ UNCHANGED config
<1>1. ASSUME NEW k \in Kinds, Receive(h, k) PROVE h \in Running /\ UNCHANGED config
  BY <1>1 DEF Receive, At
<1>2. CASE RouterStep(h)
  BY <1>2 DEF RouterStep, ReadQuestion, Settle, Classify, Ask, DecideNamed, Decide, At, static
<1>3. CASE CaptureStep(h)
  BY <1>3 DEF CaptureStep, Ingest, FinishIngest, ApplyAppend, Store, Shut, At, static
<1>4. CASE BucketStep(h)
  BY <1>4 DEF BucketStep, Find, Get, GetToClose, Compare, At, static
<1>5. CASE OrganizeStep(h)
  BY <1>5 DEF OrganizeStep, Last, ReadContext, SavePlan, At, static
<1>6. CASE FaultStep(h)
  BY <1>6 DEF FaultStep, Crash, ReadQuestionFails, SettleFails, Fails, At
<1> QED
  BY <1>1, <1>2, <1>3, <1>4, <1>5, <1>6

LEMMA SoleInit == Init => SoleInv
<1> SUFFICES ASSUME Init, NEW h \in Running PROVE SoleOK(hs[h])
  BY DEF SoleInv
<1>1. h \in Handlers
  BY ScenariosAssumption DEF Init, Running
<1>2. /\ \A b \in Buckets : rows[b].status = "none" /\ notes[b] = <<>>
      /\ \A q \in Messages : questions[q].status = "none"
  BY DEF Init, NoRow, NoQuestion
<1>3. PICK r : r = Idle
  OBVIOUS
<1>4. hs[h] = r /\ r.pc = "idle" /\ r.row.status = "none"
  BY <1>1, <1>3 DEF Init, Idle, NoRow
<1>5. RowsMatch(r) /\ QuestionsOK(r)
  BY <1>2 DEF RowsMatch, QuestionsOK, Open
<1>6. RowInHand(r)
  BY <1>4 DEF RowInHand, HasRow
<1>7. AnswerInHand(r)
  BY <1>4 DEF AnswerInHand
<1>8. CopiesOK(r)
  <2>1. \A b \in Buckets : DOMAIN notes[b] = {}
    BY <1>2
  <2> QED
    BY <2>1 DEF CopiesOK, OneCopy, Holds
<1> QED
  BY <1>4, <1>5, <1>6, <1>7, <1>8 DEF SoleOK

LEMMA SoleNext == ChatInv /\ SoleInv /\ [Next]_vars => SoleInv'
<1> SUFFICES ASSUME ChatInv, SoleInv, [Next]_vars, Alone', NEW h \in Running' PROVE SoleOK(hs[h])'
  BY DEF SoleInv
<1>1. UNCHANGED config
  <2>1. ASSUME NEW b \in Buckets, EditNote(b) PROVE UNCHANGED config
    BY <2>1 DEF EditNote
  <2>2. CASE Lapse
    BY <2>2 DEF Lapse
  <2>3. CASE UNCHANGED vars
    BY <2>3 DEF vars
  <2> QED
    BY <2>1, <2>2, <2>3, StepsAreRun DEF Next
<1>2. Alone /\ h \in Running /\ h \in Handlers /\ SoleOK(hs[h])
  BY <1>1 DEF Alone, Running, SoleInv, ChatInv, TablesOK
<1>3. \A g \in Running : g = h
  BY <1>2, AloneIsOne
<1>4. ASSUME NEW g \in Handlers, NEW k \in Kinds, Receive(g, k) PROVE SoleOK(hs[h])'
  BY <1>2, <1>3, <1>4, StepsAreRun, SoleReceive
<1>5. ASSUME NEW g \in Handlers,
             RouterStep(g) \/ CaptureStep(g) \/ BucketStep(g) \/ OrganizeStep(g) \/ FaultStep(g)
      PROVE  SoleOK(hs[h])'
  <2>1. g = h
    BY <1>3, <1>5, StepsAreRun
  <2>2. CASE RouterStep(h)
    BY <1>2, <2>2, SoleReadQuestion, SoleSettle, SoleClassify, SoleAsk, SoleDecide DEF RouterStep
  <2>3. CASE CaptureStep(h)
    BY <1>2, <2>3, SoleIngest, SoleFinish, SoleApply, SoleSaving DEF CaptureStep
  <2>4. CASE BucketStep(h)
    BY <1>2, <2>4, SoleFind, SoleGet, SoleCompare DEF BucketStep
  <2>5. CASE OrganizeStep(h)
    BY <1>2, <2>5, SoleLast, SoleReadContext, SoleSavePlan DEF OrganizeStep
  <2>6. CASE FaultStep(h)
    BY <1>2, <2>6, SoleTrouble, SoleReadQuestion, SoleSettle DEF FaultStep
  <2> QED
    BY <1>5, <2>1, <2>2, <2>3, <2>4, <2>5, <2>6
<1>6. ASSUME NEW b \in Buckets, EditNote(b) PROVE SoleOK(hs[h])'
  BY <1>2, <1>6, SoleEdit
<1>7. CASE Lapse
  BY <1>2, <1>7, SoleLapse
<1>8. CASE UNCHANGED vars
  BY <1>2, <1>8, SoleStands DEF vars
<1> QED
  BY <1>4, <1>5, <1>6, <1>7, <1>8 DEF Next

(***************************************************************************)
(* While one process serves the source, the row in hand and the row in the *)
(* table follow the note, an open question is about the group that is      *)
(* active, and of a text there is one copy at most, whatever fails.        *)
(***************************************************************************)
THEOREM SoleInvariant == Spec => []SoleInv
<1>1. ChatInv /\ SoleInv /\ ChatInv' /\ [Next]_vars => SoleInv'
  BY SoleNext
<1> QED
  BY <1>1, ChatInvariant, SoleInit, PTL DEF Spec

-----------------------------------------------------------------------------
(***************************************************************************)
(* What the chat promises.                                                 *)
(***************************************************************************)
\* No text follows an edit of the user's in a note, with any number of
\* processes: the hash guard and Apply's own check compare with a note that
\* held none (docs/40-api/capture-bucket.md, "Hash guard").
THEOREM NothingAfterAnEdit == Spec => []NoTextAfterEdit
<1>1. ChatInv => NoTextAfterEdit
  BY DEF ChatInv
<1> QED
  BY <1>1, ChatInvariant, PTL

\* With one process, an answer to a question appends to the group that was
\* active when it was asked, or the question is one a statement failed on.
THEOREM AnswersGoWhereAsked == Spec => []AnswerGoesWhereAsked
<1>1. ChatInv /\ SoleInv => AnswerGoesWhereAsked
  <2> SUFFICES ASSUME ChatInv, SoleInv, NEW h \in Handlers, Alone, hs[h].pc = "apply",
                      hs[h].question # 0, hs[h].question \notin slipped
               PROVE  hs[h].bucket = questions[hs[h].question].asked
    BY DEF AnswerGoesWhereAsked
  <2>1. h \in Running /\ hs[h].kind = "append"
    BY IdleIsOK DEF ChatInv, HandlerOK, KindFits
  <2> QED
    BY <2>1 DEF SoleInv, SoleOK, AnswerInHand
<1> QED
  BY <1>1, ChatInvariant, SoleInvariant, PTL

\* A text whose sender was told that it is saved is in a note, with any number
\* of processes; with one, it is there once, but for a question marked in vain.
THEOREM TextsAreSavedOnce == Spec => []SavedOnce
<1>1. ChatInv /\ SoleInv => SavedOnce
  <2> SUFFICES ASSUME ChatInv, SoleInv, NEW t \in Messages
               PROVE  /\ t \in told => Copies(t) # {}
                      /\ (Alone /\ t \notin slipped) => Cardinality(Copies(t)) <= 1
    BY DEF SavedOnce
  <2>1. \A c : c \in Copies(t) <=> \E b \in Buckets : \E i \in DOMAIN notes[b] : notes[b][i] = t /\ c = <<b, i>>
    BY DEF Copies
  <2>2. ASSUME t \in told PROVE Copies(t) # {}
    <3>1. PICK b \in Buckets : Holds(b, t)
      BY <2>2 DEF ChatInv, NotesOK
    <3> QED
      BY <2>1, <3>1 DEF Holds
  <2>3. ASSUME Alone, t \notin slipped PROVE Cardinality(Copies(t)) <= 1
    <3>1. OneCopy(t)
      <4>1. IsFiniteSet(Running) /\ Cardinality(Running) = 1
        BY <2>3 DEF ChatInv, TablesOK, Running, Alone
      <4>2. PICK h : h \in Running
        BY <4>1, FS_Singleton
      <4> QED
        BY <2>3, <4>2 DEF SoleInv, SoleOK, CopiesOK
    <3>2. \A c, d \in Copies(t) : c = d
      BY <2>1, <3>1 DEF OneCopy
    <3>3. Copies(t) = {} \/ \E c : Copies(t) = {c}
      BY <3>2
    <3>4. Cardinality({}) = 0 /\ \A c : Cardinality({c}) = 1
      BY FS_EmptySet, FS_Singleton
    <3>5. PICK n : n = Cardinality(Copies(t))
      OBVIOUS
    <3>6. n = 0 \/ n = 1
      BY <3>3, <3>4, <3>5
    <3> QED
      BY <3>5, <3>6
  <2> QED
    BY <2>2, <2>3
<1> QED
  BY <1>1, ChatInvariant, SoleInvariant, PTL

\* A row counts the writes its hash is of, a done job has a note, and, with one
\* process, a group is given up as changed from outside only when the user
\* changed it or an append was cut off.
THEOREM BucketsTellTheTruth == Spec => []BucketsInv
<1>1. ChatInv => TypeOK
  <2> SUFFICES ASSUME ChatInv PROVE TypeOK
    OBVIOUS
  <2>1. ASSUME NEW b \in Buckets
        PROVE  /\ rows[b].status \in Statuses \cup {"none"}
               /\ rows[b].late \in BOOLEAN /\ rows[b].count \in Nat
               /\ Range(notes[b]) \subseteq Messages \cup {Edit}
               /\ rows[b].status # "none" => rows[b].count = Len(rows[b].hash)
    <3>1. rows[b] \in Rows /\ rows[b].count = Len(rows[b].hash) /\ notes[b] \in Contents
      BY DEF ChatInv, TablesOK
    <3>2. Range(notes[b]) \subseteq Messages \cup {Edit}
      BY <3>1 DEF Range, Contents
    <3> QED
      BY <3>1, <3>2 DEF Rows
  <2>2. \A h \in Handlers : hs[h].kind \in Kinds \cup {"none", "last"} /\ hs[h].bucket \in Buckets \cup {0}
    BY DEF ChatInv, TablesOK, HandlerRecords
  <2>3. told \subseteq 1..said /\ \A b \in Buckets : done[b] # "none" => notes[b] # <<>>
    BY DEF ChatInv, NotesOK
  <2> QED
    BY <2>1, <2>2, <2>3 DEF TypeOK
<1>2. ChatInv /\ SoleInv => MismatchMeansChanged
  <2> SUFFICES ASSUME ChatInv, SoleInv, NEW b \in Buckets, Alone, rows[b].status = "hash_mismatch"
               PROVE  Edit \in Range(notes[b]) \/ b \in torn
    BY DEF MismatchMeansChanged
  <2>1. IsFiniteSet(Running) /\ Cardinality(Running) = 1
    BY DEF ChatInv, TablesOK, Running, Alone
  <2>2. PICK h : h \in Running
    BY <2>1, FS_Singleton
  <2>3. ~Clean(b)
    BY <2>2 DEF SoleInv, SoleOK, RowsMatch
  <2> QED
    BY <2>3 DEF Clean, Holds, Range
<1> QED
  BY <1>1, <1>2, ChatInvariant, SoleInvariant, PTL DEF BucketsInv
=============================================================================
