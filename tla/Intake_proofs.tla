--------------------------- MODULE Intake_proofs ---------------------------
(***************************************************************************)
(* Proofs about Intake: what is loaded, found and let through, for every   *)
(* set of requests.                                                        *)
(***************************************************************************)
EXTENDS Intake, FiniteSetTheorems, WellFoundedInduction, TLAPS

-----------------------------------------------------------------------------
(***************************************************************************)
(* Plans that are put to the checks.                                       *)
(***************************************************************************)
\* What the three checks and the classifier say of a plan.
PlanVerdict(p) ==
    [auto |-> Check(p.plan, p.conventions),
     approved |-> CheckApproved(p.plan, p.conventions),
     proposal |-> CheckForApprovalHighRisk(p.plan, p.conventions),
     kind |-> ClassifyProposalKind(p.plan)]

PlanInv == request.kind = "plan" => request.subject \in Plans /\ verdict = PlanVerdict(request.subject)

\* Once a plan was asked about, the verdict is that of its checks.
LEMMA PlanInvariant == Spec => []PlanInv
<1>1. Init => PlanInv
  BY DEF Init, Nothing, PlanInv
<1>2. PlanInv /\ [Next]_vars => PlanInv'
  <2> SUFFICES ASSUME PlanInv, [Next]_vars
               PROVE  PlanInv'
    OBVIOUS
  <2>1. CASE FindWindow
    BY <2>1 DEF FindWindow, Ask, PlanInv
  <2>2. CASE LoadSkills
    BY <2>2 DEF LoadSkills, Ask, PlanInv
  <2>3. CASE Organize
    BY <2>3 DEF Organize, Ask, PlanInv
  <2>4. CASE Expand
    BY <2>4 DEF Expand, Ask, PlanInv
  <2>5. CASE CheckPlan
    BY <2>5 DEF CheckPlan, Ask, PlanInv, PlanVerdict
  <2>6. CASE Enrich
    BY <2>6 DEF Enrich, Ask, PlanInv
  <2>7. CASE Forget
    BY <2>7 DEF Forget, Nothing, PlanInv
  <2>8. CASE UNCHANGED vars
    BY <2>8 DEF vars, PlanInv
  <2> QED
    BY <2>1, <2>2, <2>3, <2>4, <2>5, <2>6, <2>7, <2>8 DEF Next
<1> QED
  BY <1>1, <1>2, PTL DEF Spec

\* A path that lies in a directory begins as it does.
LEMMA HomeOfPath ==
    ASSUME NEW name, validateRelativeVaultPath(name), NEW T, NEW dir \in Seq(T), dir # <<>>, hasDirPrefix(name, dir)
    PROVE  Head(PathOf[name].segs) = dir[1]
<1>1. PathOf[name].segs \in Seq(STRING)
  BY PathsAssumption DEF validateRelativeVaultPath
<1>2. Len(dir) \in Nat /\ Len(dir) > 0
  OBVIOUS
<1>3. SubSeq(dir, 1, Len(dir)) = SubSeq(PathOf[name].segs, 1, Len(dir)) /\ Len(dir) <= Len(PathOf[name].segs)
  BY DEF hasDirPrefix, IsPrefix
<1>4. SubSeq(dir, 1, Len(dir))[1] = dir[1] /\ SubSeq(PathOf[name].segs, 1, Len(dir))[1] = PathOf[name].segs[1]
  BY <1>1, <1>2, <1>3
<1> QED
  BY <1>1, <1>3, <1>4

\* The directories of a profile's conventions lie under Raw and Knowledge.
DirNames == {"Raw", "Inbox", "Processed", "Knowledge", "Drafts"}

LEMMA ConventionDirs ==
    ASSUME NEW p \in Plans, NEW f \in {"RawInboxDir", "RawProcessedDir", "KnowledgeDir", "KnowledgeDraftDir"}
    PROVE  LET dir == Normalize(p.conventions)[f]
           IN  dir \in Seq(DirNames) /\ dir # <<>> /\ dir[1] \in {"Raw", "Knowledge"}
<1>1. p.conventions \in {DefaultConventions, KnowledgeVaultConventions}
  BY PlansAssumption DEF ConventionsForProfile
<1>2. p.conventions[f] = DefaultConventions[f] /\ f \in DOMAIN DefaultConventions
  BY <1>1 DEF KnowledgeVaultConventions, DefaultConventions
<1>3. DefaultConventions[f] \in {<<"Raw", "Inbox">>, <<"Raw", "Processed">>, <<"Knowledge">>, <<"Knowledge", "Drafts">>}
  BY DEF DefaultConventions
<1>4. ASSUME NEW dir \in {<<"Raw", "Inbox">>, <<"Raw", "Processed">>, <<"Knowledge">>, <<"Knowledge", "Drafts">>}
      PROVE  dir \in Seq(DirNames) /\ dir # <<>> /\ dir[1] \in {"Raw", "Knowledge"}
  <2>1. CASE dir = <<"Raw", "Inbox">>
    BY <2>1 DEF DirNames
  <2>2. CASE dir = <<"Raw", "Processed">>
    BY <2>2 DEF DirNames
  <2>3. CASE dir = <<"Knowledge">>
    BY <2>3 DEF DirNames
  <2>4. CASE dir = <<"Knowledge", "Drafts">>
    BY <2>4 DEF DirNames
  <2> QED
    BY <2>1, <2>2, <2>3, <2>4
<1>5. p.conventions[f] # <<>>
  BY <1>2, <1>3, <1>4
<1>6. Normalize(p.conventions)[f] = p.conventions[f]
  BY <1>2, <1>5 DEF Normalize
<1> QED
  BY <1>2, <1>3, <1>4, <1>6

\* A path in a directory of the conventions is at home in Raw or Knowledge.
LEMMA HomeOfConventions ==
    ASSUME NEW p \in Plans, NEW f \in {"RawInboxDir", "RawProcessedDir", "KnowledgeDir", "KnowledgeDraftDir"},
           NEW name, validateRelativeVaultPath(name), hasDirPrefix(name, Normalize(p.conventions)[f])
    PROVE  Head(PathOf[name].segs) \in {"Raw", "Knowledge"}
BY ConventionDirs, HomeOfPath

\* What an approved plan does, operation by operation.
LEMMA ApprovedOperation ==
    ASSUME NEW p \in Plans, CheckApproved(p.plan, p.conventions), NEW i \in DOMAIN p.plan.ops
    PROVE  LET op == p.plan.ops[i]
               home(name) == Head(PathOf[name].segs)
           IN  /\ op.target \in p.plan.targets /\ home(op.target) \in {"Raw", "Knowledge"}
               /\ op.type = "create_note" \/ op.hash = "sha256"
               /\ op.type = "move_note" => /\ op.payload.dest \in p.plan.targets
                                           /\ home(op.payload.dest) \in {"Raw", "Knowledge"}
                                           /\ op.payload.dest \in op.payload.refs
<1> DEFINE op == p.plan.ops[i]
           c == Normalize(p.conventions)
<1>1. /\ OperationOk(op, "medium") /\ op.target \in p.plan.targets
      /\ CASE op.type = "create_note" -> /\ hasDirPrefix(op.target, c.KnowledgeDraftDir)
                                         /\ op.payload.ok
                                         /\ validateKnowledgeDraftPayload(op.payload, c)
           [] op.type = "append_note" -> /\ hasDirPrefix(op.target, c.KnowledgeDir)
                                         /\ op.payload.ok /\ op.payload.text
           [] op.type = "move_note" -> MoveOk(p.plan, op, c)
           [] OTHER -> FALSE
  BY DEF CheckApproved, CheckForApproval
<1>2. op.type \in Mutating => op.hash = "sha256"
  BY DEF CheckApproved, validateMutatingBeforeHash
<1>3. validateRelativeVaultPath(op.target)
  BY <1>1 DEF OperationOk
<1> HIDE DEF c, op
<1>4. CASE op.type = "create_note"
  <2>1. hasDirPrefix(op.target, c["KnowledgeDraftDir"])
    BY <1>1, <1>4
  <2> QED
    BY <1>1, <1>3, <1>4, <2>1, HomeOfConventions DEF c, op
<1>5. CASE op.type = "append_note"
  <2>1. hasDirPrefix(op.target, c["KnowledgeDir"])
    BY <1>1, <1>5
  <2> QED
    BY <1>1, <1>2, <1>3, <1>5, <2>1, HomeOfConventions DEF c, op, Mutating
<1>6. CASE op.type = "move_note"
  <2>1. MoveOk(p.plan, op, c)
    BY <1>1, <1>6
  <2>2. /\ hasDirPrefix(op.target, c["RawInboxDir"]) /\ hasDirPrefix(op.payload.dest, c["RawProcessedDir"])
        /\ validateRelativeVaultPath(op.payload.dest) /\ op.payload.dest \in p.plan.targets
        /\ op.payload.dest \in op.payload.refs
    BY <2>1 DEF MoveOk, validateProcessingNote
  <2> QED
    BY <1>1, <1>2, <1>3, <1>6, <2>2, HomeOfConventions DEF c, op, Mutating
<1> QED
  BY <1>1, <1>4, <1>5, <1>6

\* The operations of a plan, counted by their type.
LEMMA CountedOps ==
    ASSUME NEW p \in Plans, NEW type
    PROVE  LET S == {i \in DOMAIN p.plan.ops : p.plan.ops[i].type = type}
           IN  Cardinality(S) \in Nat /\ (Cardinality(S) = 0 <=> S = {})
<1> DEFINE S == {i \in DOMAIN p.plan.ops : p.plan.ops[i].type = type}
<1>1. DOMAIN p.plan.ops = 1..Len(p.plan.ops) /\ Len(p.plan.ops) \in Nat
  BY PlansAssumption
<1>2. IsFiniteSet(1..Len(p.plan.ops)) /\ S \in SUBSET (1..Len(p.plan.ops))
  BY <1>1, FS_Interval
<1> HIDE DEF S
<1>3. IsFiniteSet(S)
  BY <1>2, FS_Subset
<1>4. Cardinality(S) \in Nat /\ (Cardinality(S) = 0 <=> S = {})
  BY <1>3, FS_CardinalityType, FS_EmptySet
<1> QED
  BY <1>4 DEF S

\* A plan that passes as a proposal has a kind.
LEMMA ProposalHasKind ==
    ASSUME NEW p \in Plans, CheckForApprovalHighRisk(p.plan, p.conventions)
    PROVE  ClassifyProposalKind(p.plan) # {}
<1> DEFINE count(type) == Cardinality({i \in DOMAIN p.plan.ops : p.plan.ops[i].type = type})
           renames == count("rename_note")
           retags == count("bulk_retag")
           rewrites == count("bulk_link_rewrite")
<1>1. p.plan.risk = "high" /\ p.plan.ops # <<>>
  BY DEF CheckForApprovalHighRisk, HeadOk
<1>2. 1 \in DOMAIN p.plan.ops
  BY <1>1, PlansAssumption
<1>3. p.plan.ops[1].type \in {"rename_note", "bulk_retag", "bulk_link_rewrite"}
  BY <1>2 DEF CheckForApprovalHighRisk
<1>4. renames \in Nat /\ retags \in Nat /\ rewrites \in Nat
  BY CountedOps
<1>5. renames # 0 \/ retags # 0 \/ rewrites # 0
  BY <1>2, <1>3, CountedOps
<1> HIDE DEF renames, retags, rewrites, count
<1>6. renames + retags + rewrites # 0
  BY <1>4, <1>5
<1>7. ClassifyProposalKind(p.plan) =
        IF p.plan.risk # "high" THEN {}
        ELSE IF p.plan.purpose \in ProposalKinds THEN {p.plan.purpose}
        ELSE IF renames + retags + rewrites = 0 THEN {}
        ELSE IF renames = 0 /\ rewrites = 0 THEN {"bulk_retag"}
        ELSE IF renames = 0 /\ retags = 0 THEN {"bulk_link_rewrite"}
        ELSE IF renames > 1 /\ retags = 0 /\ rewrites = 0 THEN {mergeOrSplitKind(p.plan)}
        ELSE {"rename"}
  BY DEF ClassifyProposalKind, renames, retags, rewrites, count
<1> QED
  BY <1>1, <1>6, <1>7

\* A plan that may be applied touches nothing it does not declare, changes
\* only what it knows by its hash and stays under Raw and Knowledge; none
\* passes two of the checks, and a proposal has a kind (policy/checker.go).
THEOREM PlansStayInside == Spec => []ApprovedStaysInside
<1>1. PlanInv => ApprovedStaysInside
  <2> SUFFICES ASSUME PlanInv, request.kind = "plan"
               PROVE  ApprovedStaysInside
    BY DEF ApprovedStaysInside
  <2> DEFINE p == request.subject
             plan == p.plan
             ops == ToSet(plan.ops)
             touched == UNION {IF op.type = "move_note" THEN {op.target, op.payload.dest} ELSE {op.target} : op \in ops}
             home(name) == Head(PathOf[name].segs)
  <2>1. p \in Plans /\ verdict = PlanVerdict(p)
    BY DEF PlanInv
  <2>2. ASSUME verdict.approved, NEW op \in ops
        PROVE  /\ op.target \in plan.targets /\ home(op.target) \in {"Raw", "Knowledge"}
               /\ op.type = "create_note" \/ op.hash = "sha256"
               /\ op.type = "move_note" => /\ op.payload.dest \in plan.targets
                                           /\ home(op.payload.dest) \in {"Raw", "Knowledge"}
                                           /\ op.payload.dest \in op.payload.refs
    <3>1. PICK i \in DOMAIN plan.ops : op = plan.ops[i]
      BY DEF ToSet
    <3>2. CheckApproved(p.plan, p.conventions)
      BY <2>1, <2>2 DEF PlanVerdict
    <3> QED
      BY <2>1, <3>1, <3>2, ApprovedOperation
  <2>3. Cardinality({a \in {"auto", "approved", "proposal"} : verdict[a]}) <= 1
    <3> DEFINE A == {a \in {"auto", "approved", "proposal"} : verdict[a]}
    <3>1. /\ verdict["auto"] => plan.risk = "low"
          /\ verdict["approved"] => plan.risk = "medium"
          /\ verdict["proposal"] => plan.risk = "high"
      BY <2>1 DEF PlanVerdict, Check, CheckApproved, CheckForApproval, CheckForApprovalHighRisk, HeadOk
    <3>2. A \in {{}, {"auto"}, {"approved"}, {"proposal"}}
      BY <3>1
    <3> HIDE DEF A
    <3>3. Cardinality(A) \in {0, 1}
      BY <3>2, FS_EmptySet, FS_Singleton
    <3>4. Cardinality(A) <= 1
      BY <3>3
    <3> QED
      BY <3>4 DEF A
  <2>4. verdict.proposal => verdict.kind # {}
    BY <2>1, ProposalHasKind DEF PlanVerdict
  <2> QED
    BY <2>2, <2>3, <2>4 DEF ApprovedStaysInside
<1> QED
  BY <1>1, PlanInvariant, PTL

-----------------------------------------------------------------------------
(***************************************************************************)
(* Windows of a cron expression.                                           *)
(***************************************************************************)
\* A finite set of integers has a least one.
LEMMA LeastOf ==
    ASSUME NEW T \in SUBSET Int, IsFiniteSet(T), T # {}
    PROVE  \E k \in T : \A j \in T : k <= j
<1> DEFINE below(t) == {u \in T : u <= t}
           F == {below(t) : t \in T}
<1>1. F \subseteq FiniteSubsetsOf(T) /\ F # {}
  <2>1. ASSUME NEW t \in T
        PROVE  below(t) \in SUBSET T /\ IsFiniteSet(below(t))
    BY FS_Subset
  <2> QED
    BY <2>1 DEF FiniteSubsetsOf
<1>2. \E x \in F : \A y \in F : ~ (<<y, x>> \in StrictSubsetOrdering(T))
  BY <1>1, FS_StrictSubsetOrderingWellFounded, WFMin
<1>3. PICK k \in T : \A y \in F : ~ (<<y, below(k)>> \in StrictSubsetOrdering(T))
  BY <1>2
<1>4. ASSUME NEW j \in T, j < k
      PROVE  FALSE
  <2>1. <<below(j), below(k)>> \in StrictSubsetOrdering(T)
    <3>1. below(j) \in SUBSET T /\ below(k) \in SUBSET T
      OBVIOUS
    <3>2. ASSUME NEW u \in below(j)
          PROVE  u \in below(k)
      <4>1. u \in Int /\ j \in Int /\ k \in Int /\ u <= j
        OBVIOUS
      <4> QED
        BY <1>4, <4>1
    <3>3. k \in below(k) /\ k \notin below(j)
      BY <1>4
    <3> QED
      BY <3>1, <3>2, <3>3 DEF StrictSubsetOrdering
  <2> QED
    BY <1>3, <2>1
<1> QED
  BY <1>4

\* Whole days on the clock.
LEMMA WholeDays ==
    ASSUME NEW d \in Int
    PROVE  (d * MinutesPerDay) \div MinutesPerDay = d /\ (d * MinutesPerDay) % MinutesPerDay = 0
<1>1. MinutesPerDay \in Nat \ {0}
  BY CronAssumption DEF MinutesPerDay
<1> QED
  BY <1>1

\* What day it is while a search goes on.
LEMMA DayIsNumber ==
    ASSUME NEW zone, NEW start, DaysInOrder(zone, start),
           NEW t \in start..AddDays(zone, start, Horizon)
    PROVE  t \in Int /\ Day(zone, t) \in Int
<1>1. MinutesPerDay \in Nat \ {0}
  BY CronAssumption DEF MinutesPerDay
<1>2. t \in Int /\ zone[t] \in Int
  BY DEF DaysInOrder
<1> QED
  BY <1>1, <1>2 DEF Day, Local

\* The search over days visits the midnights of one day after the other.
LEMMA ScanVisitsMidnights ==
    ASSUME NEW zone, NEW start, DaysInOrder(zone, start)
    PROVE  \A n \in 0..(Horizon + 1) :
              ScanDay(zone, start)[n] = Date(zone, Day(zone, start) + n, 0)
<1> DEFINE d0 == Day(zone, start)
           midnight(n) == Date(zone, d0 + n, 0)
           day == ScanDay(zone, start)
           N == 0..(Horizon + 1)
<1>1. Horizon \in Nat
  BY CronAssumption
<1>2. d0 \in Int
  BY DayIsNumber DEF DaysInOrder
<1>3. ASSUME NEW n \in N
      PROVE  AddDays(zone, midnight(n), 1) = midnight(n + 1)
  <2>1. Local(zone, midnight(n)) = (d0 + n) * MinutesPerDay
    BY <1>1, <1>2 DEF DaysInOrder, MidnightIsShown
  <2>2. Day(zone, midnight(n)) = d0 + n /\ Local(zone, midnight(n)) % MinutesPerDay = 0
    BY <1>1, <1>2, <2>1, WholeDays DEF Day
  <2>3. d0 + n + 1 = d0 + (n + 1)
    BY <1>1, <1>2
  <2> QED
    BY <2>2, <2>3 DEF AddDays
<1>4. day = [n \in N |-> IF n = 0 THEN Date(zone, d0, 0) ELSE AddDays(zone, day[n - 1], 1)]
  <2> DEFINE g == [n \in N |-> midnight(n)]
  <2>1. ASSUME NEW n \in N
        PROVE  midnight(n) = IF n = 0 THEN Date(zone, d0, 0) ELSE AddDays(zone, g[n - 1], 1)
    <3>1. CASE n = 0
      BY <1>2, <3>1
    <3>2. CASE n # 0
      <4>1. n - 1 \in N /\ (n - 1) + 1 = n
        BY <1>1, <3>2
      <4>2. AddDays(zone, midnight(n - 1), 1) = midnight((n - 1) + 1)
        BY <1>3, <4>1
      <4> QED
        BY <3>2, <4>1, <4>2
    <3> QED
      BY <3>1, <3>2
  <2>2. g = [n \in N |-> IF n = 0 THEN Date(zone, d0, 0) ELSE AddDays(zone, g[n - 1], 1)]
    BY <2>1
  <2> QED
    BY <2>2 DEF ScanDay
<1> DEFINE Bad == {n \in N : day[n] # midnight(n)}
<1>5. Bad = {}
  <2> SUFFICES ASSUME Bad # {}
               PROVE  FALSE
    OBVIOUS
  <2>1. Bad \in SUBSET Int /\ IsFiniteSet(Bad)
    <3>1. IsFiniteSet(N) /\ Bad \in SUBSET N /\ N \in SUBSET Int
      BY <1>1, FS_Interval
    <3> HIDE DEF Bad, N
    <3> QED
      BY <3>1, FS_Subset
  <2>2. PICK n \in Bad : \A m \in Bad : n <= m
    BY <2>1, LeastOf
  <2>3. CASE n = 0
    BY <1>2, <1>4, <2>3
  <2>4. CASE n # 0
    <3>1. n \in N /\ n - 1 \in N /\ (n - 1) + 1 = n /\ ~(n <= n - 1)
      BY <1>1, <2>4
    <3>2. day[n - 1] = midnight(n - 1)
      BY <2>2, <3>1
    <3>3. day[n] = AddDays(zone, day[n - 1], 1)
      BY <1>4, <2>4, <3>1
    <3>4. AddDays(zone, midnight(n - 1), 1) = midnight((n - 1) + 1)
      BY <1>3, <3>1
    <3> QED
      BY <3>1, <3>2, <3>3, <3>4
  <2> QED
    BY <2>3, <2>4
<1> QED
  BY <1>5

\* The candidates of a day are the minutes of the search that fall on it.
LEMMA CandidatesOfDay ==
    ASSUME NEW zone, NEW start, DaysInOrder(zone, start), NEW n \in 0..(Horizon + 1)
    PROVE  LET day == ScanDay(zone, start)
               deadline == AddDays(zone, start, Horizon)
           IN  /\ Day(zone, day[n]) = Day(zone, start) + n
               /\ Candidates(zone, IF day[n] = day[0] THEN start ELSE day[n], Day(zone, day[n]), deadline)
                     = {t \in start..deadline : Day(zone, t) = Day(zone, start) + n}
               /\ \A t \in start..deadline : t >= day[n] <=> Day(zone, t) >= Day(zone, start) + n
               /\ day[n] \in Int
<1> DEFINE d0 == Day(zone, start)
           deadline == AddDays(zone, start, Horizon)
           midnight(k) == Date(zone, d0 + k, 0)
           day == ScanDay(zone, start)
           from == IF day[n] = day[0] THEN start ELSE day[n]
<1>1. Horizon \in Nat /\ start \in Int /\ deadline \in Int /\ start <= deadline /\ start \in start..deadline
  BY CronAssumption DEF DaysInOrder
<1>2. \A t \in start..deadline : t \in Int /\ Day(zone, t) \in Int
  BY DayIsNumber
<1>3. d0 \in Int
  BY <1>1, <1>2
<1>4. ASSUME NEW k \in 0..(Horizon + 2)
      PROVE  /\ midnight(k) \in Int /\ Local(zone, midnight(k)) = (d0 + k) * MinutesPerDay
             /\ \A t \in start..deadline : t >= midnight(k) <=> Day(zone, t) >= d0 + k
  <2>1. d0 + k \in d0..(d0 + Horizon + 2)
    BY <1>1, <1>3
  <2>2. MidnightIsShown(zone, d0 + k, start, deadline)
    BY <2>1 DEF DaysInOrder
  <2> QED
    BY <2>2 DEF MidnightIsShown
<1>5. \A k \in 0..(Horizon + 1) : day[k] = midnight(k)
  BY ScanVisitsMidnights
<1>6. ASSUME NEW k \in 0..(Horizon + 1)
      PROVE  Day(zone, midnight(k)) = d0 + k
  <2>1. Local(zone, midnight(k)) = (d0 + k) * MinutesPerDay
    BY <1>1, <1>4
  <2> QED
    BY <1>1, <1>3, <2>1, WholeDays DEF Day
<1> HIDE DEF midnight, day, deadline, d0
<1>7. n \in 0..(Horizon + 2) /\ n + 1 \in 0..(Horizon + 2) /\ 0 \in 0..(Horizon + 1) /\ 0 \in 0..(Horizon + 2)
  BY <1>1
<1>8. from \in Int /\ start <= from /\ midnight(n) <= from
      /\ \A t \in start..deadline : t >= midnight(n) => t >= from
  <2>1. midnight(n) \in Int /\ midnight(0) \in Int
    BY <1>4, <1>7
  <2>2. CASE n = 0
    <3>1. from = start
      BY <2>2
    <3>2. start >= midnight(0)
      BY <1>1, <1>3, <1>4, <1>7 DEF d0
    <3> QED
      BY <1>1, <2>1, <2>2, <3>1, <3>2
  <2>3. CASE n # 0
    <3>1. midnight(n) # midnight(0)
      BY <1>3, <1>6, <1>7, <2>3
    <3>2. from = midnight(n)
      BY <1>5, <1>7, <3>1
    <3>3. ~(start >= midnight(n))
      BY <1>1, <1>3, <1>4, <1>7, <2>3 DEF d0
    <3> QED
      BY <1>1, <2>1, <3>2, <3>3
  <2> QED
    BY <2>2, <2>3
<1>9. ASSUME NEW t \in start..deadline
      PROVE  (t \in from..deadline /\ \A u \in from..t : Day(zone, u) = d0 + n) <=> Day(zone, t) = d0 + n
  <2>1. ASSUME t \in from..deadline, \A u \in from..t : Day(zone, u) = d0 + n
        PROVE  Day(zone, t) = d0 + n
    BY <1>8, <2>1
  <2>2. ASSUME Day(zone, t) = d0 + n
        PROVE  t \in from..deadline /\ \A u \in from..t : Day(zone, u) = d0 + n
    <3>1. t >= midnight(n)
      BY <1>2, <1>3, <1>4, <1>7, <2>2
    <3>2. t \in from..deadline
      BY <1>1, <1>8, <3>1
    <3>3. ASSUME NEW u \in from..t
          PROVE  Day(zone, u) = d0 + n
      <4>1. u \in start..deadline /\ u >= midnight(n)
        BY <1>1, <1>4, <1>7, <1>8, <3>2
      <4>2. Day(zone, u) >= d0 + n
        BY <1>4, <1>7, <4>1
      <4>3. ~(t >= midnight(n + 1))
        BY <1>3, <1>4, <1>7, <2>2
      <4>4. ~(u >= midnight(n + 1))
        BY <1>1, <1>4, <1>7, <1>8, <4>3
      <4>5. ~(Day(zone, u) >= d0 + (n + 1))
        BY <1>4, <1>7, <4>1, <4>4
      <4> QED
        BY <1>2, <1>3, <4>1, <4>2, <4>5
    <3> QED
      BY <3>2, <3>3
  <2> QED
    BY <2>1, <2>2
<1>10. Candidates(zone, from, d0 + n, deadline) = {t \in start..deadline : Day(zone, t) = d0 + n}
  <2>1. \A t \in from..deadline : t \in start..deadline
    BY <1>1, <1>8
  <2> QED
    BY <1>9, <2>1 DEF Candidates
<1>11. Day(zone, day[n]) = d0 + n
  BY <1>5, <1>6
<1>12. \A t \in start..deadline : t >= day[n] <=> Day(zone, t) >= d0 + n
  BY <1>4, <1>5, <1>7
<1>13. day[n] \in Int
  BY <1>4, <1>5, <1>7
<1> QED
  BY <1>10, <1>11, <1>12, <1>13 DEF d0, day, deadline

\* While a search goes on it meets no day but those it looks at.
LEMMA DaysOfSearch ==
    ASSUME NEW zone, NEW start, DaysInOrder(zone, start),
           NEW t \in start..AddDays(zone, start, Horizon)
    PROVE  \E n \in 0..(Horizon + 1) : Day(zone, t) = Day(zone, start) + n
<1> DEFINE d0 == Day(zone, start)
           deadline == AddDays(zone, start, Horizon)
           last == d0 + Horizon + 2
<1>1. Horizon \in Nat /\ start \in Int /\ deadline \in Int /\ start \in start..deadline /\ deadline \in start..deadline
  BY CronAssumption DEF DaysInOrder
<1>2. d0 \in Int /\ Day(zone, t) \in Int /\ Day(zone, deadline) \in Int
  BY <1>1, DayIsNumber
<1>3. d0 \in d0..last /\ last \in d0..last
  BY <1>1, <1>2
<1>4. MidnightIsShown(zone, d0, start, deadline) /\ MidnightIsShown(zone, last, start, deadline)
  BY <1>3 DEF DaysInOrder
<1> HIDE DEF d0, deadline
<1>5. Day(zone, t) >= d0
  <2>1. Date(zone, d0, 0) \in Int /\ start >= Date(zone, d0, 0)
    BY <1>1, <1>2, <1>4 DEF MidnightIsShown, d0
  <2>2. t >= Date(zone, d0, 0)
    BY <1>1, <2>1 DEF deadline
  <2> QED
    BY <1>4, <2>2 DEF MidnightIsShown, deadline
<1>6. ~(Day(zone, t) >= last)
  <2>1. Day(zone, deadline) <= d0 + Horizon + 1
    BY DEF DaysInOrder, d0, deadline
  <2>2. Date(zone, last, 0) \in Int /\ ~(deadline >= Date(zone, last, 0))
    BY <1>1, <1>2, <1>4, <2>1 DEF MidnightIsShown
  <2>3. ~(t >= Date(zone, last, 0))
    BY <1>1, <2>2 DEF deadline
  <2> QED
    BY <1>4, <2>3 DEF MidnightIsShown, deadline
<1>7. Day(zone, t) - d0 \in 0..(Horizon + 1) /\ Day(zone, t) = d0 + (Day(zone, t) - d0)
  BY <1>1, <1>2, <1>5, <1>6
<1> QED
  BY <1>7 DEF d0

\* The search by days finds the least later minute that matches, or none
\* when there is none.
LEMMA SearchIsComplete ==
    ASSUME NEW c, NEW zone, NEW after \in Int, DaysInOrder(zone, after + 1)
    PROVE  NextAfter(c, zone, after) = FirstMatch(c, zone, after)
<1> DEFINE start == after + 1
           deadline == AddDays(zone, start, Horizon)
           d0 == Day(zone, start)
           day == ScanDay(zone, start)
           from(n) == IF day[n] = day[0] THEN start ELSE day[n]
           found(n) == {t \in Candidates(zone, from(n), Day(zone, day[n]), deadline) : TimeMatches(c, zone, t)}
           N == 0..(Horizon + 1)
           hits == {n \in N : /\ day[n] <= deadline /\ DayMatches(c, Day(zone, day[n])) /\ found(n) # {}}
           later == {t \in start..deadline : Matches(c, zone, t)}
<1>1. Horizon \in Nat /\ start \in Int /\ deadline \in Int
  BY CronAssumption DEF DaysInOrder
<1>2. \A t \in start..deadline : t \in Int /\ Day(zone, t) \in Int
  BY DayIsNumber
<1>3. ASSUME NEW n \in N
      PROVE  /\ Day(zone, day[n]) = d0 + n
             /\ found(n) = {t \in start..deadline : Day(zone, t) = d0 + n /\ TimeMatches(c, zone, t)}
             /\ \A t \in start..deadline : t >= day[n] <=> Day(zone, t) >= d0 + n
             /\ day[n] \in Int
  BY CandidatesOfDay
<1>4. ASSUME NEW t \in start..deadline
      PROVE  \E n \in N : Day(zone, t) = d0 + n
  BY DaysOfSearch
<1> HIDE DEF start, deadline, d0, day, from, found
<1>5. d0 \in Int
  <2>1. start \in start..deadline
    BY <1>1 DEF start, deadline, DaysInOrder
  <2> QED
    BY <1>2, <2>1 DEF d0
<1>6. ASSUME NEW t \in later
      PROVE  \E n \in hits : t \in found(n) /\ Day(zone, t) = d0 + n
  <2>1. t \in start..deadline /\ TimeMatches(c, zone, t) /\ DayMatches(c, Day(zone, t))
    BY DEF Matches
  <2>2. PICK n \in N : Day(zone, t) = d0 + n
    BY <1>4, <2>1
  <2>3. t \in found(n) /\ Day(zone, day[n]) = Day(zone, t)
    BY <1>3, <2>1, <2>2
  <2>4. t >= day[n]
    BY <1>2, <1>3, <1>5, <2>1, <2>2
  <2>5. day[n] <= deadline
    BY <1>1, <1>2, <1>3, <2>1, <2>4
  <2> QED
    BY <2>1, <2>2, <2>3, <2>5
<1>7. ASSUME NEW n \in hits, NEW t \in found(n)
      PROVE  t \in later /\ Day(zone, t) = d0 + n
  BY <1>3 DEF Matches
<1>8. CASE later = {}
  <2>1. hits = {}
    BY <1>7, <1>8
  <2>2. NextAfter(c, zone, after) = None
    BY <2>1 DEF NextAfter, start, deadline, day, from, found
  <2> QED
    BY <1>8, <2>2 DEF FirstMatch, start, deadline
<1>9. CASE later # {}
  <2>1. hits # {} /\ hits \in SUBSET Int /\ IsFiniteSet(hits)
    <3>1. hits # {} /\ hits \in SUBSET N /\ N \in SUBSET Int
      BY <1>1, <1>6, <1>9
    <3>2. IsFiniteSet(N)
      BY <1>1, FS_Interval
    <3> HIDE DEF hits, N
    <3> QED
      BY <3>1, <3>2, FS_Subset
  <2>2. PICK m \in hits : \A k \in hits : m <= k
    BY <2>1, LeastOf
  <2> DEFINE n == CHOOSE n \in hits : \A k \in hits : n <= k
             first == CHOOSE t \in found(n) : \A u \in found(n) : t <= u
  <2>3. n \in hits /\ \A k \in hits : n <= k
    BY <2>2
  <2>4. NextAfter(c, zone, after) = first
    BY <2>1 DEF NextAfter, start, deadline, day, from, found
  <2>5. FirstMatch(c, zone, after) = CHOOSE t \in later : \A u \in later : t <= u
    BY <1>9 DEF FirstMatch, start, deadline
  <2> HIDE DEF n
  <2>6. found(n) # {} /\ found(n) \in SUBSET Int /\ IsFiniteSet(found(n))
    <3>1. found(n) # {} /\ found(n) \in SUBSET (start..deadline)
      BY <1>3, <2>3
    <3>2. IsFiniteSet(start..deadline) /\ start..deadline \in SUBSET Int
      BY <1>1, FS_Interval
    <3> QED
      BY <3>1, <3>2, FS_Subset
  <2>7. PICK s \in found(n) : \A u \in found(n) : s <= u
    BY <2>6, LeastOf
  <2>8. first \in found(n) /\ \A u \in found(n) : first <= u
    BY <2>7
  <2> HIDE DEF first
  <2>9. first \in later /\ first \in Int /\ first \in start..deadline /\ Day(zone, first) = d0 + n
    BY <1>2, <1>7, <2>3, <2>8
  <2>10. ASSUME NEW u \in later
         PROVE  first <= u
    <3>1. PICK k \in hits : u \in found(k) /\ Day(zone, u) = d0 + k
      BY <1>6
    <3>2. CASE k = n
      BY <2>8, <3>1, <3>2
    <3>3. CASE k # n
      <4>1. n \in Int /\ k \in Int /\ n < k
        BY <2>1, <2>3, <3>3
      <4>2. ~(first >= day[k])
        BY <1>3, <1>5, <2>9, <4>1
      <4>3. u >= day[k] /\ u \in Int
        BY <1>2, <1>3, <1>5, <3>1, <4>1
      <4>4. day[k] \in Int
        BY <1>3
      <4> QED
        BY <2>9, <4>2, <4>3, <4>4
    <3> QED
      BY <3>2, <3>3
  <2>11. ASSUME NEW t \in later, \A u \in later : t <= u
         PROVE  t = first
    <3>1. t <= first /\ first <= t /\ t \in Int /\ first \in Int
      BY <1>2, <2>9, <2>10, <2>11
    <3> QED
      BY <3>1
  <2> QED
    BY <2>4, <2>5, <2>9, <2>10, <2>11
<1> QED
  BY <1>8, <1>9

\* What the search says of a window.
WindowVerdict(w) ==
    LET c == ParseCron(w.expr)
    IN  IF ~c.ok THEN {}
        ELSE {[current |-> CurrentWindow(c, w.zone, w.at), next |-> NextAfter(c, w.zone, w.at)]}

WindowInv == request.kind = "window" => request.subject \in Windows /\ verdict = WindowVerdict(request.subject)

\* Once a window was asked for, the verdict is that of the search.
LEMMA WindowInvariant == Spec => []WindowInv
<1>1. Init => WindowInv
  BY DEF Init, Nothing, WindowInv
<1>2. WindowInv /\ [Next]_vars => WindowInv'
  <2> SUFFICES ASSUME WindowInv, [Next]_vars
               PROVE  WindowInv'
    OBVIOUS
  <2>1. CASE FindWindow
    BY <2>1 DEF FindWindow, Ask, WindowInv, WindowVerdict
  <2>2. CASE LoadSkills
    BY <2>2 DEF LoadSkills, Ask, WindowInv
  <2>3. CASE Organize
    BY <2>3 DEF Organize, Ask, WindowInv
  <2>4. CASE Expand
    BY <2>4 DEF Expand, Ask, WindowInv
  <2>5. CASE CheckPlan
    BY <2>5 DEF CheckPlan, Ask, WindowInv
  <2>6. CASE Enrich
    BY <2>6 DEF Enrich, Ask, WindowInv
  <2>7. CASE Forget
    BY <2>7 DEF Forget, Nothing, WindowInv
  <2>8. CASE UNCHANGED vars
    BY <2>8 DEF vars, WindowInv
  <2> QED
    BY <2>1, <2>2, <2>3, <2>4, <2>5, <2>6, <2>7, <2>8 DEF Next
<1> QED
  BY <1>1, <1>2, PTL DEF Spec

\* Where the clocks are not moved over midnight, the search by days finds what
\* a search minute by minute would, and a window is current exactly if the
\* search from the minute before stops at it (scheduler/cron.go).
THEOREM WindowsAreFound ==
    ASSUME \A w \in Windows : w.at \in Nat /\ DaysInOrder(w.zone, w.at) /\ DaysInOrder(w.zone, w.at + 1)
    PROVE  Spec => []CronIsFirstMatch
<1>1. WindowInv => CronIsFirstMatch
  <2> SUFFICES ASSUME WindowInv, request.kind = "window",
                      NEW answer \in verdict
               PROVE  LET w == request.subject
                          c == ParseCron(w.expr)
                      IN  /\ answer.next = FirstMatch(c, w.zone, w.at)
                          /\ (answer.current = w.at) <=> (NextAfter(c, w.zone, w.at - 1) = w.at)
    BY DEF CronIsFirstMatch
  <2> DEFINE w == request.subject
             c == ParseCron(w.expr)
             deadline == AddDays(w.zone, w.at, Horizon)
             later == {t \in w.at..deadline : Matches(c, w.zone, t)}
  <2>1. /\ answer.current = CurrentWindow(c, w.zone, w.at)
        /\ answer.next = NextAfter(c, w.zone, w.at)
    BY DEF WindowInv, WindowVerdict
  <2>2. w.at \in Nat /\ w.at - 1 \in Int /\ (w.at - 1) + 1 = w.at
        /\ DaysInOrder(w.zone, w.at) /\ DaysInOrder(w.zone, w.at + 1)
    BY DEF WindowInv
  <2>3. answer.next = FirstMatch(c, w.zone, w.at)
    BY <2>1, <2>2, SearchIsComplete
  <2>4. NextAfter(c, w.zone, w.at - 1) = IF later = {} THEN None ELSE CHOOSE t \in later : \A u \in later : t <= u
    <3>1. NextAfter(c, w.zone, w.at - 1) = FirstMatch(c, w.zone, w.at - 1)
      BY <2>2, SearchIsComplete
    <3> QED
      BY <2>2, <3>1 DEF FirstMatch
  <2>5. w.at \in w.at..deadline /\ \A t \in w.at..deadline : t \in Int /\ w.at <= t
    BY <2>2 DEF DaysInOrder
  <2>6. None # w.at
    BY <2>2 DEF None
  <2> HIDE DEF w, c, deadline
  <2>7. CASE Matches(c, w.zone, w.at)
    <3>1. w.at \in later /\ \A u \in later : w.at <= u
      BY <2>5, <2>7
    <3>2. ASSUME NEW t \in later, \A u \in later : t <= u
          PROVE  t = w.at
      <4>1. t <= w.at /\ w.at <= t /\ t \in Int /\ w.at \in Int
        BY <2>5, <3>1, <3>2
      <4> QED
        BY <4>1
    <3>3. (CHOOSE t \in later : \A u \in later : t <= u) = w.at
      BY <3>1, <3>2
    <3> QED
      BY <2>1, <2>3, <2>4, <2>7, <3>1, <3>3 DEF CurrentWindow, w, c
  <2>8. CASE ~Matches(c, w.zone, w.at)
    <3>1. w.at \notin later
      BY <2>8
    <3>2. later # {} => (CHOOSE t \in later : \A u \in later : t <= u) \in later
      <4>1. deadline \in Int /\ w.at \in Int
        BY <2>2 DEF DaysInOrder, deadline
      <4>2. IsFiniteSet(w.at..deadline) /\ w.at..deadline \in SUBSET Int /\ later \in SUBSET (w.at..deadline)
        BY <4>1, FS_Interval
      <4> HIDE DEF later
      <4>3. IsFiniteSet(later) /\ later \in SUBSET Int
        BY <4>2, FS_Subset
      <4> QED
        BY <4>3, LeastOf
    <3> QED
      BY <2>1, <2>3, <2>4, <2>6, <2>8, <3>1, <3>2 DEF CurrentWindow, w, c
  <2> QED
    BY <2>7, <2>8
<1> QED
  BY <1>1, WindowInvariant, PTL

-----------------------------------------------------------------------------
(***************************************************************************)
(* Skills: their paths, their budgets, their registry.                     *)
(***************************************************************************)
\* The elements of an initial part of a set of indices are counted one by one.
LEMMA Counted ==
    ASSUME NEW n \in Nat, NEW kept \in SUBSET (1..n)
    PROVE  /\ IsFiniteSet(kept) /\ Cardinality(kept) \in Nat
           /\ \A i \in 0..n : Cardinality(kept \cap 1..i) \in Nat
           /\ Cardinality(kept \cap 1..0) = 0 /\ Cardinality(kept \cap 1..n) = Cardinality(kept)
           /\ \A i \in 1..n : Cardinality(kept \cap 1..i) =
                 Cardinality(kept \cap 1..(i - 1)) + (IF i \in kept THEN 1 ELSE 0)
<1>1. IsFiniteSet(1..n)
  BY FS_Interval
<1>2. IsFiniteSet(kept)
  BY <1>1, FS_Subset
<1>3. \A i : IsFiniteSet(kept \cap 1..i)
  BY <1>2, FS_Intersection
<1>4. Cardinality(kept) \in Nat /\ \A i \in 0..n : Cardinality(kept \cap 1..i) \in Nat
  BY <1>2, <1>3, FS_CardinalityType
<1>5. kept \cap 1..0 = {} /\ kept \cap 1..n = kept
  <2>1. ASSUME NEW x
        PROVE  x \in kept => x \in 1..n /\ x \notin 1..0
    OBVIOUS
  <2> QED
    BY <2>1
<1>6. ASSUME NEW i \in 1..n
      PROVE  Cardinality(kept \cap 1..i) = Cardinality(kept \cap 1..(i - 1)) + (IF i \in kept THEN 1 ELSE 0)
  <2> DEFINE A == kept \cap 1..(i - 1)
             B == kept \cap 1..i
  <2>1. IsFiniteSet(A) /\ Cardinality(A) \in Nat /\ i \notin A
    BY <1>3, <1>4
  <2>2. CASE i \in kept
    <3>1. B = A \cup {i}
      BY <2>2
    <3>2. Cardinality(A \cup {i}) = Cardinality(A) + 1
      BY <2>1, FS_AddElement
    <3> QED
      BY <2>2, <3>1, <3>2
  <2>3. CASE i \notin kept
    <3>1. B = A
      BY <2>3
    <3> HIDE DEF A, B
    <3>2. Cardinality(B) = Cardinality(A) + 0
      BY <2>1, <3>1
    <3> QED
      BY <2>3, <3>2 DEF A, B
  <2> QED
    BY <2>2, <2>3
<1> QED
  BY <1>2, <1>4, <1>5, <1>6, FS_EmptySet

\* The k-th of a set of indices is there, and is one of them.
LEMMA NthIndex ==
    ASSUME NEW n \in Nat, NEW kept \in SUBSET (1..n), NEW k \in 1..Cardinality(kept)
    PROVE  \E i \in kept : Cardinality(kept \cap 1..i) = k
<1> DEFINE count(i) == Cardinality(kept \cap 1..i)
           enough == {i \in 0..n : count(i) >= k}
<1>1. /\ \A i \in 0..n : count(i) \in Nat
      /\ count(0) = 0 /\ count(n) = Cardinality(kept) /\ Cardinality(kept) \in Nat
      /\ \A i \in 1..n : count(i) = count(i - 1) + (IF i \in kept THEN 1 ELSE 0)
  BY Counted
<1> HIDE DEF count
<1>2. enough # {} /\ enough \in SUBSET Int /\ IsFiniteSet(enough)
  <2>1. n \in enough /\ enough \in SUBSET (0..n) /\ 0..n \in SUBSET Int
    BY <1>1
  <2>2. IsFiniteSet(0..n)
    BY FS_Interval
  <2> HIDE DEF enough
  <2> QED
    BY <2>1, <2>2, FS_Subset
<1>3. PICK i \in enough : \A j \in enough : i <= j
  BY <1>2, LeastOf
<1>4. i # 0
  BY <1>1
<1>5. i \in 1..n /\ i - 1 \in 0..n /\ i - 1 \notin enough
  BY <1>3, <1>4
<1>6. i \in kept /\ count(i) = k
  BY <1>1, <1>5
<1> QED
  BY <1>6 DEF count

\* What is left of a sequence without its dots.
LEMMA DotsGone ==
    ASSUME NEW S, NEW segs \in Seq(S)
    PROVE  LET n == Len(withoutDots(segs))
           IN  /\ withoutDots(segs) \in Seq(S)
               /\ \A k \in DOMAIN withoutDots(segs) : withoutDots(segs)[k] # "."
               /\ ToSet(withoutDots(segs)) \subseteq ToSet(segs)
<1> DEFINE kept == {i \in DOMAIN segs : segs[i] # "."}
           len == Cardinality(kept)
           nth(k) == CHOOSE i \in kept : Cardinality(kept \cap 1..i) = k
           clean == [k \in 1..len |-> segs[nth(k)]]
<1>1. DOMAIN segs = 1..Len(segs) /\ Len(segs) \in Nat /\ \A i \in DOMAIN segs : segs[i] \in S
  OBVIOUS
<1>2. kept \in SUBSET (1..Len(segs))
  BY <1>1
<1>3. len \in Nat
  BY <1>1, <1>2, Counted
<1>4. ASSUME NEW k \in 1..len
      PROVE  nth(k) \in kept
  BY <1>1, <1>2, NthIndex
<1>5. withoutDots(segs) = clean
  BY DEF withoutDots
<1> HIDE DEF nth, len
<1>6. clean \in Seq(S) /\ DOMAIN clean = 1..len
  BY <1>1, <1>3, <1>4
<1> QED
  BY <1>4, <1>5, <1>6 DEF ToSet

\* A sequence that has no dots stays as it is.
LEMMA DotFree ==
    ASSUME NEW S, NEW segs \in Seq(S), \A k \in DOMAIN segs : segs[k] # "."
    PROVE  withoutDots(segs) = segs
<1> DEFINE n == Len(segs)
           kept == {i \in DOMAIN segs : segs[i] # "."}
<1>1. n \in Nat /\ kept = 1..n /\ segs = [k \in 1..n |-> segs[k]]
  OBVIOUS
<1>2. ASSUME NEW i \in kept
      PROVE  Cardinality(kept \cap 1..i) = i
  <2>1. kept \cap 1..i = 1..i
    BY <1>1
  <2>2. Cardinality(1..i) = i
    BY <1>1, FS_Interval
  <2> QED
    BY <2>1, <2>2
<1>3. Cardinality(kept) = n
  <2>1. Cardinality(1..n) = n
    BY <1>1, FS_Interval
  <2> QED
    BY <1>1, <2>1
<1> HIDE DEF n, kept
<1>4. ASSUME NEW k \in 1..n
      PROVE  (CHOOSE i \in kept : Cardinality(kept \cap 1..i) = k) = k
  BY <1>1, <1>2
<1>5. withoutDots(segs) = [k \in 1..Cardinality(kept) |-> segs[CHOOSE i \in kept : Cardinality(kept \cap 1..i) = k]]
  BY DEF withoutDots, kept
<1> QED
  BY <1>1, <1>3, <1>4, <1>5

\* A pattern is cleaned by leaving out its dots.
LEMMA CleanedPattern ==
    ASSUME NEW path, NEW p \in CleanRelativePattern(path)
    PROVE  /\ ".." \notin ToSet(path.segs)
           /\ p = withoutDots(path.segs) \/ (p = <<".">> /\ withoutDots(path.segs) = <<>>)
BY DEF CleanRelativePattern

\* A path of a scope, once normalized, is what cleaning makes of it; it has no
\* parent directories and no wildcards.
LEMMA NormalizedPath ==
    ASSUME NEW names \in SUBSET DOMAIN PathOf, NEW path \in normalizeScopeList(names), NEW p \in cleanRelativePath(path)
    PROVE  /\ p = path.segs /\ ToSet(path.segs) \cap {"..", "*"} = {}
           /\ \E T : path.segs \in Seq(T)
<1>1. p \in CleanRelativePattern(path) /\ "*" \notin ToSet(p)
  BY DEF cleanRelativePath
<1>2. PICK n \in names : path = IF CleanRelativePattern(PathOf[n]) = {} THEN PathOf[n]
                                ELSE [PathOf[n] EXCEPT !.segs = CHOOSE s \in CleanRelativePattern(PathOf[n]) : TRUE]
  BY DEF normalizeScopeList
<1>3. PathOf[n] \in [abs : BOOLEAN, segs : Seq(STRING)]
  BY PathsAssumption
<1>4. PICK s \in CleanRelativePattern(PathOf[n]) : path = [PathOf[n] EXCEPT !.segs = s]
  BY <1>1, <1>2
<1>5. path.segs = s
  BY <1>3, <1>4
<1>6. p = s /\ \E T : s \in Seq(T)
  <2> DEFINE clean == withoutDots(PathOf[n].segs)
  <2>1. clean \in Seq(STRING) /\ \A k \in DOMAIN clean : clean[k] # "."
    BY <1>3, DotsGone
  <2>2. CASE s = clean
    <3>1. withoutDots(s) = s
      BY <2>1, <2>2, DotFree
    <3>2. s # <<>> \/ s = <<".">>
      BY <2>2 DEF CleanRelativePattern
    <3>3. p = s
      BY <1>1, <1>5, <3>1, <3>2, CleanedPattern
    <3> QED
      BY <2>1, <2>2, <3>3
  <2>3. CASE s = <<".">>
    <3>1. s \in Seq({"."})
      BY <2>3
    <3>2. withoutDots(s) \in Seq({"."}) /\ \A k \in DOMAIN withoutDots(s) : withoutDots(s)[k] # "."
      BY <3>1, DotsGone
    <3>3. withoutDots(s) = <<>>
      BY <3>2
    <3>4. p = <<".">>
      BY <1>1, <1>5, <3>3 DEF CleanRelativePattern
    <3> QED
      BY <2>3, <3>1, <3>4
  <2> QED
    BY <2>2, <2>3, CleanedPattern
<1> QED
  BY <1>1, <1>5, <1>6, CleanedPattern

\* What lies below a cleaned root lies below the root.
LEMMA BelowRoot ==
    ASSUME NEW root, NEW r \in cleanRelativePath(root), NEW T, NEW segs \in Seq(T), IsPrefix(r, segs)
    PROVE  IsPrefix(withoutDots(root.segs), segs)
<1>1. r = withoutDots(root.segs) \/ withoutDots(root.segs) = <<>>
  BY CleanedPattern DEF cleanRelativePath
<1>2. IsPrefix(<<>>, segs)
  BY DEF IsPrefix
<1> QED
  BY <1>1, <1>2

\* The caps that hold are positive.
LEMMA CapsArePositive ==
    ASSUME NEW v \in Vaults
    PROVE  ResolveCaps(v.profile.caps, BudgetCaps) \in [DOMAIN NoBudget -> Nat \ {0}]
BY VaultsAssumption DEF ResolveCaps

\* A declared budget is a number in each field.
LEMMA DeclaredBudget ==
    ASSUME NEW values, NEW b \in parseBudgetMap(values)
    PROVE  b \in [DOMAIN NoBudget -> Nat]
BY RegistryAssumption DEF parseBudgetMap

\* What is resolved is positive and within the caps.
LEMMA ResolvedBudget ==
    ASSUME NEW caps \in [DOMAIN NoBudget -> Nat \ {0}], NEW budget \in [DOMAIN NoBudget -> Nat],
           NEW b \in resolveBudget(budget, caps)
    PROVE  \A f \in DOMAIN caps : 0 < b[f] /\ b[f] <= caps[f]
BY DEF resolveBudget

\* The fields of a skill.
SkillFields ==
    {"id", "enabled", "cron", "zone", "hasSchedule", "capabilities", "context", "sources", "tools", "scope", "explicit",
     "engine", "budget", "hash"}

\* What a SKILL.md makes of a skill.
LEMMA ParsedSkill ==
    ASSUME NEW file, NEW default, NEW s \in parseAgentSkillMarkdown(file, default)
    PROVE  /\ DOMAIN s = SkillFields /\ s = [f \in SkillFields |-> s[f]]
           /\ s.hasSchedule = FALSE
           /\ \E doc \in UNION {parseFrontmatterDoc(b) : b \in splitFrontmatter(file)} :
                 /\ s.scope = normalizeScopeList(list(doc, "vault_scope"))
                 /\ s.budget \in parseBudgetMap(subMap(doc, "budget"))
<1>1. PICK doc \in UNION {parseFrontmatterDoc(b) : b \in splitFrontmatter(file)} :
         /\ parseBudgetMap(subMap(doc, "budget")) # {}
         /\ s = [id |-> scalar(doc, "id"), enabled |-> TRUE, cron |-> NoText, zone |-> NoText, hasSchedule |-> FALSE,
                 capabilities |-> canonicalizeCapabilities(list(doc, "capabilities")) \cup {"vault_read"}
                     \cup (IF list(doc, "external_info_sources") = {} THEN {} ELSE {"external_info_read"}),
                 context |-> {}, sources |-> list(doc, "external_info_sources"),
                 tools |-> list(doc, "vault_tools"), scope |-> normalizeScopeList(list(doc, "vault_scope")),
                 explicit |-> scalar(doc, "engine"), engine |-> NoText,
                 budget |-> CHOOSE b \in parseBudgetMap(subMap(doc, "budget")) : TRUE, hash |-> file]
  BY DEF parseAgentSkillMarkdown
<1>2. s.budget \in parseBudgetMap(subMap(doc, "budget"))
  BY <1>1
<1> QED
  BY <1>1, <1>2 DEF SkillFields

\* A SCHEDULE.md changes when a skill runs, and nothing else of it.
LEMMA AppliedSchedule ==
    ASSUME NEW skill, skill = [f \in SkillFields |-> skill[f]], NEW file, NEW s \in applyAgentSchedule(skill, file)
    PROVE  /\ s = [f \in SkillFields |-> s[f]]
           /\ \A f \in SkillFields \ {"enabled", "cron", "zone"} : s[f] = skill[f]
<1> DEFINE zone(doc) == IF scalar(doc, "timezone") = NoText THEN "UTC" ELSE scalar(doc, "timezone")
<1>1. PICK doc : s = [skill EXCEPT !.enabled = scalar(doc, "enabled") # "false", !.cron = scalar(doc, "cron_expr"),
                                   !.zone = zone(doc)]
  BY Zenon DEF applyAgentSchedule
<1> DEFINE s1 == [skill EXCEPT !.enabled = scalar(doc, "enabled") # "false"]
           s2 == [s1 EXCEPT !.cron = scalar(doc, "cron_expr")]
           s3 == [s2 EXCEPT !.zone = zone(doc)]
<1>2. s1 = [f \in SkillFields |-> s1[f]] /\ \A f \in SkillFields \ {"enabled"} : s1[f] = skill[f]
  BY DEF SkillFields
<1> HIDE DEF s1
<1>3. s2 = [f \in SkillFields |-> s2[f]] /\ \A f \in SkillFields \ {"cron"} : s2[f] = s1[f]
  BY <1>2 DEF SkillFields
<1> HIDE DEF s2
<1>4. s3 = [f \in SkillFields |-> s3[f]] /\ \A f \in SkillFields \ {"zone"} : s3[f] = s2[f]
  BY <1>3 DEF SkillFields
<1>5. s = s3
  BY <1>1 DEF s1, s2
<1> QED
  BY <1>2, <1>3, <1>4, <1>5

\* What LoadedSkillsAreBounded says of one skill.
Bounded(s, v) ==
    LET caps == ResolveCaps(v.profile.caps, BudgetCaps)
    IN  /\ \A path \in s.scope : /\ \E root \in v.profile.readRoots : IsPrefix(withoutDots(root.segs), path.segs)
                                  /\ ToSet(path.segs) \cap {"..", "*", ".git"} = {}
        /\ s.tools \subseteq AllowedVaultTools
        /\ s.engine = "tool-calling" <=> s.tools # {}
        /\ \A f \in DOMAIN caps : 0 < s.budget[f] /\ s.budget[f] <= caps[f]
        /\ s.hasSchedule => CronOk(s.cron)

\* A scope that was checked lies below the roots and is clean.
LEMMA CheckedScope ==
    ASSUME NEW names \in SUBSET DOMAIN PathOf, NEW readRoots,
           validateVaultScope(normalizeScopeList(names), cleanRootSet(readRoots)),
           NEW path \in normalizeScopeList(names)
    PROVE  /\ \E root \in readRoots : IsPrefix(withoutDots(root.segs), path.segs)
           /\ ToSet(path.segs) \cap {"..", "*", ".git"} = {}
<1>1. ~IsForbiddenScopePath(path)
  BY DEF validateVaultScope
<1>2. PICK clean \in cleanRelativePath(path) : isUnderAnyRoot(clean, cleanRootSet(readRoots))
  BY DEF validateVaultScope
<1>3. PICK r \in cleanRootSet(readRoots) : IsPrefix(r, clean)
  BY <1>2 DEF isUnderAnyRoot
<1>4. PICK root \in readRoots : r \in cleanRelativePath(root)
  BY DEF cleanRootSet
<1>5. clean = path.segs /\ ToSet(path.segs) \cap {"..", "*"} = {} /\ \E T : path.segs \in Seq(T)
  BY NormalizedPath
<1>6. IsPrefix(withoutDots(root.segs), path.segs)
  BY <1>3, <1>4, <1>5, BelowRoot
<1>7. ".git" \notin ToSet(path.segs)
  BY <1>1, <1>5 DEF IsForbiddenScopePath, ForbiddenSegments, ToSet
<1> QED
  BY <1>5, <1>6, <1>7

\* An engine that is resolved fits the tools.
LEMMA ResolvedEngine ==
    ASSUME NEW explicit, NEW tools, NEW default, default # "tool-calling",
           NEW e \in resolveEngine(explicit, tools, default)
    PROVE  e = "tool-calling" <=> tools # {}
BY DEF resolveEngine, inferEngine, Engines

\* A skill of a SKILL.md that loads is bounded.
LEMMA AgentSkillIsBounded ==
    ASSUME NEW v \in Vaults, NEW file \in DOMAIN v.vault,
           NEW s \in LoadAgent(v.vault, file, v.profile, ResolveCaps(v.profile.caps, BudgetCaps))
    PROVE  Bounded(s, v)
<1> DEFINE profile == v.profile
           caps == ResolveCaps(profile.caps, BudgetCaps)
           readRoots == cleanRootSet(profile.readRoots)
           schedule == Append(DirOf(file), "SCHEDULE.md")
<1>1. s \in UNION {ScheduledSkills(r, v.vault, file) :
                     r \in UNION {ResolvedSkills(skill, profile, caps) :
                        skill \in {skill \in parseAgentSkillMarkdown(v.vault[file], DeliveryDefault(profile)) :
                                     AgentSkillOk(skill, profile)}}}
  BY DEF LoadAgent
<1>2. PICK skill, r :
         /\ skill \in parseAgentSkillMarkdown(v.vault[file], DeliveryDefault(profile)) /\ AgentSkillOk(skill, profile)
         /\ r \in ResolvedSkills(skill, profile, caps) /\ s \in ScheduledSkills(r, v.vault, file)
  BY <1>1
<1>3. PICK e \in resolveEngine(skill.explicit, skill.tools, profile.engine), b \in resolveBudget(skill.budget, caps) :
         r = WithEngine(skill, e, b)
  BY <1>2 DEF ResolvedSkills
<1> DEFINE engined == [skill EXCEPT !.engine = e]
           resolved == [engined EXCEPT !.budget = b]
<1>4. /\ skill = [f \in SkillFields |-> skill[f]] /\ skill.hasSchedule = FALSE
      /\ \E doc \in UNION {parseFrontmatterDoc(block) : block \in splitFrontmatter(v.vault[file])} :
            /\ skill.scope = normalizeScopeList(list(doc, "vault_scope"))
            /\ skill.budget \in parseBudgetMap(subMap(doc, "budget"))
  BY <1>2, ParsedSkill, ZenonT(30)
<1>5. PICK names \in SUBSET DOMAIN PathOf : skill.scope = normalizeScopeList(names)
  BY <1>4, VaultsAssumption
<1>6. \A f \in DOMAIN caps : 0 < b[f] /\ b[f] <= caps[f]
  <2>1. skill.budget \in [DOMAIN NoBudget -> Nat]
    BY <1>4, DeclaredBudget
  <2> QED
    BY <2>1, CapsArePositive, ResolvedBudget
<1>7. engined = [f \in SkillFields |-> engined[f]] /\ engined.engine = e
      /\ \A f \in SkillFields \ {"engine"} : engined[f] = skill[f]
  BY <1>4 DEF SkillFields
<1> HIDE DEF engined
<1>8. resolved = [f \in SkillFields |-> resolved[f]] /\ resolved.budget = b
      /\ \A f \in SkillFields \ {"budget"} : resolved[f] = engined[f]
  BY <1>7 DEF SkillFields
<1>9. r = resolved
  BY <1>3 DEF WithEngine, engined
<1> HIDE DEF resolved, schedule
<1>10. s \in IF schedule \notin DOMAIN v.vault THEN {r}
            ELSE {[t EXCEPT !.hasSchedule = TRUE] :
                     t \in {t \in applyAgentSchedule(r, v.vault[schedule]) : CronOk(t.cron) /\ ZoneOk(t.zone)}}
  BY <1>2 DEF ScheduledSkills, schedule
<1>11. validateVaultScope(skill.scope, readRoots) /\ validateVaultTools(skill.tools)
  BY <1>2 DEF AgentSkillOk
<1>12. /\ s.scope = skill.scope /\ s.tools = skill.tools /\ s.engine = e /\ s.budget = b
       /\ s.hasSchedule => CronOk(s.cron)
  <2>1. CASE s = resolved
    BY <1>4, <1>7, <1>8, <2>1 DEF SkillFields
  <2>2. CASE s # resolved
    <3>1. PICK t \in applyAgentSchedule(resolved, v.vault[schedule]) : CronOk(t.cron) /\ s = [t EXCEPT !.hasSchedule = TRUE]
      BY <1>10, <1>9, <2>2
    <3>2. /\ t = [f \in SkillFields |-> t[f]]
          /\ \A f \in SkillFields \ {"enabled", "cron", "zone"} : t[f] = resolved[f]
      BY <1>8, AppliedSchedule
    <3>3. \A f \in SkillFields \ {"hasSchedule"} : s[f] = t[f]
      BY <3>1, <3>2 DEF SkillFields
    <3> QED
      BY <1>7, <1>8, <3>1, <3>2, <3>3 DEF SkillFields
  <2> QED
    BY <2>1, <2>2
<1>13. s.engine = "tool-calling" <=> s.tools # {}
  BY <1>12, ResolvedEngine, VaultsAssumption
<1>14. ASSUME NEW path \in s.scope
       PROVE  /\ \E root \in profile.readRoots : IsPrefix(withoutDots(root.segs), path.segs)
              /\ ToSet(path.segs) \cap {"..", "*", ".git"} = {}
  BY <1>11, <1>5, <1>12, CheckedScope
<1>15. s.tools \subseteq AllowedVaultTools
  BY <1>11, <1>12 DEF validateVaultTools
<1> HIDE DEF caps
<1> QED
  BY <1>6, <1>12, <1>13, <1>14, <1>15 DEF Bounded, caps

\* What a SCHEDULE.md of the old layout makes of a skill has neither tools
\* nor a scope.
LEMMA ParsedSchedule ==
    ASSUME NEW file, NEW default, NEW s \in parseScheduleMarkdown(file, default)
    PROVE  /\ s = [f \in SkillFields |-> s[f]]
           /\ s.tools = {} /\ s.scope = {}
BY DEF parseScheduleMarkdown, SkillFields

\* A skill of the old layout that loads is bounded.
LEMMA LegacySkillIsBounded ==
    ASSUME NEW v \in Vaults, NEW file,
           NEW s \in LoadLegacy(v.vault, file, v.profile, ResolveCaps(v.profile.caps, BudgetCaps))
    PROVE  Bounded(s, v)
<1> DEFINE caps == ResolveCaps(v.profile.caps, BudgetCaps)
           engine == inferEngine({}, v.profile.engine)
<1>1. PICK skill \in parseScheduleMarkdown(v.vault[file], DeliveryDefault(v.profile)) :
         CronOk(skill.cron) /\ s = [skill EXCEPT !.engine = engine, !.budget = caps]
  BY DEF LoadLegacy
<1>2. skill = [f \in SkillFields |-> skill[f]] /\ skill.tools = {} /\ skill.scope = {}
  BY ParsedSchedule
<1>3. engine # "tool-calling"
  BY VaultsAssumption DEF inferEngine
<1>4. \A f \in DOMAIN caps : 0 < caps[f] /\ caps[f] <= caps[f]
  BY CapsArePositive
<1> HIDE DEF engine, caps
<1> DEFINE engined == [skill EXCEPT !.engine = engine]
           done == [engined EXCEPT !.budget = caps]
<1>5. engined = [f \in SkillFields |-> engined[f]] /\ engined.engine = engine
      /\ \A f \in SkillFields \ {"engine"} : engined[f] = skill[f]
  BY <1>2 DEF SkillFields
<1>6. s = done
  BY <1>1
<1> HIDE DEF engined
<1>7. done.budget = caps /\ \A f \in SkillFields \ {"budget"} : done[f] = engined[f]
  BY <1>5 DEF SkillFields
<1>8. /\ s.scope = {} /\ s.tools = {} /\ s.engine # "tool-calling" /\ s.budget = caps /\ CronOk(s.cron)
  BY <1>1, <1>2, <1>3, <1>5, <1>6, <1>7 DEF SkillFields
<1> QED
  BY <1>4, <1>8 DEF Bounded, caps

\* Each skill of a registry comes from a file of one of the two layouts.
LEMMA LoadedSkills ==
    ASSUME NEW v \in Vaults, NEW skills \in LoadRegistry(v.vault, v.profile, BudgetCaps)
    PROVE  LET caps == ResolveCaps(v.profile.caps, BudgetCaps)
           IN  /\ \A m \in DOMAIN skills :
                     \/ \E f \in DOMAIN v.vault : skills[m] \in LoadAgent(v.vault, f, v.profile, caps)
                     \/ \E f : skills[m] \in LoadLegacy(v.vault, f, v.profile, caps)
               /\ DistinctIds(skills)
<1> DEFINE profile == v.profile
           caps == ResolveCaps(profile.caps, BudgetCaps)
           legacy == IF profile.roots = {} THEN {} ELSE {<<"legacy", m[1], m[2]>> : m \in Matched(v.vault, profile.paths)}
           agent == IF profile.agentRoots = {} THEN {}
                    ELSE {<<"agent", m[1], m[2]>> : m \in Matched(v.vault, profile.agentPaths)}
           load(m) == IF m[1] = "legacy" THEN LoadLegacy(v.vault, m[3], profile, caps)
                      ELSE LoadAgent(v.vault, m[3], profile, caps)
           all == [m \in legacy \cup agent |-> CHOOSE s \in load(m) : TRUE]
<1>1. CASE skills = [m \in {} |-> NoBudget]
  <2>1. DOMAIN skills = {}
    BY <1>1
  <2> QED
    BY <2>1 DEF DistinctIds
<1>2. CASE skills # [m \in {} |-> NoBudget]
  <2>1. /\ skills = all /\ DistinctIds(all)
        /\ \A m \in legacy \cup agent : load(m) # {}
    BY <1>2 DEF LoadRegistry
  <2>2. ASSUME NEW m \in agent
        PROVE  m[1] = "agent" /\ m[3] \in DOMAIN v.vault
    <3>1. PICK w \in Matched(v.vault, profile.agentPaths) : m = <<"agent", w[1], w[2]>>
      OBVIOUS
    <3>2. w[2] \in DOMAIN v.vault
      BY DEF Matched, Glob
    <3> QED
      BY <3>1, <3>2
  <2>3. ASSUME NEW m \in legacy
        PROVE  m[1] = "legacy"
    OBVIOUS
  <2> HIDE DEF legacy, agent
  <2>4. ASSUME NEW m \in DOMAIN skills
        PROVE  m \in legacy \cup agent /\ skills[m] \in load(m)
    <3>1. m \in legacy \cup agent /\ skills[m] = CHOOSE s \in load(m) : TRUE
      BY <2>1
    <3> QED
      BY <2>1, <3>1
  <2> HIDE DEF all, caps
  <2> QED
    BY <2>1, <2>2, <2>3, <2>4 DEF caps
<1> QED
  BY <1>1, <1>2

\* What LoadSkills answers.
SkillsVerdict(v) ==
    LET dirs == {DirOf(f) : f \in {f \in DOMAIN v.vault : Last(f) = "SKILL.md"}}
    IN  [loaded |-> LoadRegistry(v.vault, v.profile, BudgetCaps),
         lint |-> [d \in dirs |-> Lint(v.vault, d, v.profile, BudgetCaps)]]

SkillsInv == request.kind = "skills" => request.subject \in Vaults /\ verdict = SkillsVerdict(request.subject)

\* Once skills were loaded, the verdict is the registry and the lint of the vault.
LEMMA SkillsInvariant == Spec => []SkillsInv
<1>1. Init => SkillsInv
  BY DEF Init, Nothing, SkillsInv
<1>2. SkillsInv /\ [Next]_vars => SkillsInv'
  <2> SUFFICES ASSUME SkillsInv, [Next]_vars
               PROVE  SkillsInv'
    OBVIOUS
  <2>1. CASE FindWindow
    BY <2>1 DEF FindWindow, Ask, SkillsInv
  <2>2. CASE LoadSkills
    BY <2>2 DEF LoadSkills, Ask, SkillsInv, SkillsVerdict
  <2>3. CASE Organize
    BY <2>3 DEF Organize, Ask, SkillsInv
  <2>4. CASE Expand
    BY <2>4 DEF Expand, Ask, SkillsInv
  <2>5. CASE CheckPlan
    BY <2>5 DEF CheckPlan, Ask, SkillsInv
  <2>6. CASE Enrich
    BY <2>6 DEF Enrich, Ask, SkillsInv
  <2>7. CASE Forget
    BY <2>7 DEF Forget, Nothing, SkillsInv
  <2>8. CASE UNCHANGED vars
    BY <2>8 DEF vars, SkillsInv
  <2> QED
    BY <2>1, <2>2, <2>3, <2>4, <2>5, <2>6, <2>7, <2>8 DEF Next
<1> QED
  BY <1>1, <1>2, PTL DEF Spec

\* Whatever the documents of a vault say, the skills of a registry that
\* loads stay below the roots of the profile and within its caps, run on an
\* engine that fits their tools, and have an id each (scheduler/registry.go
\* LoadRegistry).
THEOREM SkillsStayBounded == Spec => []LoadedSkillsAreBounded
<1>1. SkillsInv => LoadedSkillsAreBounded
  <2> SUFFICES ASSUME SkillsInv, request.kind = "skills",
                      NEW skills \in verdict.loaded
               PROVE  /\ \A m \in DOMAIN skills : Bounded(skills[m], request.subject)
                      /\ \A m, n \in DOMAIN skills : m # n => skills[m].id # skills[n].id
    BY DEF LoadedSkillsAreBounded, Bounded
  <2> DEFINE v == request.subject
  <2>1. v \in Vaults /\ skills \in LoadRegistry(v.vault, v.profile, BudgetCaps)
    BY DEF SkillsInv, SkillsVerdict
  <2> HIDE DEF v
  <2>2. \A m \in DOMAIN skills : Bounded(skills[m], v)
    BY <2>1, LoadedSkills, AgentSkillIsBounded, LegacySkillIsBounded
  <2>3. \A m, n \in DOMAIN skills : m # n => skills[m].id # skills[n].id
    BY <2>1, LoadedSkills DEF DistinctIds
  <2> QED
    BY <2>2, <2>3 DEF v
<1> QED
  BY <1>1, SkillsInvariant, PTL

-----------------------------------------------------------------------------
(***************************************************************************)
(* The lint of a directory and the registry look at the same.              *)
(***************************************************************************)
\* A block has one reading at most.
LEMMA OneReading ==
    ASSUME NEW block, NEW listKeys, NEW mapKeys,
           NEW d \in ParseBlock(block, listKeys, mapKeys), NEW e \in ParseBlock(block, listKeys, mapKeys)
    PROVE  d = e
BY Zenon DEF ParseBlock

\* A document has one skill at most.
LEMMA OneSkill ==
    ASSUME NEW file, NEW default,
           NEW s \in parseAgentSkillMarkdown(file, default), NEW t \in parseAgentSkillMarkdown(file, default)
    PROVE  s = t
<1>1. ASSUME NEW d \in UNION {parseFrontmatterDoc(b) : b \in splitFrontmatter(file)},
             NEW e \in UNION {parseFrontmatterDoc(b) : b \in splitFrontmatter(file)}
      PROVE  d = e
  BY OneReading DEF splitFrontmatter, parseFrontmatterDoc
<1> QED
  BY <1>1, ZenonT(30) DEF parseAgentSkillMarkdown

\* What a SCHEDULE.md says of time is the same for every skill of an id.
LEMMA SameSchedule ==
    ASSUME NEW r, NEW s, r = [f \in SkillFields |-> r[f]], s = [f \in SkillFields |-> s[f]], r.id = s.id, NEW file
    PROVE  /\ applyAgentSchedule(r, file) = {} <=> applyAgentSchedule(s, file) = {}
           /\ \A t \in applyAgentSchedule(r, file), u \in applyAgentSchedule(s, file) : t.cron = u.cron /\ t.zone = u.zone
<1> DEFINE docs == UNION {parseFrontmatterDoc(b) : b \in splitFrontmatter(file)}
           ok(k, doc) == /\ ~\E key \in {"vault_tools", "vault_scope", "engine", "budget", "vault_context"} : hasKey(doc, key)
                         /\ scalar(doc, "id") \in {NoText, k.id}
                         /\ scalar(doc, "enabled") \in {NoText, "true", "false"}
                         /\ scalar(doc, "cron_expr") # NoText
           zone(doc) == IF scalar(doc, "timezone") = NoText THEN "UTC" ELSE scalar(doc, "timezone")
           timed(k, doc) == [k EXCEPT !.enabled = scalar(doc, "enabled") # "false", !.cron = scalar(doc, "cron_expr"),
                                      !.zone = zone(doc)]
<1>1. \A d, e \in docs : d = e
  BY OneReading DEF splitFrontmatter, parseFrontmatterDoc
<1>2. \A k : applyAgentSchedule(k, file) = {timed(k, doc) : doc \in {doc \in docs : ok(k, doc)}}
  BY Zenon DEF applyAgentSchedule
<1>3. \A doc : ok(r, doc) <=> ok(s, doc)
  OBVIOUS
<1>4. ASSUME NEW k, k = [f \in SkillFields |-> k[f]], NEW doc
      PROVE  timed(k, doc).cron = scalar(doc, "cron_expr") /\ timed(k, doc).zone = zone(doc)
  <2> DEFINE k1 == [k EXCEPT !.enabled = scalar(doc, "enabled") # "false"]
             k2 == [k1 EXCEPT !.cron = scalar(doc, "cron_expr")]
             k3 == [k2 EXCEPT !.zone = zone(doc)]
  <2>1. k1 = [f \in SkillFields |-> k1[f]]
    BY <1>4 DEF SkillFields
  <2>2. timed(k, doc) = k3
    OBVIOUS
  <2> HIDE DEF k1, zone
  <2>3. k2 = [f \in SkillFields |-> k2[f]] /\ k2.cron = scalar(doc, "cron_expr")
    BY <2>1 DEF SkillFields
  <2> HIDE DEF k2
  <2>4. k3.zone = zone(doc) /\ k3.cron = k2.cron
    BY <2>3 DEF SkillFields
  <2> HIDE DEF timed, k3
  <2> QED
    BY <2>2, <2>3, <2>4
<1> HIDE DEF docs, ok, timed, zone
<1>5. \A k : applyAgentSchedule(k, file) = {} <=> ~\E doc \in docs : ok(k, doc)
  BY <1>2
<1>6. \A k : \A t \in applyAgentSchedule(k, file) : \E doc \in docs : t = timed(k, doc)
  BY <1>2
<1>7. ASSUME NEW t \in applyAgentSchedule(r, file), NEW u \in applyAgentSchedule(s, file)
      PROVE  t.cron = u.cron /\ t.zone = u.zone
  <2>1. PICK doc \in docs : t = timed(r, doc)
    BY <1>6
  <2>2. u = timed(s, doc)
    BY <1>1, <1>6
  <2> QED
    BY <2>1, <2>2, <1>4
<1> QED
  BY <1>3, <1>5, <1>7

\* What the lint of a directory looks at.
Clean(v, f, skill) ==
    LET schedule == Append(DirOf(f), "SCHEDULE.md")
        caps == ResolveCaps(v.profile.caps, BudgetCaps)
    IN  /\ CapabilitiesOk(skill)
        /\ validateVaultScope(skill.scope, cleanRootSet(v.profile.readRoots))
        /\ validateVaultTools(skill.tools)
        /\ resolveEngine(skill.explicit, skill.tools, v.profile.engine) # {}
        /\ resolveBudget(skill.budget, caps) # {}
        /\ schedule \in DOMAIN v.vault =>
              /\ applyAgentSchedule(skill, v.vault[schedule]) # {}
              /\ \A t \in applyAgentSchedule(skill, v.vault[schedule]) : CronOk(t.cron) /\ ZoneOk(t.zone)

\* A SKILL.md is the one of its directory.
LEMMA FileOfDir ==
    ASSUME NEW v \in Vaults, NEW f \in DOMAIN v.vault
    PROVE  f = Append(DirOf(f), Last(f))
<1>1. f \in Seq(STRING) /\ f # <<>>
  BY VaultsAssumption
<1> QED
  BY <1>1 DEF DirOf, Front, Last

\* The lint of a directory finds nothing exactly if its SKILL.md has a skill
\* that is clean.
LEMMA LintIsClean ==
    ASSUME NEW v \in Vaults, NEW f \in DOMAIN v.vault, Last(f) = "SKILL.md", RootsOk(v.profile.readRoots)
    PROVE  Lint(v.vault, DirOf(f), v.profile, BudgetCaps) = {} <=>
              \E skill \in parseAgentSkillMarkdown(v.vault[f], DeliveryDefault(v.profile)) : Clean(v, f, skill)
<1> DEFINE at(name) == {v.vault[g] : g \in DOMAIN v.vault \cap {Append(DirOf(f), name)}}
           skills == parseAgentSkillMarkdown(v.vault[f], DeliveryDefault(v.profile))
           checks(skill) == LintChecks(skill, at("SCHEDULE.md"), v.profile, BudgetCaps)
<1>1. at("SKILL.md") = {v.vault[f]}
  BY FileOfDir
<1>2. Lint(v.vault, DirOf(f), v.profile, BudgetCaps) =
         IF skills = {} THEN {"SKILL.md"}
         ELSE UNION {{g \in DOMAIN checks(skill) : ~checks(skill)[g]} : skill \in skills}
  <2> DEFINE all == UNION {parseAgentSkillMarkdown(file, DeliveryDefault(v.profile)) : file \in at("SKILL.md")}
  <2>1. all = skills
    BY <1>1
  <2>2. Lint(v.vault, DirOf(f), v.profile, BudgetCaps) =
           IF all = {} THEN {"SKILL.md"}
           ELSE UNION {{g \in DOMAIN checks(skill) : ~checks(skill)[g]} : skill \in all}
    BY Zenon DEF Lint
  <2> HIDE DEF all, skills, checks
  <2> QED
    BY <2>1, <2>2
<1>3. ASSUME NEW skill
      PROVE  {g \in DOMAIN checks(skill) : ~checks(skill)[g]} = {} <=> Clean(v, f, skill)
  <2> DEFINE applied == {applyAgentSchedule(skill, file) : file \in at("SCHEDULE.md")}
             schedule == Append(DirOf(f), "SCHEDULE.md")
  <2>1. {g \in DOMAIN checks(skill) : ~checks(skill)[g]} = {} <=>
           /\ CapabilitiesOk(skill)
           /\ validateVaultScope(skill.scope, cleanRootSet(v.profile.readRoots))
           /\ validateVaultTools(skill.tools)
           /\ resolveEngine(skill.explicit, skill.tools, v.profile.engine) # {}
           /\ resolveBudget(skill.budget, ResolveCaps(v.profile.caps, BudgetCaps)) # {}
           /\ {} \notin applied
           /\ \A s \in UNION applied : CronOk(s.cron)
           /\ \A s \in UNION applied : ZoneOk(s.zone)
    <3> DEFINE readRoots == IF RootsOk(v.profile.readRoots) THEN cleanRootSet(v.profile.readRoots) ELSE {}
               c == [capabilities |-> CapabilitiesOk(skill),
                     vault_scope |-> validateVaultScope(skill.scope, readRoots),
                     vault_tools |-> validateVaultTools(skill.tools),
                     engine |-> resolveEngine(skill.explicit, skill.tools, v.profile.engine) # {},
                     budget |-> resolveBudget(skill.budget, ResolveCaps(v.profile.caps, BudgetCaps)) # {},
                     schedule |-> {} \notin applied,
                     cron_expr |-> \A s \in UNION applied : CronOk(s.cron),
                     timezone |-> \A s \in UNION applied : ZoneOk(s.zone)]
    <3>1. checks(skill) = c
      BY Zenon DEF LintChecks
    <3>2. readRoots = cleanRootSet(v.profile.readRoots)
      OBVIOUS
    <3> HIDE DEF applied, checks, readRoots
    <3>3. {g \in DOMAIN c : ~c[g]} = {} <=>
             /\ c.capabilities /\ c.vault_scope /\ c.vault_tools /\ c.engine /\ c.budget /\ c.schedule
             /\ c.cron_expr /\ c.timezone
      <4>1. DOMAIN c = {"capabilities", "vault_scope", "vault_tools", "engine", "budget", "schedule", "cron_expr", "timezone"}
        OBVIOUS
      <4> HIDE DEF c
      <4> QED
        BY <4>1
    <3> QED
      BY <3>1, <3>2, <3>3, ZenonT(30)
  <2>2. CASE schedule \in DOMAIN v.vault
    <3>1. applied = {applyAgentSchedule(skill, v.vault[schedule])}
      BY <2>2
    <3> HIDE DEF applied, schedule
    <3> QED
      BY <2>1, <2>2, <3>1 DEF Clean, schedule
  <2>3. CASE schedule \notin DOMAIN v.vault
    <3>1. applied = {}
      BY <2>3
    <3> HIDE DEF applied
    <3> QED
      BY <2>1, <2>3, <3>1 DEF Clean
  <2> QED
    BY <2>2, <2>3
<1>4. \A s, t \in skills : s = t
  BY OneSkill
<1> HIDE DEF skills, checks
<1>5. CASE skills = {}
  BY <1>2, <1>5 DEF skills
<1>6. CASE skills # {}
  <2>1. PICK skill \in skills : skills = {skill}
    BY <1>4, <1>6
  <2>2. Lint(v.vault, DirOf(f), v.profile, BudgetCaps) = {g \in DOMAIN checks(skill) : ~checks(skill)[g]}
    BY <1>2, <2>1
  <2> QED
    BY <1>3, <2>1, <2>2 DEF skills
<1> QED
  BY <1>5, <1>6

\* The engine and the budget that are resolved leave the rest of a skill.
LEMMA EnginedSkill ==
    ASSUME NEW skill, skill = [f \in SkillFields |-> skill[f]], NEW e, NEW b
    PROVE  LET r == WithEngine(skill, e, b) IN  r = [f \in SkillFields |-> r[f]] /\ r.id = skill.id
<1> DEFINE engined == [skill EXCEPT !.engine = e]
           done == [engined EXCEPT !.budget = b]
<1>1. engined = [f \in SkillFields |-> engined[f]] /\ engined.id = skill.id
  BY DEF SkillFields
<1>2. WithEngine(skill, e, b) = done
  BY DEF WithEngine
<1> HIDE DEF engined
<1>3. done = [f \in SkillFields |-> done[f]] /\ done.id = engined.id
  BY <1>1 DEF SkillFields
<1> QED
  BY <1>1, <1>2, <1>3

\* A SKILL.md loads exactly if its skill is clean and its sources are known.
LEMMA CleanLoads ==
    ASSUME NEW v \in Vaults, NEW f \in DOMAIN v.vault, Last(f) = "SKILL.md",
           isUnderAnyRoot(DirOf(f), cleanRootSet(v.profile.agentRoots))
    PROVE  LoadAgent(v.vault, f, v.profile, ResolveCaps(v.profile.caps, BudgetCaps)) # {} <=>
              \E skill \in parseAgentSkillMarkdown(v.vault[f], DeliveryDefault(v.profile)) :
                 Clean(v, f, skill) /\ skill.sources \subseteq v.profile.sources
<1> DEFINE profile == v.profile
           caps == ResolveCaps(profile.caps, BudgetCaps)
           skills == parseAgentSkillMarkdown(v.vault[f], DeliveryDefault(profile))
           schedule == Append(DirOf(f), "SCHEDULE.md")
           timely(t) == CronOk(t.cron) /\ ZoneOk(t.zone)
           engines(skill) == resolveEngine(skill.explicit, skill.tools, profile.engine)
           budgets(skill) == resolveBudget(skill.budget, caps)
<1>1. LoadAgent(v.vault, f, profile, caps) # {} <=>
         \E skill \in skills : AgentSkillOk(skill, profile)
                               /\ \E r \in ResolvedSkills(skill, profile, caps) : ScheduledSkills(r, v.vault, f) # {}
  BY DEF LoadAgent
<1>2. ASSUME NEW r
      PROVE  ScheduledSkills(r, v.vault, f) # {} <=>
                (schedule \in DOMAIN v.vault => \E t \in applyAgentSchedule(r, v.vault[schedule]) : timely(t))
  BY DEF ScheduledSkills
<1>3. ASSUME NEW skill
      PROVE  /\ ResolvedSkills(skill, profile, caps) # {} <=> engines(skill) # {} /\ budgets(skill) # {}
             /\ \A r \in ResolvedSkills(skill, profile, caps) : \E e, b : r = WithEngine(skill, e, b)
  <2>1. \A r \in ResolvedSkills(skill, profile, caps) : \E e \in engines(skill), b \in budgets(skill) : r = WithEngine(skill, e, b)
    BY DEF ResolvedSkills
  <2>2. \A e \in engines(skill), b \in budgets(skill) : WithEngine(skill, e, b) \in ResolvedSkills(skill, profile, caps)
    BY DEF ResolvedSkills
  <2> HIDE DEF engines, budgets, caps, profile
  <2> QED
    BY <2>1, <2>2
<1>4. ASSUME NEW skill \in skills, NEW r \in ResolvedSkills(skill, profile, caps)
      PROVE  ScheduledSkills(r, v.vault, f) # {} <=>
                (schedule \in DOMAIN v.vault =>
                    /\ applyAgentSchedule(skill, v.vault[schedule]) # {}
                    /\ \A t \in applyAgentSchedule(skill, v.vault[schedule]) : timely(t))
  <2>1. skill = [g \in SkillFields |-> skill[g]]
    BY ParsedSkill, ZenonT(30)
  <2>2. r = [g \in SkillFields |-> r[g]] /\ r.id = skill.id
    BY <1>3, <2>1, EnginedSkill
  <2> DEFINE mine == applyAgentSchedule(skill, v.vault[schedule])
             its == applyAgentSchedule(r, v.vault[schedule])
  <2>3. (its = {} <=> mine = {}) /\ \A t \in its, u \in mine : t.cron = u.cron /\ t.zone = u.zone
    BY <2>1, <2>2, SameSchedule
  <2>4. ScheduledSkills(r, v.vault, f) # {} <=> (schedule \in DOMAIN v.vault => \E t \in its : timely(t))
    BY <1>2
  <2> HIDE DEF mine, its, schedule
  <2>5. (\E t \in its : timely(t)) <=> mine # {} /\ \A t \in mine : timely(t)
    BY <2>3
  <2> QED
    BY <2>4, <2>5 DEF mine
<1>5. ASSUME NEW skill \in skills
      PROVE  Clean(v, f, skill) /\ skill.sources \subseteq profile.sources <=>
                /\ AgentSkillOk(skill, profile)
                /\ \E r \in ResolvedSkills(skill, profile, caps) : ScheduledSkills(r, v.vault, f) # {}
  <2>1. Clean(v, f, skill) /\ skill.sources \subseteq profile.sources <=>
           /\ AgentSkillOk(skill, profile) /\ engines(skill) # {} /\ budgets(skill) # {}
           /\ schedule \in DOMAIN v.vault =>
                  /\ applyAgentSchedule(skill, v.vault[schedule]) # {}
                  /\ \A t \in applyAgentSchedule(skill, v.vault[schedule]) : timely(t)
    BY DEF Clean, AgentSkillOk, validateExternalSources
  <2> HIDE DEF skills, schedule, timely, engines, budgets, caps, profile
  <2> QED
    BY <1>3, <1>4, <2>1
<1> HIDE DEF skills, schedule, timely, engines, budgets
<1> QED
  BY <1>1, <1>5 DEF skills

\* A registry of a profile in order loads exactly if each SKILL.md does and
\* no two have one id; its skills are at what found them.
LEMMA OrderlyRegistry ==
    ASSUME NEW v \in Vaults, InOrder(v)
    PROVE  LET profile == v.profile
               load(f) == LoadAgent(v.vault, f, profile, ResolveCaps(profile.caps, BudgetCaps))
               files == {f \in DOMAIN v.vault : Last(f) = "SKILL.md"}
           IN  /\ LoadRegistry(v.vault, profile, BudgetCaps) # {} => \A f \in files : load(f) # {}
               /\ (\A f \in files : load(f) # {}) /\ (\A f, g \in files : f = g) => LoadRegistry(v.vault, profile, BudgetCaps) # {}
<1> DEFINE profile == v.profile
           caps == ResolveCaps(profile.caps, BudgetCaps)
           legacy == IF profile.roots = {} THEN {} ELSE {<<"legacy", m[1], m[2]>> : m \in Matched(v.vault, profile.paths)}
           agent == IF profile.agentRoots = {} THEN {}
                    ELSE {<<"agent", m[1], m[2]>> : m \in Matched(v.vault, profile.agentPaths)}
           load(m) == IF m[1] = "legacy" THEN LoadLegacy(v.vault, m[3], profile, caps)
                      ELSE LoadAgent(v.vault, m[3], profile, caps)
           skills == [m \in legacy \cup agent |-> CHOOSE s \in load(m) : TRUE]
           files == {f \in DOMAIN v.vault : Last(f) = "SKILL.md"}
           found(f) == {i \in DOMAIN profile.agentPaths :
                           \E p \in CleanRelativePattern(profile.agentPaths[i]) : f \in Glob(v.vault, p)}
<1>1. legacy = {} /\ profile.enabled /\ profile.agentRoots # {}
  BY DEF InOrder
<1>2. LoadRegistry(v.vault, profile, BudgetCaps) =
         IF \E m \in agent : load(m) = {} THEN {} ELSE IF ~DistinctIds(skills) THEN {} ELSE {skills}
  <2>1. ~ \/ \E root \in profile.readRoots : IsForbiddenScopePath(root)
          \/ ~RootsOk(profile.roots \cup profile.agentRoots \cup profile.readRoots)
          \/ profile.roots \cup profile.agentRoots = {}
          \/ ~(DeliveryDefault(profile) \subseteq {"outbox", "matrix"})
          \/ profile.roots # {} /\ ~PatternsOk(profile.paths)
          \/ profile.agentRoots # {} /\ ~PatternsOk(profile.agentPaths)
    BY DEF InOrder, RootsOk
  <2>2. LoadRegistry(v.vault, profile, BudgetCaps) =
           IF \E m \in legacy \cup agent : load(m) = {} THEN {} ELSE IF ~DistinctIds(skills) THEN {} ELSE {skills}
    BY <1>1, <2>1 DEF LoadRegistry
  <2> HIDE DEF legacy, agent, load, skills
  <2> QED
    BY <1>1, <2>2
<1>3. ASSUME NEW f \in DOMAIN v.vault, NEW i \in found(f)
      PROVE  Last(f) = "SKILL.md" /\ \A j \in found(f) : i = j
  BY DEF InOrder
<1>4. ASSUME NEW m \in agent
      PROVE  m[1] = "agent" /\ m[3] \in DOMAIN v.vault /\ m[2] \in found(m[3]) /\ m = <<"agent", m[2], m[3]>>
  <2>1. PICK w \in Matched(v.vault, profile.agentPaths) : m = <<"agent", w[1], w[2]>>
    OBVIOUS
  <2>2. w[2] \in DOMAIN v.vault /\ w[1] \in found(w[2])
    BY DEF Matched, Glob
  <2> HIDE DEF found
  <2> QED
    BY <2>1, <2>2
<1>5. ASSUME NEW f \in files
      PROVE  \E m \in agent : m[1] = "agent" /\ m[3] = f
  <2>1. PICK i \in found(f) : TRUE
    BY DEF InOrder
  <2>2. <<i, f>> \in Matched(v.vault, profile.agentPaths)
    BY <2>1 DEF Matched
  <2>3. <<"agent", <<i, f>>[1], <<i, f>>[2]>> \in agent
    BY <1>1, <2>2
  <2> HIDE DEF agent
  <2> QED
    BY <2>3
<1>6. (\A m \in agent : load(m) # {}) <=> \A f \in files : LoadAgent(v.vault, f, profile, caps) # {}
  <2>1. \A m \in agent : load(m) = LoadAgent(v.vault, m[3], profile, caps) /\ m[3] \in files
    BY <1>3, <1>4
  <2> HIDE DEF agent, files, load, caps
  <2> QED
    BY <2>1, <1>5
<1>7. (\A f, g \in files : f = g) => DistinctIds(skills)
  <2> SUFFICES ASSUME \A f, g \in files : f = g,
                      NEW m \in agent, NEW n \in agent
               PROVE  m = n
    BY <1>1 DEF DistinctIds
  <2>2. m[3] = n[3]
    BY <1>3, <1>4
  <2>3. m[2] = n[2]
    BY <1>3, <1>4, <2>2
  <2> QED
    BY <1>4, <2>2, <2>3
<1> HIDE DEF agent, files, load, caps, skills
<1> QED
  BY <1>2, <1>6, <1>7 DEF files, caps

\* Under a profile that is in order, the lint tells what loads: one directory
\* that lints clean loads if its sources are known, and every directory of a
\* registry that loads lints clean (scheduler/registry.go LintAgentSkillDir,
\* LoadRegistry).
THEOREM LintIsReliable == Spec => []LintTellsWhatLoads
<1>1. SkillsInv => LintTellsWhatLoads
  <2> SUFFICES ASSUME SkillsInv, request.kind = "skills", InOrder(request.subject)
               PROVE  LET v == request.subject
                          alone == \A d, e \in DOMAIN verdict.lint : d = e
                          clean == \A d \in DOMAIN verdict.lint : verdict.lint[d] = {}
                          sources(file) ==
                              UNION {s.sources : s \in parseAgentSkillMarkdown(file, DeliveryDefault(v.profile))}
                          known == \A f \in DOMAIN v.vault : sources(v.vault[f]) \subseteq v.profile.sources
                      IN  /\ alone /\ clean /\ known => verdict.loaded # {}
                          /\ verdict.loaded # {} => clean
    BY DEF LintTellsWhatLoads
  <2> DEFINE v == request.subject
             caps == ResolveCaps(v.profile.caps, BudgetCaps)
             files == {f \in DOMAIN v.vault : Last(f) = "SKILL.md"}
             load(f) == LoadAgent(v.vault, f, v.profile, caps)
             lint(d) == Lint(v.vault, d, v.profile, BudgetCaps)
             skills(f) == parseAgentSkillMarkdown(v.vault[f], DeliveryDefault(v.profile))
             known(f) == UNION {s.sources : s \in skills(f)} \subseteq v.profile.sources
  <2>1. /\ v \in Vaults /\ verdict.loaded = LoadRegistry(v.vault, v.profile, BudgetCaps)
        /\ DOMAIN verdict.lint = {DirOf(f) : f \in files}
        /\ \A d \in DOMAIN verdict.lint : verdict.lint[d] = lint(d)
    BY DEF SkillsInv, SkillsVerdict
  <2>2. RootsOk(v.profile.readRoots) /\ \A f \in files : isUnderAnyRoot(DirOf(f), cleanRootSet(v.profile.agentRoots))
    BY DEF InOrder, RootsOk
  <2>3. ASSUME NEW f \in files
        PROVE  /\ lint(DirOf(f)) = {} <=> \E skill \in skills(f) : Clean(v, f, skill)
               /\ load(f) # {} <=> \E skill \in skills(f) : Clean(v, f, skill) /\ skill.sources \subseteq v.profile.sources
    BY <2>1, <2>2, LintIsClean, CleanLoads
  <2>4. \A f, g \in files : DirOf(f) = DirOf(g) => f = g
    BY <2>1, FileOfDir
  <2>5. /\ verdict.loaded # {} => \A f \in files : load(f) # {}
        /\ (\A f \in files : load(f) # {}) /\ (\A f, g \in files : f = g) => verdict.loaded # {}
    BY <2>1, OrderlyRegistry
  <2>6. \A f \in files : load(f) # {} => lint(DirOf(f)) = {}
    BY <2>3
  <2>7. \A f \in files : lint(DirOf(f)) = {} /\ known(f) => load(f) # {}
    BY <2>3
  <2> HIDE DEF files, load, lint, known
  <2>8. verdict.loaded # {} => \A d \in DOMAIN verdict.lint : verdict.lint[d] = {}
    BY <2>1, <2>5, <2>6
  <2>9. /\ \A d, e \in DOMAIN verdict.lint : d = e
        /\ \A d \in DOMAIN verdict.lint : verdict.lint[d] = {}
        /\ \A f \in files : known(f)
        => verdict.loaded # {}
    BY <2>1, <2>4, <2>5, <2>7
  <2> QED
    BY <2>8, <2>9 DEF files, known
<1> QED
  BY <1>1, SkillsInvariant, PTL

-----------------------------------------------------------------------------
(***************************************************************************)
(* Plans the program builds of answers.                                    *)
(***************************************************************************)
\* The output that is taken is that of the first reply.
LEMMA FirstOutput ==
    ASSUME NEW replies, NEW output \in createResponseWithRetry(replies)
    PROVE  output = replies[1].output
BY DEF createResponseWithRetry, CreateResponse

\* The first index is the least one.
LEMMA FirstOf ==
    ASSUME NEW n \in Nat, NEW S \in SUBSET (1..n)
    PROVE  /\ FirstIndex(S) = 0 <=> S = {}
           /\ S # {} => FirstIndex(S) \in S /\ \A j \in S : FirstIndex(S) <= j
<1>1. IsFiniteSet(S)
  <2>1. IsFiniteSet(1..n) /\ S \in SUBSET (1..n)
    BY FS_Interval
  <2> QED
    BY <2>1, FS_Subset
<1>2. CASE S = {}
  BY <1>2 DEF FirstIndex
<1>3. CASE S # {}
  <2>1. \E i \in S : \A j \in S : i <= j
    BY <1>1, <1>3, LeastOf
  <2>2. FirstIndex(S) \in S /\ \A j \in S : FirstIndex(S) <= j
    BY <1>3, <2>1 DEF FirstIndex
  <2>3. FirstIndex(S) \in 1..n
    BY <2>2
  <2> HIDE DEF FirstIndex
  <2> QED
    BY <1>3, <2>2, <2>3
<1> QED
  BY <1>2, <1>3

\* An index that is the least is the first.
LEMMA FirstIs ==
    ASSUME NEW n \in Nat, NEW S \in SUBSET (1..n), NEW k \in S, \A j \in S : k <= j
    PROVE  FirstIndex(S) = k
<1>1. FirstIndex(S) \in S /\ \A j \in S : FirstIndex(S) <= j
  BY FirstOf
<1>2. FirstIndex(S) \in 1..n /\ k \in 1..n /\ FirstIndex(S) <= k /\ k <= FirstIndex(S)
  BY <1>1
<1> QED
  BY <1>2

\* A sequence of a set has each of its elements.
LEMMA SequenceOfSet ==
    ASSUME NEW S, IsFiniteSet(S)
    PROVE  SetToSeq(S) \in Seq(S) /\ ToSet(SetToSeq(S)) = S
<1> DEFINE n == Cardinality(S)
<1>1. n \in Nat /\ IsFiniteSet(1..n) /\ Cardinality(1..n) = n
  BY FS_CardinalityType, FS_Interval
<1>2. \E f \in [1..n -> S] : IsInjective(f)
  <2>1. ExistsBijection(1..n, S)
    BY FS_CardinalityType
  <2> QED
    BY <2>1 DEF ExistsBijection, Bijection, Injection, IsInjective
<1> DEFINE f == SetToSeq(S)
<1>3. f \in [1..n -> S] /\ IsInjective(f)
  BY <1>2 DEF SetToSeq
<1> HIDE DEF f, n
<1>4. f \in Injection(1..n, S)
  BY <1>3 DEF Injection, IsInjective
<1>5. f \in Surjection(1..n, S)
  BY <1>1, <1>4, FS_Injection DEF n
<1>6. f \in Seq(S) /\ DOMAIN f = 1..n
  BY <1>1, <1>3
<1>7. ToSet(f) = S
  BY <1>5, <1>6 DEF Surjection, ToSet
<1> QED
  BY <1>6, <1>7 DEF f

\* The tags of a draft are those that are required, and two more.
LEMMA TagsOfDraft ==
    ASSUME NEW required, IsFiniteSet(required)
    PROVE  /\ \E T : DraftTags(required) \in Seq(T)
           /\ required \subseteq ToSet(DraftTags(required))
<1> DEFINE tags == <<"type/knowledge-draft", "status/needs-review">>
           more == required \ ToSet(tags)
           T == more \cup {"type/knowledge-draft", "status/needs-review"}
<1>1. tags \in Seq(T) /\ ToSet(tags) = {"type/knowledge-draft", "status/needs-review"}
  BY DEF ToSet
<1>2. SetToSeq(more) \in Seq(more) /\ ToSet(SetToSeq(more)) = more
  BY SequenceOfSet, FS_Difference
<1>3. DraftTags(required) = tags \o SetToSeq(more)
  BY DEF DraftTags
<1> HIDE DEF tags
<1>4. SetToSeq(more) \in Seq(T)
  BY <1>2
<1>5. ASSUME NEW t \in required
      PROVE  t \in ToSet(DraftTags(required))
  <2>1. CASE t \in ToSet(tags)
    <3> DEFINE rest == SetToSeq(more)
    <3>1. PICK i \in DOMAIN tags : tags[i] = t
      BY <2>1 DEF ToSet
    <3> HIDE DEF rest
    <3>2. rest \in Seq(T)
      BY <1>4 DEF rest
    <3>3. (tags \o rest)[i] = t /\ i \in DOMAIN (tags \o rest)
      BY <1>1, <3>1, <3>2
    <3> QED
      BY <1>3, <3>3 DEF ToSet, rest
  <2>2. CASE t \notin ToSet(tags)
    <3> DEFINE rest == SetToSeq(more)
    <3>1. PICK i \in DOMAIN rest : rest[i] = t
      BY <1>2, <2>2 DEF ToSet
    <3> HIDE DEF rest
    <3>2. rest \in Seq(T)
      BY <1>4 DEF rest
    <3>3. (tags \o rest)[Len(tags) + i] = t /\ Len(tags) + i \in DOMAIN (tags \o rest)
      BY <1>1, <3>1, <3>2
    <3> QED
      BY <1>3, <3>3 DEF ToSet, rest
  <2> QED
    BY <2>1, <2>2
<1>6. tags \o SetToSeq(more) \in Seq(T)
  BY <1>1, <1>4
<1> HIDE DEF T
<1> QED
  BY <1>3, <1>5, <1>6

\* A sequence of something.
IsSeq(s) == \E T : s \in Seq(T)

\* Tuples are sequences.
LEMMA Tuples ==
    ASSUME NEW u, NEW v, NEW w, NEW x, NEW y, NEW z
    PROVE  /\ IsSeq(<<u>>) /\ IsSeq(<<u, v>>) /\ IsSeq(<<u, v, w>>) /\ IsSeq(<<u, v, w, x, y, z>>)
<1> DEFINE T == {u, v, w, x, y, z}
<1>1. <<u>> \in Seq(T) /\ <<u, v>> \in Seq(T) /\ <<u, v, w>> \in Seq(T) /\ <<u, v, w, x, y, z>> \in Seq(T)
  OBVIOUS
<1> HIDE DEF T
<1> QED
  BY <1>1 DEF IsSeq

\* Two sequences, the second after the first.
PutOn(s, t) == s \o t

\* What stands where in two sequences put together.
LEMMA PutTogether ==
    ASSUME NEW s, IsSeq(s), NEW t, IsSeq(t)
    PROVE  /\ IsSeq(PutOn(s, t)) /\ Len(s) \in Nat /\ Len(t) \in Nat /\ Len(PutOn(s, t)) = Len(s) + Len(t)
           /\ \A i \in 1..Len(s) : PutOn(s, t)[i] = s[i]
           /\ \A i \in (Len(s) + 1)..(Len(s) + Len(t)) : PutOn(s, t)[i] = t[i - Len(s)]
<1>1. PICK S, T : s \in Seq(S) /\ t \in Seq(T)
  BY DEF IsSeq
<1>2. s \in Seq(S \cup T) /\ t \in Seq(S \cup T)
  BY <1>1
<1> DEFINE R == S \cup T
<1> HIDE DEF R
<1>3. s \in Seq(R) /\ t \in Seq(R)
  BY <1>2 DEF R
<1>4. s \o t \in Seq(R) /\ Len(s \o t) = Len(s) + Len(t) /\ Len(s) \in Nat /\ Len(t) \in Nat
  BY <1>3
<1>5. \A i \in 1..Len(s) : (s \o t)[i] = s[i]
  BY <1>3
<1>6. ASSUME NEW i \in (Len(s) + 1)..(Len(s) + Len(t))
      PROVE  (s \o t)[i] = t[i - Len(s)]
  BY <1>3
<1>7. IsSeq(s \o t)
  BY <1>4 DEF IsSeq
<1> QED
  BY <1>4, <1>5, <1>6, <1>7 DEF PutOn

\* Five sequences, all of known lengths but one.
FiveParts(n, a, b, c, d, e) ==
    /\ IsSeq(a) /\ IsSeq(b) /\ IsSeq(c) /\ IsSeq(d) /\ IsSeq(e)
    /\ Len(a) = 2 /\ Len(b) = 1 /\ Len(c) = n /\ Len(d) = 3 /\ Len(e) = 6

\* What stands in which place of the five put together.
FivePlaced(n, all, a, b, c, d, e) ==
    /\ IsSeq(all) /\ Len(all) = n + 12
    /\ all[1] = a[1] /\ all[2] = a[2] /\ all[3] = b[1] /\ \A i \in 4..(3 + n) : all[i] = c[i - 3]
    /\ all[4 + n] = d[1] /\ all[5 + n] = d[2] /\ all[6 + n] = d[3]
    /\ all[7 + n] = e[1] /\ all[8 + n] = e[2] /\ all[9 + n] = e[3]
    /\ all[10 + n] = e[4] /\ all[11 + n] = e[5] /\ all[12 + n] = e[6]

\* Five sequences put together.
LEMMA FiveTogether ==
    ASSUME NEW n \in Nat, NEW a, NEW b, NEW c, NEW d, NEW e, FiveParts(n, a, b, c, d, e),
           NEW all, all = PutOn(PutOn(PutOn(PutOn(a, b), c), d), e)
    PROVE  FivePlaced(n, all, a, b, c, d, e)
<1> USE DEF FiveParts
<1>1. PICK ab : ab = PutOn(a, b)
  OBVIOUS
<1>2. PICK abc : abc = PutOn(ab, c)
  OBVIOUS
<1>3. PICK abcd : abcd = PutOn(abc, d)
  OBVIOUS
<1>4. PICK whole : whole = PutOn(abcd, e)
  OBVIOUS
<1>5. /\ IsSeq(ab) /\ Len(ab) = 3
      /\ \A i \in 1..2 : ab[i] = a[i]
      /\ \A i \in 3..3 : ab[i] = b[i - 2]
  <2>1. /\ IsSeq(ab) /\ Len(ab) = Len(a) + Len(b)
        /\ \A i \in 1..Len(a) : ab[i] = a[i]
        /\ \A i \in (Len(a) + 1)..(Len(a) + Len(b)) : ab[i] = b[i - Len(a)]
    BY <1>1, PutTogether
  <2> QED
    BY <2>1
<1>6. /\ IsSeq(abc) /\ Len(abc) = 3 + n
      /\ \A i \in 1..3 : abc[i] = ab[i]
      /\ \A i \in 4..(3 + n) : abc[i] = c[i - 3]
  <2>1. IsSeq(ab)
    BY <1>5
  <2>2. /\ IsSeq(abc) /\ Len(abc) = Len(ab) + Len(c)
        /\ \A i \in 1..Len(ab) : abc[i] = ab[i]
        /\ \A i \in (Len(ab) + 1)..(Len(ab) + Len(c)) : abc[i] = c[i - Len(ab)]
    BY <1>2, <2>1, PutTogether
  <2> QED
    BY <1>5, <2>2
<1>7. /\ IsSeq(abcd) /\ Len(abcd) = 6 + n
      /\ \A i \in 1..(3 + n) : abcd[i] = abc[i]
      /\ \A i \in (4 + n)..(6 + n) : abcd[i] = d[i - (3 + n)]
  <2>1. IsSeq(abc)
    BY <1>6
  <2>2. /\ IsSeq(abcd) /\ Len(abcd) = Len(abc) + Len(d)
        /\ \A i \in 1..Len(abc) : abcd[i] = abc[i]
        /\ \A i \in (Len(abc) + 1)..(Len(abc) + Len(d)) : abcd[i] = d[i - Len(abc)]
    BY <1>3, <2>1, PutTogether
  <2> QED
    BY <1>6, <2>2
<1>8. /\ IsSeq(whole) /\ Len(whole) = 12 + n
      /\ \A i \in 1..(6 + n) : whole[i] = abcd[i]
      /\ \A i \in (7 + n)..(12 + n) : whole[i] = e[i - (6 + n)]
  <2>1. IsSeq(abcd)
    BY <1>7
  <2>2. /\ IsSeq(whole) /\ Len(whole) = Len(abcd) + Len(e)
        /\ \A i \in 1..Len(abcd) : whole[i] = abcd[i]
        /\ \A i \in (Len(abcd) + 1)..(Len(abcd) + Len(e)) : whole[i] = e[i - Len(abcd)]
    BY <1>4, <2>1, PutTogether
  <2> QED
    BY <1>7, <2>2
<1>9. /\ \A i \in 1..(3 + n) : whole[i] = abc[i]
      /\ \A i \in (4 + n)..(6 + n) : whole[i] = d[i - (3 + n)]
  <2>1. ASSUME NEW i \in 1..(3 + n)
        PROVE  whole[i] = abc[i]
    <3>1. i \in 1..(6 + n)
      OBVIOUS
    <3> QED
      BY <1>7, <1>8, <3>1
  <2>2. ASSUME NEW i \in (4 + n)..(6 + n)
        PROVE  whole[i] = d[i - (3 + n)]
    <3>1. i \in 1..(6 + n)
      OBVIOUS
    <3> QED
      BY <1>7, <1>8, <3>1
  <2> QED
    BY <2>1, <2>2
<1>10. /\ \A i \in 1..3 : whole[i] = ab[i]
       /\ \A i \in 4..(3 + n) : whole[i] = c[i - 3]
  BY <1>6, <1>9
<1>11. whole[1] = a[1] /\ whole[2] = a[2] /\ whole[3] = b[1]
  BY <1>5, <1>10
<1>12. whole[4 + n] = d[1] /\ whole[5 + n] = d[2] /\ whole[6 + n] = d[3]
  BY <1>9
<1>13. /\ whole[7 + n] = e[1] /\ whole[8 + n] = e[2] /\ whole[9 + n] = e[3]
       /\ whole[10 + n] = e[4] /\ whole[11 + n] = e[5] /\ whole[12 + n] = e[6]
  BY <1>8
<1>14. all = whole
  BY <1>1, <1>2, <1>3, <1>4
<1> QED
  BY <1>8, <1>10, <1>11, <1>12, <1>13, <1>14 DEF FivePlaced

\* What stands in which line of a draft whose title is one line.
DraftLines(lines, tags, n, title, processed) ==
    /\ n \in Nat /\ Len(tags) = n /\ IsSeq(tags) /\ IsSeq(lines) /\ Len(lines) = n + 12
    /\ lines[1] = Fence /\ lines[2] = Scalar("title", Written("double", Word(title)))
    /\ lines[3] = Open("tags") /\ \A i \in 4..(3 + n) : lines[i] = Item(TRUE, Bare(tags[i - 3]))
    /\ lines[4 + n] = Open("related") /\ lines[5 + n] = Item(TRUE, Written("double", Link(processed)))
    /\ lines[6 + n] = Open("openwhisker") /\ lines[7 + n] = SubKey("job_id", Bare("job"))
    /\ lines[8 + n] = SubKey("raw_job_id", Bare("raw job"))
    /\ lines[9 + n] = SubKey("processed_path", Bare(processed))
    /\ lines[10 + n] = Fence /\ lines[11 + n] = Text("heading") /\ lines[12 + n] = Text(processed)

\* Those are the lines of such a draft.
LEMMA LinesOfDraft ==
    ASSUME NEW output, output.titleRest = <<>>, NEW processed, NEW required, IsFiniteSet(required)
    PROVE  LET tags == DraftTags(required)
           IN  DraftLines(renderLLMKnowledgeDraft(output, processed, required), tags, Len(tags), output.title, processed)
<1> DEFINE tags == DraftTags(required)
           n == Len(tags)
           a == <<Fence, Scalar("title", Written("double", Word(output.title)))>>
           b == <<Open("tags")>>
           c == [i \in DOMAIN tags |-> Item(TRUE, Bare(tags[i]))]
           d == <<Open("related"), Item(TRUE, Written("double", Link(processed))), Open("openwhisker")>>
           e == <<SubKey("job_id", Bare("job")), SubKey("raw_job_id", Bare("raw job")),
                  SubKey("processed_path", Bare(processed)), Fence, Text("heading"), Text(processed)>>
<1>1. IsSeq(tags)
  BY TagsOfDraft DEF IsSeq
<1>2. n \in Nat /\ DOMAIN tags = 1..n
  BY <1>1 DEF IsSeq
<1> HIDE DEF tags
<1>3. IsSeq(a) /\ Len(a) = 2 /\ a[1] = Fence /\ a[2] = Scalar("title", Written("double", Word(output.title)))
  BY Tuples
<1>4. IsSeq(b) /\ Len(b) = 1 /\ b[1] = Open("tags")
  BY Tuples
<1>5. IsSeq(c) /\ Len(c) = n /\ \A i \in 1..n : c[i] = Item(TRUE, Bare(tags[i]))
  <2> DEFINE it(x) == Item(TRUE, Bare(x))
  <2> HIDE DEF it
  <2>1. [i \in DOMAIN tags |-> it(tags[i])] \in Seq({it(tags[i]) : i \in DOMAIN tags})
    BY <1>2
  <2>2. IsSeq(c)
    BY <2>1 DEF IsSeq, it
  <2> HIDE DEF n
  <2> QED
    BY <1>2, <2>2
<1>6. IsSeq(d) /\ Len(d) = 3 /\ d[1] = Open("related") /\ d[2] = Item(TRUE, Written("double", Link(processed)))
      /\ d[3] = Open("openwhisker")
  BY Tuples
<1>7. /\ IsSeq(e) /\ Len(e) = 6 /\ e[1] = SubKey("job_id", Bare("job")) /\ e[2] = SubKey("raw_job_id", Bare("raw job"))
      /\ e[3] = SubKey("processed_path", Bare(processed)) /\ e[4] = Fence /\ e[5] = Text("heading") /\ e[6] = Text(processed)
  BY Tuples
<1>8. renderLLMKnowledgeDraft(output, processed, required) = a \o b \o c \o d \o e
  <2>1. renderLLMKnowledgeDraft(output, processed, required) = a \o output.titleRest \o b \o c \o d \o e
    BY Zenon DEF renderLLMKnowledgeDraft, tags
  <2>2. a \o output.titleRest = a
    BY <1>3 DEF IsSeq
  <2> HIDE DEF a, b, c, d, e
  <2> QED
    BY <2>1, <2>2
<1> HIDE DEF a, b, c, d, e, n
<1>9. PICK all : all = PutOn(PutOn(PutOn(PutOn(a, b), c), d), e)
  OBVIOUS
<1>10. /\ IsSeq(all) /\ Len(all) = n + 12
       /\ all[1] = a[1] /\ all[2] = a[2] /\ all[3] = b[1] /\ \A i \in 4..(3 + n) : all[i] = c[i - 3]
       /\ all[4 + n] = d[1] /\ all[5 + n] = d[2] /\ all[6 + n] = d[3]
       /\ all[7 + n] = e[1] /\ all[8 + n] = e[2] /\ all[9 + n] = e[3]
       /\ all[10 + n] = e[4] /\ all[11 + n] = e[5] /\ all[12 + n] = e[6]
  <2>1. FiveParts(n, a, b, c, d, e)
    BY <1>3, <1>4, <1>5, <1>6, <1>7 DEF FiveParts
  <2>2. FivePlaced(n, all, a, b, c, d, e)
    BY <1>2, <1>9, <2>1, FiveTogether
  <2> QED
    BY <2>2 DEF FivePlaced
<1>11. all = renderLLMKnowledgeDraft(output, processed, required)
  BY <1>8, <1>9 DEF PutOn
<1>12. \A i \in 4..(3 + n) : all[i] = Item(TRUE, Bare(tags[i - 3]))
  <2>1. ASSUME NEW i \in 4..(3 + n)
        PROVE  all[i] = Item(TRUE, Bare(tags[i - 3]))
    <3>1. i - 3 \in 1..n
      BY <1>2
    <3> QED
      BY <1>5, <1>10, <3>1
  <2> QED
    BY <2>1
<1> QED
  BY <1>1, <1>2, <1>3, <1>4, <1>6, <1>7, <1>10, <1>11, <1>12 DEF n, tags, DraftLines

\* Its frontmatter is what stands between the two fences.
LEMMA DraftIsSplit ==
    ASSUME NEW lines, NEW tags, NEW n, NEW title, NEW processed, DraftLines(lines, tags, n, title, processed)
    PROVE  LET note == SplitFrontmatter([plain |-> TRUE, lines |-> lines])
           IN  /\ note.found /\ IsSeq(note.block) /\ DOMAIN note.block = 1..(8 + n)
               /\ \A i \in 1..(8 + n) : note.block[i] = lines[i + 1]
               /\ DOMAIN note.body = 1..2 /\ note.body[2] = Text(processed)
<1> DEFINE file == [plain |-> TRUE, lines |-> lines]
           S == {i \in 2..Len(lines) : lines[i].kind = "fence"}
<1>1. n \in Nat /\ IsSeq(lines) /\ Len(lines) = 12 + n /\ lines[1] = Fence
  <2>1. n \in Nat /\ IsSeq(lines) /\ Len(lines) = n + 12 /\ lines[1] = Fence
    BY Zenon DEF DraftLines
  <2> QED
    BY <2>1
<1>2. S \in SUBSET (1..(12 + n)) /\ 10 + n \in S
  <2>1. lines[10 + n].kind = "fence"
    <3>1. lines[10 + n] = Fence
      BY Zenon DEF DraftLines
    <3> QED
      BY <3>1 DEF Fence, Line
  <2> QED
    BY <1>1, <2>1
<1>3. ASSUME NEW j \in S
      PROVE  10 + n <= j
  <2>1. lines[j].kind = "fence" /\ j \in 2..(12 + n)
    BY <1>1
  <2>2. \A i \in 4..(3 + n) : lines[i].kind = "item"
    <3>1. \A i \in 4..(3 + n) : lines[i] = Item(TRUE, Bare(tags[i - 3]))
      BY Zenon DEF DraftLines
    <3>2. \A w : Item(TRUE, w).kind = "item"
      BY DEF Item, Line
    <3> QED
      BY <3>1, <3>2, Zenon
  <2>3. /\ lines[2].kind = "key" /\ lines[3].kind = "key" /\ lines[4 + n].kind = "key" /\ lines[5 + n].kind = "item"
        /\ lines[6 + n].kind = "key" /\ lines[7 + n].kind = "key" /\ lines[8 + n].kind = "key" /\ lines[9 + n].kind = "key"
    <3>1. /\ lines[2] = Scalar("title", Written("double", Word(title))) /\ lines[3] = Open("tags")
          /\ lines[4 + n] = Open("related") /\ lines[5 + n] = Item(TRUE, Written("double", Link(processed)))
          /\ lines[6 + n] = Open("openwhisker") /\ lines[7 + n] = SubKey("job_id", Bare("job"))
          /\ lines[8 + n] = SubKey("raw_job_id", Bare("raw job"))
          /\ lines[9 + n] = SubKey("processed_path", Bare(processed))
      BY Zenon DEF DraftLines
    <3>2. \A k, w : Scalar(k, w).kind = "key" /\ Open(k).kind = "key" /\ SubKey(k, w).kind = "key" /\ Item(TRUE, w).kind = "item"
      BY DEF Scalar, Open, SubKey, Item, Line
    <3> QED
      BY <3>1, <3>2, Zenon
  <2> HIDE DEF S
  <2> QED
    BY <1>1, <2>1, <2>2, <2>3
<1>4. FirstIndex(S) = 10 + n
  <2>1. PICK m : m = 12 + n
    OBVIOUS
  <2>2. PICK k : k = 10 + n
    OBVIOUS
  <2>3. m \in Nat /\ S \in SUBSET (1..m) /\ k \in S /\ \A j \in S : k <= j
    BY <1>1, <1>2, <1>3, <2>1, <2>2
  <2> HIDE DEF S
  <2>4. FirstIndex(S) = k
    BY <2>3, FirstIs
  <2> QED
    BY <2>2, <2>4
<1>5. lines # <<>>
  BY <1>1 DEF IsSeq
<1>6. SplitFrontmatter(file) = [found |-> TRUE, block |-> SubSeq(lines, 2, (10 + n) - 1),
                                body |-> SubSeq(lines, (10 + n) + 1, Len(lines))]
  <2>1. file.lines = lines
    OBVIOUS
  <2>2. 10 + n # 0
    BY <1>1
  <2> HIDE DEF file
  <2>3. FirstIndex({i \in 2..Len(file.lines) : file.lines[i].kind = "fence"}) = 10 + n
    BY <1>4, <2>1
  <2> QED
    BY <1>1, <1>5, <2>1, <2>2, <2>3 DEF SplitFrontmatter
<1>7. PICK T : lines \in Seq(T)
  BY <1>1 DEF IsSeq
<1>8. /\ SubSeq(lines, 2, (10 + n) - 1) \in Seq(T) /\ Len(SubSeq(lines, 2, (10 + n) - 1)) = 8 + n
      /\ \A i \in 1..(8 + n) : SubSeq(lines, 2, (10 + n) - 1)[i] = lines[i + 1]
  BY <1>1, <1>7
<1>9. /\ DOMAIN SubSeq(lines, (10 + n) + 1, Len(lines)) = 1..2
      /\ SubSeq(lines, (10 + n) + 1, Len(lines))[2] = lines[12 + n]
  BY <1>1, <1>7
<1> QED
  <2>1. lines[12 + n] = Text(processed)
    BY Zenon DEF DraftLines
  <2>2. PICK note : note = SplitFrontmatter(file)
    OBVIOUS
  <2>3. /\ note.found /\ note.block = SubSeq(lines, 2, (10 + n) - 1)
        /\ note.body = SubSeq(lines, (10 + n) + 1, Len(lines))
    <3>1. note = [found |-> TRUE, block |-> SubSeq(lines, 2, (10 + n) - 1),
                  body |-> SubSeq(lines, (10 + n) + 1, Len(lines))]
      BY <1>6, <2>2
    <3> HIDE DEF file
    <3>2. note.found
      BY ONLY <3>1
    <3>3. note.block = SubSeq(lines, 2, (10 + n) - 1)
      BY ONLY <3>1
    <3>4. note.body = SubSeq(lines, (10 + n) + 1, Len(lines))
      BY ONLY <3>1
    <3> QED
      BY <3>2, <3>3, <3>4
  <2>4. note.block \in Seq(T) /\ DOMAIN note.block = 1..(8 + n)
    BY <1>8, <2>3
  <2>5. IsSeq(note.block)
    BY <2>4 DEF IsSeq
  <2>6. \A i \in 1..(8 + n) : note.block[i] = lines[i + 1]
    BY <1>8, <2>3
  <2>7. DOMAIN note.body = 1..2 /\ note.body[2] = Text(processed)
    BY <1>9, <2>1, <2>3
  <2> QED
    BY <2>2, <2>3, <2>4, <2>5, <2>6, <2>7

\* A key that some line has is found.
LEMMA KeyIsThere ==
    ASSUME NEW block, NEW m \in Nat, DOMAIN block = 1..m, NEW key,
           NEW k \in 1..m, block[k].kind = "key", block[k].key = key
    PROVE  Has(block, key)
<1> DEFINE S == {i \in DOMAIN block : block[i].kind = "key" /\ block[i].key = key}
<1>1. S \in SUBSET (1..m) /\ k \in S
  OBVIOUS
<1>2. FirstIndex(S) # 0
  <2> HIDE DEF S
  <2> QED
    BY <1>1, FirstOf
<1> QED
  BY <1>2 DEF Has, KeyLine

\* It is found in the first such line.
LEMMA KeyIsFirst ==
    ASSUME NEW block, NEW m \in Nat, DOMAIN block = 1..m, NEW key,
           NEW k \in 1..m, block[k].kind = "key", block[k].key = key,
           \A j \in 1..m : block[j].kind = "key" /\ block[j].key = key => k <= j
    PROVE  KeyLine(block, key) = k
<1> DEFINE S == {i \in DOMAIN block : block[i].kind = "key" /\ block[i].key = key}
<1>1. S \in SUBSET (1..m) /\ k \in S /\ \A j \in S : k <= j
  OBVIOUS
<1>2. FirstIndex(S) = k
  <2> HIDE DEF S
  <2> QED
    BY <1>1, FirstIs
<1> QED
  BY <1>2 DEF KeyLine

\* What the lines of a draft's frontmatter are.
DraftBlock(block, tags, n, processed) ==
    /\ block[1].kind = "key" /\ block[1].key = "title"
    /\ block[2].kind = "key" /\ block[2].key = "tags" /\ block[2].style = "none"
    /\ \A i \in 3..(2 + n) : /\ block[i].kind = "item" /\ block[i].indent = TRUE
                             /\ block[i].items[1].entry.name = tags[i - 2]
    /\ block[3 + n].kind = "key" /\ block[3 + n].key = "related"
    /\ block[4 + n].kind = "item"
    /\ block[5 + n].kind = "key" /\ block[5 + n].key = "openwhisker"
    /\ block[6 + n].kind = "key" /\ block[6 + n].key = "job_id"
    /\ block[7 + n].kind = "key" /\ block[7 + n].key = "raw_job_id"
    /\ block[8 + n].kind = "key" /\ block[8 + n].key = "processed_path"
    /\ block[8 + n].style = "plain" /\ block[8 + n].items[1].entry.name = processed

\* They are the lines between the fences.
LEMMA BlockOfDraft ==
    ASSUME NEW lines, NEW tags, NEW n, NEW title, NEW processed, DraftLines(lines, tags, n, title, processed),
           NEW block, \A i \in 1..(8 + n) : block[i] = lines[i + 1]
    PROVE  DraftBlock(block, tags, n, processed)
<1>1. n \in Nat
  BY Zenon DEF DraftLines
<1>2. /\ lines[2] = Scalar("title", Written("double", Word(title))) /\ lines[3] = Open("tags")
      /\ lines[4 + n] = Open("related") /\ lines[5 + n] = Item(TRUE, Written("double", Link(processed)))
      /\ lines[6 + n] = Open("openwhisker") /\ lines[7 + n] = SubKey("job_id", Bare("job"))
      /\ lines[8 + n] = SubKey("raw_job_id", Bare("raw job"))
      /\ lines[9 + n] = SubKey("processed_path", Bare(processed))
  BY Zenon DEF DraftLines
<1>3. \A i \in 4..(3 + n) : lines[i] = Item(TRUE, Bare(tags[i - 3]))
  BY Zenon DEF DraftLines
<1>4. /\ block[1] = lines[2] /\ block[2] = lines[3] /\ block[3 + n] = lines[4 + n] /\ block[4 + n] = lines[5 + n]
      /\ block[5 + n] = lines[6 + n] /\ block[6 + n] = lines[7 + n] /\ block[7 + n] = lines[8 + n]
      /\ block[8 + n] = lines[9 + n]
  BY <1>1
<1>5. \A k, w : /\ Scalar(k, w).kind = "key" /\ Scalar(k, w).key = k
                /\ Open(k).kind = "key" /\ Open(k).key = k /\ Open(k).style = "none"
                /\ SubKey(k, w).kind = "key" /\ SubKey(k, w).key = k /\ SubKey(k, w).style = "plain"
                /\ SubKey(k, w).items[1] = w
  BY DEF Scalar, Open, SubKey, Line
<1>6. \A w : Item(TRUE, w).kind = "item" /\ Item(TRUE, w).indent = TRUE /\ Item(TRUE, w).items[1] = w
  BY DEF Item, Line
<1>7. \A name : Bare(name).entry.name = name
  BY DEF Bare, Written, Word
<1>8. ASSUME NEW i \in 3..(2 + n)
      PROVE  block[i].kind = "item" /\ block[i].indent = TRUE /\ block[i].items[1].entry.name = tags[i - 2]
  <2>1. i + 1 \in 4..(3 + n) /\ (i + 1) - 3 = i - 2 /\ i \in 1..(8 + n)
    BY <1>1
  <2>2. lines[i + 1] = Item(TRUE, Bare(tags[i - 2]))
    BY <1>3, <2>1
  <2>3. block[i] = lines[i + 1]
    BY <2>1
  <2>4. PICK w : w = Bare(tags[i - 2])
    OBVIOUS
  <2>5. PICK l : l = Item(TRUE, w)
    OBVIOUS
  <2>6. l.kind = "item" /\ l.indent = TRUE /\ l.items[1] = w
    BY <2>5 DEF Item, Line
  <2>7. w.entry.name = tags[i - 2]
    BY <2>4 DEF Bare, Written, Word
  <2>8. block[i] = l
    BY <2>2, <2>3, <2>4, <2>5
  <2> QED
    BY <2>6, <2>7, <2>8
<1>9. block[8 + n].items[1].entry.name = processed /\ block[8 + n].style = "plain"
  <2>1. PICK w : w = Bare(processed)
    OBVIOUS
  <2>2. block[8 + n] = SubKey("processed_path", w)
    BY <1>2, <1>4, <2>1
  <2>3. block[8 + n].items[1] = w /\ block[8 + n].style = "plain"
    BY <2>2 DEF SubKey, Line
  <2>4. w.entry.name = processed
    BY <2>1 DEF Bare, Written, Word
  <2> QED
    BY <2>3, <2>4
<1>10. block[1].kind = "key" /\ block[1].key = "title"
  <2>1. PICK w : w = Written("double", Word(title))
    OBVIOUS
  <2>2. block[1] = Scalar("title", w)
    BY <1>2, <1>4, <2>1
  <2> QED
    BY <2>2 DEF Scalar, Line
<1>11. block[2].kind = "key" /\ block[2].key = "tags" /\ block[2].style = "none"
  <2>1. block[2] = Open("tags")
    BY <1>2, <1>4
  <2> QED
    BY <2>1 DEF Open, Line
<1>12. block[3 + n].kind = "key" /\ block[3 + n].key = "related"
  <2>1. block[3 + n] = Open("related")
    BY <1>2, <1>4
  <2> QED
    BY <2>1 DEF Open, Line
<1>13. block[5 + n].kind = "key" /\ block[5 + n].key = "openwhisker"
  <2>1. block[5 + n] = Open("openwhisker")
    BY <1>2, <1>4
  <2> QED
    BY <2>1 DEF Open, Line
<1>14. block[6 + n].kind = "key" /\ block[6 + n].key = "job_id"
  <2>1. PICK w : w = Bare("job")
    OBVIOUS
  <2>2. block[6 + n] = SubKey("job_id", w)
    BY <1>2, <1>4, <2>1
  <2> QED
    BY <2>2 DEF SubKey, Line
<1>15. block[7 + n].kind = "key" /\ block[7 + n].key = "raw_job_id"
  <2>1. PICK w : w = Bare("raw job")
    OBVIOUS
  <2>2. block[7 + n] = SubKey("raw_job_id", w)
    BY <1>2, <1>4, <2>1
  <2> QED
    BY <2>2 DEF SubKey, Line
<1>16. block[8 + n].kind = "key" /\ block[8 + n].key = "processed_path"
  <2>1. PICK w : w = Bare(processed)
    OBVIOUS
  <2>2. block[8 + n] = SubKey("processed_path", w)
    BY <1>2, <1>4, <2>1
  <2> QED
    BY <2>2 DEF SubKey, Line
<1>17. block[4 + n].kind = "item"
  <2>1. PICK w : w = Written("double", Link(processed))
    OBVIOUS
  <2>2. block[4 + n] = Item(TRUE, w)
    BY <1>2, <1>4, <2>1
  <2> QED
    BY <2>2 DEF Item, Line
<1> QED
  BY <1>8, <1>9, <1>10, <1>11, <1>12, <1>13, <1>14, <1>15, <1>16, <1>17 DEF DraftBlock

\* What the readers find in a draft: its keys, the path it came from, its
\* tags, the link to that path.
LEMMA DraftIsRead ==
    ASSUME NEW lines, NEW tags, NEW n, NEW title, NEW processed, DraftLines(lines, tags, n, title, processed)
    PROVE  LET note == SplitFrontmatter([plain |-> TRUE, lines |-> lines])
           IN  /\ note.found
               /\ \A key \in {"title", "tags", "related", "openwhisker", "job_id", "raw_job_id", "processed_path"} :
                     Has(note.block, key)
               /\ ScalarOf(note.block, "processed_path") = processed
               /\ \A i \in 1..n : HasListValue(note.block, "tags", tags[i])
               /\ LinksTo(note.body, processed)
<1> DEFINE note == SplitFrontmatter([plain |-> TRUE, lines |-> lines])
           block == note.block
<1>1. /\ note.found /\ IsSeq(block) /\ DOMAIN block = 1..(8 + n)
      /\ \A i \in 1..(8 + n) : block[i] = lines[i + 1]
      /\ DOMAIN note.body = 1..2 /\ note.body[2] = Text(processed)
  BY DraftIsSplit
<1>2. n \in Nat
  BY Zenon DEF DraftLines
<1> HIDE DEF note
<1>3. /\ block[1].kind = "key" /\ block[1].key = "title"
      /\ block[2].kind = "key" /\ block[2].key = "tags" /\ block[2].style = "none"
      /\ \A i \in 3..(2 + n) : /\ block[i].kind = "item" /\ block[i].indent = TRUE
                               /\ block[i].items[1].entry.name = tags[i - 2]
      /\ block[3 + n].kind = "key" /\ block[3 + n].key = "related"
      /\ block[4 + n].kind = "item"
      /\ block[5 + n].kind = "key" /\ block[5 + n].key = "openwhisker"
      /\ block[6 + n].kind = "key" /\ block[6 + n].key = "job_id"
      /\ block[7 + n].kind = "key" /\ block[7 + n].key = "raw_job_id"
      /\ block[8 + n].kind = "key" /\ block[8 + n].key = "processed_path"
      /\ block[8 + n].style = "plain" /\ block[8 + n].items[1].entry.name = processed
  <2>1. DraftBlock(block, tags, n, processed)
    BY <1>1, BlockOfDraft
  <2> QED
    BY <2>1, Zenon DEF DraftBlock
<1> HIDE DEF block
<1>4. ASSUME NEW key \in {"title", "tags", "related", "openwhisker", "job_id", "raw_job_id", "processed_path"}
      PROVE  Has(block, key)
  <2>1. PICK m : m = 8 + n
    OBVIOUS
  <2>2. \E k \in 1..m : block[k].kind = "key" /\ block[k].key = key
    <3>1. /\ 1 \in 1..m /\ 2 \in 1..m /\ 3 + n \in 1..m /\ 5 + n \in 1..m
          /\ 6 + n \in 1..m /\ 7 + n \in 1..m /\ 8 + n \in 1..m
      BY <1>2, <2>1
    <3> QED
      BY <1>3, <3>1
  <2>3. m \in Nat /\ DOMAIN block = 1..m
    BY <1>1, <1>2, <2>1
  <2>4. PICK k \in 1..m : block[k].kind = "key" /\ block[k].key = key
    BY <2>2
  <2> QED
    BY <2>3, <2>4, KeyIsThere
<1>5. ScalarOf(block, "processed_path") = processed
  <2>1. PICK m : m = 8 + n
    OBVIOUS
  <2>2. m \in Nat /\ DOMAIN block = 1..m /\ m \in 1..m
    BY <1>1, <1>2, <2>1
  <2>3. block[m].kind = "key" /\ block[m].key = "processed_path" /\ block[m].style = "plain"
        /\ block[m].items[1].entry.name = processed
    BY <1>3, <2>1
  <2>4. ASSUME NEW j \in 1..m, block[j].kind = "key", block[j].key = "processed_path"
        PROVE  m <= j
    <3>1. j = 1 \/ j = 2 \/ j \in 3..(2 + n) \/ j = 3 + n \/ j = 4 + n \/ j = 5 + n \/ j = 6 + n \/ j = 7 + n \/ j = 8 + n
      BY <1>2, <2>1
    <3> QED
      BY <1>2, <1>3, <2>1, <2>4, <3>1
  <2>5. KeyLine(block, "processed_path") = m
    BY <2>2, <2>3, <2>4, KeyIsFirst
  <2>6. m # 0
    BY <2>2
  <2> QED
    BY <2>3, <2>5, <2>6 DEF ScalarOf
<1>6. ASSUME NEW i \in 1..n
      PROVE  HasListValue(block, "tags", tags[i])
  <2>1. KeyLine(block, "tags") = 2
    <3>1. PICK m : m = 8 + n
      OBVIOUS
    <3>2. PICK k : k = 2
      OBVIOUS
    <3>3. m \in Nat /\ DOMAIN block = 1..m /\ k \in 1..m /\ block[k].kind = "key" /\ block[k].key = "tags"
      BY <1>1, <1>2, <1>3, <3>1, <3>2
    <3>4. ASSUME NEW j \in 1..m, block[j].kind = "key", block[j].key = "tags"
          PROVE  k <= j
      <4>1. j # 1
        BY <1>3, <3>4
      <4> QED
        BY <3>1, <3>2, <4>1
    <3>5. KeyLine(block, "tags") = k
      BY <3>3, <3>4, KeyIsFirst
    <3> QED
      BY <3>2, <3>5
  <2> DEFINE listed == {j \in (2 + 1)..Len(block) :
                            \A k \in (2 + 1)..j : block[k].kind = "blank" \/ (block[k].kind = "item" /\ block[k].indent)}
  <2>2. ListOf(block, "tags") = {block[j].items[1].entry.name : j \in {j \in listed : block[j].kind = "item"}}
    BY <1>3, <2>1, ZenonT(30) DEF ListOf
  <2>3. Len(block) = 8 + n
    BY <1>1, <1>2 DEF IsSeq
  <2>4. 2 + i \in 3..(2 + n) /\ (2 + i) - 2 = i
    BY <1>2
  <2>5. 2 + i \in listed
    <3>1. 2 + i \in (2 + 1)..Len(block)
      BY <1>2, <2>3
    <3>2. ASSUME NEW k \in (2 + 1)..(2 + i)
          PROVE  block[k].kind = "item" /\ block[k].indent
      <4>1. k \in 3..(2 + n)
        BY <1>2
      <4> QED
        BY <1>3, <4>1
    <3> QED
      BY <3>1, <3>2
  <2>6. block[2 + i].kind = "item" /\ block[2 + i].items[1].entry.name = tags[i]
    BY <1>3, <2>4
  <2> HIDE DEF listed
  <2>7. tags[i] \in ListOf(block, "tags")
    BY <2>2, <2>5, <2>6
  <2> QED
    BY <2>7 DEF HasListValue
<1>7. LinksTo(note.body, processed)
  <2>1. note.body[2].kind = "text" /\ note.body[2].key = processed
    BY <1>1 DEF Text, Line
  <2>2. 2 \in DOMAIN note.body
    BY <1>1
  <2> QED
    BY <2>1, <2>2 DEF LinksTo
<1> QED
  BY <1>1, <1>4, <1>5, <1>6, <1>7 DEF note, block

\* A draft whose title is one line passes.
LEMMA DraftPasses ==
    ASSUME NEW c, IsFiniteSet(c.RequiredDraftTags), NEW output, output.titleRest = <<>>,
           NEW processed, validateRelativeVaultPath(processed), hasDirPrefix(processed, c.RawProcessedDir)
    PROVE  LET draft == renderLLMKnowledgeDraft(output, processed, c.RequiredDraftTags)
           IN  validateKnowledgeDraftPayload([ok |-> TRUE, file |-> [plain |-> TRUE, lines |-> draft]], c)
<1> DEFINE draft == renderLLMKnowledgeDraft(output, processed, c.RequiredDraftTags)
           tags == DraftTags(c.RequiredDraftTags)
           file == [plain |-> TRUE, lines |-> draft]
           payload == [ok |-> TRUE, file |-> file]
           note == SplitFrontmatter(file)
<1>1. DraftLines(draft, tags, Len(tags), output.title, processed)
  BY LinesOfDraft
<1> HIDE DEF draft
<1>2. /\ note.found
      /\ \A key \in {"title", "tags", "related", "openwhisker", "job_id", "raw_job_id", "processed_path"} :
            Has(note.block, key)
      /\ ScalarOf(note.block, "processed_path") = processed
      /\ \A i \in 1..Len(tags) : HasListValue(note.block, "tags", tags[i])
      /\ LinksTo(note.body, processed)
  BY <1>1, DraftIsRead
<1> HIDE DEF tags, note
<1>3. ASSUME NEW tag \in c.RequiredDraftTags
      PROVE  HasListValue(note.block, "tags", tag)
  <2>1. tag \in ToSet(tags)
    BY TagsOfDraft DEF tags
  <2>2. PICK T : tags \in Seq(T)
    BY TagsOfDraft DEF tags
  <2>3. PICK i \in 1..Len(tags) : tags[i] = tag
    BY <2>1, <2>2 DEF ToSet
  <2> QED
    BY <1>2, <2>3
<1>4. payload.file = file
  OBVIOUS
<1> HIDE DEF file, payload
<1>5. validateKnowledgeDraftPayload(payload, c)
  BY <1>2, <1>3, <1>4 DEF validateKnowledgeDraftPayload, note
<1> QED
  BY <1>5 DEF payload, file, draft

\* What is put on a sequence leaves its beginning as it is.
LEMMA BeginningStays ==
    ASSUME NEW s, IsSeq(s), Len(s) >= 3, NEW t, IsSeq(t)
    PROVE  /\ IsSeq(PutOn(s, t)) /\ Len(PutOn(s, t)) >= 3
           /\ PutOn(s, t)[1] = s[1] /\ PutOn(s, t)[2] = s[2] /\ PutOn(s, t)[3] = s[3]
<1>1. /\ IsSeq(PutOn(s, t)) /\ Len(s) \in Nat /\ Len(t) \in Nat /\ Len(PutOn(s, t)) = Len(s) + Len(t)
      /\ \A i \in 1..Len(s) : PutOn(s, t)[i] = s[i]
  BY PutTogether
<1> QED
  BY <1>1

\* One whose title ends the frontmatter does not.
LEMMA CutDraftFails ==
    ASSUME NEW c, NEW output, IsSeq(output.titleRest), output.titleRest # <<>>, Head(output.titleRest) = Fence,
           IsFiniteSet(c.RequiredDraftTags), NEW processed
    PROVE  LET draft == renderLLMKnowledgeDraft(output, processed, c.RequiredDraftTags)
           IN  ~validateKnowledgeDraftPayload([ok |-> TRUE, file |-> [plain |-> TRUE, lines |-> draft]], c)
<1> DEFINE tags == DraftTags(c.RequiredDraftTags)
           rest == output.titleRest
           a == <<Fence, Scalar("title", Written("double", Word(output.title)))>>
           b == <<Open("tags")>>
           d == [i \in DOMAIN tags |-> Item(TRUE, Bare(tags[i]))]
           e == <<Open("related"), Item(TRUE, Written("double", Link(processed))), Open("openwhisker")>>
           f == <<SubKey("job_id", Bare("job")), SubKey("raw_job_id", Bare("raw job")),
                  SubKey("processed_path", Bare(processed)), Fence, Text("heading"), Text(processed)>>
           draft == renderLLMKnowledgeDraft(output, processed, c.RequiredDraftTags)
           file == [plain |-> TRUE, lines |-> draft]
           payload == [ok |-> TRUE, file |-> file]
           note == SplitFrontmatter(file)
<1>1. draft = a \o rest \o b \o d \o e \o f
  BY Zenon DEF renderLLMKnowledgeDraft
<1>2. IsSeq(a) /\ Len(a) = 2 /\ a[1] = Fence /\ a[2] = Scalar("title", Written("double", Word(output.title)))
  BY Tuples
<1>3. IsSeq(b) /\ IsSeq(e) /\ IsSeq(f)
  BY Tuples
<1>4. IsSeq(d)
  <2>1. IsSeq(tags)
    BY TagsOfDraft DEF IsSeq
  <2> DEFINE it(x) == Item(TRUE, Bare(x))
  <2> HIDE DEF it, tags
  <2>2. [i \in DOMAIN tags |-> it(tags[i])] \in Seq({it(tags[i]) : i \in DOMAIN tags})
    BY <2>1 DEF IsSeq
  <2> QED
    BY <2>2 DEF IsSeq, it
<1> HIDE DEF a, b, d, e, f, tags
<1>5. IsSeq(draft) /\ Len(draft) >= 3 /\ draft[1] = a[1] /\ draft[2] = a[2] /\ draft[3] = rest[1]
  <2>1. PICK s1 : s1 = PutOn(a, rest)
    OBVIOUS
  <2>2. PICK s2 : s2 = PutOn(s1, b)
    OBVIOUS
  <2>3. PICK s3 : s3 = PutOn(s2, d)
    OBVIOUS
  <2>4. PICK s4 : s4 = PutOn(s3, e)
    OBVIOUS
  <2>5. draft = PutOn(s4, f)
    BY <1>1, <2>1, <2>2, <2>3, <2>4 DEF PutOn
  <2> HIDE DEF draft, rest
  <2>6. IsSeq(s1) /\ Len(s1) >= 3 /\ s1[1] = a[1] /\ s1[2] = a[2] /\ s1[3] = rest[1]
    <3>1. IsSeq(rest) /\ Len(rest) \in Nat /\ Len(rest) >= 1
      BY DEF rest, IsSeq
    <3>2. /\ IsSeq(s1) /\ Len(s1) = Len(a) + Len(rest)
          /\ \A i \in 1..Len(a) : s1[i] = a[i]
          /\ \A i \in (Len(a) + 1)..(Len(a) + Len(rest)) : s1[i] = rest[i - Len(a)]
      <4>1. IsSeq(a)
        BY <1>2
      <4> QED
        BY <2>1, <3>1, <4>1, PutTogether
    <3> QED
      BY <1>2, <3>1, <3>2
  <2>7. IsSeq(s2) /\ Len(s2) >= 3 /\ s2[1] = s1[1] /\ s2[2] = s1[2] /\ s2[3] = s1[3]
    BY <1>3, <2>2, <2>6, BeginningStays
  <2>8. IsSeq(s3) /\ Len(s3) >= 3 /\ s3[1] = s2[1] /\ s3[2] = s2[2] /\ s3[3] = s2[3]
    BY <1>4, <2>3, <2>7, BeginningStays
  <2>9. IsSeq(s4) /\ Len(s4) >= 3 /\ s4[1] = s3[1] /\ s4[2] = s3[2] /\ s4[3] = s3[3]
    BY <1>3, <2>4, <2>8, BeginningStays
  <2>10. IsSeq(draft) /\ Len(draft) >= 3 /\ draft[1] = s4[1] /\ draft[2] = s4[2] /\ draft[3] = s4[3]
    BY <1>3, <2>5, <2>9, BeginningStays
  <2> QED
    BY <2>6, <2>7, <2>8, <2>9, <2>10
<1> HIDE DEF draft
<1>6. rest[1] = Fence
  BY DEF IsSeq
<1>7. SplitFrontmatter(file).block = SubSeq(draft, 2, 3 - 1)
  <2>1. PICK m : m = Len(draft)
    OBVIOUS
  <2>2. m \in Nat /\ m >= 3
    BY <1>5, <2>1 DEF IsSeq
  <2> DEFINE S == {i \in 2..Len(draft) : draft[i].kind = "fence"}
  <2>3. PICK k : k = 3
    OBVIOUS
  <2>4. draft[3].kind = "fence"
    <3>1. draft[3] = Fence
      BY <1>5, <1>6
    <3> QED
      BY <3>1 DEF Fence, Line
  <2>5. draft[2].kind = "key"
    <3>1. PICK w : w = Written("double", Word(output.title))
      OBVIOUS
    <3>2. draft[2] = Scalar("title", w)
      BY <1>2, <1>5, <3>1
    <3> QED
      BY <3>2 DEF Scalar, Line
  <2>6. S \in SUBSET (1..m) /\ k \in S
    BY <2>1, <2>2, <2>3, <2>4
  <2>7. \A j \in S : k <= j
    <3>1. 2 \notin S
      BY <2>5
    <3> QED
      BY <2>1, <2>2, <2>3, <3>1
  <2> HIDE DEF S
  <2>8. FirstIndex(S) = k
    BY <2>2, <2>6, <2>7, FirstIs
  <2>9. draft # <<>> /\ draft[1] = Fence
    BY <1>2, <1>5 DEF IsSeq
  <2>10. file.lines = draft
    OBVIOUS
  <2> HIDE DEF file
  <2>11. FirstIndex({i \in 2..Len(file.lines) : file.lines[i].kind = "fence"}) = k
    BY <2>8, <2>10 DEF S
  <2>12. SplitFrontmatter(file) = [found |-> TRUE, block |-> SubSeq(draft, 2, k - 1), body |-> SubSeq(draft, k + 1, Len(draft))]
    <3>1. k # 0
      BY <2>3
    <3> QED
      BY <2>9, <2>10, <2>11, <3>1 DEF SplitFrontmatter
  <2>13. SplitFrontmatter(file).block = SubSeq(draft, 2, k - 1)
    <3>1. PICK q : q = SubSeq(draft, 2, k - 1)
      OBVIOUS
    <3>2. PICK r : r = SubSeq(draft, k + 1, Len(draft))
      OBVIOUS
    <3>3. SplitFrontmatter(file) = [found |-> TRUE, block |-> q, body |-> r]
      BY <2>12, <3>1, <3>2
    <3>4. SplitFrontmatter(file).block = q
      BY ONLY <3>3
    <3> QED
      BY <3>1, <3>4
  <2> QED
    BY <2>3, <2>13
<1>8. DOMAIN note.block = 1..1 /\ note.block[1] = draft[2]
  <2>1. PICK T : draft \in Seq(T) /\ Len(draft) >= 3
    BY <1>5 DEF IsSeq
  <2>2. DOMAIN SubSeq(draft, 2, 3 - 1) = 1..1 /\ SubSeq(draft, 2, 3 - 1)[1] = draft[2]
    BY <2>1
  <2> QED
    BY <1>7, <2>2
<1>9. draft[2].key = "title"
  <2>1. PICK w : w = Written("double", Word(output.title))
    OBVIOUS
  <2>2. draft[2] = Scalar("title", w)
    BY <1>2, <1>5, <2>1
  <2> QED
    BY <2>2 DEF Scalar, Line
<1> HIDE DEF note
<1>10. ~Has(note.block, "tags")
  <2>1. {i \in DOMAIN note.block : note.block[i].kind = "key" /\ note.block[i].key = "tags"} = {}
    BY <1>8, <1>9
  <2> QED
    BY <2>1 DEF Has, KeyLine, FirstIndex
<1>11. payload.file = file
  OBVIOUS
<1> HIDE DEF file, payload
<1>12. ~validateKnowledgeDraftPayload(payload, c)
  BY <1>10, <1>11 DEF validateKnowledgeDraftPayload, note
<1> QED
  BY <1>12 DEF payload, file, draft

\* What is in a directory below another is in that.
LEMMA BelowBoth ==
    ASSUME NEW T, NEW dir \in Seq(T), NEW upper \in Seq(T), IsPrefix(upper, dir), NEW base,
           NEW name, PathOf[name].segs = Append(dir, base)
    PROVE  hasDirPrefix(name, upper)
<1> DEFINE R == T \cup {base}
<1>1. dir \in Seq(R) /\ upper \in Seq(R) /\ base \in R
  OBVIOUS
<1> HIDE DEF R
<1>2. Len(upper) \in Nat /\ Len(upper) <= Len(dir) /\ SubSeq(upper, 1, Len(upper)) = SubSeq(dir, 1, Len(upper))
  BY <1>1 DEF IsPrefix
<1>3. SubSeq(Append(dir, base), 1, Len(upper)) = SubSeq(dir, 1, Len(upper)) /\ Len(Append(dir, base)) = Len(dir) + 1
  BY <1>1, <1>2
<1>4. IsPrefix(upper, Append(dir, base))
  BY <1>1, <1>2, <1>3 DEF IsPrefix
<1> QED
  BY <1>4 DEF hasDirPrefix

\* A note that has a name is found under it.
LEMMA NoteHasPath ==
    ASSUME NEW dir, NEW base, \E n \in DOMAIN PathOf : PathOf[n] = [abs |-> FALSE, segs |-> Append(dir, base)]
    PROVE  PathOf[NoteIn(dir, base)].segs = Append(dir, base)
<1>1. PathOf[NoteIn(dir, base)] = [abs |-> FALSE, segs |-> Append(dir, base)]
  BY DEF NoteIn
<1> QED
  BY <1>1

\* The plan of an organized note passes exactly if its draft does.
LEMMA OrganizedPlan ==
    ASSUME NEW o \in Organizings, NEW output
    PROVE  LET c == Normalize(o.conventions)
               p == buildLLMOrganizePlan(o.raw, o.conventions, output)
               processed == NoteIn(c.RawProcessedDir, BaseOf(o.raw))
           IN  /\ validateRelativeVaultPath(processed) /\ hasDirPrefix(processed, c.RawProcessedDir)
               /\ CheckForApproval(p, o.conventions) <=>
                      validateKnowledgeDraftPayload(
                          [ok |-> TRUE, file |-> [plain |-> TRUE,
                                                  lines |-> renderLLMKnowledgeDraft(output, processed, c.RequiredDraftTags)]], c)
<1> DEFINE c == Normalize(o.conventions)
           base == BaseOf(o.raw)
           knowledge == NoteIn(c.KnowledgeDraftDir, base)
           processed == NoteIn(c.RawProcessedDir, base)
           draft == renderLLMKnowledgeDraft(output, processed, c.RequiredDraftTags)
           p == buildLLMOrganizePlan(o.raw, o.conventions, output)
           payload == [ok |-> TRUE, file |-> [plain |-> TRUE, lines |-> draft]]
<1>1. /\ c.KnowledgeDir \in Seq(STRING) /\ IsPrefix(c.KnowledgeDir, c.KnowledgeDraftDir)
      /\ validateRelativeVaultPath(o.raw) /\ hasDirPrefix(o.raw, c.RawInboxDir)
      /\ \A dir \in {c.KnowledgeDraftDir, c.RawProcessedDir} :
            /\ dir \in Seq(STRING)
            /\ \E n \in DOMAIN PathOf : PathOf[n] = [abs |-> FALSE, segs |-> Append(dir, base)]
            /\ validateRelativeVaultPath(NoteIn(dir, base))
  BY Zenon, OrganizingsAssumption
<1> HIDE DEF c, base, knowledge, processed
<1>2. PathOf[knowledge].segs = Append(c.KnowledgeDraftDir, base) /\ PathOf[processed].segs = Append(c.RawProcessedDir, base)
  BY <1>1, NoteHasPath DEF knowledge, processed
<1>3. IsPrefix(c.KnowledgeDraftDir, c.KnowledgeDraftDir) /\ IsPrefix(c.RawProcessedDir, c.RawProcessedDir)
  BY <1>1 DEF IsPrefix
<1>4. /\ hasDirPrefix(knowledge, c.KnowledgeDraftDir) /\ hasDirPrefix(knowledge, c.KnowledgeDir)
      /\ hasDirPrefix(processed, c.RawProcessedDir)
  BY <1>1, <1>2, <1>3, BelowBoth
<1>5. validateRelativeVaultPath(knowledge) /\ validateRelativeVaultPath(processed)
  BY <1>1 DEF knowledge, processed
<1> DEFINE first == [type |-> "create_note", risk |-> "medium", missing |-> {}, target |-> knowledge, hash |-> NoText,
                     payload |-> payload]
           second == [type |-> "move_note", risk |-> "medium", missing |-> {}, target |-> o.raw, hash |-> NoText,
                      payload |-> [ok |-> TRUE, dest |-> processed,
                                   refs |-> renderLLMProcessedRawNote(processed, {knowledge})]]
<1>6. p = [risk |-> "medium", approval |-> TRUE, status |-> "proposed", missing |-> {}, purpose |-> NoText,
           targets |-> {knowledge, o.raw, processed}, ops |-> <<first, second>>]
  BY Zenon DEF buildLLMOrganizePlan, c, base, knowledge, processed
<1> HIDE DEF payload
<1>7. /\ first.type = "create_note" /\ first.risk = "medium" /\ first.missing = {} /\ first.target = knowledge
      /\ first.payload = payload
  OBVIOUS
<1>8. /\ second.type = "move_note" /\ second.risk = "medium" /\ second.missing = {} /\ second.target = o.raw
      /\ second.payload.ok /\ second.payload.dest = processed /\ second.payload.refs = {knowledge, processed}
  BY DEF renderLLMProcessedRawNote
<1>9. payload.ok
  BY DEF payload
<1> HIDE DEF first, second
<1>10. /\ p.risk = "medium" /\ p.approval /\ p.missing = {} /\ p.targets = {knowledge, o.raw, processed}
       /\ p.ops = <<first, second>>
  BY <1>6
<1> HIDE DEF p
<1>11. DOMAIN p.ops = 1..2 /\ p.ops[1] = first /\ p.ops[2] = second /\ p.ops # <<>>
  BY <1>10
<1>12. HeadOk(p, "medium")
  BY <1>1, <1>5, <1>10, <1>11 DEF HeadOk
<1>13. OperationOk(first, "medium") /\ OperationOk(second, "medium") /\ first.target \in p.targets /\ second.target \in p.targets
  BY <1>1, <1>5, <1>7, <1>8, <1>10 DEF OperationOk
<1>14. MoveOk(p, second, c)
  BY <1>1, <1>4, <1>5, <1>8, <1>10 DEF MoveOk, validateProcessingNote
<1>15. CheckForApproval(p, o.conventions) <=> validateKnowledgeDraftPayload(payload, c)
  BY <1>4, <1>7, <1>8, <1>9, <1>11, <1>12, <1>13, <1>14 DEF CheckForApproval, c
<1> QED
  BY <1>4, <1>5, <1>15 DEF c, base, p, payload, processed

\* A plan that adds a section passes for a knowledge note.
LEMMA AppendPasses ==
    ASSUME NEW x \in Expansions, NEW output, validateKnowledgeExpanderOutput(output), output.kind = "append"
    PROVE  LET p == buildKnowledgeAppendPlan(x.target, output)
           IN  /\ p.risk = "medium"
               /\ CheckForApproval(p, x.conventions) <=> hasDirPrefix(x.target, Normalize(x.conventions).KnowledgeDir)
<1> DEFINE c == Normalize(x.conventions)
           p == buildKnowledgeAppendPlan(x.target, output)
           op == [type |-> "append_note", risk |-> "medium", missing |-> {}, target |-> x.target, hash |-> NoText,
                  payload |-> [ok |-> TRUE, text |-> output.append]]
<1>1. validateRelativeVaultPath(x.target)
  BY Zenon, ExpansionsAssumption
<1>2. output.append
  BY DEF validateKnowledgeExpanderOutput
<1>3. p = [risk |-> "medium", approval |-> TRUE, status |-> "proposed", missing |-> {}, purpose |-> NoText,
           targets |-> {x.target}, ops |-> <<op>>]
  BY Zenon DEF buildKnowledgeAppendPlan
<1>4. /\ op.type = "append_note" /\ op.risk = "medium" /\ op.missing = {} /\ op.target = x.target
      /\ op.payload.ok /\ op.payload.text
  BY <1>2
<1> HIDE DEF op, c
<1>5. /\ p.risk = "medium" /\ p.approval /\ p.missing = {} /\ p.targets = {x.target} /\ p.ops = <<op>>
  BY <1>3
<1> HIDE DEF p
<1>6. DOMAIN p.ops = 1..1 /\ p.ops[1] = op /\ p.ops # <<>>
  BY <1>5
<1>7. HeadOk(p, "medium") /\ OperationOk(op, "medium")
  BY <1>1, <1>4, <1>5, <1>6 DEF HeadOk, OperationOk
<1>8. CheckForApproval(p, x.conventions) <=> hasDirPrefix(x.target, c.KnowledgeDir)
  BY <1>1, <1>4, <1>5, <1>6, <1>7 DEF CheckForApproval, c
<1> QED
  BY <1>5, <1>8 DEF p, c

\* A plan that restructures passes exactly for a finished knowledge note and
\* valid paths, and is of the kind that was asked for.
LEMMA RestructurePasses ==
    ASSUME NEW x \in Expansions, NEW output, output = x.replies[1].output,
           validateKnowledgeExpanderOutput(output), output.kind # "append"
    PROVE  LET p == buildKnowledgeRestructurePlan(x.target, output)
           IN  /\ p.risk = "high"
               /\ CheckForApprovalHighRisk(p, x.conventions) <=>
                      /\ hasDirPrefix(x.target, Normalize(x.conventions).KnowledgeDir)
                      /\ ~hasDirPrefix(x.target, Normalize(x.conventions).KnowledgeDraftDir)
                      /\ \A n \in ToSet(output.affected) : validateRelativeVaultPath(n)
               /\ ClassifyProposalKind(p) = {output.restructure}
<1> DEFINE c == Normalize(x.conventions)
           p == buildKnowledgeRestructurePlan(x.target, output)
           op == buildKnowledgeRestructureRenameOp(x.target, output)
           paths == output.affected
<1>1. validateRelativeVaultPath(x.target)
  BY Zenon, ExpansionsAssumption
<1>2. paths \in Seq(ToSet(paths))
  BY ExpansionsAssumption
<1>3. output.restructure \in {"split", "merge", "rename"}
  BY DEF validateKnowledgeExpanderOutput
<1>4. /\ op.type = "rename_note" /\ op.risk = "high" /\ op.missing = {} /\ op.target = x.target
      /\ op.payload.ok /\ op.payload.source = x.target
      /\ op.payload.dest = IF Len(paths) >= 2 THEN paths[2] ELSE x.target
  BY DEF buildKnowledgeRestructureRenameOp
<1>5. p = [risk |-> "high", approval |-> TRUE, status |-> "proposed", missing |-> {}, purpose |-> output.restructure,
           targets |-> {x.target} \cup ToSet(paths), ops |-> <<op>>]
  BY Zenon DEF buildKnowledgeRestructurePlan
<1> HIDE DEF op, c
<1>6. /\ p.risk = "high" /\ p.approval /\ p.missing = {} /\ p.purpose = output.restructure
      /\ p.targets = {x.target} \cup ToSet(paths) /\ p.ops = <<op>>
  BY <1>5
<1>7. op.payload.dest \in {x.target} \cup ToSet(paths)
  <2>1. CASE Len(paths) >= 2
    BY <1>2, <1>4, <2>1 DEF ToSet
  <2>2. CASE ~(Len(paths) >= 2)
    BY <1>4, <2>2
  <2> QED
    BY <2>1, <2>2
<1> HIDE DEF p, paths
<1>8. DOMAIN p.ops = 1..1 /\ p.ops[1] = op /\ p.ops # <<>>
  BY <1>6
<1>9. HeadOk(p, "high") <=> \A n \in ToSet(paths) : validateRelativeVaultPath(n)
  BY <1>1, <1>6, <1>8 DEF HeadOk
<1>10. OperationOk(op, "high")
  BY <1>1, <1>4 DEF OperationOk
<1>11. (\A n \in ToSet(paths) : validateRelativeVaultPath(n)) =>
          (RenameOk(op, c) <=> hasDirPrefix(x.target, c.KnowledgeDir) /\ ~hasDirPrefix(x.target, c.KnowledgeDraftDir))
  BY <1>1, <1>4, <1>7 DEF RenameOk
<1>12. CheckForApprovalHighRisk(p, x.conventions) <=>
          /\ hasDirPrefix(x.target, c.KnowledgeDir)
          /\ ~hasDirPrefix(x.target, c.KnowledgeDraftDir)
          /\ \A n \in ToSet(paths) : validateRelativeVaultPath(n)
  BY <1>4, <1>8, <1>9, <1>10, <1>11 DEF CheckForApprovalHighRisk, c
<1>13. ClassifyProposalKind(p) = {output.restructure}
  BY <1>3, <1>6 DEF ClassifyProposalKind, ProposalKinds
<1> QED
  BY <1>6, <1>12, <1>13 DEF p, paths, c

\* What Organize and Expand answer.
OrganizeVerdict(o) ==
    LET plans == OrganizeRaw(o.raw, o.conventions, o.replies)
    IN  [built |-> plans, taken |-> {p \in plans : CheckForApproval(p, o.conventions)}]

ExpandVerdict(x) ==
    LET plans == ExpandKnowledge(x.target, x.replies)
        ok(p) == IF p.risk = "high" THEN CheckForApprovalHighRisk(p, x.conventions)
                 ELSE CheckForApproval(p, x.conventions)
    IN  [built |-> plans, taken |-> {p \in plans : ok(p)}, kinds |-> UNION {ClassifyProposalKind(p) : p \in plans}]

BuiltInv ==
    /\ request.kind = "organize" => request.subject \in Organizings /\ verdict = OrganizeVerdict(request.subject)
    /\ request.kind = "expand" => request.subject \in Expansions /\ verdict = ExpandVerdict(request.subject)

\* Once a plan was built, the verdict is what was built and what passed.
LEMMA BuiltInvariant == Spec => []BuiltInv
<1>1. Init => BuiltInv
  BY DEF Init, Nothing, BuiltInv
<1>2. BuiltInv /\ [Next]_vars => BuiltInv'
  <2> SUFFICES ASSUME BuiltInv, [Next]_vars
               PROVE  BuiltInv'
    OBVIOUS
  <2>1. CASE FindWindow
    BY <2>1 DEF FindWindow, Ask, BuiltInv
  <2>2. CASE LoadSkills
    BY <2>2 DEF LoadSkills, Ask, BuiltInv
  <2>3. CASE Organize
    BY <2>3 DEF Organize, Ask, BuiltInv, OrganizeVerdict
  <2>4. CASE Expand
    BY <2>4 DEF Expand, Ask, BuiltInv, ExpandVerdict
  <2>5. CASE CheckPlan
    BY <2>5 DEF CheckPlan, Ask, BuiltInv
  <2>6. CASE Enrich
    BY <2>6 DEF Enrich, Ask, BuiltInv
  <2>7. CASE Forget
    BY <2>7 DEF Forget, Nothing, BuiltInv
  <2>8. CASE UNCHANGED vars
    BY <2>8 DEF vars, BuiltInv
  <2> QED
    BY <2>1, <2>2, <2>3, <2>4, <2>5, <2>6, <2>7, <2>8 DEF Next
<1> QED
  BY <1>1, <1>2, PTL DEF Spec

\* Whatever a language model answered, the draft the program makes of a
\* title in one line passes the checks, and one that would end the
\* frontmatter does not (agent/openai_raw_organizer.go, policy/checker.go).
LEMMA OrganizedPass ==
    ASSUME BuiltInv
    PROVE  OrganizedPlansPass
<1> SUFFICES ASSUME request.kind = "organize", NEW p \in verdict.built
             PROVE  LET rest == request.subject.replies[1].output.titleRest
                    IN  /\ rest = <<>> => p \in verdict.taken
                        /\ rest # <<>> /\ Head(rest) = Fence => p \notin verdict.taken
  BY DEF OrganizedPlansPass
<1> DEFINE o == request.subject
           c == Normalize(o.conventions)
           processed == NoteIn(c.RawProcessedDir, BaseOf(o.raw))
           rest == o.replies[1].output.titleRest
<1>1. o \in Organizings /\ verdict = OrganizeVerdict(o)
  BY DEF BuiltInv
<1> HIDE DEF o
<1>2. /\ p \in OrganizeRaw(o.raw, o.conventions, o.replies)
      /\ p \in verdict.taken <=> CheckForApproval(p, o.conventions)
  BY <1>1 DEF OrganizeVerdict
<1>3. PICK output \in createResponseWithRetry(o.replies) : p = buildLLMOrganizePlan(o.raw, o.conventions, output)
  BY <1>2 DEF OrganizeRaw
<1>4. output = o.replies[1].output
  BY FirstOutput
<1>5. IsFiniteSet(c.RequiredDraftTags) /\ IsSeq(rest)
  <2>1. IsFiniteSet(c.RequiredDraftTags) /\ rest \in Seq(ToSet(rest))
    BY <1>1, Zenon, OrganizingsAssumption
  <2> QED
    BY <2>1 DEF IsSeq
<1>6. /\ validateRelativeVaultPath(processed) /\ hasDirPrefix(processed, c.RawProcessedDir)
      /\ CheckForApproval(p, o.conventions) <=>
             validateKnowledgeDraftPayload(
                 [ok |-> TRUE, file |-> [plain |-> TRUE,
                                         lines |-> renderLLMKnowledgeDraft(output, processed, c.RequiredDraftTags)]], c)
  BY <1>1, <1>3, OrganizedPlan
<1> HIDE DEF c, processed
<1>7. rest = output.titleRest
  BY <1>4
<1> HIDE DEF rest
<1>8. rest = <<>> => p \in verdict.taken
  BY <1>2, <1>5, <1>6, <1>7, DraftPasses
<1>9. rest # <<>> /\ Head(rest) = Fence => p \notin verdict.taken
  BY <1>2, <1>5, <1>6, <1>7, CutDraftFails
<1> QED
  BY <1>8, <1>9 DEF rest, o

\* So do its additions to a knowledge note and its restructurings of a
\* finished one, and nothing else does (agent/openai_knowledge_expander.go,
\* policy/checker.go).
LEMMA ExpandedPass ==
    ASSUME BuiltInv
    PROVE  ExpandedPlansPass
<1> SUFFICES ASSUME request.kind = "expand"
             PROVE  ExpandedPlansPass
  BY DEF ExpandedPlansPass
<1> DEFINE x == request.subject
           c == Normalize(x.conventions)
           output == x.replies[1].output
           plans == ExpandKnowledge(x.target, x.replies)
<1>1. x \in Expansions /\ verdict = ExpandVerdict(x)
  BY DEF BuiltInv
<1> HIDE DEF x
<1>2. verdict.built = plans /\ verdict.kinds = UNION {ClassifyProposalKind(p) : p \in plans}
  BY <1>1 DEF ExpandVerdict
<1>3. ASSUME NEW p \in plans
      PROVE  p \in verdict.taken <=>
                 IF p.risk = "high" THEN CheckForApprovalHighRisk(p, x.conventions) ELSE CheckForApproval(p, x.conventions)
  BY <1>1 DEF ExpandVerdict
<1>4. ASSUME NEW p \in plans
      PROVE  /\ validateKnowledgeExpanderOutput(output)
             /\ p = IF output.kind = "append" THEN buildKnowledgeAppendPlan(x.target, output)
                    ELSE buildKnowledgeRestructurePlan(x.target, output)
  <2>1. PICK r \in createResponseWithRetry(x.replies) :
                /\ validateKnowledgeExpanderOutput(r)
                /\ p = IF r.kind = "append" THEN buildKnowledgeAppendPlan(x.target, r)
                       ELSE buildKnowledgeRestructurePlan(x.target, r)
    BY DEF ExpandKnowledge
  <2>2. r = output
    BY FirstOutput
  <2> QED
    BY <2>1, <2>2
<1> HIDE DEF c, output, plans
<1>5. ASSUME NEW p \in plans
      PROVE  IF output.kind = "append" THEN p \in verdict.taken <=> hasDirPrefix(x.target, c.KnowledgeDir)
             ELSE /\ p \in verdict.taken <=>
                         /\ hasDirPrefix(x.target, c.KnowledgeDir) /\ ~hasDirPrefix(x.target, c.KnowledgeDraftDir)
                         /\ \A n \in ToSet(output.affected) : validateRelativeVaultPath(n)
                  /\ ClassifyProposalKind(p) = {output.restructure}
  <2>1. CASE output.kind = "append"
    BY <1>1, <1>3, <1>4, <2>1, AppendPasses DEF c
  <2>2. CASE output.kind # "append"
    BY <1>1, <1>3, <1>4, <2>2, RestructurePasses DEF c, output
  <2> QED
    BY <2>1, <2>2
<1>6. ASSUME NEW p \in plans, output.kind # "append"
      PROVE  verdict.kinds = {output.restructure}
  <2>1. \A q \in plans : ClassifyProposalKind(q) = {output.restructure}
    BY <1>5, <1>6
  <2> QED
    BY <1>2, <1>6, <2>1
<1> QED
  BY <1>2, <1>5, <1>6 DEF ExpandedPlansPass, x, c, output

\* What the program builds of an organizer's or an expander's valid answer
\* passes its own checks exactly where it should, whatever the answer, the
\* note and the conventions are (agent/openai_raw_organizer.go,
\* openai_knowledge_expander.go, policy/checker.go).
THEOREM BuiltPlansFit == Spec => [](OrganizedPlansPass /\ ExpandedPlansPass)
<1>1. BuiltInv => OrganizedPlansPass /\ ExpandedPlansPass
  BY OrganizedPass, ExpandedPass
<1> QED
  BY <1>1, BuiltInvariant, PTL

-----------------------------------------------------------------------------
(***************************************************************************)
(* Notes that are enriched: what the renderer puts where.                  *)
(***************************************************************************)
\* The pieces up to each place, put together.
Flattens(f, pieces, n) ==
    f = [i \in 1..n |-> IF i = 1 THEN pieces[i] ELSE f[i - 1] \o pieces[i]]

\* Pieces can be put together one after the other.
LEMMA FlattenExists ==
    ASSUME NEW pieces, NEW n \in Nat \ {0}
    PROVE  \E f : Flattens(f, pieces, n)
<1> DEFINE bad == {m \in 1..n : ~\E f : Flattens(f, pieces, m)}
<1>1. bad = {}
  <2> SUFFICES ASSUME bad # {} PROVE FALSE
    OBVIOUS
  <2>1. bad \in SUBSET (1..n) /\ IsFiniteSet(1..n) /\ 1..n \in SUBSET Int
    BY FS_Interval
  <2>2. IsFiniteSet(bad) /\ bad \in SUBSET Int
    BY <2>1, FS_Subset
  <2>3. PICK m \in bad : \A j \in bad : m <= j
    BY <2>2, LeastOf
  <2>4. CASE m = 1
    <3> DEFINE f == [i \in 1..1 |-> pieces[i]]
    <3>1. f = [i \in 1..1 |-> IF i = 1 THEN pieces[i] ELSE f[i - 1] \o pieces[i]]
      OBVIOUS
    <3> HIDE DEF f
    <3>2. Flattens(f, pieces, m)
      BY <2>4, <3>1 DEF Flattens
    <3> QED
      BY <3>2
  <2>5. CASE m # 1
    <3>1. m \in 1..n /\ m - 1 \in 1..n /\ m - 1 \notin bad
      BY <2>3, <2>5
    <3>2. PICK g : Flattens(g, pieces, m - 1)
      BY <3>1
    <3>3. g = [i \in 1..(m - 1) |-> IF i = 1 THEN pieces[i] ELSE g[i - 1] \o pieces[i]]
      BY <3>2 DEF Flattens
    <3> DEFINE f == [i \in 1..m |-> IF i < m THEN g[i] ELSE g[m - 1] \o pieces[m]]
    <3>4. ASSUME NEW i \in 1..m
          PROVE  f[i] = IF i = 1 THEN pieces[i] ELSE f[i - 1] \o pieces[i]
      <4>1. CASE i = m
        <5>1. i \in 1..m /\ i - 1 \in 1..m /\ i - 1 < m /\ ~(i < m)
          BY <2>5, <3>1, <4>1
        <5>2. f[i] = g[m - 1] \o pieces[m] /\ f[i - 1] = g[i - 1]
          BY <5>1
        <5> QED
          BY <2>5, <4>1, <5>2
      <4>2. CASE i # m
        <5>1. i \in 1..(m - 1) /\ f[i] = g[i] /\ (i # 1 => f[i - 1] = g[i - 1])
          BY <3>1, <4>2
        <5>2. g[i] = IF i = 1 THEN pieces[i] ELSE g[i - 1] \o pieces[i]
          BY <3>3, <5>1
        <5> QED
          BY <5>1, <5>2
      <4> QED
        BY <4>1, <4>2
    <3>5. f = [i \in 1..m |-> f[i]]
      OBVIOUS
    <3> HIDE DEF f
    <3>6. f = [i \in 1..m |-> IF i = 1 THEN pieces[i] ELSE f[i - 1] \o pieces[i]]
      BY <3>4, <3>5
    <3>7. Flattens(f, pieces, m)
      BY <3>6 DEF Flattens
    <3> QED
      BY <3>7
  <2> QED
    BY <2>4, <2>5
<1>2. n \in 1..n
  OBVIOUS
<1> QED
  BY <1>1, <1>2

\* Flattened pieces are the pieces put together.
LEMMA FlattenedIs ==
    ASSUME NEW pieces, NEW n \in Nat \ {0}, Len(pieces) = n
    PROVE  \E f : Flattens(f, pieces, n) /\ FlattenSeq(pieces) = f[n]
<1> DEFINE f == CHOOSE f : Flattens(f, pieces, n)
<1>1. Flattens(f, pieces, n)
  BY FlattenExists
<1>2. FlattenSeq(pieces) = f[n]
  BY DEF FlattenSeq, Flattens
<1> QED
  BY <1>1, <1>2

\* Where each of the first m pieces begins in what they were put together to.
Places(off, s, pieces, m) ==
    /\ IsSeq(s) /\ Len(s) \in Nat
    /\ off \in [1..m -> Nat]
    /\ \A i \in 1..m : off[i] + Len(pieces[i]) <= Len(s)
    /\ \A i \in 1..m : \A j \in 1..Len(pieces[i]) : s[off[i] + j] = pieces[i][j]
    /\ \A h, i \in 1..m : h < i => off[h] + Len(pieces[h]) <= off[i]
    /\ \A x \in 1..Len(s) : \E i \in 1..m : off[i] < x /\ x <= off[i] + Len(pieces[i])

\* One piece more.
LEMMA OneMorePiece ==
    ASSUME NEW pieces, NEW m \in Nat \ {0}, NEW s, NEW off, Places(off, s, pieces, m),
           IsSeq(pieces[m + 1]), \A i \in 1..m : Len(pieces[i]) \in Nat
    PROVE  \E more : Places(more, PutOn(s, pieces[m + 1]), pieces, m + 1)
<1> DEFINE p == pieces[m + 1]
           all == PutOn(s, p)
           more == [i \in 1..(m + 1) |-> IF i <= m THEN off[i] ELSE Len(s)]
<1>1. /\ IsSeq(all) /\ Len(s) \in Nat /\ Len(p) \in Nat /\ Len(all) = Len(s) + Len(p)
      /\ \A i \in 1..Len(s) : all[i] = s[i]
      /\ \A i \in (Len(s) + 1)..(Len(s) + Len(p)) : all[i] = p[i - Len(s)]
  BY PutTogether DEF Places
<1>2. /\ off \in [1..m -> Nat]
      /\ \A i \in 1..m : off[i] + Len(pieces[i]) <= Len(s)
      /\ \A i \in 1..m : \A j \in 1..Len(pieces[i]) : s[off[i] + j] = pieces[i][j]
      /\ \A h, i \in 1..m : h < i => off[h] + Len(pieces[h]) <= off[i]
      /\ \A x \in 1..Len(s) : \E i \in 1..m : off[i] < x /\ x <= off[i] + Len(pieces[i])
  BY DEF Places
<1>3. /\ more \in [1..(m + 1) -> Nat]
      /\ \A i \in 1..m : more[i] = off[i]
      /\ more[m + 1] = Len(s)
  BY <1>1, <1>2
<1> HIDE DEF more, all
<1>4. \A i \in 1..(m + 1) : i \in 1..m \/ i = m + 1
  OBVIOUS
<1>5. ASSUME NEW i \in 1..(m + 1)
      PROVE  more[i] + Len(pieces[i]) <= Len(all)
  <2>1. CASE i \in 1..m
    <3>1. off[i] \in Nat /\ Len(pieces[i]) \in Nat /\ off[i] + Len(pieces[i]) <= Len(s)
      BY <1>2, <2>1
    <3> QED
      BY <1>1, <1>3, <2>1, <3>1
  <2>2. CASE i = m + 1
    BY <1>1, <1>3, <2>2
  <2> QED
    BY <1>4, <2>1, <2>2
<1>6. ASSUME NEW i \in 1..(m + 1), NEW j \in 1..Len(pieces[i])
      PROVE  all[more[i] + j] = pieces[i][j]
  <2>1. CASE i \in 1..m
    <3>1. off[i] \in Nat /\ Len(pieces[i]) \in Nat /\ off[i] + Len(pieces[i]) <= Len(s) /\ s[off[i] + j] = pieces[i][j]
      BY <1>2, <2>1
    <3>2. off[i] + j \in 1..Len(s)
      <4>1. off[i] \in Nat /\ j \in 1..Len(pieces[i]) /\ Len(pieces[i]) \in Nat /\ off[i] + Len(pieces[i]) <= Len(s)
        BY <1>6, <3>1
      <4>2. Len(s) \in Nat
        BY <1>1
      <4> QED
        BY ONLY <4>1, <4>2
    <3> QED
      BY <1>1, <1>3, <2>1, <3>1, <3>2
  <2>2. CASE i = m + 1
    <3>1. Len(s) + j \in (Len(s) + 1)..(Len(s) + Len(p)) /\ (Len(s) + j) - Len(s) = j
      BY <1>1, <2>2
    <3>2. all[Len(s) + j] = p[j]
      BY <1>1, <3>1
    <3> QED
      BY <1>3, <2>2, <3>2
  <2> QED
    BY <1>4, <2>1, <2>2
<1>7. ASSUME NEW h \in 1..(m + 1), NEW i \in 1..(m + 1), h < i
      PROVE  more[h] + Len(pieces[h]) <= more[i]
  <2>1. h \in 1..m
    BY <1>7
  <2>2. CASE i \in 1..m
    BY <1>2, <1>3, <1>7, <2>1, <2>2
  <2>3. CASE i = m + 1
    BY <1>2, <1>3, <2>1, <2>3
  <2> QED
    BY <1>4, <2>2, <2>3
<1>8. ASSUME NEW x \in 1..Len(all)
      PROVE  \E i \in 1..(m + 1) : more[i] < x /\ x <= more[i] + Len(pieces[i])
  <2>1. CASE x \in 1..Len(s)
    <3>1. PICK i \in 1..m : off[i] < x /\ x <= off[i] + Len(pieces[i])
      BY <1>2, <2>1
    <3>2. i \in 1..(m + 1) /\ more[i] = off[i]
      BY <1>3
    <3> QED
      BY <3>1, <3>2
  <2>2. CASE x \notin 1..Len(s)
    <3>1. Len(s) < x /\ x <= Len(s) + Len(p)
      BY <1>1, <2>2
    <3>2. m + 1 \in 1..(m + 1)
      OBVIOUS
    <3> QED
      BY <1>3, <3>1, <3>2
  <2> QED
    BY <2>1, <2>2
<1>9. Len(all) \in Nat
  BY <1>1
<1> HIDE DEF p
<1>10. Places(more, all, pieces, m + 1)
  BY <1>1, <1>3, <1>5, <1>6, <1>7, <1>8, <1>9 DEF Places
<1> QED
  BY <1>10 DEF all, p

\* Each piece has its place in what they are flattened to.
LEMMA FlattenPlaces ==
    ASSUME NEW pieces, NEW n \in Nat \ {0}, Len(pieces) = n, \A i \in 1..n : IsSeq(pieces[i])
    PROVE  \E off : Places(off, FlattenSeq(pieces), pieces, n)
<1>1. PICK f : Flattens(f, pieces, n) /\ FlattenSeq(pieces) = f[n]
  BY FlattenedIs
<1>2. f = [i \in 1..n |-> IF i = 1 THEN pieces[i] ELSE f[i - 1] \o pieces[i]]
  BY <1>1 DEF Flattens
<1>3. \A i \in 1..n : Len(pieces[i]) \in Nat
  BY DEF IsSeq
<1> DEFINE bad == {m \in 1..n : ~\E off : Places(off, f[m], pieces, m)}
<1>4. bad = {}
  <2> SUFFICES ASSUME bad # {} PROVE FALSE
    OBVIOUS
  <2>1. bad \in SUBSET (1..n) /\ IsFiniteSet(1..n) /\ 1..n \in SUBSET Int
    BY FS_Interval
  <2>2. IsFiniteSet(bad) /\ bad \in SUBSET Int
    BY <2>1, FS_Subset
  <2>3. PICK m \in bad : \A j \in bad : m <= j
    BY <2>2, LeastOf
  <2>4. CASE m = 1
    <3> DEFINE off == [i \in 1..1 |-> 0]
    <3>1. f[m] = pieces[1] /\ IsSeq(pieces[1]) /\ Len(pieces[1]) \in Nat
      BY <1>2, <1>3, <2>4
    <3>2. Places(off, pieces[1], pieces, 1)
      BY <3>1 DEF Places
    <3> HIDE DEF off
    <3> QED
      BY <2>3, <2>4, <3>1, <3>2
  <2>5. CASE m # 1
    <3>1. m \in 1..n /\ m - 1 \in 1..n /\ m - 1 \notin bad /\ m - 1 \in Nat \ {0} /\ (m - 1) + 1 = m
      BY <2>3, <2>5
    <3>2. PICK off : Places(off, f[m - 1], pieces, m - 1)
      BY <3>1
    <3>3. f[m] = PutOn(f[m - 1], pieces[m])
      BY <1>2, <2>5, <3>1 DEF PutOn
    <3>4. \A i \in 1..(m - 1) : Len(pieces[i]) \in Nat
      BY <1>3, <3>1
    <3> DEFINE h == m - 1
    <3>5. h \in Nat \ {0} /\ h + 1 = m /\ Places(off, f[h], pieces, h) /\ IsSeq(pieces[h + 1])
          /\ \A i \in 1..h : Len(pieces[i]) \in Nat
      BY <3>1, <3>2, <3>4
    <3> HIDE DEF h
    <3>6. \E more : Places(more, PutOn(f[h], pieces[h + 1]), pieces, h + 1)
      BY <3>5, OneMorePiece
    <3>7. \E more : Places(more, f[m], pieces, m)
      BY <3>3, <3>5, <3>6 DEF h
    <3> QED
      BY <2>3, <3>7
  <2> QED
    BY <2>4, <2>5
<1>5. n \in 1..n
  OBVIOUS
<1> QED
  BY <1>1, <1>4, <1>5

-----------------------------------------------------------------------------
\* What is picked is a sequence of what there is at the places.
LEMMA PickedIs ==
    ASSUME NEW n \in Nat, NEW places \in SUBSET (1..n), NEW s
    PROVE  /\ IsSeq(Picked(s, places)) /\ DOMAIN Picked(s, places) = 1..Cardinality(places)
           /\ Len(Picked(s, places)) = Cardinality(places) /\ Cardinality(places) \in Nat
           /\ ToSet(Picked(s, places)) = {s[i] : i \in places}
<1> DEFINE count(i) == Cardinality(places \cap 1..i)
           nth(k) == CHOOSE i \in places : count(i) = k
           all == {s[i] : i \in places}
           picked == [k \in 1..Cardinality(places) |-> s[nth(k)]]
<1>1. /\ IsFiniteSet(places) /\ Cardinality(places) \in Nat
      /\ \A i \in 1..n : count(i) \in Nat /\ count(i) <= Cardinality(places)
  <2>1. IsFiniteSet(places) /\ Cardinality(places) \in Nat
    BY Counted
  <2>2. \A i \in 1..n : count(i) \in Nat /\ count(i) <= Cardinality(places)
    <3> TAKE i \in 1..n
    <3>1. places \cap 1..i \in SUBSET places
      OBVIOUS
    <3>2. Cardinality(places \cap 1..i) <= Cardinality(places) /\ IsFiniteSet(places \cap 1..i)
      BY <2>1, <3>1, FS_Subset
    <3> QED
      BY <3>2, FS_CardinalityType
  <2> QED
    BY <2>1, <2>2
<1>2. ASSUME NEW h \in places, NEW i \in places, h < i
      PROVE  count(h) < count(i)
  <2> DEFINE A == places \cap 1..h
             B == places \cap 1..i
  <2>1. A \in SUBSET B /\ i \in B /\ i \notin A
    BY <1>2
  <2>2. IsFiniteSet(B)
    BY <1>1, FS_Subset
  <2> HIDE DEF A, B
  <2>3. Cardinality(A) <= Cardinality(B) /\ Cardinality(A) # Cardinality(B)
    BY <2>1, <2>2, FS_Subset
  <2>4. Cardinality(A) \in Nat /\ Cardinality(B) \in Nat
    BY <2>1, <2>2, FS_Subset, FS_CardinalityType
  <2> QED
    BY <2>3, <2>4 DEF A, B
<1>3. ASSUME NEW h \in places, NEW i \in places, count(h) = count(i)
      PROVE  h = i
  <2>1. h \in 1..n /\ i \in 1..n /\ count(h) \in Nat /\ count(i) \in Nat
    BY <1>1
  <2>2. ~(h < i) /\ ~(i < h)
    <3> HIDE DEF count
    <3> QED
      BY <1>2, <1>3, <2>1
  <2> QED
    BY <2>1, <2>2
<1>4. ASSUME NEW i \in places
      PROVE  count(i) \in 1..Cardinality(places) /\ nth(count(i)) = i
  <2>1. i \in 1..n /\ count(i) \in Nat /\ count(i) <= Cardinality(places)
    BY <1>1
  <2>2. count(i) # 0
    <3>1. i \in places \cap 1..i /\ IsFiniteSet(places \cap 1..i)
      BY <1>1, <2>1, FS_Subset
    <3> QED
      BY <3>1, FS_EmptySet
  <2> HIDE DEF count
  <2>3. nth(count(i)) = i
    BY <1>3
  <2> QED
    BY <1>1, <2>1, <2>2, <2>3
<1>5. \A k \in 1..Cardinality(places) : nth(k) \in places
  BY NthIndex
<1>6. Picked(s, places) = picked
  BY DEF Picked
<1> HIDE DEF nth, count
<1>7. picked \in Seq(all) /\ DOMAIN picked = 1..Cardinality(places) /\ Len(picked) = Cardinality(places)
  BY <1>1, <1>5
<1>8. \A k \in 1..Cardinality(places) : picked[k] \in all
  BY <1>5
<1>9. \A i \in places : \E k \in 1..Cardinality(places) : picked[k] = s[i]
  BY <1>4
<1> HIDE DEF picked
<1>10. ToSet(picked) = all
  BY <1>7, <1>8, <1>9 DEF ToSet
<1> QED
  BY <1>1, <1>6, <1>7, <1>10 DEF IsSeq

\* A sequence is a function on the numbers up to its length.
LEMMA SeqIs ==
    ASSUME NEW s, IsSeq(s)
    PROVE  DOMAIN s = 1..Len(s) /\ Len(s) \in Nat /\ ToSet(s) = {s[i] : i \in 1..Len(s)}
BY DEF IsSeq, ToSet

\* A function on the numbers up to one is a sequence.
LEMMA IsSeqOf ==
    ASSUME NEW n \in Nat, NEW f, f = [i \in 1..n |-> f[i]]
    PROVE  IsSeq(f) /\ Len(f) = n /\ DOMAIN f = 1..n
<1>1. f \in Seq({f[i] : i \in 1..n}) /\ DOMAIN f = 1..n /\ Len(f) = n
  OBVIOUS
<1> QED
  BY <1>1 DEF IsSeq

\* What two sequences have together.
LEMMA PutOnSet ==
    ASSUME NEW s, IsSeq(s), NEW t, IsSeq(t)
    PROVE  ToSet(PutOn(s, t)) = ToSet(s) \cup ToSet(t)
<1> DEFINE all == PutOn(s, t)
<1>1. /\ IsSeq(all) /\ Len(s) \in Nat /\ Len(t) \in Nat /\ Len(all) = Len(s) + Len(t)
      /\ \A i \in 1..Len(s) : all[i] = s[i]
      /\ \A i \in (Len(s) + 1)..(Len(s) + Len(t)) : all[i] = t[i - Len(s)]
  BY PutTogether
<1> HIDE DEF all
<1>2. /\ ToSet(s) = {s[i] : i \in 1..Len(s)} /\ ToSet(t) = {t[i] : i \in 1..Len(t)}
      /\ ToSet(all) = {all[i] : i \in 1..Len(all)}
  BY <1>1, SeqIs
<1>3. ASSUME NEW i \in 1..Len(s)
      PROVE  i \in 1..Len(all) /\ all[i] = s[i]
  BY <1>1
<1>4. ASSUME NEW i \in 1..Len(t)
      PROVE  Len(s) + i \in 1..Len(all) /\ all[Len(s) + i] = t[i]
  <2>1. Len(s) + i \in (Len(s) + 1)..(Len(s) + Len(t)) /\ (Len(s) + i) - Len(s) = i
    BY <1>1
  <2> QED
    BY <1>1, <2>1
<1>5. ASSUME NEW i \in 1..Len(all)
      PROVE  all[i] \in ToSet(s) \cup ToSet(t)
  <2>1. CASE i \in 1..Len(s)
    BY <1>2, <1>3, <2>1
  <2>2. CASE i \notin 1..Len(s)
    <3>1. i \in (Len(s) + 1)..(Len(s) + Len(t)) /\ i - Len(s) \in 1..Len(t)
      BY <1>1, <2>2
    <3> QED
      BY <1>1, <1>2, <3>1
  <2> QED
    BY <2>1, <2>2
<1>6. ASSUME NEW e \in ToSet(s) \cup ToSet(t)
      PROVE  e \in ToSet(all)
  BY <1>2, <1>3, <1>4
<1>7. ToSet(all) \subseteq ToSet(s) \cup ToSet(t)
  BY <1>2, <1>5
<1> QED
  BY <1>6, <1>7 DEF all

\* Merged lists are a sequence of the entries of both.
LEMMA MergedEntries ==
    ASSUME NEW existing, IsSeq(existing), NEW additions, IsSeq(additions)
    PROVE  /\ IsSeq(mergeUnique(existing, additions))
           /\ ToSet(mergeUnique(existing, additions)) = ToSet(existing) \cup ToSet(additions)
<1> DEFINE all == PutOn(existing, additions)
           n == Len(all)
           first == {i \in DOMAIN all : \A j \in 1..(i - 1) : all[j] # all[i]}
<1>1. IsSeq(all) /\ ToSet(all) = ToSet(existing) \cup ToSet(additions)
  BY PutTogether, PutOnSet
<1>2. mergeUnique(existing, additions) = Picked(all, first)
  BY DEF mergeUnique, PutOn
<1> HIDE DEF all
<1>3. DOMAIN all = 1..n /\ n \in Nat /\ ToSet(all) = {all[i] : i \in 1..n}
  BY <1>1, SeqIs
<1>4. IsSeq(Picked(all, first)) /\ ToSet(Picked(all, first)) = {all[i] : i \in first}
  BY <1>3, PickedIs, ZenonT(30)
<1>5. ASSUME NEW i \in 1..n
      PROVE  \E h \in first : all[h] = all[i]
  <2> DEFINE same == {h \in 1..n : all[h] = all[i]}
  <2>1. same \in SUBSET (1..n) /\ 1..n \in SUBSET Int /\ IsFiniteSet(1..n) /\ i \in same
    BY <1>3, FS_Interval
  <2>2. IsFiniteSet(same) /\ same \in SUBSET Int
    BY <2>1, FS_Subset
  <2>3. PICK h \in same : \A j \in same : h <= j
    BY <2>1, <2>2, LeastOf
  <2>4. h \in 1..n /\ all[h] = all[i]
    BY <2>3
  <2>5. ASSUME NEW j \in 1..(h - 1)
        PROVE  all[j] # all[h]
    <3>1. j \in 1..n /\ ~(h <= j)
      BY <1>3, <2>4
    <3> QED
      BY <2>3, <2>4, <3>1
  <2> QED
    BY <1>3, <2>4, <2>5
<1>6. {all[i] : i \in first} = {all[i] : i \in 1..n}
  BY <1>3, <1>5
<1> QED
  BY <1>1, <1>2, <1>3, <1>4, <1>6

\* A part of a sequence.
LEMMA PartOf ==
    ASSUME NEW s, IsSeq(s), NEW m \in Nat \ {0}, NEW n \in Nat, m <= n + 1, n <= Len(s)
    PROVE  /\ IsSeq(SubSeq(s, m, n)) /\ Len(SubSeq(s, m, n)) = (n + 1) - m
           /\ \A i \in 1..((n + 1) - m) : SubSeq(s, m, n)[i] = s[(m - 1) + i]
<1>1. PICK T : s \in Seq(T)
  BY DEF IsSeq
<1> DEFINE part == SubSeq(s, m, n)
<1>2. part = [i \in 1..((n + 1) - m) |-> s[(i + m) - 1]]
  BY <1>1
<1>3. (n + 1) - m \in Nat
  OBVIOUS
<1> HIDE DEF part
<1>4. part = [i \in 1..((n + 1) - m) |-> part[i]]
  BY <1>2
<1>5. IsSeq(part) /\ Len(part) = (n + 1) - m
  BY <1>3, <1>4, IsSeqOf
<1>6. ASSUME NEW i \in 1..((n + 1) - m)
      PROVE  part[i] = s[(m - 1) + i]
  <2>1. (i + m) - 1 = (m - 1) + i
    OBVIOUS
  <2> QED
    BY <1>2, <2>1
<1> QED
  BY <1>5, <1>6 DEF part

\* The entries of the items among lines.
LEMMA EntriesOfItems ==
    ASSUME NEW lines, IsSeq(lines)
    PROVE  /\ IsSeq(ItemEntries(lines))
           /\ ToSet(ItemEntries(lines)) = {lines[i].items[1].entry : i \in {i \in 1..Len(lines) : lines[i].kind = "item"}}
<1> DEFINE places == {i \in DOMAIN lines : lines[i].kind = "item"}
           items == Picked(lines, places)
           n == Cardinality(places)
           entries == [i \in 1..n |-> items[i].items[1].entry]
<1>1. DOMAIN lines = 1..Len(lines) /\ Len(lines) \in Nat
  BY SeqIs
<1>2. /\ IsSeq(items) /\ DOMAIN items = 1..n /\ n \in Nat /\ Len(items) = n
      /\ ToSet(items) = {lines[i] : i \in places}
  <2>1. places \in SUBSET (1..Len(lines))
    BY <1>1
  <2> HIDE DEF places
  <2> QED
    BY <1>1, <2>1, PickedIs
<1>3. ItemEntries(lines) = [i \in DOMAIN items |-> items[i].items[1].entry]
  BY DEF ItemEntries
<1> HIDE DEF items, n
<1>4. ItemEntries(lines) = entries
  BY <1>2, <1>3
<1>5. entries = [i \in 1..n |-> entries[i]]
  OBVIOUS
<1>6. ToSet(items) = {items[i] : i \in 1..n}
  BY <1>2, SeqIs
<1>7. \A i \in 1..n : entries[i] = items[i].items[1].entry
  OBVIOUS
<1> HIDE DEF entries
<1>8. IsSeq(entries) /\ Len(entries) = n
  BY <1>2, <1>5, IsSeqOf
<1>9. ToSet(entries) = {entries[i] : i \in 1..n}
  BY <1>8, SeqIs
<1>10. {entries[i] : i \in 1..n} = {lines[i].items[1].entry : i \in places}
  <2>1. ASSUME NEW i \in 1..n
        PROVE  \E j \in places : entries[i] = lines[j].items[1].entry
    <3>1. PICK j \in places : items[i] = lines[j]
      BY <1>2, <1>6
    <3> QED
      BY <1>7, <3>1
  <2>2. ASSUME NEW j \in places
        PROVE  \E i \in 1..n : entries[i] = lines[j].items[1].entry
    <3>1. PICK i \in 1..n : items[i] = lines[j]
      BY <1>2, <1>6
    <3> QED
      BY <1>7, <3>1
  <2> QED
    BY <2>1, <2>2
<1> QED
  BY <1>1, <1>4, <1>8, <1>9, <1>10

\* An entry as a user writes it: in quotes or not, and whole.
Whole(w) ==
    /\ w.quote \in {"none", "single", "double"}
    /\ w.entry = [name |-> w.entry.name, link |-> w.entry.link, cut |-> "no"]

\* What is read of a list in brackets: all of it when it has no link, and
\* otherwise nothing else that is whole.
LEMMA EntriesInBrackets ==
    ASSUME NEW ws, IsSeq(ws), \A w \in ToSet(ws) : Whole(w)
    PROVE  /\ IsSeq(FlowEntries(ws))
           /\ \A e \in ToSet(FlowEntries(ws)) : e.cut = "no" => \E w \in ToSet(ws) : e = w.entry
           /\ (\A w \in ToSet(ws) : ~w.entry.link) => ToSet(FlowEntries(ws)) = {w.entry : w \in ToSet(ws)}
<1> DEFINE n == Len(ws)
           links == {i \in DOMAIN ws : ws[i].entry.link}
           cut == FirstIndex(links)
           whole == IF cut = 0 THEN ws ELSE SubSeq(ws, 1, cut - 1)
           entries == [i \in DOMAIN whole |-> whole[i].entry]
<1>1. DOMAIN ws = 1..n /\ n \in Nat /\ ToSet(ws) = {ws[i] : i \in 1..n}
  BY SeqIs
<1>2. FlowEntries(ws) = IF cut = 0 THEN entries ELSE Append(entries, Stump(ws[cut]))
  BY DEF FlowEntries
<1>3. (cut = 0 <=> links = {}) /\ (links # {} => cut \in links)
  BY <1>1, FirstOf
<1> HIDE DEF cut
<1>4. cut = 0 \/ cut \in 1..n
  BY <1>1, <1>3
<1>5. /\ IsSeq(whole) /\ Len(whole) <= n
      /\ \A i \in 1..Len(whole) : whole[i] = ws[i]
      /\ cut = 0 => Len(whole) = n
  <2>1. CASE cut = 0
    BY <1>1, <2>1
  <2>2. CASE cut # 0
    <3>1. cut \in 1..n /\ cut - 1 \in Nat /\ 1 <= (cut - 1) + 1 /\ cut - 1 <= Len(ws) /\ 1 \in Nat \ {0}
      BY <1>4, <2>2
    <3>2. /\ IsSeq(SubSeq(ws, 1, cut - 1)) /\ Len(SubSeq(ws, 1, cut - 1)) = ((cut - 1) + 1) - 1
          /\ \A i \in 1..(((cut - 1) + 1) - 1) : SubSeq(ws, 1, cut - 1)[i] = ws[(1 - 1) + i]
      BY <3>1, PartOf
    <3> QED
      BY <2>2, <3>1, <3>2
  <2> QED
    BY <2>1, <2>2
<1> DEFINE m == Len(whole)
<1>6. m \in Nat /\ DOMAIN whole = 1..m /\ m <= n
  BY <1>5, SeqIs
<1> HIDE DEF whole
<1>7. /\ entries = [i \in 1..m |-> entries[i]]
      /\ \A i \in 1..m : entries[i] = ws[i].entry
  BY <1>5, <1>6
<1> HIDE DEF entries, m
<1>8. IsSeq(entries) /\ Len(entries) = m /\ ToSet(entries) = {entries[i] : i \in 1..m}
  BY <1>6, <1>7, IsSeqOf, SeqIs
<1>9. \A e \in ToSet(entries) : \E w \in ToSet(ws) : e = w.entry
  <2> SUFFICES ASSUME NEW i \in 1..m
               PROVE  \E w \in ToSet(ws) : entries[i] = w.entry
    BY <1>8
  <2>1. i \in 1..n /\ entries[i] = ws[i].entry
    BY <1>1, <1>6, <1>7
  <2> QED
    BY <1>1, <2>1
<1>10. CASE cut = 0
  <2>1. m = n
    BY <1>5, <1>10 DEF m
  <2>2. \A w \in ToSet(ws) : w.entry \in ToSet(entries)
    BY <1>1, <1>7, <1>8, <2>1
  <2>3. ToSet(entries) = {w.entry : w \in ToSet(ws)}
    BY <1>9, <2>2
  <2> QED
    BY <1>2, <1>8, <1>9, <1>10, <2>3
<1>11. CASE cut # 0
  <2>1. cut \in links /\ cut \in 1..n /\ ws[cut] \in ToSet(ws) /\ ws[cut].entry.link
    BY <1>1, <1>3, <1>11
  <2> DEFINE stump == Stump(ws[cut])
  <2>2. stump.cut # "no"
    <3>1. Whole(ws[cut])
      BY <2>1
    <3>2. stump = [ws[cut].entry EXCEPT !.cut = ws[cut].quote]
      BY DEF Stump
    <3>3. stump.cut = ws[cut].quote
      BY <3>1, <3>2 DEF Whole
    <3> QED
      BY <3>1, <3>3 DEF Whole
  <2> HIDE DEF stump
  <2>3. IsSeq(<<stump>>) /\ ToSet(<<stump>>) = {stump}
    <3>1. IsSeq(<<stump>>) /\ Len(<<stump>>) = 1
      BY Tuples
    <3>2. ToSet(<<stump>>) = {<<stump>>[i] : i \in 1..1}
      BY <3>1, SeqIs
    <3> QED
      BY <3>1, <3>2
  <2>4. Append(entries, stump) = PutOn(entries, <<stump>>)
    <3>1. PICK T : entries \in Seq(T)
      BY <1>8 DEF IsSeq
    <3> QED
      BY <3>1 DEF PutOn
  <2>5. FlowEntries(ws) = PutOn(entries, <<stump>>)
    BY <1>2, <1>11, <2>4 DEF stump
  <2>6. IsSeq(FlowEntries(ws)) /\ ToSet(FlowEntries(ws)) = ToSet(entries) \cup {stump}
    BY <1>8, <2>3, <2>5, PutTogether, PutOnSet
  <2> QED
    BY <1>9, <2>1, <2>2, <2>6
<1> QED
  BY <1>10, <1>11

\* The parts of a line that is well formed.
LEMMA FormOfLine ==
    ASSUME NEW l, WellFormed(l)
    PROVE  /\ l.style \in {"none", "plain", "flow"} /\ IsSeq(l.items)
           /\ l.style = "plain" => Len(l.items) = 1 /\ ToSet(l.items) = {l.items[1]}
           /\ \A w \in ToSet(l.items) : Whole(w)
<1>1. IsSeq(l.items)
  BY DEF WellFormed, IsSeq
<1>2. ASSUME l.style = "plain"
      PROVE  Len(l.items) = 1 /\ ToSet(l.items) = {l.items[1]}
  <2>1. Len(l.items) = 1
    BY <1>2 DEF WellFormed
  <2>2. ToSet(l.items) = {l.items[i] : i \in 1..Len(l.items)}
    BY <1>1, SeqIs
  <2> QED
    BY <2>1, <2>2
<1> QED
  BY <1>1, <1>2 DEF WellFormed, Whole

\* What the renderer reads of a list is a sequence.
LEMMA ReadList ==
    ASSUME NEW lines, IsSeq(lines), NEW k \in 1..Len(lines), WellFormed(lines[k])
    PROVE  /\ IsSeq(readListBlock(lines, k))
           /\ lines[k].style = "plain" => readListBlock(lines, k) = <<lines[k].items[1].entry>>
<1>1. CASE lines[k].style = "flow"
  <2>1. readListBlock(lines, k) = FlowEntries(lines[k].items)
    BY <1>1 DEF readListBlock
  <2> QED
    BY <1>1, <2>1, FormOfLine, EntriesInBrackets
<1>2. CASE lines[k].style = "plain"
  <2>1. readListBlock(lines, k) = <<lines[k].items[1].entry>>
    BY <1>2 DEF readListBlock
  <2> QED
    BY <2>1, Tuples
<1>3. CASE lines[k].style = "none"
  <2> DEFINE places == {j \in (k + 1)..Len(lines) : lines[j].kind # "item"}
             stop == FirstIndex(places)
             last == IF stop = 0 THEN Len(lines) ELSE stop - 1
  <2>1. readListBlock(lines, k) = ItemEntries(SubSeq(lines, k + 1, last))
    BY <1>3 DEF readListBlock
  <2>2. Len(lines) \in Nat
    BY SeqIs
  <2>3. places \in SUBSET (1..Len(lines))
    BY <2>2
  <2>4. stop = 0 \/ stop \in places
    BY <2>2, <2>3, FirstOf
  <2> HIDE DEF stop
  <2>5. last \in Nat /\ k + 1 \in Nat \ {0} /\ k + 1 <= last + 1 /\ last <= Len(lines)
    BY <2>2, <2>4
  <2> HIDE DEF last
  <2>6. IsSeq(SubSeq(lines, k + 1, last))
    BY <2>5, PartOf
  <2> QED
    BY <1>3, <2>1, <2>6, EntriesOfItems
<1> QED
  BY <1>1, <1>2, <1>3, FormOfLine

\* A list as the renderer writes it: its key, without a value beside it, and
\* items with its entries.
ListLines(block, key, entries) ==
    /\ IsSeq(block) /\ Len(block) = Len(entries) + 1
    /\ block[1].kind = "key" /\ ~block[1].indent /\ block[1].key = key
    /\ block[1].style = (IF Len(entries) = 0 THEN "flow" ELSE "none")
    /\ Len(entries) = 0 => block[1].items = <<>>
    /\ \A j \in 1..Len(entries) :
          /\ block[j + 1].kind = "item"
          /\ block[j + 1].items[1].entry = WriteEntry(entries[j]).entry

\* The renderer writes such a list.
LEMMA WrittenList ==
    ASSUME NEW key, NEW entries, IsSeq(entries)
    PROVE  ListLines(emitListBlock(key, entries), key, entries)
<1> DEFINE n == Len(entries)
           block == emitListBlock(key, entries)
<1>1. n \in Nat /\ DOMAIN entries = 1..n /\ (entries = <<>> <=> n = 0)
  BY DEF IsSeq
<1>2. CASE n = 0
  <2>1. block = <<Flow(key, <<>>)>>
    BY <1>1, <1>2 DEF emitListBlock
  <2>2. IsSeq(block) /\ Len(block) = 1
    BY <2>1, Tuples
  <2>3. block[1] = Flow(key, <<>>)
    BY <2>1
  <2> HIDE DEF block
  <2>4. block[1].kind = "key" /\ ~block[1].indent /\ block[1].key = key
        /\ block[1].style = "flow" /\ block[1].items = <<>>
    BY <2>3 DEF Flow, Line
  <2> QED
    BY <1>2, <2>2, <2>4 DEF ListLines, block
<1>3. CASE n # 0
  <2> DEFINE items == [i \in 1..n |-> Item(TRUE, WriteEntry(entries[i]))]
  <2>1. block = PutOn(<<Open(key)>>, items)
    BY <1>1, <1>3 DEF emitListBlock, PutOn
  <2>2. items = [i \in 1..n |-> items[i]] /\ \A i \in 1..n : items[i] = Item(TRUE, WriteEntry(entries[i]))
    OBVIOUS
  <2> HIDE DEF items, block
  <2>3. IsSeq(items) /\ Len(items) = n
    BY <1>1, <2>2, IsSeqOf
  <2>4. IsSeq(<<Open(key)>>) /\ Len(<<Open(key)>>) = 1
    BY Tuples
  <2> DEFINE head == <<Open(key)>>
  <2>5. head[1] = Open(key) /\ IsSeq(head) /\ Len(head) = 1 /\ block = PutOn(head, items)
    BY <2>1, <2>4
  <2> HIDE DEF head
  <2>6. /\ IsSeq(block) /\ Len(block) = Len(head) + Len(items)
        /\ \A i \in 1..Len(head) : block[i] = head[i]
        /\ \A i \in (Len(head) + 1)..(Len(head) + Len(items)) : block[i] = items[i - Len(head)]
    BY <2>3, <2>5, PutTogether
  <2>7. IsSeq(block) /\ Len(block) = n + 1 /\ block[1] = Open(key)
    BY <1>1, <2>3, <2>5, <2>6
  <2>8. ASSUME NEW j \in 1..n
        PROVE  /\ block[j + 1].kind = "item"
               /\ block[j + 1].items[1].entry = WriteEntry(entries[j]).entry
    <3>1. j + 1 \in (Len(head) + 1)..(Len(head) + Len(items)) /\ (j + 1) - Len(head) = j
      BY <1>1, <2>3, <2>5
    <3>2. block[j + 1] = items[(j + 1) - Len(head)]
      BY <2>6, <3>1
    <3>3. PICK w : w = WriteEntry(entries[j])
      OBVIOUS
    <3>4. block[j + 1] = Item(TRUE, w)
      BY <2>2, <3>1, <3>2, <3>3
    <3>5. block[j + 1].kind = "item" /\ block[j + 1].items = <<w>>
      BY <3>4 DEF Item, Line
    <3> QED
      BY <3>3, <3>5
  <2>9. block[1].kind = "key" /\ ~block[1].indent /\ block[1].key = key /\ block[1].style = "none"
    BY <2>7 DEF Open, Line
  <2> QED
    BY <1>3, <2>7, <2>8, <2>9 DEF ListLines, block
<1> QED
  BY <1>2, <1>3

\* The last index is the greatest one.
LEMMA LastOf ==
    ASSUME NEW n \in Nat, NEW S \in SUBSET (1..n)
    PROVE  /\ LastIndex(S) = 0 <=> S = {}
           /\ S # {} => LastIndex(S) \in S /\ \A j \in S : j <= LastIndex(S)
<1> DEFINE T == {n - j : j \in S}
<1>1. T \in SUBSET (0..n) /\ 0..n \in SUBSET Int /\ IsFiniteSet(0..n)
  <2>1. \A j \in S : n - j \in 0..n
    OBVIOUS
  <2>2. IsFiniteSet(0..n)
    BY FS_Interval
  <2> QED
    BY <2>1, <2>2
<1>2. IsFiniteSet(T) /\ T \in SUBSET Int
  BY <1>1, FS_Subset
<1>3. CASE S = {}
  BY <1>3 DEF LastIndex
<1>4. CASE S # {}
  <2>1. T # {}
    BY <1>4
  <2>2. PICK t \in T : \A u \in T : t <= u
    BY <1>2, <2>1, LeastOf
  <2>3. PICK i \in S : t = n - i
    BY <2>2
  <2>4. \A j \in S : j <= i
    <3> TAKE j \in S
    <3>1. n - j \in T /\ i \in 1..n /\ j \in 1..n
      OBVIOUS
    <3>2. n - i <= n - j
      BY <2>2, <2>3, <3>1
    <3> QED
      BY <3>1, <3>2
  <2>5. LastIndex(S) \in S /\ \A j \in S : j <= LastIndex(S)
    BY <1>4, <2>3, <2>4 DEF LastIndex
  <2>6. LastIndex(S) \in 1..n
    BY <2>5
  <2> HIDE DEF LastIndex
  <2> QED
    BY <1>4, <2>5, <2>6
<1> QED
  BY <1>3, <1>4

\* An index that is the greatest is the last.
LEMMA LastIs ==
    ASSUME NEW n \in Nat, NEW S \in SUBSET (1..n), NEW k \in S, \A j \in S : j <= k
    PROVE  LastIndex(S) = k
<1>1. LastIndex(S) \in S /\ \A j \in S : j <= LastIndex(S)
  BY LastOf
<1>2. LastIndex(S) \in 1..n /\ k \in 1..n /\ LastIndex(S) <= k /\ k <= LastIndex(S)
  BY <1>1
<1> QED
  BY <1>2

\* A line with a key begins a block of its own.
LEMMA KeysBeginBlocks ==
    ASSUME NEW lines, IsSeq(lines), NEW i \in 1..Len(lines)
    PROVE  /\ IsTopKey(lines[i]) => BlockKey(lines, i) = i
           /\ BlockKey(lines, i) = 0 \/ (BlockKey(lines, i) \in 1..i /\ IsTopKey(lines[BlockKey(lines, i)]))
<1> DEFINE S == {k \in 1..i : IsTopKey(lines[k]) /\ \A j \in (k + 1)..i : ~IsTopKey(lines[j]) /\ lines[j] # Blank}
<1>1. i \in Nat /\ S \in SUBSET (1..i)
  BY SeqIs
<1>2. BlockKey(lines, i) = LastIndex(S)
  BY DEF BlockKey
<1>3. (LastIndex(S) = 0 <=> S = {}) /\ (S # {} => LastIndex(S) \in S)
  BY <1>1, LastOf
<1>4. ASSUME IsTopKey(lines[i])
      PROVE  LastIndex(S) = i
  <2>1. i \in S
    BY <1>1, <1>4
  <2>2. \A j \in S : j <= i
    BY <1>1
  <2> HIDE DEF S
  <2> QED
    BY <1>1, <2>1, <2>2, LastIs
<1> QED
  BY <1>2, <1>3, <1>4

-----------------------------------------------------------------------------
\* What the renderer adds to a list.
Additions(key, tags, related) == IF key = "tags" THEN tags ELSE related

\* What the renderer makes of the line with a key that it replaces.
HeadOf(lines, tags, related, fields, k) ==
    IF lines[k].key \in {"tags", "related"}
    THEN emitListBlock(lines[k].key, mergeUnique(readListBlock(lines, k), Additions(lines[k].key, tags, related)))
    ELSE emitScalar(lines[k].key, fields[lines[k].key])

\* What the renderer makes of a line.
PieceOf(lines, tags, related, fields, i) ==
    LET k == BlockKey(lines, i)
    IN  IF k = 0 \/ ~(lines[k].key \in {"tags", "related"} \cup DOMAIN fields) THEN <<lines[i]>>
        ELSE IF k = i THEN HeadOf(lines, tags, related, fields, k) ELSE <<>>

Pieces(lines, tags, related, fields) == [i \in DOMAIN lines |-> PieceOf(lines, tags, related, fields, i)]

\* What the renderer adds at the end.
MissingKey(lines, key) == ~\E i \in DOMAIN lines : IsTopKey(lines[i]) /\ lines[i].key = key
AddedList(lines, key, entries) == IF MissingKey(lines, key) /\ entries # <<>> THEN emitListBlock(key, entries) ELSE <<>>
AddedField(lines, fields, key) ==
    IF MissingKey(lines, key) /\ key \in DOMAIN fields THEN emitScalar(key, fields[key]) ELSE <<>>
AddedFields(lines, fields) ==
    FlattenSeq([i \in DOMAIN privateKeyOrder |-> AddedField(lines, fields, privateKeyOrder[i])])

\* The renderer puts these together.
LEMMA MergedParts ==
    ASSUME NEW lines, NEW tags, NEW related, NEW fields
    PROVE  mergeFrontmatter(lines, tags, related, fields) =
               PutOn(PutOn(PutOn(FlattenSeq(Pieces(lines, tags, related, fields)), AddedList(lines, "tags", tags)),
                           AddedList(lines, "related", related)), AddedFields(lines, fields))
BY Zenon DEF mergeFrontmatter, PutOn, Pieces, PieceOf, HeadOf, AddedList, AddedField, AddedFields, MissingKey, Additions

\* Lines of a note.
NoteLines(lines) == IsSeq(lines) /\ \A i \in 1..Len(lines) : WellFormed(lines[i])

\* What a line with a key is replaced by: it has the key, its other lines are
\* items, and a list keeps what was read of it.
Replaced(l, p, read, more) ==
    /\ IsSeq(p) /\ Len(p) \in Nat /\ Len(p) >= 1 /\ IsTopKey(p[1]) /\ p[1].key = l.key
    /\ \A j \in 1..Len(p) : j # 1 => p[j].kind = "item"
    /\ l.key \in {"tags", "related"} =>
          \E entries : /\ IsSeq(entries) /\ ListLines(p, l.key, entries)
                       /\ ToSet(entries) = ToSet(read) \cup ToSet(more)

\* The lines of a head.
LEMMA HeadsReplace ==
    ASSUME NEW lines, NoteLines(lines), NEW k \in 1..Len(lines), IsTopKey(lines[k]),
           NEW tags, IsSeq(tags), NEW related, IsSeq(related), NEW fields
    PROVE  Replaced(lines[k], HeadOf(lines, tags, related, fields, k),
                    readListBlock(lines, k), Additions(lines[k].key, tags, related))
<1> DEFINE p == HeadOf(lines, tags, related, fields, k)
           key == lines[k].key
           read == readListBlock(lines, k)
           more == Additions(key, tags, related)
           merged == mergeUnique(read, more)
<1>1. CASE key \in {"tags", "related"}
  <2>1. IsSeq(read) /\ IsSeq(more)
    BY ReadList DEF NoteLines, Additions
  <2>2. p = emitListBlock(key, merged)
    BY <1>1 DEF HeadOf
  <2> HIDE DEF p, read, more
  <2>3. IsSeq(merged) /\ ToSet(merged) = ToSet(read) \cup ToSet(more)
    BY <2>1, MergedEntries
  <2> HIDE DEF merged
  <2>4. ListLines(p, key, merged)
    BY <2>2, <2>3, WrittenList
  <2>5. Len(merged) \in Nat
    BY <2>3, SeqIs
  <2>6. /\ IsSeq(p) /\ Len(p) = Len(merged) + 1
        /\ p[1].kind = "key" /\ ~p[1].indent /\ p[1].key = key
        /\ \A j \in 1..Len(merged) : p[j + 1].kind = "item"
    BY <2>4 DEF ListLines
  <2>7. ASSUME NEW j \in 1..Len(p), j # 1
        PROVE  p[j].kind = "item"
    <3>1. j - 1 \in 1..Len(merged) /\ (j - 1) + 1 = j
      BY <2>5, <2>6, <2>7
    <3> QED
      BY <2>6, <3>1
  <2>8. IsTopKey(p[1])
    BY <2>6 DEF IsTopKey
  <2> QED
    BY <2>3, <2>4, <2>5, <2>6, <2>7, <2>8 DEF Replaced, p, read, more
<1>2. CASE key \notin {"tags", "related"}
  <2> DEFINE w == Bare(fields[key])
  <2>1. p = <<Scalar(key, w)>>
    BY <1>2 DEF HeadOf, emitScalar
  <2>2. IsSeq(p) /\ Len(p) = 1
    BY <2>1, Tuples
  <2>3. p[1] = Scalar(key, w)
    BY <2>1
  <2> HIDE DEF p, w
  <2>4. IsTopKey(p[1]) /\ p[1].key = key
    BY <2>3 DEF Scalar, Line, IsTopKey
  <2> QED
    BY <1>2, <2>2, <2>4 DEF Replaced, p
<1> QED
  BY <1>1, <1>2

\* What becomes of a line: its keys and fences, and what it is replaced by.
PieceFits(lines, tags, related, i, p) ==
    /\ IsSeq(p) /\ Len(p) \in Nat
    /\ \A j \in 1..Len(p) : IsTopKey(p[j]) => j = 1 /\ IsTopKey(lines[i]) /\ p[j].key = lines[i].key
    /\ IsTopKey(lines[i]) => Len(p) >= 1 /\ IsTopKey(p[1]) /\ p[1].key = lines[i].key
    /\ \A j \in 1..Len(p) : p[j].kind = "fence" => j = 1 /\ p = <<lines[i]>>
    /\ lines[i].kind = "fence" => p = <<lines[i]>> \/ Len(p) = 0
    /\ IsTopKey(lines[i]) /\ lines[i].key \in {"tags", "related"} =>
          Replaced(lines[i], p, readListBlock(lines, i), Additions(lines[i].key, tags, related))

\* Every piece is such.
LEMMA PiecesFit ==
    ASSUME NEW lines, NoteLines(lines), NEW i \in 1..Len(lines),
           NEW tags, IsSeq(tags), NEW related, IsSeq(related), NEW fields
    PROVE  PieceFits(lines, tags, related, i, PieceOf(lines, tags, related, fields, i))
<1> DEFINE p == PieceOf(lines, tags, related, fields, i)
           k == BlockKey(lines, i)
<1>1. (IsTopKey(lines[i]) => k = i) /\ (k = 0 \/ (k \in 1..i /\ IsTopKey(lines[k]))) /\ i # 0
  BY KeysBeginBlocks, SeqIs DEF NoteLines
<1> HIDE DEF k
<1>2. p = IF k = 0 \/ ~(lines[k].key \in {"tags", "related"} \cup DOMAIN fields) THEN <<lines[i]>>
          ELSE IF k = i THEN HeadOf(lines, tags, related, fields, k) ELSE <<>>
  BY DEF PieceOf, k
<1> HIDE DEF p
<1>3. CASE p = <<lines[i]>> /\ (k = 0 \/ ~(lines[k].key \in {"tags", "related"}))
  <2>1. IsSeq(p) /\ Len(p) = 1 /\ p[1] = lines[i]
    BY <1>3, Tuples
  <2>2. ~(IsTopKey(lines[i]) /\ lines[i].key \in {"tags", "related"})
    BY <1>1, <1>3
  <2>3. \A j \in 1..Len(p) : j = 1
    BY <2>1
  <2> QED
    BY <1>3, <2>1, <2>2, <2>3 DEF PieceFits, p
<1>4. CASE k = i /\ k # 0 /\ p = HeadOf(lines, tags, related, fields, k)
  <2>1. IsTopKey(lines[i]) /\ Replaced(lines[i], p, readListBlock(lines, i), Additions(lines[i].key, tags, related))
    BY <1>1, <1>4, HeadsReplace
  <2>2. /\ IsSeq(p) /\ Len(p) \in Nat /\ Len(p) >= 1 /\ IsTopKey(p[1]) /\ p[1].key = lines[i].key
        /\ \A j \in 1..Len(p) : j # 1 => p[j].kind = "item"
    BY <2>1 DEF Replaced
  <2>3. lines[i].kind = "key" /\ p[1].kind = "key"
    BY <2>1, <2>2 DEF IsTopKey
  <2>4. ASSUME NEW j \in 1..Len(p)
        PROVE  p[j].kind # "fence" /\ (IsTopKey(p[j]) => j = 1)
    BY <2>2, <2>3 DEF IsTopKey
  <2> QED
    BY <2>1, <2>2, <2>3, <2>4 DEF PieceFits, p
<1>5. CASE k # i /\ k # 0 /\ p = <<>>
  <2>1. Len(p) = 0 /\ IsSeq(p) /\ 1..Len(p) = {} /\ ~IsTopKey(lines[i])
    BY <1>1, <1>5 DEF IsSeq
  <2> QED
    BY <2>1 DEF PieceFits, p
<1> QED
  BY <1>2, <1>3, <1>4, <1>5

\* Lines that are added: no fences, and no key that is there.
AddedFits(lines, t) ==
    /\ IsSeq(t) /\ Len(t) \in Nat
    /\ \A x \in 1..Len(t) :
          /\ t[x].kind \in {"key", "item"}
          /\ IsTopKey(t[x]) => MissingKey(lines, t[x].key) /\ t[x].key \in EnrichWritableFields

\* Two such parts put together.
LEMMA AddedTogether ==
    ASSUME NEW lines, NEW s, AddedFits(lines, s), NEW t, AddedFits(lines, t)
    PROVE  AddedFits(lines, PutOn(s, t))
<1> DEFINE all == PutOn(s, t)
           ok(l) == l.kind \in {"key", "item"} /\ (IsTopKey(l) => MissingKey(lines, l.key) /\ l.key \in EnrichWritableFields)
<1>1. /\ IsSeq(s) /\ \A x \in 1..Len(s) : ok(s[x])
      /\ IsSeq(t) /\ \A x \in 1..Len(t) : ok(t[x])
  BY DEF AddedFits
<1>2. /\ IsSeq(all) /\ Len(s) \in Nat /\ Len(t) \in Nat /\ Len(all) = Len(s) + Len(t)
      /\ \A i \in 1..Len(s) : all[i] = s[i]
      /\ \A i \in (Len(s) + 1)..(Len(s) + Len(t)) : all[i] = t[i - Len(s)]
  BY <1>1, PutTogether
<1> HIDE DEF all, ok
<1>3. ASSUME NEW x \in 1..Len(all)
      PROVE  ok(all[x])
  <2>1. CASE x \in 1..Len(s)
    BY <1>1, <1>2, <2>1
  <2>2. CASE x \notin 1..Len(s)
    <3>1. x \in (Len(s) + 1)..(Len(s) + Len(t)) /\ x - Len(s) \in 1..Len(t)
      BY <1>2, <2>2
    <3> QED
      BY <1>1, <1>2, <3>1
  <2> QED
    BY <2>1, <2>2
<1> QED
  BY <1>2, <1>3 DEF AddedFits, all, ok

\* The lists that are added.
LEMMA ListsAreAdded ==
    ASSUME NEW lines, NEW key \in {"tags", "related"}, NEW entries, IsSeq(entries)
    PROVE  AddedFits(lines, AddedList(lines, key, entries))
<1> DEFINE t == AddedList(lines, key, entries)
<1>1. CASE MissingKey(lines, key) /\ entries # <<>>
  <2>1. t = emitListBlock(key, entries)
    BY <1>1 DEF AddedList
  <2>2. ListLines(t, key, entries)
    BY <2>1, WrittenList
  <2>3. Len(entries) \in Nat
    BY SeqIs
  <2> HIDE DEF t
  <2>4. /\ IsSeq(t) /\ Len(t) = Len(entries) + 1
        /\ t[1].kind = "key" /\ t[1].key = key
        /\ \A j \in 1..Len(entries) : t[j + 1].kind = "item"
    BY <2>2 DEF ListLines
  <2>5. ASSUME NEW x \in 1..Len(t)
        PROVE  /\ t[x].kind \in {"key", "item"}
               /\ IsTopKey(t[x]) => t[x].key = key
    <3>1. x = 1 \/ (x - 1 \in 1..Len(entries) /\ (x - 1) + 1 = x)
      BY <2>3, <2>4
    <3>2. x = 1 \/ t[x].kind = "item"
      BY <2>4, <3>1
    <3> QED
      BY <2>4, <3>2 DEF IsTopKey
  <2>6. key \in EnrichWritableFields
    BY DEF EnrichWritableFields
  <2> QED
    BY <1>1, <2>3, <2>4, <2>5, <2>6 DEF AddedFits, t
<1>2. CASE ~(MissingKey(lines, key) /\ entries # <<>>)
  <2>1. t = <<>>
    BY <1>2 DEF AddedList
  <2>2. Len(t) = 0 /\ IsSeq(t) /\ 1..Len(t) = {}
    BY <2>1 DEF IsSeq
  <2> QED
    BY <2>2 DEF AddedFits, t
<1> QED
  BY <1>1, <1>2

\* The fields that are added.
LEMMA FieldLinesAdded ==
    ASSUME NEW lines, NEW fields
    PROVE  LET t == AddedFields(lines, fields)
           IN  /\ IsSeq(t) /\ Len(t) \in Nat
               /\ \A x \in 1..Len(t) : /\ IsTopKey(t[x]) /\ t[x].key \in ToSet(privateKeyOrder)
                                       /\ MissingKey(lines, t[x].key)
<1> DEFINE n == 5
           pieces == [i \in 1..5 |-> AddedField(lines, fields, privateKeyOrder[i])]
           t == AddedFields(lines, fields)
<1>1. /\ DOMAIN privateKeyOrder = 1..5
      /\ \A i \in 1..5 : privateKeyOrder[i] \in ToSet(privateKeyOrder)
  <2>1. privateKeyOrder \in Seq(ToSet(privateKeyOrder)) /\ Len(privateKeyOrder) = 5
    BY DEF privateKeyOrder, ToSet
  <2>2. \A i \in 1..5 : privateKeyOrder[i] \in ToSet(privateKeyOrder)
    BY <2>1 DEF ToSet
  <2> QED
    BY <2>1, <2>2
<1>2. t = FlattenSeq(pieces)
  BY <1>1 DEF AddedFields
<1> DEFINE fits(i, p) == /\ IsSeq(p) /\ Len(p) \in Nat
                         /\ \A j \in 1..Len(p) : /\ IsTopKey(p[j]) /\ p[j].key = privateKeyOrder[i]
                                                 /\ MissingKey(lines, privateKeyOrder[i])
<1>3. ASSUME NEW i \in 1..5
      PROVE  fits(i, pieces[i])
  <2> DEFINE key == privateKeyOrder[i]
             p == pieces[i]
             w == Bare(fields[key])
  <2>1. p = IF MissingKey(lines, key) /\ key \in DOMAIN fields THEN <<Scalar(key, w)>> ELSE <<>>
    BY DEF AddedField, emitScalar
  <2> HIDE DEF p, key, w
  <2>2. CASE p = <<>>
    <3>1. Len(p) = 0 /\ IsSeq(p) /\ 1..Len(p) = {}
      BY <2>2 DEF IsSeq
    <3> QED
      BY <3>1 DEF p
  <2>3. CASE p = <<Scalar(key, w)>> /\ MissingKey(lines, key)
    <3>1. IsSeq(p) /\ Len(p) = 1 /\ p[1] = Scalar(key, w)
      BY <2>3, Tuples
    <3>2. IsTopKey(p[1]) /\ p[1].key = key
      BY <3>1 DEF Scalar, Line, IsTopKey
    <3>3. \A j \in 1..Len(p) : j = 1
      BY <3>1
    <3> QED
      BY <2>3, <3>1, <3>2, <3>3 DEF p, key
  <2> QED
    BY <2>1, <2>2, <2>3
<1>4. Len(pieces) = 5
  OBVIOUS
<1> HIDE DEF pieces, t, fits
<1>5. PICK off : Places(off, t, pieces, 5)
  <2>1. \A i \in 1..5 : IsSeq(pieces[i])
    BY <1>3 DEF fits
  <2>2. 5 \in Nat \ {0}
    OBVIOUS
  <2> QED
    BY <1>2, <1>4, <2>1, <2>2, FlattenPlaces
<1>6. ASSUME NEW x \in 1..Len(t)
      PROVE  /\ IsTopKey(t[x]) /\ t[x].key \in ToSet(privateKeyOrder) /\ MissingKey(lines, t[x].key)
  <2>1. PICK i \in 1..5 : off[i] < x /\ x <= off[i] + Len(pieces[i])
    BY <1>5 DEF Places
  <2>2. off[i] \in Nat /\ Len(pieces[i]) \in Nat
    BY <1>3, <1>5 DEF Places, fits
  <2>3. x - off[i] \in 1..Len(pieces[i]) /\ off[i] + (x - off[i]) = x
    BY <2>1, <2>2
  <2>4. t[x] = pieces[i][x - off[i]]
    BY <1>5, <2>3 DEF Places
  <2> QED
    BY <1>1, <1>3, <2>3, <2>4 DEF fits
<1>7. IsSeq(t) /\ Len(t) \in Nat
  BY <1>5 DEF Places
<1> QED
  BY <1>6, <1>7 DEF t

\* They fit.
LEMMA FieldsAreAdded ==
    ASSUME NEW lines, NEW fields
    PROVE  AddedFits(lines, AddedFields(lines, fields))
BY FieldLinesAdded DEF AddedFits, IsTopKey, EnrichWritableFields

-----------------------------------------------------------------------------
\* What the renderer is given.
Rendering(e) == NoteLines(e.lines) /\ IsSeq(e.tags) /\ IsSeq(e.related)

\* The lines between the first and the one that closes the block.
InnerLines(e, end) == SubSeq(e.lines, 2, end - 1)

\* A note as the renderer leaves it: the first line, what became of the lines
\* of the block (f), what was added (t), and the rest as it was.
RenderedAs(e, a, end, off, f, t) ==
    LET inner == InnerLines(e, end)
        pieces == Pieces(inner, e.tags, e.related, e.fields)
    IN  /\ IsSeq(e.lines) /\ end \in 3..Len(e.lines) /\ e.lines[1] = Fence /\ e.lines[end].kind \in {"fence", "rule"}
        /\ \A i \in 3..(end - 1) : e.lines[i].kind = "fence" => e.lines[i].indent
        /\ NoteLines(inner) /\ Len(inner) = end - 2 /\ \A i \in 1..(end - 2) : inner[i] = e.lines[i + 1]
        /\ \A i \in 1..(end - 2) : PieceFits(inner, e.tags, e.related, i, pieces[i])
        /\ Places(off, f, pieces, end - 2) /\ AddedFits(inner, t)
        /\ IsSeq(a) /\ Len(a) = 1 + Len(f) + Len(t) + (Len(e.lines) + 1 - end)
        /\ a[1] = Fence
        /\ \A i \in 1..Len(f) : a[1 + i] = f[i]
        /\ \A i \in 1..Len(t) : a[1 + Len(f) + i] = t[i]
        /\ \A i \in 1..(Len(e.lines) + 1 - end) : a[1 + Len(f) + Len(t) + i] = e.lines[end - 1 + i]

\* What it adds.
AddedLines(lines, e) ==
    PutOn(PutOn(AddedList(lines, "tags", e.tags), AddedList(lines, "related", e.related)), AddedFields(lines, e.fields))

\* The renderer leaves a note so.
LEMMA RenderedNote ==
    ASSUME NEW e, Rendering(e), NEW file, file = [plain |-> file.plain, lines |-> e.lines],
           NEW after \in applyEnrichToFrontmatter(file, e.tags, e.related, e.fields)
    PROVE  /\ after.plain = file.plain
           /\ \E end, off, f, t : RenderedAs(e, after.lines, end, off, f, t) /\ t = AddedLines(InnerLines(e, end), e)
<1> DEFINE lines == e.lines
           n == Len(lines)
           ends == {i \in 3..n : lines[i].kind \in {"fence", "rule"} /\ ~lines[i].indent}
           end == FrontmatterEnd(lines)
           inner == InnerLines(e, end)
           pieces == Pieces(inner, e.tags, e.related, e.fields)
           f == FlattenSeq(pieces)
           t == PutOn(PutOn(AddedList(inner, "tags", e.tags), AddedList(inner, "related", e.related)), AddedFields(inner, e.fields))
           merged == mergeFrontmatter(inner, e.tags, e.related, e.fields)
           rest == SubSeq(lines, end, n)
           a == PutOn(PutOn(<<Fence>>, merged), rest)
<1>1. IsSeq(lines) /\ n \in Nat /\ \A i \in 1..n : WellFormed(lines[i])
  BY SeqIs DEF Rendering, NoteLines
<1>2. /\ lines[1] = Fence /\ end # 0
      /\ after = [file EXCEPT !.lines = a]
  <2>1. file.lines = lines
    OBVIOUS
  <2> QED
    BY <2>1, Zenon DEF applyEnrichToFrontmatter, PutOn, InnerLines
<1>3. after.plain = file.plain /\ after.lines = a
  BY <1>2
<1>4. /\ end \in 3..n /\ lines[end].kind \in {"fence", "rule"}
      /\ \A i \in 3..(end - 1) : lines[i].kind = "fence" => lines[i].indent
  <2>1. ends \in SUBSET (1..n)
    BY <1>1
  <2>2. end = FirstIndex(ends)
    BY DEF FrontmatterEnd
  <2>3. end \in ends /\ \A j \in ends : end <= j
    <3> HIDE DEF ends
    <3>1. (FirstIndex(ends) = 0 <=> ends = {}) /\ (ends # {} => FirstIndex(ends) \in ends /\ \A j \in ends : FirstIndex(ends) <= j)
      BY <1>1, <2>1, FirstOf
    <3> HIDE DEF end
    <3> QED
      BY <1>2, <2>2, <3>1
  <2> HIDE DEF end
  <2>4. ASSUME NEW i \in 3..(end - 1), lines[i].kind = "fence"
        PROVE  lines[i].indent
    <3>1. i \in 3..n /\ ~(end <= i)
      BY <1>1, <2>3
    <3>2. i \notin ends
      BY <2>3, <3>1
    <3> QED
      BY <2>4, <3>1, <3>2
  <2> QED
    BY <2>3, <2>4
<1> HIDE DEF end
<1>5. /\ NoteLines(inner) /\ Len(inner) = end - 2 /\ \A i \in 1..(end - 2) : inner[i] = lines[i + 1]
  <2>1. 2 \in Nat \ {0} /\ end - 1 \in Nat /\ 2 <= (end - 1) + 1 /\ end - 1 <= n
    BY <1>1, <1>4
  <2>2. /\ IsSeq(inner) /\ Len(inner) = ((end - 1) + 1) - 2
        /\ \A i \in 1..(((end - 1) + 1) - 2) : inner[i] = lines[(2 - 1) + i]
    BY <1>1, <2>1, PartOf, ZenonT(30) DEF InnerLines
  <2> HIDE DEF inner
  <2>3. IsSeq(inner) /\ Len(inner) = end - 2
    BY <1>4, <2>2
  <2>4. ASSUME NEW i \in 1..(end - 2)
        PROVE  inner[i] = lines[i + 1] /\ WellFormed(inner[i])
    <3>1. i \in 1..(((end - 1) + 1) - 2) /\ (2 - 1) + i = i + 1 /\ i + 1 \in 1..n
      BY <1>1, <1>4
    <3> QED
      BY <1>1, <2>2, <3>1
  <2> QED
    BY <2>3, <2>4 DEF NoteLines
<1> HIDE DEF inner
<1>6. DOMAIN inner = 1..(end - 2) /\ end - 2 \in Nat \ {0} /\ DOMAIN pieces = 1..(end - 2) /\ Len(pieces) = end - 2
  <2>1. DOMAIN inner = 1..(end - 2) /\ end - 2 \in Nat \ {0}
    BY <1>4, <1>5, SeqIs DEF NoteLines
  <2> QED
    BY <2>1 DEF Pieces
<1>7. \A i \in 1..(end - 2) : PieceFits(inner, e.tags, e.related, i, pieces[i])
  <2> TAKE i \in 1..(end - 2)
  <2>1. pieces[i] = PieceOf(inner, e.tags, e.related, e.fields, i)
    BY <1>6 DEF Pieces
  <2> QED
    BY <1>5, <2>1, PiecesFit DEF Rendering
<1>8. \E off : Places(off, f, pieces, end - 2)
  <2>1. \A i \in 1..(end - 2) : IsSeq(pieces[i])
    BY <1>7 DEF PieceFits
  <2> HIDE DEF pieces
  <2> QED
    BY <1>6, <2>1, FlattenPlaces
<1>9. AddedFits(inner, t)
  <2>1. AddedFits(inner, AddedList(inner, "tags", e.tags)) /\ AddedFits(inner, AddedList(inner, "related", e.related))
    BY ListsAreAdded DEF Rendering
  <2> QED
    BY <2>1, FieldsAreAdded, AddedTogether
<1>10. t = AddedLines(inner, e)
  BY DEF AddedLines
<1>11. merged = PutOn(f, t)
  <2> DEFINE x == AddedList(inner, "tags", e.tags)
             y == AddedList(inner, "related", e.related)
             z == AddedFields(inner, e.fields)
  <2>1. IsSeq(f) /\ IsSeq(x) /\ IsSeq(y) /\ IsSeq(z)
    BY <1>8, ListsAreAdded, FieldsAreAdded DEF Rendering, AddedFits, Places
  <2>2. merged = PutOn(PutOn(PutOn(f, x), y), z)
    BY MergedParts
  <2>3. t = PutOn(PutOn(x, y), z)
    OBVIOUS
  <2> HIDE DEF f, x, y, z, t, merged
  <2>4. PICK A, B, C, D : f \in Seq(A) /\ x \in Seq(B) /\ y \in Seq(C) /\ z \in Seq(D)
    BY <2>1 DEF IsSeq
  <2> DEFINE U == A \cup B \cup C \cup D
  <2>5. f \in Seq(U) /\ x \in Seq(U) /\ y \in Seq(U) /\ z \in Seq(U)
    BY <2>4
  <2> HIDE DEF U
  <2>6. ((f \o x) \o y) \o z = f \o ((x \o y) \o z)
    <3> DEFINE v == x \o y
    <3>1. v \in Seq(U) /\ (f \o x) \o y = f \o v
      BY ONLY <2>5
    <3>2. f \o (v \o z) = (f \o v) \o z
      <4> HIDE DEF v
      <4> QED
        BY ONLY <2>5, <3>1
    <3> QED
      BY ONLY <3>1, <3>2
  <2> QED
    BY <2>2, <2>3, <2>6 DEF PutOn
<1> HIDE DEF merged, f, t, pieces
<1>12. PICK off : Places(off, f, pieces, end - 2)
  BY <1>8
<1>13. IsSeq(f) /\ Len(f) \in Nat /\ IsSeq(t) /\ Len(t) \in Nat
  BY <1>9, <1>12 DEF Places, AddedFits
<1>14. /\ IsSeq(rest) /\ Len(rest) = n + 1 - end /\ \A i \in 1..(n + 1 - end) : rest[i] = lines[(end - 1) + i]
  <2>1. end \in Nat \ {0} /\ end <= n + 1 /\ n <= Len(lines)
    BY <1>1, <1>4
  <2> QED
    BY <1>1, <2>1, PartOf
<1> HIDE DEF rest
<1> DEFINE m == PutOn(f, t)
           h == PutOn(<<Fence>>, m)
<1>15. /\ IsSeq(m) /\ Len(m) = Len(f) + Len(t)
       /\ \A i \in 1..Len(f) : m[i] = f[i]
       /\ \A i \in (Len(f) + 1)..(Len(f) + Len(t)) : m[i] = t[i - Len(f)]
  BY <1>13, PutTogether
<1> HIDE DEF m
<1>16. /\ IsSeq(h) /\ Len(h) = 1 + Len(m) /\ h[1] = Fence
       /\ \A i \in 2..(1 + Len(m)) : h[i] = m[i - 1]
  <2> DEFINE first == <<Fence>>
  <2>1. IsSeq(first) /\ Len(first) = 1 /\ first[1] = Fence
    BY Tuples
  <2> HIDE DEF first
  <2>2. /\ IsSeq(PutOn(first, m)) /\ Len(PutOn(first, m)) = Len(first) + Len(m)
        /\ \A i \in 1..Len(first) : PutOn(first, m)[i] = first[i]
        /\ \A i \in (Len(first) + 1)..(Len(first) + Len(m)) : PutOn(first, m)[i] = m[i - Len(first)]
    BY <1>15, <2>1, PutTogether
  <2>3. h = PutOn(first, m)
    BY DEF first
  <2> HIDE DEF h
  <2> QED
    BY <2>1, <2>2, <2>3
<1> HIDE DEF h
<1>17. /\ IsSeq(a) /\ Len(a) = Len(h) + Len(rest)
       /\ \A i \in 1..Len(h) : a[i] = h[i]
       /\ \A i \in (Len(h) + 1)..(Len(h) + Len(rest)) : a[i] = rest[i - Len(h)]
  <2>1. a = PutOn(h, rest)
    BY <1>11 DEF h, m
  <2> HIDE DEF a
  <2> QED
    BY <1>14, <1>16, <2>1, PutTogether
<1> HIDE DEF a
<1>18. IsSeq(a) /\ Len(a) = 1 + Len(f) + Len(t) + (n + 1 - end) /\ a[1] = Fence
  <2>1. Len(h) = 1 + Len(f) + Len(t) /\ 1 \in 1..Len(h)
    BY <1>13, <1>15, <1>16
  <2> QED
    BY <1>13, <1>14, <1>16, <1>17, <2>1
<1>19. ASSUME NEW i \in 1..Len(f)
       PROVE  a[1 + i] = f[i]
  <2>1. 1 + i \in 1..Len(h) /\ 1 + i \in 2..(1 + Len(m)) /\ (1 + i) - 1 = i
    BY <1>13, <1>15, <1>16
  <2> QED
    BY <1>15, <1>16, <1>17, <2>1
<1>20. ASSUME NEW i \in 1..Len(t)
       PROVE  a[1 + Len(f) + i] = t[i]
  <2>1. /\ 1 + Len(f) + i \in 1..Len(h) /\ 1 + Len(f) + i \in 2..(1 + Len(m)) /\ (1 + Len(f) + i) - 1 = Len(f) + i
        /\ Len(f) + i \in (Len(f) + 1)..(Len(f) + Len(t)) /\ (Len(f) + i) - Len(f) = i
    <3>1. Len(f) \in Nat /\ Len(t) \in Nat /\ Len(m) = Len(f) + Len(t) /\ Len(h) = 1 + Len(m) /\ i \in 1..Len(t)
      BY <1>13, <1>15, <1>16
    <3> QED
      BY ONLY <3>1
  <2> QED
    BY <1>15, <1>16, <1>17, <2>1
<1>21. ASSUME NEW i \in 1..(n + 1 - end)
       PROVE  a[1 + Len(f) + Len(t) + i] = lines[end - 1 + i]
  <2>1. /\ Len(h) = 1 + Len(f) + Len(t)
        /\ 1 + Len(f) + Len(t) + i \in (Len(h) + 1)..(Len(h) + Len(rest)) /\ (1 + Len(f) + Len(t) + i) - Len(h) = i
    BY <1>13, <1>14, <1>15, <1>16
  <2> QED
    BY <1>14, <1>17, <2>1
<1>22. RenderedAs(e, a, end, off, f, t)
  BY <1>1, <1>2, <1>4, <1>5, <1>7, <1>9, <1>12, <1>18, <1>19, <1>20, <1>21 DEF RenderedAs, inner, pieces
<1> QED
  BY <1>3, <1>22, <1>10 DEF inner

-----------------------------------------------------------------------------
(***************************************************************************)
(* Notes that are enriched: what the readers find there.                   *)
(***************************************************************************)
\* A file read with a block that closes at c.
SplitAt(lines, c, block, body) ==
    /\ c \in 2..Len(lines) /\ lines[1] = Fence /\ lines[c].kind = "fence"
    /\ \A i \in 2..(c - 1) : lines[i].kind # "fence"
    /\ IsSeq(block) /\ Len(block) = c - 2 /\ \A i \in 1..(c - 2) : block[i] = lines[i + 1]
    /\ IsSeq(body) /\ Len(body) = Len(lines) - c /\ \A i \in 1..(Len(lines) - c) : body[i] = lines[c + i]

\* A file that has a block is read so.
LEMMA SplitFile ==
    ASSUME NEW file, IsSeq(file.lines), SplitFrontmatter(file).found
    PROVE  \E c : SplitAt(file.lines, c, SplitFrontmatter(file).block, SplitFrontmatter(file).body)
<1> DEFINE lines == file.lines
           n == Len(lines)
           fences == {i \in 2..n : lines[i].kind = "fence"}
           c == FirstIndex(fences)
           block == SplitFrontmatter(file).block
           body == SplitFrontmatter(file).body
<1>1. n \in Nat /\ fences \in SUBSET (1..n)
  BY SeqIs
<1>2. (c = 0 <=> fences = {}) /\ (fences # {} => c \in fences /\ \A j \in fences : c <= j)
  <2> HIDE DEF fences
  <2> QED
    BY <1>1, FirstOf
<1>3. ~(lines = <<>> \/ lines[1] # Fence \/ c = 0)
  <2> SUFFICES ASSUME lines = <<>> \/ lines[1] # Fence \/ c = 0 PROVE FALSE
    OBVIOUS
  <2>1. SplitFrontmatter(file) = [NoFrontmatter EXCEPT !.body = lines]
    BY DEF SplitFrontmatter
  <2> QED
    BY <2>1 DEF NoFrontmatter
<1>4. SplitFrontmatter(file) = [found |-> TRUE, block |-> SubSeq(lines, 2, c - 1), body |-> SubSeq(lines, c + 1, n)]
  BY <1>3, Zenon DEF SplitFrontmatter
<1>5. block = SubSeq(lines, 2, c - 1) /\ body = SubSeq(lines, c + 1, n)
  <2> DEFINE B == SubSeq(lines, 2, c - 1)
             D == SubSeq(lines, c + 1, n)
  <2>1. SplitFrontmatter(file) = [found |-> TRUE, block |-> B, body |-> D]
    BY <1>4
  <2> HIDE DEF c, B, D
  <2>2. SplitFrontmatter(file).block = B /\ SplitFrontmatter(file).body = D
    BY ONLY <2>1
  <2> QED
    BY <2>2 DEF B, D
<1>6. c \in 2..n /\ lines[c].kind = "fence" /\ \A i \in 2..(c - 1) : lines[i].kind # "fence"
  <2>1. c \in fences /\ \A j \in fences : c <= j
    BY <1>2, <1>3
  <2> HIDE DEF c
  <2>2. ASSUME NEW i \in 2..(c - 1)
        PROVE  lines[i].kind # "fence"
    <3>1. i \in 2..n /\ ~(c <= i)
      BY <1>1, <2>1
    <3> QED
      BY <2>1, <3>1
  <2> QED
    BY <2>1, <2>2
<1> HIDE DEF c, block, body
<1>7. IsSeq(block) /\ Len(block) = c - 2 /\ \A i \in 1..(c - 2) : block[i] = lines[i + 1]
  <2>1. 2 \in Nat \ {0} /\ c - 1 \in Nat /\ 2 <= (c - 1) + 1 /\ c - 1 <= n /\ ((c - 1) + 1) - 2 = c - 2
    BY <1>1, <1>6
  <2>2. /\ IsSeq(block) /\ Len(block) = c - 2
        /\ \A i \in 1..(c - 2) : block[i] = lines[(2 - 1) + i]
    BY <1>5, <2>1, PartOf
  <2>3. \A i \in 1..(c - 2) : (2 - 1) + i = i + 1
    OBVIOUS
  <2> QED
    BY <2>2, <2>3
<1>8. IsSeq(body) /\ Len(body) = n - c /\ \A i \in 1..(n - c) : body[i] = lines[c + i]
  <2>1. c + 1 \in Nat \ {0} /\ n \in Nat /\ c + 1 <= n + 1 /\ n <= n /\ (n + 1) - (c + 1) = n - c /\ (c + 1) - 1 = c
    BY <1>1, <1>6
  <2>2. /\ IsSeq(body) /\ Len(body) = (n + 1) - (c + 1)
        /\ \A i \in 1..((n + 1) - (c + 1)) : body[i] = lines[((c + 1) - 1) + i]
    BY <1>5, <2>1, PartOf
  <2> QED
    BY <2>1, <2>2
<1>9. SplitAt(lines, c, block, body)
  BY <1>3, <1>6, <1>7, <1>8 DEF SplitAt
<1> QED
  BY <1>9 DEF block, body

\* The k-th line of a block, the last with its key, became a list at x.
ListAt(e, before, after, k, x, n, entries) ==
    LET key == before[k].key
    IN  /\ x \in 1..n /\ IsSeq(entries) /\ x + Len(entries) <= n
        /\ IsTopKey(after[x]) /\ after[x].key = key
        /\ after[x].style = (IF Len(entries) = 0 THEN "flow" ELSE "none")
        /\ Len(entries) = 0 => after[x].items = <<>>
        /\ \A j \in 1..Len(entries) :
              after[x + j].kind = "item" /\ after[x + j].items[1].entry = WriteEntry(entries[j]).entry
        /\ \A y \in (x + 1)..n : ~(IsTopKey(after[y]) /\ after[y].key = key)

\* The first l lines of a block became the first n of another, which keeps
\* all keys, and of the last list under a key what was read of it.
KeysKept(e, inner, before, after, l, n) ==
    /\ \A k \in 1..l : IsTopKey(before[k]) => \E x \in 1..n : IsTopKey(after[x]) /\ after[x].key = before[k].key
    /\ \A k \in 1..l :
          /\ IsTopKey(before[k]) /\ before[k].key \in {"tags", "related"}
          /\ \A i \in (k + 1)..l : ~(IsTopKey(before[i]) /\ before[i].key = before[k].key)
          => \E x, entries : /\ ListAt(e, before, after, k, x, n, entries)
                             /\ ToSet(entries) = ToSet(readListBlock(inner, k))
                                                     \cup ToSet(Additions(before[k].key, e.tags, e.related))

\* So do the first lines of a block that was rendered.
LEMMA RenderedKeys ==
    ASSUME NEW e, NEW a, NEW end, NEW off, NEW f, NEW t, RenderedAs(e, a, end, off, f, t),
           NEW before, NEW after, NEW l \in 0..(end - 2), NEW n \in Nat,
           \A k \in 1..l : before[k] = e.lines[k + 1],
           \A x \in 1..n : after[x] = a[x + 1],
           n <= Len(f) + Len(t),
           \A i \in 1..l : off[i] + Len(Pieces(InnerLines(e, end), e.tags, e.related, e.fields)[i]) <= n,
           \A i \in 1..(end - 2) : i > l => n <= off[i]
    PROVE  KeysKept(e, InnerLines(e, end), before, after, l, n)
<1> DEFINE inner == InnerLines(e, end)
           pieces == Pieces(inner, e.tags, e.related, e.fields)
<1>0. Len(e.lines) \in Nat
  BY SeqIs DEF RenderedAs
<1>1. /\ end \in 3..Len(e.lines) /\ end \in Nat /\ end - 2 \in Nat /\ IsSeq(inner) /\ Len(inner) = end - 2
      /\ \A k \in 1..(end - 2) : inner[k] = e.lines[k + 1]
      /\ \A i \in 1..(end - 2) : PieceFits(inner, e.tags, e.related, i, pieces[i])
      /\ Places(off, f, pieces, end - 2) /\ AddedFits(inner, t)
      /\ \A i \in 1..Len(f) : a[1 + i] = f[i]
      /\ \A i \in 1..Len(t) : a[1 + Len(f) + i] = t[i]
  <2>1. end \in 3..Len(e.lines) /\ end \in Nat /\ end - 2 \in Nat
    BY <1>0 DEF RenderedAs
  <2> QED
    BY <2>1, Zenon DEF RenderedAs, NoteLines
<1>2. \A i \in 1..l : off[i] + Len(pieces[i]) <= n
  OBVIOUS
<1>3. DOMAIN inner = 1..(end - 2)
  BY <1>1, SeqIs
<1> HIDE DEF inner, pieces
<1>4. /\ Len(f) \in Nat /\ Len(t) \in Nat /\ \A i \in 1..(end - 2) : off[i] \in Nat /\ Len(pieces[i]) \in Nat
  BY <1>1 DEF Places, AddedFits, PieceFits
<1>5. ASSUME NEW k \in 1..l
      PROVE  before[k] = inner[k] /\ k \in 1..(end - 2)
  <2>1. k \in 1..(end - 2)
    BY <1>1
  <2>2. before[k] = e.lines[k + 1]
    OBVIOUS
  <2> QED
    BY <1>1, <2>1, <2>2
<1>6. ASSUME NEW k \in 1..l, NEW j \in 1..Len(pieces[k])
      PROVE  off[k] + j \in 1..n /\ after[off[k] + j] = pieces[k][j]
  <2>1. k \in 1..(end - 2) /\ off[k] \in Nat /\ off[k] + Len(pieces[k]) <= n /\ Len(pieces[k]) \in Nat
    BY <1>2, <1>4, <1>5
  <2>2. off[k] + Len(pieces[k]) <= Len(f) /\ f[off[k] + j] = pieces[k][j]
    BY <1>1, <2>1 DEF Places
  <2>3. off[k] + j \in 1..n /\ off[k] + j \in 1..Len(f) /\ 1 + (off[k] + j) = (off[k] + j) + 1
    <3>1. /\ off[k] \in Nat /\ j \in Nat /\ j >= 1 /\ j <= Len(pieces[k]) /\ Len(pieces[k]) \in Nat
          /\ off[k] + Len(pieces[k]) <= n /\ off[k] + Len(pieces[k]) <= Len(f) /\ n \in Nat /\ Len(f) \in Nat
      BY <1>4, <2>1, <2>2
    <3> QED
      BY ONLY <3>1
  <2>4. f[off[k] + j] = a[(off[k] + j) + 1]
    BY <1>1, <2>3
  <2>5. after[off[k] + j] = a[(off[k] + j) + 1]
    BY <2>3
  <2> QED
    BY <2>2, <2>3, <2>4, <2>5
<1>7. ASSUME NEW y \in 1..n
      PROVE  \/ \E i \in 1..l : \E j \in 1..Len(pieces[i]) : y = off[i] + j
             \/ \E j \in 1..Len(t) : after[y] = t[j]
  <2>1. CASE y \in 1..Len(f)
    <3>1. PICK i \in 1..(end - 2) : off[i] < y /\ y <= off[i] + Len(pieces[i])
      BY <1>1, <2>1 DEF Places
    <3>2. off[i] \in Nat /\ Len(pieces[i]) \in Nat
      BY <1>4
    <3>3. i \in 1..l
      <4>1. /\ i > l => n <= off[i]
            /\ y <= n /\ y \in Nat /\ n \in Nat /\ l \in Nat /\ i \in Nat /\ i >= 1
        BY <3>1
      <4> QED
        BY ONLY <3>1, <3>2, <4>1
    <3>4. y - off[i] \in 1..Len(pieces[i]) /\ y = off[i] + (y - off[i])
      BY <3>1, <3>2, SMTT(30)
    <3> QED
      BY <3>3, <3>4
  <2>2. CASE y \notin 1..Len(f)
    <3>1. y - Len(f) \in 1..Len(t) /\ 1 + Len(f) + (y - Len(f)) = y + 1
      BY <1>4, <2>2
    <3>2. a[1 + Len(f) + (y - Len(f))] = t[y - Len(f)]
      BY <1>1, <3>1
    <3> QED
      BY <3>1, <3>2
  <2> QED
    BY <2>1, <2>2
<1>8. ASSUME NEW k \in 1..l, IsTopKey(before[k])
      PROVE  \E x \in 1..n : IsTopKey(after[x]) /\ after[x].key = before[k].key
  <2>1. PieceFits(inner, e.tags, e.related, k, pieces[k]) /\ IsTopKey(inner[k]) /\ before[k] = inner[k]
    BY <1>1, <1>5, <1>8
  <2>2. Len(pieces[k]) \in Nat /\ Len(pieces[k]) >= 1 /\ IsTopKey(pieces[k][1]) /\ pieces[k][1].key = inner[k].key
    BY <2>1 DEF PieceFits
  <2>3. off[k] + 1 \in 1..n /\ after[off[k] + 1] = pieces[k][1]
    BY <1>6, <2>2
  <2> QED
    BY <2>1, <2>2, <2>3
<1>9. ASSUME NEW k \in 1..l, IsTopKey(before[k]), before[k].key \in {"tags", "related"},
             \A i \in (k + 1)..l : ~(IsTopKey(before[i]) /\ before[i].key = before[k].key)
      PROVE  \E x, entries : /\ ListAt(e, before, after, k, x, n, entries)
                             /\ ToSet(entries) = ToSet(readListBlock(inner, k))
                                                     \cup ToSet(Additions(before[k].key, e.tags, e.related))
  <2> DEFINE p == pieces[k]
             key == inner[k].key
             x == off[k] + 1
  <2>1. /\ k \in 1..(end - 2) /\ before[k] = inner[k] /\ PieceFits(inner, e.tags, e.related, k, p) /\ IsTopKey(inner[k])
        /\ key \in {"tags", "related"}
    BY <1>1, <1>5, <1>9
  <2>2. Replaced(inner[k], p, readListBlock(inner, k), Additions(key, e.tags, e.related))
    BY <2>1 DEF PieceFits
  <2>3. PICK entries : /\ IsSeq(entries) /\ ListLines(p, key, entries)
                       /\ ToSet(entries) = ToSet(readListBlock(inner, k)) \cup ToSet(Additions(key, e.tags, e.related))
    BY <2>1, <2>2 DEF Replaced
  <2>4. /\ Len(entries) \in Nat /\ Len(p) = Len(entries) + 1 /\ IsTopKey(p[1]) /\ p[1].key = key
        /\ p[1].style = (IF Len(entries) = 0 THEN "flow" ELSE "none")
        /\ Len(entries) = 0 => p[1].items = <<>>
        /\ \A j \in 1..Len(entries) :
              p[j + 1].kind = "item" /\ p[j + 1].items[1].entry = WriteEntry(entries[j]).entry
    BY <2>3, SeqIs DEF ListLines, IsTopKey
  <2>5. off[k] \in Nat
    BY <1>4, <2>1
  <2>6. x \in 1..n /\ after[x] = p[1]
    BY <1>6, <2>4
  <2>7. ASSUME NEW j \in 1..Len(entries)
        PROVE  x + j \in 1..n /\ after[x + j] = p[j + 1]
    <3>1. j + 1 \in 1..Len(p) /\ off[k] + (j + 1) = x + j
      <4>1. Len(p) = Len(entries) + 1 /\ Len(entries) \in Nat
        BY <2>4
      <4> HIDE DEF p
      <4>2. j \in Nat /\ 1 <= j /\ j <= Len(entries) /\ off[k] \in Nat
        BY <2>5, <4>1
      <4>3. j + 1 \in 1..Len(p)
        BY ONLY <4>1, <4>2
      <4>4. off[k] + (j + 1) = x + j
        BY ONLY <4>2
      <4> QED
        BY <4>3, <4>4
    <3> QED
      BY <1>6, <3>1
  <2>8. x + Len(entries) <= n
    <3>1. off[k] + Len(p) <= n
      BY <1>2
    <3>2. Len(p) = Len(entries) + 1 /\ Len(entries) \in Nat
      BY <2>4
    <3> HIDE DEF p
    <3> QED
      BY <2>5, <3>1, <3>2
  <2>9. ASSUME NEW y \in (x + 1)..n, IsTopKey(after[y]), after[y].key = key
        PROVE  FALSE
    <3>0. y \in 1..n /\ y > off[k] + 1
      BY <2>5
    <3>1. CASE \E j \in 1..Len(t) : after[y] = t[j]
      <4>1. PICK j \in 1..Len(t) : after[y] = t[j]
        BY <3>1
      <4>2. MissingKey(inner, key)
        BY <1>1, <2>9, <4>1 DEF AddedFits
      <4> QED
        BY <1>3, <2>1, <4>2 DEF MissingKey
    <3>2. CASE \E i \in 1..l : \E j \in 1..Len(pieces[i]) : y = off[i] + j
      <4>1. PICK i \in 1..l : \E j \in 1..Len(pieces[i]) : y = off[i] + j
        BY <3>2
      <4>2. PICK j \in 1..Len(pieces[i]) : y = off[i] + j
        BY <4>1
      <4>3. after[y] = pieces[i][j] /\ i \in 1..(end - 2) /\ off[i] \in Nat /\ Len(pieces[i]) \in Nat /\ before[i] = inner[i]
        BY <1>4, <1>5, <1>6, <4>2
      <4>4. j = 1 /\ IsTopKey(inner[i]) /\ pieces[i][j].key = inner[i].key
        <5>1. PieceFits(inner, e.tags, e.related, i, pieces[i]) /\ IsTopKey(pieces[i][j])
          BY <1>1, <2>9, <4>3
        <5> QED
          BY <5>1 DEF PieceFits
      <4>5. ~(i < k)
        <5>1. i < k => off[i] + Len(pieces[i]) <= off[k]
          BY <1>1, <2>1, <4>3 DEF Places
        <5>2. /\ off[k] \in Nat /\ off[i] \in Nat /\ Len(pieces[i]) \in Nat /\ j \in 1..Len(pieces[i])
              /\ y > off[k] + 1 /\ y = off[i] + j
          BY <2>5, <3>0, <4>2, <4>3
        <5>3. ~(off[i] + Len(pieces[i]) <= off[k])
          BY ONLY <5>2, SMTT(30)
        <5> QED
          BY <5>1, <5>3
      <4>6. i # k
        BY <2>5, <3>0, <4>2, <4>4
      <4>7. i \in (k + 1)..l
        BY <4>5, <4>6
      <4> QED
        BY <1>9, <2>1, <2>9, <4>3, <4>4, <4>7
    <3> QED
      BY <1>7, <3>0, <3>1, <3>2
  <2> HIDE DEF p, x
  <2>10. ListAt(e, before, after, k, x, n, entries)
    BY <2>1, <2>3, <2>4, <2>6, <2>7, <2>8, <2>9 DEF ListAt
  <2> QED
    BY <2>1, <2>3, <2>10
<1> QED
  BY <1>8, <1>9 DEF KeysKept, inner

\* A fence in what became of the lines of a block was there before.
LEMMA FencesWereThere ==
    ASSUME NEW e, NEW a, NEW end, NEW off, NEW f, NEW t, RenderedAs(e, a, end, off, f, t)
    PROVE  LET pieces == Pieces(InnerLines(e, end), e.tags, e.related, e.fields)
           IN  /\ \A x \in 1..Len(f) : f[x].kind = "fence" =>
                     \E i \in 1..(end - 2) : /\ x = off[i] + 1 /\ Len(pieces[i]) = 1
                                             /\ e.lines[i + 1].kind = "fence" /\ pieces[i][1] = e.lines[i + 1]
               /\ \A x \in 1..Len(t) : t[x].kind # "fence"
               /\ \A i \in 1..(end - 2) : e.lines[i + 1].kind = "fence" =>
                     Len(pieces[i]) = 0 \/ (Len(pieces[i]) = 1 /\ pieces[i][1] = e.lines[i + 1])
<1> DEFINE inner == InnerLines(e, end)
           pieces == Pieces(inner, e.tags, e.related, e.fields)
<1>1. /\ \A i \in 1..(end - 2) : inner[i] = e.lines[i + 1]
      /\ \A i \in 1..(end - 2) : PieceFits(inner, e.tags, e.related, i, pieces[i])
      /\ Places(off, f, pieces, end - 2) /\ AddedFits(inner, t)
  BY DEF RenderedAs
<1> HIDE DEF inner, pieces
<1>2. ASSUME NEW x \in 1..Len(f), f[x].kind = "fence"
      PROVE  \E i \in 1..(end - 2) : /\ x = off[i] + 1 /\ Len(pieces[i]) = 1
                                     /\ e.lines[i + 1].kind = "fence" /\ pieces[i][1] = e.lines[i + 1]
  <2>1. PICK i \in 1..(end - 2) : off[i] < x /\ x <= off[i] + Len(pieces[i])
    BY <1>1 DEF Places
  <2>2. off[i] \in Nat /\ Len(pieces[i]) \in Nat /\ PieceFits(inner, e.tags, e.related, i, pieces[i])
    BY <1>1 DEF Places, PieceFits
  <2>3. x - off[i] \in 1..Len(pieces[i]) /\ off[i] + (x - off[i]) = x
    BY <2>1, <2>2
  <2>4. f[x] = pieces[i][x - off[i]]
    BY <1>1, <2>3 DEF Places
  <2>5. x - off[i] = 1 /\ pieces[i] = <<inner[i]>>
    BY <1>2, <2>2, <2>3, <2>4 DEF PieceFits
  <2>6. Len(pieces[i]) = 1 /\ pieces[i][1] = inner[i]
    BY <2>5
  <2>7. x = off[i] + 1
    BY <2>2, <2>3, <2>5
  <2> QED
    BY <1>1, <1>2, <2>4, <2>5, <2>6, <2>7
<1>3. \A x \in 1..Len(t) : t[x].kind # "fence"
  BY <1>1 DEF AddedFits
<1>4. ASSUME NEW i \in 1..(end - 2), e.lines[i + 1].kind = "fence"
      PROVE  Len(pieces[i]) = 0 \/ (Len(pieces[i]) = 1 /\ pieces[i][1] = e.lines[i + 1])
  <2>1. PieceFits(inner, e.tags, e.related, i, pieces[i]) /\ inner[i] = e.lines[i + 1]
    BY <1>1
  <2>2. pieces[i] = <<inner[i]>> \/ Len(pieces[i]) = 0
    BY <1>4, <2>1 DEF PieceFits
  <2>3. ASSUME pieces[i] = <<inner[i]>>
        PROVE  Len(pieces[i]) = 1 /\ pieces[i][1] = inner[i]
    BY <2>3
  <2> QED
    BY <2>1, <2>2, <2>3
<1> QED
  BY <1>2, <1>3, <1>4 DEF inner, pieces

\* The first fence is where a block closes.
LEMMA ClosesThere ==
    ASSUME NEW a, IsSeq(a), NEW d, NEW block, NEW body, SplitAt(a, d, block, body),
           NEW m \in 2..Len(a), a[m].kind = "fence", \A i \in 2..(m - 1) : a[i].kind # "fence"
    PROVE  d = m
<1>1. Len(a) \in Nat /\ d \in 2..Len(a) /\ a[d].kind = "fence" /\ \A i \in 2..(d - 1) : a[i].kind # "fence"
  BY SeqIs DEF SplitAt
<1>2. ~(d < m) /\ ~(m < d)
  BY <1>1
<1> QED
  BY <1>1, <1>2

\* A block is kept as far as l, and goes on as it was.
BlockKept(e, inner, before, after) ==
    \E l, n \in Nat :
        /\ l <= Len(before) /\ n <= Len(after) /\ Len(after) - n = Len(before) - l
        /\ \A j \in 1..(Len(before) - l) : after[n + j] = before[l + j]
        /\ l <= Len(inner) /\ \A k \in 1..l : before[k] = inner[k]
        /\ KeysKept(e, inner, before, after, l, n)

\* Where a block closes that was rendered.
ClosesAt(d, f, t, c, end) == d = Len(f) + Len(t) + 2 + c - end

\* A block that closes no earlier than the renderer thinks.
LEMMA LateBlock ==
    ASSUME NEW e, NEW a, NEW end, NEW off, NEW f, NEW t, RenderedAs(e, a, end, off, f, t),
           NEW c, NEW before, NEW rest, SplitAt(e.lines, c, before, rest), end <= c,
           NEW d, NEW after, NEW body, SplitAt(a, d, after, body)
    PROVE  /\ BlockKept(e, InnerLines(e, end), before, after)
           /\ ClosesAt(d, f, t, c, end)
<1> DEFINE inner == InnerLines(e, end)
           pieces == Pieces(inner, e.tags, e.related, e.fields)
           m == Len(e.lines)
           n == Len(f) + Len(t)
           l == end - 2
           D == n + 2 + c - end
<1>1. /\ IsSeq(e.lines) /\ m \in Nat /\ end \in 3..m /\ Len(inner) = l /\ l \in Nat
      /\ \A i \in 1..l : inner[i] = e.lines[i + 1]
      /\ IsSeq(a) /\ Len(f) \in Nat /\ Len(t) \in Nat
      /\ Len(a) = 1 + Len(f) + Len(t) + (m + 1 - end)
  <2>1. IsSeq(e.lines) /\ m \in Nat /\ end \in 3..m
    BY SeqIs DEF RenderedAs
  <2>2. Len(inner) = l /\ \A i \in 1..l : inner[i] = e.lines[i + 1]
    BY DEF RenderedAs
  <2>3. Len(f) \in Nat /\ Len(t) \in Nat /\ IsSeq(a) /\ Len(a) = 1 + Len(f) + Len(t) + (m + 1 - end)
    BY DEF RenderedAs, Places, AddedFits
  <2> QED
    BY <2>1, <2>2, <2>3
<1>2. /\ \A i \in 1..Len(f) : a[1 + i] = f[i]
      /\ \A i \in 1..Len(t) : a[1 + Len(f) + i] = t[i]
      /\ \A i \in 1..(m + 1 - end) : a[1 + Len(f) + Len(t) + i] = e.lines[end - 1 + i]
      /\ Places(off, f, pieces, l)
  BY DEF RenderedAs
<1>3. /\ c \in 2..m /\ e.lines[c].kind = "fence" /\ \A i \in 2..(c - 1) : e.lines[i].kind # "fence"
      /\ IsSeq(before) /\ Len(before) = c - 2 /\ \A i \in 1..(c - 2) : before[i] = e.lines[i + 1]
  BY DEF SplitAt
<1>4. /\ d \in 2..Len(a) /\ IsSeq(after) /\ Len(after) = d - 2 /\ \A i \in 1..(d - 2) : after[i] = a[i + 1]
  BY DEF SplitAt
<1>5. /\ \A x \in 1..Len(f) : f[x].kind = "fence" => \E i \in 1..l : e.lines[i + 1].kind = "fence"
      /\ \A x \in 1..Len(t) : t[x].kind # "fence"
  BY FencesWereThere
<1> HIDE DEF inner, pieces, m
<1>6. ASSUME NEW i \in 1..l
      PROVE  e.lines[i + 1].kind # "fence"
  <2>1. l = end - 2 /\ end \in Int /\ c \in Int /\ end <= c /\ i \in Int /\ 1 <= i /\ i <= l
    BY <1>1, <1>3
  <2>2. i + 1 \in 2..(c - 1)
    BY ONLY <2>1
  <2> QED
    BY <1>3, <2>2
<1>7. ASSUME NEW j \in 1..(c + 1 - end)
      PROVE  a[1 + n + j] = e.lines[end - 1 + j]
  <2>1. j \in 1..(m + 1 - end) /\ 1 + Len(f) + Len(t) + j = 1 + n + j
    BY <1>1, <1>3
  <2> QED
    BY <1>2, <2>1
<1>8. D \in 2..Len(a) /\ a[D].kind = "fence"
  <2>1. D \in 2..Len(a)
    BY <1>1, <1>3
  <2>2. c + 1 - end \in 1..(c + 1 - end) /\ 1 + n + (c + 1 - end) = D /\ end - 1 + (c + 1 - end) = c
    BY <1>1, <1>3
  <2> QED
    BY <1>3, <1>7, <2>1, <2>2
<1>9. ASSUME NEW i \in 2..(D - 1)
      PROVE  a[i].kind # "fence"
  <2>0. i \in Nat /\ 2 <= i /\ i < D
    BY <1>1, <1>3
  <2>1. CASE i <= 1 + Len(f)
    <3> DEFINE j == i - 1
    <3>1. j \in 1..Len(f) /\ 1 + j = i
      BY <1>1, <2>0, <2>1
    <3> HIDE DEF j
    <3>2. a[i] = f[j]
      BY <1>2, <3>1
    <3>3. f[j].kind # "fence"
      BY <1>5, <1>6, <3>1
    <3> QED
      BY <3>2, <3>3
  <2>2. CASE 1 + Len(f) < i /\ i <= 1 + n
    <3> DEFINE j == i - 1 - Len(f)
    <3>1. j \in 1..Len(t) /\ 1 + Len(f) + j = i
      BY <1>1, <2>0, <2>2
    <3> HIDE DEF j
    <3>2. a[i] = t[j]
      BY <1>2, <3>1
    <3> QED
      BY <1>5, <3>1, <3>2
  <2>3. CASE 1 + n < i
    <3> DEFINE j == i - 1 - n
    <3>1. j \in 1..(c + 1 - end) /\ 1 + n + j = i /\ end - 1 + j \in 2..(c - 1)
      BY <1>1, <1>3, <2>0, <2>3
    <3> HIDE DEF j
    <3> QED
      BY <1>3, <1>7, <3>1
  <2> QED
    BY <1>1, <2>0, <2>1, <2>2, <2>3
<1>10. d = D
  <2> HIDE DEF D
  <2> QED
    BY <1>1, <1>8, <1>9, ClosesThere
<1>11. /\ l \in Nat /\ n \in Nat /\ l <= Len(before) /\ n <= Len(after) /\ Len(after) - n = Len(before) - l
       /\ Len(before) - l = c - end /\ n <= d - 2 /\ l <= c - 2
  BY <1>1, <1>3, <1>4, <1>10
<1>12. ASSUME NEW j \in 1..(Len(before) - l)
       PROVE  after[n + j] = before[l + j]
  <2>1. /\ j \in 1..(c + 1 - end) /\ n + j \in 1..(d - 2) /\ (n + j) + 1 = 1 + n + j
        /\ l + j \in 1..(c - 2) /\ (l + j) + 1 = end - 1 + j
    BY <1>1, <1>3, <1>10, <1>11
  <2> QED
    BY <1>3, <1>4, <1>7, <2>1
<1>13. \A k \in 1..l : before[k] = e.lines[k + 1] /\ before[k] = inner[k]
  <2> TAKE k \in 1..l
  <2>1. k \in 1..(c - 2)
    <3>1. l <= c - 2 /\ l \in Nat /\ c \in Int
      BY <1>3, <1>11
    <3> HIDE DEF l
    <3> QED
      BY <3>1
  <2> QED
    BY <1>1, <1>3, <2>1
<1>14. KeysKept(e, inner, before, after, l, n)
  <2>1. \A x \in 1..n : after[x] = a[x + 1]
    <3> TAKE x \in 1..n
    <3>1. x \in 1..(d - 2)
      BY <1>4, <1>11
    <3> QED
      BY <1>4, <3>1
  <2>2. /\ l \in 0..(end - 2) /\ n \in Nat /\ n <= Len(f) + Len(t)
    BY <1>1
  <2>3. \A i \in 1..l : off[i] + Len(pieces[i]) <= n
    <3> TAKE i \in 1..l
    <3>1. off[i] \in Nat /\ off[i] + Len(pieces[i]) <= Len(f)
      BY <1>2 DEF Places
    <3>2. Len(pieces[i]) \in Nat
      BY DEF RenderedAs, PieceFits, pieces, inner
    <3> QED
      BY <1>1, <3>1, <3>2
  <2>4. \A i \in 1..(end - 2) : i > l => n <= off[i]
    BY <1>1
  <2> HIDE DEF n, l
  <2>5. \A k \in 1..l : before[k] = e.lines[k + 1]
    BY <1>13
  <2> QED
    BY <2>1, <2>2, <2>3, <2>4, <2>5, RenderedKeys DEF inner, pieces
<1> HIDE DEF n, l
<1>15. l <= Len(inner)
  BY <1>1
<1>16. BlockKept(e, inner, before, after)
  BY <1>11, <1>12, <1>13, <1>14, <1>15 DEF BlockKept
<1>17. ClosesAt(d, f, t, c, end)
  BY <1>10 DEF n, ClosesAt
<1> QED
  BY <1>16, <1>17 DEF inner

\* A fence of the rendered note, and the line it is: one of the block, kept,
\* or one of those behind it.
FromLine(e, end, off, pieces, ahead, pos, src) ==
    \/ pos > ahead /\ src = pos - ahead + (end - 1)
    \/ \E i \in 1..(end - 2) : pos = 2 + off[i] /\ Len(pieces[i]) = 1 /\ src = i + 1

\* A fence that only the readers take for one, and the renderer drops: the
\* text behind it is not the text behind a fence of the note it rendered,
\* which would have to have one fence less.
LEMMA DroppedFence ==
    ASSUME NEW e, NEW a, NEW end, NEW off, NEW f, NEW t, RenderedAs(e, a, end, off, f, t),
           NEW c, NEW before, NEW body, SplitAt(e.lines, c, before, body), c < end, c # 2,
           Len(Pieces(InnerLines(e, end), e.tags, e.related, e.fields)[c - 1]) = 0,
           NEW d, NEW after, SplitAt(a, d, after, body)
    PROVE  FALSE
<1> DEFINE pieces == Pieces(InnerLines(e, end), e.tags, e.related, e.fields)
           m == Len(e.lines)
           ahead == 1 + Len(f) + Len(t)
           r == m - c
           fences == {x \in 1..r : e.lines[c + x].kind = "fence"}
           From(pos, src) == FromLine(e, end, off, pieces, ahead, pos, src)
<1>1. /\ m \in Nat /\ end \in 3..m /\ Len(f) \in Nat /\ Len(t) \in Nat
      /\ Len(a) = ahead + (m + 1 - end)
      /\ \A i \in 1..Len(f) : a[1 + i] = f[i]
      /\ \A i \in 1..Len(t) : a[1 + Len(f) + i] = t[i]
      /\ \A i \in 1..(m + 1 - end) : a[ahead + i] = e.lines[end - 1 + i]
      /\ Places(off, f, pieces, end - 2)
  <2>1. IsSeq(e.lines) /\ m \in Nat /\ end \in 3..m
    BY SeqIs DEF RenderedAs
  <2>2. Len(f) \in Nat /\ Len(t) \in Nat /\ Len(a) = ahead + (m + 1 - end)
    BY DEF RenderedAs, Places, AddedFits
  <2>3. /\ \A i \in 1..Len(f) : a[1 + i] = f[i]
        /\ \A i \in 1..Len(t) : a[1 + Len(f) + i] = t[i]
        /\ \A i \in 1..(m + 1 - end) : a[ahead + i] = e.lines[end - 1 + i]
        /\ Places(off, f, pieces, end - 2)
    BY DEF RenderedAs
  <2> QED
    BY <2>1, <2>2, <2>3
<1>2. /\ c \in 2..m /\ \A i \in 2..(c - 1) : e.lines[i].kind # "fence"
      /\ Len(body) = m - c /\ \A i \in 1..(m - c) : body[i] = e.lines[c + i]
  BY DEF SplitAt
<1>3. /\ d \in 2..Len(a) /\ a[d].kind = "fence"
      /\ Len(body) = Len(a) - d /\ \A i \in 1..(Len(a) - d) : body[i] = a[d + i]
  BY DEF SplitAt
<1>4. /\ \A x \in 1..Len(f) : f[x].kind = "fence" =>
              \E i \in 1..(end - 2) : x = off[i] + 1 /\ Len(pieces[i]) = 1 /\ e.lines[i + 1].kind = "fence"
      /\ \A x \in 1..Len(t) : t[x].kind # "fence"
  BY FencesWereThere
<1>5. Len(pieces[c - 1]) = 0
  OBVIOUS
<1> HIDE DEF pieces, m
<1>6. r \in Nat /\ r = Len(a) - d /\ \A x \in 1..r : a[d + x] = e.lines[c + x]
  <2>1. r \in Nat
    BY <1>1, <1>2
  <2>2. r = Len(a) - d
    BY <1>2, <1>3
  <2>3. /\ \A x \in 1..r : body[x] = e.lines[c + x]
        /\ \A x \in 1..r : body[x] = a[d + x]
    BY <1>2, <1>3, <2>2
  <2> QED
    BY <2>1, <2>2, <2>3
<1>7. IsFiniteSet(fences) /\ 0 \notin fences
  <2>1. fences \in SUBSET (1..r) /\ IsFiniteSet(1..r)
    BY <1>6, FS_Interval
  <2>2. 0 \notin fences
    OBVIOUS
  <2> HIDE DEF fences
  <2> QED
    BY <2>1, <2>2, FS_Subset
<1>8. ASSUME NEW x \in {0} \cup fences
      PROVE  \E y \in fences : From(d + x, c + y)
  <2>1. x \in 0..r /\ a[d + x].kind = "fence" /\ d + x \in 2..Len(a)
    <3>1. CASE x = 0
      BY <1>1, <1>3, <1>6, <3>1
    <3>2. CASE x # 0
      BY <1>1, <1>3, <1>6, <3>2
    <3> QED
      BY <3>1, <3>2
  <2> DEFINE pos == d + x
  <2>2. pos \in Int /\ 2 <= pos /\ pos <= Len(a) /\ a[pos].kind = "fence"
    BY <1>1, <2>1
  <2> HIDE DEF pos
  <2>3. CASE pos <= 1 + Len(f)
    <3>1. pos - 1 \in 1..Len(f) /\ 1 + (pos - 1) = pos
      BY <1>1, <2>2, <2>3
    <3>a. f[pos - 1].kind = "fence"
      BY <1>1, <2>2, <3>1
    <3>2. PICK i \in 1..(end - 2) : pos - 1 = off[i] + 1 /\ Len(pieces[i]) = 1 /\ e.lines[i + 1].kind = "fence"
      BY <1>4, <3>1, <3>a
    <3>3. i # c - 1
      <4>1. Len(pieces[i]) # 0
        BY <3>2
      <4> QED
        BY <1>5, <4>1, Zenon
    <3>4. i + 1 > c
      <4>1. i + 1 \notin 2..(c - 1)
        BY <1>2, <3>2
      <4> QED
        BY <1>1, <1>2, <3>3, <4>1
    <3>5. i + 1 - c \in fences /\ c + (i + 1 - c) = i + 1
      BY <1>1, <1>2, <3>2, <3>4
    <3>6. off[i] \in Nat
      BY <1>1 DEF Places
    <3>7. From(pos, i + 1)
      BY <2>2, <3>2, <3>6 DEF FromLine
    <3> QED
      BY <3>5, <3>7 DEF pos
  <2>4. CASE 1 + Len(f) < pos /\ pos <= ahead
    <3>1. pos - 1 - Len(f) \in 1..Len(t) /\ 1 + Len(f) + (pos - 1 - Len(f)) = pos
      BY <1>1, <2>2, <2>4
    <3>2. a[1 + Len(f) + (pos - 1 - Len(f))] = t[pos - 1 - Len(f)]
      BY <1>1, <3>1
    <3> QED
      BY <1>4, <2>2, <3>1, <3>2
  <2>5. CASE ahead < pos
    <3> DEFINE j == pos - ahead
    <3>1. j \in 1..(m + 1 - end) /\ ahead + j = pos
      BY <1>1, <2>2, <2>5
    <3>2. e.lines[end - 1 + j].kind = "fence"
      BY <1>1, <2>2, <3>1
    <3>3. end - 1 + j - c \in 1..r /\ c + (end - 1 + j - c) = end - 1 + j
      <4>1. /\ end \in Int /\ c \in Int /\ m \in Int /\ c < end
            /\ j \in Int /\ 1 <= j /\ j <= m + 1 - end
        BY <1>1, <1>2, <3>1
      <4> QED
        BY ONLY <4>1
    <3>4. From(pos, end - 1 + j)
      <4>1. end - 1 + j = pos - ahead + (end - 1)
        BY <1>1, <2>2
      <4> QED
        BY <2>5, <4>1 DEF FromLine
    <3> HIDE DEF j
    <3>5. end - 1 + j - c \in fences
      BY <3>2, <3>3
    <3> QED
      BY <3>3, <3>4, <3>5 DEF pos
  <2> QED
    BY <1>1, <2>2, <2>3, <2>4, <2>5
<1>9. ASSUME NEW p \in Int, NEW q \in Int, NEW src \in Int, From(p, src), From(q, src)
      PROVE  p = q
  <2>1. (p > ahead /\ src = p - ahead + (end - 1)) \/ (\E i \in 1..(end - 2) : p = 2 + off[i] /\ src = i + 1)
    BY <1>9 DEF FromLine
  <2>2. (q > ahead /\ src = q - ahead + (end - 1)) \/ (\E i \in 1..(end - 2) : q = 2 + off[i] /\ src = i + 1)
    BY <1>9 DEF FromLine
  <2>3. ahead \in Nat /\ end \in Nat
    BY <1>1
  <2>4. CASE src >= end
    <3>1. ~\E i \in 1..(end - 2) : src = i + 1
      BY <2>3, <2>4
    <3> HIDE DEF ahead
    <3> QED
      BY <2>1, <2>2, <2>3, <3>1
  <2>5. CASE src < end
    <3>1. ~(p > ahead /\ src = p - ahead + (end - 1)) /\ ~(q > ahead /\ src = q - ahead + (end - 1))
      BY <2>3, <2>5
    <3>2. PICK i \in 1..(end - 2) : p = 2 + off[i] /\ src = i + 1
      BY <2>1, <3>1
    <3>3. PICK j \in 1..(end - 2) : q = 2 + off[j] /\ src = j + 1
      BY <2>2, <3>1
    <3>4. i = j
      BY <3>2, <3>3
    <3> QED
      BY <3>2, <3>3, <3>4
  <2> QED
    BY <2>3, <2>4, <2>5
<1> HIDE DEF From
<1> DEFINE g == [x \in {0} \cup fences |-> CHOOSE y \in fences : From(d + x, c + y)]
<1>10. \A x \in {0} \cup fences : g[x] \in fences /\ From(d + x, c + g[x])
  BY <1>8
<1>11. g \in [{0} \cup fences -> fences]
  BY <1>8
<1>12. ASSUME NEW x \in {0} \cup fences, NEW y \in {0} \cup fences, g[x] = g[y]
       PROVE  x = y
  <2>1. x \in Int /\ y \in Int /\ d \in Int /\ c \in Int /\ g[x] \in Int
    <3>1. \A z \in {0} \cup fences : z \in Int
      BY <1>6
    <3>2. d \in Int /\ c \in Int
      BY <1>1, <1>2, <1>3
    <3>3. g[x] \in fences
      BY <1>10
    <3> HIDE DEF fences, g
    <3> QED
      BY <3>1, <3>2, <3>3
  <2>2. From(d + x, c + g[x]) /\ From(d + y, c + g[x])
    BY <1>10, <1>12
  <2> HIDE DEF g
  <2> DEFINE p == d + x
             q == d + y
             src == c + g[x]
  <2>3. p \in Int /\ q \in Int /\ src \in Int
    BY <2>1
  <2>4. From(p, src) /\ From(q, src)
    BY <2>2
  <2>5. p = q
    <3> HIDE DEF p, q, src
    <3> QED
      BY ONLY <1>9, <2>3, <2>4
  <2> QED
    BY ONLY <2>1, <2>5 DEF p, q
<1> HIDE DEF g, fences
<1>13. g \in Injection({0} \cup fences, fences)
  BY <1>11, <1>12 DEF Injection, IsInjective
<1>14. Cardinality({0} \cup fences) <= Cardinality(fences)
  BY <1>7, <1>13, FS_Injection
<1>15. Cardinality(fences \cup {0}) = Cardinality(fences) + 1 /\ Cardinality(fences) \in Nat
  BY <1>7, FS_AddElement, FS_CardinalityType
<1>16. {0} \cup fences = fences \cup {0}
  OBVIOUS
<1>17. Cardinality({0} \cup fences) = Cardinality(fences) + 1
  BY <1>15, <1>16, Zenon
<1> QED
  BY <1>14, <1>15, <1>17

\* A block that closes before the renderer thinks it does, and is not empty.
LEMMA EarlyBlock ==
    ASSUME NEW e, NEW a, NEW end, NEW off, NEW f, NEW t, RenderedAs(e, a, end, off, f, t),
           NEW c, NEW before, NEW body, SplitAt(e.lines, c, before, body), c < end, c # 2,
           NEW d, NEW after, SplitAt(a, d, after, body)
    PROVE  BlockKept(e, InnerLines(e, end), before, after)
<1> DEFINE inner == InnerLines(e, end)
           pieces == Pieces(inner, e.tags, e.related, e.fields)
           m == Len(e.lines)
           q == c - 1
           n == off[q]
           l == c - 2
           D == n + 2
<1>1. /\ m \in Nat /\ end \in 3..m /\ end \in Nat /\ Len(f) \in Nat /\ Len(t) \in Nat /\ IsSeq(a)
      /\ Len(a) = 1 + Len(f) + Len(t) + (m + 1 - end)
      /\ \A i \in 1..Len(f) : a[1 + i] = f[i]
      /\ Places(off, f, pieces, end - 2) /\ Len(inner) = end - 2
      /\ \A i \in 1..(end - 2) : inner[i] = e.lines[i + 1]
  <2>1. IsSeq(e.lines) /\ m \in Nat /\ end \in 3..m
    BY SeqIs DEF RenderedAs
  <2>2. Len(f) \in Nat /\ Len(t) \in Nat /\ IsSeq(a) /\ Len(a) = 1 + Len(f) + Len(t) + (m + 1 - end)
    BY DEF RenderedAs, Places, AddedFits
  <2>3. /\ \A i \in 1..Len(f) : a[1 + i] = f[i]
        /\ Places(off, f, pieces, end - 2) /\ Len(inner) = end - 2
        /\ \A i \in 1..(end - 2) : inner[i] = e.lines[i + 1]
    BY DEF RenderedAs
  <2> QED
    BY <2>1, <2>2, <2>3
<1>2. /\ c \in 2..m /\ e.lines[c].kind = "fence" /\ \A i \in 2..(c - 1) : e.lines[i].kind # "fence"
      /\ IsSeq(before) /\ Len(before) = c - 2 /\ \A i \in 1..(c - 2) : before[i] = e.lines[i + 1]
  BY DEF SplitAt
<1>3. /\ d \in 2..Len(a) /\ IsSeq(after) /\ Len(after) = d - 2 /\ \A i \in 1..(d - 2) : after[i] = a[i + 1]
  BY DEF SplitAt
<1>4. /\ \A x \in 1..Len(f) : f[x].kind = "fence" =>
              \E i \in 1..(end - 2) : /\ x = off[i] + 1 /\ Len(pieces[i]) = 1
                                      /\ e.lines[i + 1].kind = "fence" /\ pieces[i][1] = e.lines[i + 1]
      /\ \A i \in 1..(end - 2) : e.lines[i + 1].kind = "fence" =>
              Len(pieces[i]) = 0 \/ (Len(pieces[i]) = 1 /\ pieces[i][1] = e.lines[i + 1])
  BY FencesWereThere
<1>5. Len(pieces[c - 1]) # 0
  BY DroppedFence
<1> HIDE DEF inner, pieces, m
<1>6. q \in 1..(end - 2) /\ q + 1 = c /\ l \in 0..(end - 2) /\ c \in Nat /\ l \in Nat
  BY <1>1, <1>2
<1>7. Len(pieces[q]) = 1 /\ pieces[q][1] = e.lines[c]
  BY <1>2, <1>4, <1>5, <1>6
<1> HIDE DEF q
<1>8. /\ n \in Nat /\ n + 1 <= Len(f) /\ f[n + 1] = e.lines[c]
      /\ \A i \in 1..(end - 2) : off[i] \in Nat /\ (i < q => off[i] + Len(pieces[i]) <= n) /\ (q < i => n + 1 <= off[i])
  <2>1. /\ \A i \in 1..(end - 2) : off[i] \in Nat /\ off[i] + Len(pieces[i]) <= Len(f)
        /\ \A i \in 1..(end - 2) : \A j \in 1..Len(pieces[i]) : f[off[i] + j] = pieces[i][j]
        /\ \A h, i \in 1..(end - 2) : h < i => off[h] + Len(pieces[h]) <= off[i]
    BY <1>1 DEF Places
  <2>2. n \in Nat /\ n + 1 <= Len(f)
    BY <1>6, <1>7, <2>1
  <2>3. 1 \in 1..Len(pieces[q])
    BY <1>7
  <2>4. f[n + 1] = e.lines[c]
    BY <1>6, <1>7, <2>1, <2>3
  <2>5. \A i \in 1..(end - 2) : off[i] \in Nat /\ (i < q => off[i] + Len(pieces[i]) <= n) /\ (q < i => n + 1 <= off[i])
    BY <1>6, <1>7, <2>1
  <2> QED
    BY <2>2, <2>4, <2>5
<1>9. \A i \in 1..(end - 2) : Len(pieces[i]) \in Nat
  BY DEF RenderedAs, PieceFits, pieces, inner
<1> HIDE DEF n
<1>10. D \in 2..Len(a) /\ a[D].kind = "fence"
  <2>1. D \in 2..Len(a) /\ n + 1 \in 1..Len(f) /\ 1 + (n + 1) = D
    BY <1>1, <1>8
  <2> QED
    BY <1>1, <1>2, <1>8, <2>1
<1>11. ASSUME NEW i \in 2..(D - 1)
       PROVE  a[i].kind # "fence"
  <2>1. i - 1 \in 1..Len(f) /\ 1 + (i - 1) = i /\ i - 1 <= n
    BY <1>1, <1>8
  <2>2. a[i] = f[i - 1]
    BY <1>1, <2>1
  <2>3. ASSUME f[i - 1].kind = "fence"
        PROVE  FALSE
    <3>1. PICK h \in 1..(end - 2) : i - 1 = off[h] + 1 /\ e.lines[h + 1].kind = "fence"
      BY <1>4, <2>1, <2>3
    <3>2. h < q
      <4>1. off[h] < n /\ off[h] \in Nat
        BY <1>8, <2>1, <3>1
      <4>2. ~(q < h) /\ h # q
        BY <1>8, <4>1 DEF n
      <4> QED
        BY <1>6, <4>2
    <3>3. h + 1 \in 2..(c - 1)
      BY <1>6, <3>2
    <3> QED
      BY <1>2, <3>1, <3>3
  <2> QED
    BY <2>2, <2>3
<1>12. d = D
  <2> HIDE DEF D
  <2> QED
    <3>1. IsSeq(a)
      BY <1>1
    <3> QED
      BY <1>10, <1>11, <3>1, ClosesThere, Zenon
<1>13. Len(after) = n /\ Len(before) = l
  BY <1>2, <1>3, <1>8, <1>12
<1>14. \A k \in 1..l : before[k] = e.lines[k + 1] /\ before[k] = inner[k]
  <2> TAKE k \in 1..l
  <2>1. k \in 1..(c - 2) /\ k \in 1..(end - 2)
    BY <1>1, <1>6
  <2> QED
    BY <1>1, <1>2, <2>1
<1>15. KeysKept(e, inner, before, after, l, n)
  <2>1. \A x \in 1..n : after[x] = a[x + 1]
    BY <1>3, <1>8, <1>12
  <2>2. l \in 0..(end - 2) /\ n \in Nat /\ n <= Len(f) + Len(t)
    BY <1>1, <1>6, <1>8
  <2>3. \A i \in 1..l : off[i] + Len(pieces[i]) <= n
    <3> TAKE i \in 1..l
    <3>1. i \in 1..(end - 2) /\ i < q
      BY <1>1, <1>6
    <3> QED
      BY <1>8, <3>1
  <2>4. \A i \in 1..(end - 2) : i > l => n <= off[i]
    <3> TAKE i \in 1..(end - 2)
    <3>1. off[i] \in Nat /\ n \in Nat /\ (q < i => n + 1 <= off[i])
      BY <1>8
    <3>2. i > l => i = q \/ q < i
      BY <1>1, <1>6
    <3> QED
      BY <3>1, <3>2 DEF n
  <2>5. \A k \in 1..l : before[k] = e.lines[k + 1]
    BY <1>14
  <2> HIDE DEF l
  <2> QED
    BY <2>1, <2>2, <2>3, <2>4, <2>5, RenderedKeys DEF inner, pieces
<1>16. l <= Len(inner) /\ l \in Nat /\ n \in Nat
  BY <1>1, <1>6, <1>8
<1> HIDE DEF l
<1>17. /\ l <= Len(before) /\ n <= Len(after) /\ Len(after) - n = Len(before) - l
       /\ \A j \in 1..(Len(before) - l) : after[n + j] = before[l + j]
  BY <1>13, <1>16
<1> QED
  BY <1>14, <1>15, <1>16, <1>17 DEF BlockKept, inner

-----------------------------------------------------------------------------
\* The last line of a block with a key.
KeyAt(block, key, s) ==
    /\ s \in 1..Len(block) /\ IsTopKey(block[s]) /\ block[s].key = key
    /\ \A i \in (s + 1)..Len(block) : ~(IsTopKey(block[i]) /\ block[i].key = key)

\* From it, a field goes to z.
FieldTo(block, s, z) ==
    /\ z \in s..Len(block) /\ \A i \in (s + 1)..z : ~IsTopKey(block[i])
    /\ z = Len(block) \/ IsTopKey(block[z + 1])

\* Each key has a last line.
LEMMA KeyHasLine ==
    ASSUME NEW block, IsSeq(block), NEW i \in 1..Len(block), IsTopKey(block[i])
    PROVE  \E s : KeyAt(block, block[i].key, s)
<1> DEFINE n == Len(block)
           S == {j \in 1..n : IsTopKey(block[j]) /\ block[j].key = block[i].key}
           s == LastIndex(S)
<1>1. n \in Nat /\ S \in SUBSET (1..n) /\ i \in S
  BY SeqIs
<1>2. s \in S /\ \A j \in S : j <= s
  <2> HIDE DEF S
  <2> QED
    BY <1>1, LastOf
<1> HIDE DEF s
<1>3. ASSUME NEW j \in (s + 1)..n, IsTopKey(block[j]), block[j].key = block[i].key
      PROVE  FALSE
  <2>1. j \in 1..n /\ j > s
    BY <1>1, <1>2
  <2>2. j \in S
    BY <1>3, <2>1
  <2> QED
    BY <1>1, <1>2, <2>1, <2>2
<1>4. KeyAt(block, block[i].key, s)
  BY <1>2, <1>3 DEF KeyAt
<1> QED
  BY <1>4

\* There is one such line.
LEMMA OneKeyLine ==
    ASSUME NEW block, IsSeq(block), NEW key, NEW s, KeyAt(block, key, s)
    PROVE  LastIndex({i \in DOMAIN block : IsTopKey(block[i]) /\ block[i].key = key}) = s
<1> DEFINE n == Len(block)
           S == {i \in DOMAIN block : IsTopKey(block[i]) /\ block[i].key = key}
<1>1. n \in Nat /\ DOMAIN block = 1..n
  BY SeqIs
<1>2. s \in S
  BY <1>1 DEF KeyAt
<1>3. ASSUME NEW j \in S
      PROVE  j <= s
  <2>1. j \notin (s + 1)..n /\ j \in 1..n /\ s \in 1..n
    BY <1>1 DEF KeyAt
  <2> QED
    BY <1>1, <2>1
<1>4. S \in SUBSET (1..n)
  BY <1>1
<1> HIDE DEF S
<1>5. LastIndex(S) = s
  BY <1>1, <1>2, <1>3, <1>4, LastIs
<1> QED
  BY <1>5 DEF S

\* The field of a key goes to the line before the next key.
LEMMA FieldIs ==
    ASSUME NEW block, IsSeq(block), NEW key, NEW s, KeyAt(block, key, s)
    PROVE  \E z : /\ FieldTo(block, s, z) /\ key \in DOMAIN splitFrontmatterFields(block)
                  /\ splitFrontmatterFields(block)[key] = SubSeq(block, s, z)
<1> DEFINE n == Len(block)
           keys == {block[i].key : i \in {i \in DOMAIN block : IsTopKey(block[i])}}
           start(k) == LastIndex({i \in DOMAIN block : IsTopKey(block[i]) /\ block[i].key = k})
           next(i) == FirstIndex({j \in (i + 1)..Len(block) : IsTopKey(block[j])})
           stop(i) == IF next(i) = 0 THEN Len(block) ELSE next(i) - 1
           later == {j \in (s + 1)..n : IsTopKey(block[j])}
           z == stop(s)
<1>1. n \in Nat /\ DOMAIN block = 1..n
  BY SeqIs
<1>2. key \in keys
  BY <1>1 DEF KeyAt
<1>3. start(key) = s
  BY OneKeyLine
<1>4. splitFrontmatterFields(block) = [k \in keys |-> SubSeq(block, start(k), stop(start(k)))]
  BY Zenon DEF splitFrontmatterFields
<1> HIDE DEF start, stop, keys
<1>5. key \in DOMAIN splitFrontmatterFields(block) /\ splitFrontmatterFields(block)[key] = SubSeq(block, s, z)
  BY <1>2, <1>3, <1>4
<1>6. s \in 1..n
  BY DEF KeyAt
<1>7. /\ next(s) = 0 <=> later = {}
      /\ later # {} => next(s) \in later /\ \A j \in later : next(s) <= j
  <2> DEFINE f == FirstIndex(later)
  <2>1. next(s) = f
    OBVIOUS
  <2>2. later \in SUBSET (1..n)
    BY <1>1, <1>6
  <2>3. (f = 0 <=> later = {}) /\ (later # {} => f \in later /\ \A j \in later : f <= j)
    <3> HIDE DEF later
    <3> QED
      BY <1>1, <2>2, FirstOf
  <2> HIDE DEF later, next, f
  <2> QED
    BY <2>1, <2>3
<1>8. z = IF next(s) = 0 THEN n ELSE next(s) - 1
  BY DEF stop
<1> HIDE DEF next, z
<1>9. CASE later = {}
  <2>1. z = n
    BY <1>7, <1>8, <1>9
  <2>2. \A i \in (s + 1)..z : ~IsTopKey(block[i])
    BY <1>9, <2>1
  <2> QED
    BY <1>1, <1>5, <1>6, <2>1, <2>2 DEF FieldTo
<1>10. CASE later # {}
  <2>1. next(s) \in (s + 1)..n /\ IsTopKey(block[next(s)]) /\ \A j \in later : next(s) <= j
    BY <1>7, <1>10
  <2>2. z = next(s) - 1 /\ z + 1 = next(s) /\ z \in s..n
    BY <1>1, <1>6, <1>8, <2>1
  <2>3. ASSUME NEW i \in (s + 1)..z, IsTopKey(block[i])
        PROVE  FALSE
    <3>1. i \in later /\ ~(next(s) <= i)
      BY <1>1, <1>6, <2>1, <2>2, <2>3
    <3> QED
      BY <2>1, <3>1
  <2> QED
    BY <1>5, <2>1, <2>2, <2>3 DEF FieldTo
<1> QED
  BY <1>9, <1>10

\* The items of a field.
FieldItems(block, s, z) == {block[i].items[1].entry : i \in {i \in (s + 1)..z : block[i].kind = "item"}}

\* What a reader of YAML finds at the line of a key.
LEMMA EntriesAtKey ==
    ASSUME NEW file, IsSeq(SplitFrontmatter(file).block), NEW key, NEW s, NEW z,
           KeyAt(SplitFrontmatter(file).block, key, s), FieldTo(SplitFrontmatter(file).block, s, z)
    PROVE  LET block == SplitFrontmatter(file).block
           IN  EntriesOf(file, key) = IF block[s].style # "none" THEN {w.entry : w \in ToSet(block[s].items)}
                                      ELSE FieldItems(block, s, z)
<1> DEFINE block == SplitFrontmatter(file).block
           n == Len(block)
           k == LastIndex({i \in DOMAIN block : IsTopKey(block[i]) /\ block[i].key = key})
           below == {i \in (k + 1)..Len(block) : \A j \in (k + 1)..i : ~IsTopKey(block[j])}
<1>1. k = s
  BY OneKeyLine
<1>2. EntriesOf(file, key) =
          IF k = 0 THEN {}
          ELSE IF block[k].style # "none" THEN {w.entry : w \in ToSet(block[k].items)}
          ELSE {block[i].items[1].entry : i \in {i \in below : block[i].kind = "item"}}
  BY Zenon DEF EntriesOf
<1>3. KeyAt(block, key, s) /\ FieldTo(block, s, z) /\ n \in Nat
  BY SeqIs
<1> HIDE DEF k, block
<1>4. s \in 1..n /\ s # 0 /\ z \in s..n /\ (\A i \in (s + 1)..z : ~IsTopKey(block[i])) /\ (z = n \/ IsTopKey(block[z + 1]))
  BY <1>3 DEF KeyAt, FieldTo
<1>5. ASSUME NEW i
      PROVE  i \in below <=> i \in (s + 1)..z
  <2>1. CASE i \in (s + 1)..z
    <3>1. i \in (s + 1)..n /\ \A j \in (s + 1)..i : j \in (s + 1)..z
      BY <1>3, <1>4, <2>1
    <3> QED
      BY <1>1, <1>4, <2>1, <3>1
  <2>2. CASE i \in below /\ i \notin (s + 1)..z
    <3>1. i \in (s + 1)..n /\ \A j \in (s + 1)..i : ~IsTopKey(block[j])
      BY <1>1, <2>2
    <3>2. z + 1 \in (s + 1)..i /\ z # n
      BY <1>3, <1>4, <2>2, <3>1
    <3> QED
      BY <1>4, <3>1, <3>2
  <2> QED
    BY <2>1, <2>2
<1> HIDE DEF below
<1>6. {i \in below : block[i].kind = "item"} = {i \in (s + 1)..z : block[i].kind = "item"}
  BY <1>5
<1> QED
  BY <1>1, <1>2, <1>4, <1>6 DEF FieldItems, block

\* The lines of a field.
LEMMA FieldLines ==
    ASSUME NEW block, IsSeq(block), NEW key, NEW s, NEW z, KeyAt(block, key, s), FieldTo(block, s, z)
    PROVE  LET field == SubSeq(block, s, z)
           IN  /\ IsSeq(field) /\ Len(field) = (z + 1) - s /\ Len(field) \in Nat \ {0} /\ field[1] = block[s]
               /\ \A i \in 1..Len(field) : (s - 1) + i \in s..z /\ field[i] = block[(s - 1) + i]
               /\ \A j \in s..z : (j + 1) - s \in 1..Len(field) /\ field[(j + 1) - s] = block[j]
               /\ s \in 1..Len(block) /\ z \in s..Len(block) /\ Len(block) \in Nat
<1> DEFINE field == SubSeq(block, s, z)
           m == (z + 1) - s
<1>1. Len(block) \in Nat /\ s \in 1..Len(block) /\ z \in s..Len(block)
  BY SeqIs DEF KeyAt, FieldTo
<1>2. s \in Nat \ {0} /\ z \in Nat /\ s <= z + 1 /\ z <= Len(block) /\ m \in Nat \ {0}
  BY <1>1
<1>3. /\ IsSeq(field) /\ Len(field) = m
      /\ \A i \in 1..m : field[i] = block[(s - 1) + i]
  BY <1>2, PartOf
<1> HIDE DEF field
<1>4. \A j \in s..z : (j + 1) - s \in 1..m /\ (s - 1) + ((j + 1) - s) = j
  BY <1>2
<1>5. \A j \in s..z : field[(j + 1) - s] = block[j]
  BY <1>3, <1>4
<1>6. \A i \in 1..m : (s - 1) + i \in s..z
  BY <1>2
<1>7. field[1] = block[s]
  <2>1. 1 \in 1..m /\ (s - 1) + 1 = s
    BY <1>2
  <2> QED
    BY <1>3, <2>1
<1> QED
  BY <1>1, <1>2, <1>3, <1>4, <1>5, <1>6, <1>7 DEF field

\* What the guard reads of a field.
LEMMA ParsedField ==
    ASSUME NEW block, IsSeq(block), NEW key, NEW s, NEW z, KeyAt(block, key, s), FieldTo(block, s, z)
    PROVE  ToSet(parseYAMLList(SubSeq(block, s, z))) =
               IF block[s].style = "flow" THEN ToSet(FlowEntries(block[s].items)) ELSE FieldItems(block, s, z)
<1> DEFINE field == SubSeq(block, s, z)
           m == Len(field)
           items == {i \in 1..m : field[i].kind = "item"}
           below == {i \in (s + 1)..z : block[i].kind = "item"}
<1>1. /\ IsSeq(field) /\ m = (z + 1) - s /\ m \in Nat \ {0} /\ field[1] = block[s]
      /\ \A i \in 1..m : (s - 1) + i \in s..z /\ field[i] = block[(s - 1) + i]
      /\ \A j \in s..z : (j + 1) - s \in 1..m /\ field[(j + 1) - s] = block[j]
      /\ s \in 1..Len(block) /\ z \in s..Len(block) /\ Len(block) \in Nat
  BY FieldLines
<1>2. field # <<>>
  BY <1>1
<1>3. parseYAMLList(field) = IF block[s].style = "flow" THEN FlowEntries(block[s].items) ELSE ItemEntries(field)
  <2> HIDE DEF field
  <2> QED
    BY <1>1, <1>2 DEF parseYAMLList
<1>4. ToSet(ItemEntries(field)) = {field[i].items[1].entry : i \in items}
  BY <1>1, EntriesOfItems
<1>5. FieldItems(block, s, z) = {block[i].items[1].entry : i \in below}
  BY DEF FieldItems
<1> HIDE DEF field
<1>6. block[s].kind = "key"
  BY DEF KeyAt, IsTopKey
<1>7. \A i \in items : (s - 1) + i \in below /\ field[i] = block[(s - 1) + i]
  <2> TAKE i \in items
  <2>1. i \in 1..m /\ field[i].kind = "item" /\ (s - 1) + i \in s..z /\ field[i] = block[(s - 1) + i]
    BY <1>1
  <2>2. (s - 1) + i # s
    BY <1>6, <2>1
  <2>3. (s - 1) + i \in (s + 1)..z
    BY <1>1, <2>1, <2>2
  <2> QED
    BY <2>1, <2>3
<1>8. \A j \in below : (j + 1) - s \in items /\ field[(j + 1) - s] = block[j]
  <2> TAKE j \in below
  <2>1. j \in s..z
    BY <1>1
  <2> QED
    BY <1>1, <2>1
<1>9. {field[i].items[1].entry : i \in items} = {block[i].items[1].entry : i \in below}
  <2> HIDE DEF items, below
  <2>1. ASSUME NEW v \in {field[i].items[1].entry : i \in items}
        PROVE  v \in {block[i].items[1].entry : i \in below}
    BY <1>7
  <2>2. ASSUME NEW v \in {block[i].items[1].entry : i \in below}
        PROVE  v \in {field[i].items[1].entry : i \in items}
    BY <1>8
  <2> QED
    BY <2>1, <2>2
<1> HIDE DEF items, below
<1>10. ToSet(parseYAMLList(field)) = IF block[s].style = "flow" THEN ToSet(FlowEntries(block[s].items)) ELSE FieldItems(block, s, z)
  BY <1>3, <1>4, <1>5, <1>9
<1> QED
  BY <1>10 DEF field

\* What a reader of YAML finds in a field.
FieldEntries(block, s, z) ==
    IF block[s].style # "none" THEN {w.entry : w \in ToSet(block[s].items)} ELSE FieldItems(block, s, z)

\* Two fields the guard takes for the same, of which a reader finds the same.
LEMMA SameField ==
    ASSUME NEW b, IsSeq(b), NEW a, IsSeq(a), NEW key, NEW s, NEW z, KeyAt(b, key, s), FieldTo(b, s, z),
           NEW x, NEW y, KeyAt(a, key, x), FieldTo(a, x, y),
           normalizeBlob(SubSeq(b, s, z)) = normalizeBlob(SubSeq(a, x, y))
    PROVE  FieldEntries(b, s, z) = FieldEntries(a, x, y)
<1> DEFINE lines(c, u, v) == {c[i] : i \in {i \in u..v : c[i].kind # "blank"}}
<1>1. ASSUME NEW c, IsSeq(c), NEW u, NEW v, KeyAt(c, key, u), FieldTo(c, u, v)
      PROVE  /\ ToSet(normalizeBlob(SubSeq(c, u, v))) = lines(c, u, v)
             /\ c[u] \in lines(c, u, v) /\ IsTopKey(c[u])
             /\ \A l \in lines(c, u, v) : IsTopKey(l) => l = c[u]
             /\ FieldItems(c, u, v) = {l.items[1].entry : l \in {l \in lines(c, u, v) : l.kind = "item"}}
  <2> DEFINE field == SubSeq(c, u, v)
             m == Len(field)
             places == {i \in DOMAIN field : field[i].kind # "blank"}
             there == {i \in u..v : c[i].kind # "blank"}
  <2>1. /\ IsSeq(field) /\ m \in Nat \ {0}
        /\ \A i \in 1..m : (u - 1) + i \in u..v /\ field[i] = c[(u - 1) + i]
        /\ \A j \in u..v : (j + 1) - u \in 1..m /\ field[(j + 1) - u] = c[j]
        /\ u \in 1..Len(c) /\ v \in u..Len(c) /\ Len(c) \in Nat
    <3>1. /\ IsSeq(field) /\ m = (v + 1) - u /\ m \in Nat \ {0} /\ field[1] = c[u]
          /\ \A i \in 1..m : (u - 1) + i \in u..v /\ field[i] = c[(u - 1) + i]
          /\ \A j \in u..v : (j + 1) - u \in 1..m /\ field[(j + 1) - u] = c[j]
          /\ u \in 1..Len(c) /\ v \in u..Len(c) /\ Len(c) \in Nat
      BY ONLY <1>1, FieldLines
    <3> HIDE DEF field
    <3> QED
      BY <3>1
  <2> HIDE DEF field
  <2>2. DOMAIN field = 1..m /\ places \in SUBSET (1..m)
    BY <2>1, SeqIs
  <2>3. ToSet(normalizeBlob(field)) = {field[i] : i \in places}
    <3>1. normalizeBlob(field) = Picked(field, places)
      BY DEF normalizeBlob
    <3> HIDE DEF places
    <3> QED
      BY <2>1, <2>2, <3>1, PickedIs
  <2>4. {field[i] : i \in places} = lines(c, u, v)
    BY <2>1, <2>2
  <2>5. IsTopKey(c[u]) /\ c[u].kind = "key" /\ u \in u..v /\ \A i \in (u + 1)..v : ~IsTopKey(c[i])
    BY <1>1, <2>1 DEF KeyAt, FieldTo, IsTopKey
  <2>6. c[u] \in lines(c, u, v)
    BY <2>5
  <2>7. \A l \in lines(c, u, v) : IsTopKey(l) => l = c[u]
    <3>1. \A i \in u..v : i = u \/ i \in (u + 1)..v
      BY <2>1
    <3> QED
      BY <2>5, <3>1
  <2>8. FieldItems(c, u, v) = {l.items[1].entry : l \in {l \in lines(c, u, v) : l.kind = "item"}}
    <3>1. \A i \in u..v : c[i].kind = "item" <=> (i \in (u + 1)..v /\ c[i].kind = "item")
      <4>1. u \in Nat /\ v \in Nat
        BY <2>1
      <4>2. \A i \in u..v : i = u \/ i \in (u + 1)..v
        BY <4>1
      <4>3. \A i \in (u + 1)..v : i \in u..v
        BY <4>1
      <4> QED
        BY <2>5, <4>2, <4>3
    <3>2. \A i : i \in {j \in (u + 1)..v : c[j].kind = "item"} <=> (i \in there /\ c[i].kind = "item")
      BY <2>1, <3>1
    <3>3. {c[i].items[1].entry : i \in {j \in (u + 1)..v : c[j].kind = "item"}}
              = {l.items[1].entry : l \in {l \in lines(c, u, v) : l.kind = "item"}}
      BY <3>2, Zenon
    <3> QED
      BY <3>3 DEF FieldItems
  <2> QED
    BY <2>3, <2>4, <2>5, <2>6, <2>7, <2>8 DEF field
<1> HIDE DEF lines
<1>2. lines(b, s, z) = lines(a, x, y)
  <2>1. ToSet(normalizeBlob(SubSeq(b, s, z))) = lines(b, s, z) /\ ToSet(normalizeBlob(SubSeq(a, x, y))) = lines(a, x, y)
    BY <1>1
  <2> QED
    BY <2>1
<1>3. b[s] = a[x]
  <2>1. b[s] \in lines(b, s, z) /\ IsTopKey(b[s])
    BY <1>1
  <2>2. \A l \in lines(a, x, y) : IsTopKey(l) => l = a[x]
    BY <1>1
  <2> QED
    BY <1>2, <2>1, <2>2
<1>4. FieldItems(b, s, z) = FieldItems(a, x, y)
  <2>1. /\ FieldItems(b, s, z) = {l.items[1].entry : l \in {l \in lines(b, s, z) : l.kind = "item"}}
        /\ FieldItems(a, x, y) = {l.items[1].entry : l \in {l \in lines(a, x, y) : l.kind = "item"}}
    BY <1>1
  <2> QED
    BY <1>2, <2>1
<1> QED
  BY <1>3, <1>4 DEF FieldEntries

\* A field as the guard takes it apart.
FieldOf(block, key, s, z) ==
    /\ KeyAt(block, key, s) /\ FieldTo(block, s, z)
    /\ key \in DOMAIN splitFrontmatterFields(block) /\ splitFrontmatterFields(block)[key] = SubSeq(block, s, z)

\* The keys of a block.
KeysIn(block) == {block[i].key : i \in {i \in DOMAIN block : IsTopKey(block[i])}}

\* The guard finds the fields of all keys, and of no others.
LEMMA FieldsAreThere ==
    ASSUME NEW block, IsSeq(block)
    PROVE  /\ DOMAIN splitFrontmatterFields(block) = KeysIn(block)
           /\ \A key, s : KeyAt(block, key, s) => \E z : FieldOf(block, key, s, z)
           /\ \A key \in KeysIn(block) : \E s, z : FieldOf(block, key, s, z)
<1>1. DOMAIN splitFrontmatterFields(block) = KeysIn(block)
  BY DEF splitFrontmatterFields, KeysIn
<1>2. ASSUME NEW key, NEW s, KeyAt(block, key, s)
      PROVE  \E z : FieldOf(block, key, s, z)
  <2>1. \E z : /\ FieldTo(block, s, z) /\ key \in DOMAIN splitFrontmatterFields(block)
               /\ splitFrontmatterFields(block)[key] = SubSeq(block, s, z)
    BY <1>2, FieldIs
  <2> QED
    BY <1>2, <2>1 DEF FieldOf
<1>3. ASSUME NEW key \in KeysIn(block)
      PROVE  \E s, z : FieldOf(block, key, s, z)
  <2>1. PICK i \in 1..Len(block) : IsTopKey(block[i]) /\ block[i].key = key
    BY <1>3, SeqIs DEF KeysIn
  <2>2. \E s : KeyAt(block, block[i].key, s)
    BY <2>1, KeyHasLine
  <2> QED
    BY <1>2, <2>1, <2>2
<1> QED
  BY <1>1, <1>2, <1>3

\* A field that an enrichment may not write is the same once the guard passed.
LEMMA OtherFieldKept ==
    ASSUME NEW before, IsSeq(before), NEW after, IsSeq(after), NEW vocab, enrichCheckFieldGuard(before, after, vocab),
           NEW key, key \notin EnrichWritableFields, NEW s, NEW z, FieldOf(before, key, s, z)
    PROVE  \E x, y : FieldOf(after, key, x, y) /\ FieldEntries(before, s, z) = FieldEntries(after, x, y)
<1> DEFINE b == splitFrontmatterFields(before)
           a == splitFrontmatterFields(after)
<1>1. key \in DOMAIN b
  BY DEF FieldOf
<1>2. key \in DOMAIN a /\ normalizeBlob(b[key]) = normalizeBlob(a[key])
  <2>1. \A k \in (DOMAIN b \cup DOMAIN a) \ EnrichWritableFields :
            k \in DOMAIN b /\ k \in DOMAIN a /\ normalizeBlob(b[k]) = normalizeBlob(a[k])
    BY Zenon DEF enrichCheckFieldGuard
  <2> HIDE DEF b, a
  <2> QED
    BY <1>1, <2>1
<1>3. key \in KeysIn(after)
  BY <1>2, FieldsAreThere
<1>4. PICK x, y : FieldOf(after, key, x, y)
  BY <1>3, FieldsAreThere
<1>5. b[key] = SubSeq(before, s, z) /\ a[key] = SubSeq(after, x, y)
  BY <1>4 DEF FieldOf
<1>6. normalizeBlob(SubSeq(before, s, z)) = normalizeBlob(SubSeq(after, x, y))
  <2> HIDE DEF b, a
  <2> QED
    BY <1>2, <1>5
<1>7. KeyAt(before, key, s) /\ FieldTo(before, s, z) /\ KeyAt(after, key, x) /\ FieldTo(after, x, y)
  BY <1>4 DEF FieldOf
<1>8. FieldEntries(before, s, z) = FieldEntries(after, x, y)
  BY <1>6, <1>7, SameField
<1> QED
  BY <1>4, <1>8

\* The guard finds all it read of a list in what became of it.
LEMMA GuardedList ==
    ASSUME NEW before, IsSeq(before), NEW after, IsSeq(after), NEW vocab, enrichCheckFieldGuard(before, after, vocab),
           NEW key \in {"tags", "related"}, NEW s, NEW z, FieldOf(before, key, s, z),
           NEW x, NEW y, FieldOf(after, key, x, y)
    PROVE  (IF before[s].style = "flow" THEN ToSet(FlowEntries(before[s].items)) ELSE FieldItems(before, s, z))
               \subseteq (IF after[x].style = "flow" THEN ToSet(FlowEntries(after[x].items)) ELSE FieldItems(after, x, y))
<1> DEFINE b == splitFrontmatterFields(before)
           a == splitFrontmatterFields(after)
           listed(fields, k) == IF k \in DOMAIN fields THEN parseYAMLList(fields[k]) ELSE <<>>
<1>1. key \in DOMAIN b /\ b[key] = SubSeq(before, s, z) /\ key \in DOMAIN a /\ a[key] = SubSeq(after, x, y)
  BY DEF FieldOf
<1>2. /\ enrichValidateTagsAppend(listed(b, "tags"), listed(a, "tags"), vocab)
      /\ enrichValidateRelatedAppend(listed(b, "related"), listed(a, "related"))
  BY Zenon DEF enrichCheckFieldGuard
<1>3. setSubset(listed(b, key), listed(a, key))
  <2> HIDE DEF listed
  <2>1. setSubset(listed(b, "tags"), listed(a, "tags")) /\ setSubset(listed(b, "related"), listed(a, "related"))
    BY <1>2 DEF enrichValidateTagsAppend, enrichValidateRelatedAppend
  <2>2. key = "tags" \/ key = "related"
    OBVIOUS
  <2> QED
    BY <2>1, <2>2
<1>4. listed(b, key) = parseYAMLList(SubSeq(before, s, z)) /\ listed(a, key) = parseYAMLList(SubSeq(after, x, y))
  <2> HIDE DEF b, a
  <2> QED
    BY <1>1
<1>5. ToSet(parseYAMLList(SubSeq(before, s, z))) \subseteq ToSet(parseYAMLList(SubSeq(after, x, y)))
  <2> HIDE DEF listed, b, a
  <2> QED
    BY <1>3, <1>4 DEF setSubset
<1>6. KeyAt(before, key, s) /\ FieldTo(before, s, z) /\ KeyAt(after, key, x) /\ FieldTo(after, x, y)
  BY DEF FieldOf
<1> HIDE DEF b, a
<1>7. ToSet(parseYAMLList(SubSeq(before, s, z))) =
          IF before[s].style = "flow" THEN ToSet(FlowEntries(before[s].items)) ELSE FieldItems(before, s, z)
  BY <1>6, ParsedField
<1>8. ToSet(parseYAMLList(SubSeq(after, x, y))) =
          IF after[x].style = "flow" THEN ToSet(FlowEntries(after[x].items)) ELSE FieldItems(after, x, y)
  BY <1>6, ParsedField
<1> QED
  BY <1>5, <1>7, <1>8

\* Two blocks end alike, one after l lines and one after n.
EndAlike(before, after, l, n) ==
    /\ l \in Nat /\ n \in Nat /\ l <= Len(before) /\ n <= Len(after) /\ Len(after) - n = Len(before) - l
    /\ \A j \in 1..(Len(before) - l) : after[n + j] = before[l + j]

\* The last line of a listed is found again in a block that was kept.
LEMMA LastKeyKept ==
    ASSUME NEW before, IsSeq(before), NEW after, IsSeq(after), NEW l, NEW n, EndAlike(before, after, l, n),
           NEW key, NEW s, KeyAt(before, key, s)
    PROVE  /\ s > l => KeyAt(after, key, n + (s - l)) /\ after[n + (s - l)] = before[s]
           /\ s <= l => \A y \in (n + 1)..Len(after) : ~(IsTopKey(after[y]) /\ after[y].key = key)
<1>1. /\ Len(before) \in Nat /\ Len(after) \in Nat /\ s \in 1..Len(before) /\ IsTopKey(before[s]) /\ before[s].key = key
      /\ \A i \in (s + 1)..Len(before) : ~(IsTopKey(before[i]) /\ before[i].key = key)
      /\ l \in Nat /\ n \in Nat /\ l <= Len(before) /\ n <= Len(after) /\ Len(after) - n = Len(before) - l
      /\ \A j \in 1..(Len(before) - l) : after[n + j] = before[l + j]
  BY SeqIs DEF KeyAt, EndAlike
<1>2. ASSUME NEW y \in (n + 1)..Len(after)
      PROVE  /\ l + (y - n) \in (l + 1)..Len(before) /\ after[y] = before[l + (y - n)]
  <2>1. y - n \in 1..(Len(before) - l) /\ n + (y - n) = y
    BY <1>1, <1>2
  <2>2. after[n + (y - n)] = before[l + (y - n)]
    BY <1>1, <2>1
  <2>3. l + (y - n) \in (l + 1)..Len(before)
    BY <1>1, <2>1
  <2> QED
    BY <2>1, <2>2, <2>3
<1>3. ASSUME s > l
      PROVE  KeyAt(after, key, n + (s - l)) /\ after[n + (s - l)] = before[s]
  <2> DEFINE x == n + (s - l)
  <2>1. s - l \in 1..(Len(before) - l) /\ l + (s - l) = s /\ x \in 1..Len(after)
    BY <1>1, <1>3
  <2>2. after[x] = before[s]
    <3>1. after[n + (s - l)] = before[l + (s - l)]
      BY <1>1, <2>1
    <3> QED
      BY <2>1, <3>1
  <2>3. ASSUME NEW y \in (x + 1)..Len(after), IsTopKey(after[y]) /\ after[y].key = key
        PROVE  FALSE
    <3>1. y \in (n + 1)..Len(after)
      BY <1>1, <1>3, <2>1
    <3>2. l + (y - n) \in (l + 1)..Len(before) /\ after[y] = before[l + (y - n)]
      BY <1>2, <3>1
    <3>3. l + (y - n) \in (s + 1)..Len(before)
      BY <1>1, <2>1, <3>2
    <3> QED
      BY <1>1, <2>3, <3>2, <3>3
  <2> HIDE DEF x
  <2>4. KeyAt(after, key, x) /\ after[x] = before[s]
    BY <1>1, <2>1, <2>2, <2>3 DEF KeyAt
  <2> QED
    BY <2>4 DEF x
<1>4. ASSUME s <= l, NEW y \in (n + 1)..Len(after), IsTopKey(after[y]) /\ after[y].key = key
      PROVE  FALSE
  <2>1. l + (y - n) \in (l + 1)..Len(before) /\ after[y] = before[l + (y - n)]
    BY <1>2
  <2>2. l + (y - n) \in (s + 1)..Len(before)
    BY <1>1, <1>4, <2>1
  <2> QED
    BY <1>1, <1>4, <2>1, <2>2
<1> QED
  BY <1>3, <1>4

\* An entry that is whole is written as it is.
LEMMA WrittenWhole ==
    ASSUME NEW v, v.cut = "no"
    PROVE  WriteEntry(v).entry = v
BY DEF WriteEntry, Written

\* The entry beside the key of a list is among the items the renderer makes of it.
LEMMA PlainKept ==
    ASSUME NEW e, NEW inner, NoteLines(inner), NEW before, NEW after, IsSeq(after),
           NEW s \in 1..Len(inner), before[s] = inner[s], before[s].style = "plain",
           NEW n \in Nat, n <= Len(after), NEW x, NEW entries, ListAt(e, before, after, s, x, n, entries),
           ToSet(entries) = ToSet(readListBlock(inner, s)) \cup ToSet(Additions(before[s].key, e.tags, e.related)),
           NEW y, FieldTo(after, x, y)
    PROVE  FieldEntries(before, s, s) \subseteq FieldEntries(after, x, y)
<1> DEFINE v == inner[s].items[1].entry
<1>1. WellFormed(inner[s]) /\ IsSeq(inner)
  BY DEF NoteLines
<1>2. /\ Len(inner[s].items) = 1 /\ ToSet(inner[s].items) = {inner[s].items[1]}
      /\ \A w \in ToSet(inner[s].items) : Whole(w)
  BY <1>1, FormOfLine
<1>3. v.cut = "no"
  BY <1>2 DEF Whole
<1>4. FieldEntries(before, s, s) = {v}
  BY <1>2 DEF FieldEntries
<1>5. v \in ToSet(readListBlock(inner, s))
  <2>1. readListBlock(inner, s) = <<v>>
    BY <1>1, ReadList
  <2> HIDE DEF v
  <2>2. ToSet(<<v>>) = {v}
    BY DEF ToSet
  <2> QED
    BY <2>1, <2>2
<1> HIDE DEF v
<1>6. /\ x \in 1..n /\ IsSeq(entries) /\ x + Len(entries) <= n
      /\ after[x].style = (IF Len(entries) = 0 THEN "flow" ELSE "none")
      /\ \A j \in 1..Len(entries) :
            after[x + j].kind = "item" /\ after[x + j].items[1].entry = WriteEntry(entries[j]).entry
  BY DEF ListAt
<1>7. PICK j \in 1..Len(entries) : entries[j] = v
  BY <1>5, <1>6, SeqIs
<1>8. Len(entries) \in Nat /\ Len(after) \in Nat
  BY <1>6, SeqIs
<1>9. after[x].style = "none" /\ after[x + j].kind = "item" /\ after[x + j].items[1].entry = v
  <2>1. Len(entries) # 0
    BY <1>7, <1>8
  <2> QED
    BY <1>3, <1>6, <1>7, <2>1, WrittenWhole
<1>10. /\ y \in x..Len(after) /\ (y = Len(after) \/ IsTopKey(after[y + 1]))
  BY DEF FieldTo
<1>11. x + j \in (x + 1)..y
  <2>1. ASSUME y < x + j
        PROVE  FALSE
    <3>1. (y + 1) - x \in 1..Len(entries) /\ x + ((y + 1) - x) = y + 1 /\ y # Len(after)
      BY <1>6, <1>7, <1>8, <1>10, <2>1
    <3>2. after[y + 1].kind = "item"
      <4>1. after[x + ((y + 1) - x)].kind = "item"
        BY <1>6, <3>1
      <4> QED
        BY <3>1, <4>1
    <3> QED
      BY <1>10, <3>1, <3>2 DEF IsTopKey
  <2> QED
    BY <1>6, <1>7, <1>8, <1>10, <2>1
<1>12. v \in FieldItems(after, x, y)
  BY <1>9, <1>11 DEF FieldItems
<1> QED
  BY <1>4, <1>9, <1>12 DEF FieldEntries

\* A line without links in brackets.
NoLinksIn(line) == line.style = "flow" => \A w \in ToSet(line.items) : ~w.entry.link

\* No entry of a list is lost, unless it is a link in brackets.
LEMMA ListKept ==
    ASSUME NEW e, NEW inner, NoteLines(inner), NEW before, NoteLines(before), NEW after, IsSeq(after),
           BlockKept(e, inner, before, after), NEW vocab, enrichCheckFieldGuard(before, after, vocab),
           NEW key \in {"tags", "related"}, NEW s, NEW z, FieldOf(before, key, s, z),
           NoLinksIn(before[s])
    PROVE  \E x, y : FieldOf(after, key, x, y) /\ FieldEntries(before, s, z) \subseteq FieldEntries(after, x, y)
<1>1. PICK l, n \in Nat :
          /\ l <= Len(before) /\ n <= Len(after) /\ Len(after) - n = Len(before) - l
          /\ \A j \in 1..(Len(before) - l) : after[n + j] = before[l + j]
          /\ l <= Len(inner) /\ \A k \in 1..l : before[k] = inner[k]
          /\ KeysKept(e, inner, before, after, l, n)
  BY DEF BlockKept
<1>2. IsSeq(before) /\ Len(before) \in Nat /\ IsSeq(inner) /\ Len(inner) \in Nat
  BY SeqIs DEF NoteLines
<1>3. /\ KeyAt(before, key, s) /\ FieldTo(before, s, z) /\ s \in 1..Len(before) /\ IsTopKey(before[s]) /\ before[s].key = key
      /\ \A i \in (s + 1)..Len(before) : ~(IsTopKey(before[i]) /\ before[i].key = key)
  BY DEF FieldOf, KeyAt
<1>4. WellFormed(before[s])
  BY <1>3 DEF NoteLines
<1>5. /\ before[s].style \in {"none", "plain", "flow"} /\ IsSeq(before[s].items)
      /\ \A w \in ToSet(before[s].items) : Whole(w)
  BY <1>4, FormOfLine
<1>6. /\ s > l => KeyAt(after, key, n + (s - l)) /\ after[n + (s - l)] = before[s]
      /\ s <= l => \A y \in (n + 1)..Len(after) : ~(IsTopKey(after[y]) /\ after[y].key = key)
  <2>1. EndAlike(before, after, l, n)
    BY <1>1 DEF EndAlike
  <2> QED
    BY <1>2, <1>3, <2>1, LastKeyKept, SMTT(30)
\* What the guard reads is what there is.
<1>7. ASSUME NEW x, NEW y, FieldOf(after, key, x, y), before[s].style # "plain",
             after[x].style = "none" \/ (after[x].style = "flow" /\ after[x].items = <<>>)
                 \/ (after[x].style = "flow" /\ after[x].items = before[s].items /\ before[s].style = "flow")
      PROVE  FieldEntries(before, s, z) \subseteq FieldEntries(after, x, y)
  <2>1. (IF before[s].style = "flow" THEN ToSet(FlowEntries(before[s].items)) ELSE FieldItems(before, s, z))
            \subseteq (IF after[x].style = "flow" THEN ToSet(FlowEntries(after[x].items)) ELSE FieldItems(after, x, y))
    BY <1>2, <1>7, GuardedList, ZenonT(30)
  <2>2. before[s].style = "flow" => ToSet(FlowEntries(before[s].items)) = {w.entry : w \in ToSet(before[s].items)}
    BY <1>5, EntriesInBrackets DEF NoLinksIn
  <2>3. ToSet(FlowEntries(<<>>)) = {}
    <3>1. IsSeq(<<>>) /\ ToSet(<<>>) = {}
      BY Tuples DEF IsSeq, ToSet
    <3>2. ToSet(FlowEntries(<<>>)) = {w.entry : w \in ToSet(<<>>)}
      BY <3>1, EntriesInBrackets
    <3> QED
      BY <3>1, <3>2
  <2>4. FieldEntries(before, s, z) = IF before[s].style = "flow" THEN ToSet(FlowEntries(before[s].items)) ELSE FieldItems(before, s, z)
    BY <1>5, <1>7, <2>2 DEF FieldEntries
  <2>5. CASE after[x].style = "none"
    BY <2>1, <2>4, <2>5 DEF FieldEntries
  <2>6. CASE after[x].style = "flow" /\ after[x].items = <<>>
    BY <2>1, <2>3, <2>4, <2>6
  <2>7. CASE after[x].style = "flow" /\ after[x].items = before[s].items /\ before[s].style = "flow"
    BY <2>7 DEF FieldEntries
  <2> QED
    BY <1>7, <2>5, <2>6, <2>7
<1>8. CASE s > l
  <2> DEFINE x == n + (s - l)
  <2>1. KeyAt(after, key, x) /\ after[x] = before[s]
    BY <1>6, <1>8
  <2> HIDE DEF x
  <2>2. PICK y : FieldOf(after, key, x, y)
    BY <2>1, FieldsAreThere
  <2>3. FieldEntries(before, s, z) \subseteq FieldEntries(after, x, y)
    <3>1. CASE before[s].style = "plain"
      BY <2>1, <3>1 DEF FieldEntries
    <3>2. CASE before[s].style # "plain"
      BY <1>5, <1>7, <2>1, <2>2, <3>2
    <3> QED
      BY <3>1, <3>2
  <2> QED
    BY <2>2, <2>3
<1>9. CASE s <= l
  <2>1. s \in 1..l /\ before[s] = inner[s] /\ s \in 1..Len(inner)
    BY <1>1, <1>2, <1>3, <1>9
  <2>2. \A i \in (s + 1)..l : ~(IsTopKey(before[i]) /\ before[i].key = before[s].key)
    BY <1>1, <1>2, <1>3
  <2>3. \E x, entries : /\ ListAt(e, before, after, s, x, n, entries)
                        /\ ToSet(entries) = ToSet(readListBlock(inner, s))
                                                \cup ToSet(Additions(before[s].key, e.tags, e.related))
    BY <1>1, <1>3, <2>1, <2>2 DEF KeysKept
  <2>4. PICK x, entries : /\ ListAt(e, before, after, s, x, n, entries)
                          /\ ToSet(entries) = ToSet(readListBlock(inner, s))
                                                  \cup ToSet(Additions(before[s].key, e.tags, e.related))
    BY <2>3
  <2>5. /\ x \in 1..n /\ IsTopKey(after[x]) /\ after[x].key = key
        /\ after[x].style = (IF Len(entries) = 0 THEN "flow" ELSE "none")
        /\ Len(entries) = 0 => after[x].items = <<>>
        /\ \A y \in (x + 1)..n : ~(IsTopKey(after[y]) /\ after[y].key = key)
    BY <1>3, <2>4 DEF ListAt
  <2>6. KeyAt(after, key, x)
    <3>1. x \in 1..Len(after) /\ Len(after) \in Nat
      BY <1>1, <2>5, SeqIs
    <3>2. \A y \in (x + 1)..Len(after) : y \in (x + 1)..n \/ y \in (n + 1)..Len(after)
      BY <1>1, <3>1
    <3> QED
      BY <1>6, <1>9, <2>5, <3>1, <3>2 DEF KeyAt
  <2>7. PICK y : FieldOf(after, key, x, y)
    BY <2>6, FieldsAreThere
  <2>8. FieldEntries(before, s, z) \subseteq FieldEntries(after, x, y)
    <3>1. CASE before[s].style = "plain"
      <4>1. FieldTo(after, x, y)
        BY <2>7 DEF FieldOf
      <4>2. FieldEntries(before, s, s) \subseteq FieldEntries(after, x, y)
        BY <1>1, <2>1, <2>4, <3>1, <4>1, PlainKept
      <4> QED
        BY <3>1, <4>2 DEF FieldEntries
    <3>2. CASE before[s].style # "plain"
      BY <1>7, <2>5, <2>7, <3>2
    <3> QED
      BY <3>1, <3>2
  <2> QED
    BY <2>7, <2>8
<1> QED
  BY <1>1, <1>2, <1>3, <1>8, <1>9

\* What a reader of YAML finds under a key, as a field.
LEMMA EntriesAreThere ==
    ASSUME NEW file, IsSeq(SplitFrontmatter(file).block), NEW key, NEW s, NEW z,
           FieldOf(SplitFrontmatter(file).block, key, s, z)
    PROVE  EntriesOf(file, key) = FieldEntries(SplitFrontmatter(file).block, s, z)
<1> DEFINE block == SplitFrontmatter(file).block
<1>1. KeyAt(block, key, s) /\ FieldTo(block, s, z) /\ IsSeq(block)
  BY DEF FieldOf
<1>2. EntriesOf(file, key) = IF block[s].style # "none" THEN {w.entry : w \in ToSet(block[s].items)}
                             ELSE FieldItems(block, s, z)
  BY <1>1, EntriesAtKey
<1> HIDE DEF block
<1>3. EntriesOf(file, key) = FieldEntries(block, s, z)
  BY <1>2 DEF FieldEntries
<1> QED
  BY <1>3 DEF block

\* A block that was rendered keeps all its keys.
LEMMA KeysAreKept ==
    ASSUME NEW e, NEW inner, NEW before, IsSeq(before), NEW after, IsSeq(after), BlockKept(e, inner, before, after)
    PROVE  KeysIn(before) \subseteq KeysIn(after)
<1>1. PICK l, n \in Nat :
          /\ l <= Len(before) /\ n <= Len(after) /\ Len(after) - n = Len(before) - l
          /\ \A j \in 1..(Len(before) - l) : after[n + j] = before[l + j]
          /\ l <= Len(inner) /\ \A k \in 1..l : before[k] = inner[k]
          /\ KeysKept(e, inner, before, after, l, n)
  BY DEF BlockKept
<1>2. Len(before) \in Nat /\ Len(after) \in Nat /\ DOMAIN before = 1..Len(before) /\ DOMAIN after = 1..Len(after)
  BY SeqIs
<1>3. ASSUME NEW i \in 1..Len(before), IsTopKey(before[i])
      PROVE  \E x \in 1..Len(after) : IsTopKey(after[x]) /\ after[x].key = before[i].key
  <2>1. CASE i <= l
    <3>1. i \in 1..l /\ l \in Nat /\ n \in Nat
      BY <1>1, <1>3, <2>1
    <3>2. PICK x \in 1..n : IsTopKey(after[x]) /\ after[x].key = before[i].key
      BY <1>1, <1>3, <3>1 DEF KeysKept
    <3>3. x \in 1..Len(after)
      BY <1>1, <1>2, <3>1
    <3> QED
      BY <3>2, <3>3
  <2>2. CASE i > l
    <3>1. i - l \in 1..(Len(before) - l) /\ l + (i - l) = i /\ n + (i - l) \in 1..Len(after)
      BY <1>1, <1>2, <2>2
    <3>2. after[n + (i - l)] = before[l + (i - l)]
      BY <1>1, <3>1
    <3>3. after[n + (i - l)] = before[i]
      BY <3>1, <3>2
    <3> QED
      BY <1>3, <3>1, <3>3
  <2> QED
    BY <1>1, <1>2, <2>1, <2>2
<1> QED
  BY <1>2, <1>3 DEF KeysIn

\* What the guard lets pass of what the renderer made has lost nothing.
LEMMA RenderedKeepsFields ==
    ASSUME NEW e, Rendering(e), NEW file, file = [plain |-> file.plain, lines |-> e.lines],
           NEW after \in applyEnrichToFrontmatter(file, e.tags, e.related, e.fields),
           NEW vocab, CheckEnrichContent(file, after, vocab)
    PROVE  /\ SplitFrontmatter(after).body = SplitFrontmatter(file).body
           /\ KeysOf(file) \subseteq KeysOf(after)
           /\ KeysOf(after) \subseteq KeysOf(file) \cup EnrichWritableFields
           /\ \A key \in KeysOf(file) \ ToSet(privateKeyOrder) :
                  LinksInBrackets(file) \/ EntriesOf(file, key) \subseteq EntriesOf(after, key)
<1> DEFINE before == SplitFrontmatter(file).block
           later == SplitFrontmatter(after).block
           body == SplitFrontmatter(file).body
<1>1. /\ SplitFrontmatter(file).found /\ SplitFrontmatter(after).found
      /\ SplitFrontmatter(after).body = body
      /\ enrichCheckFieldGuard(before, later, vocab)
  BY DEF CheckEnrichContent
<1>2. PICK end, off, f, t : RenderedAs(e, after.lines, end, off, f, t)
  BY RenderedNote
<1>3. file.lines = e.lines /\ IsSeq(file.lines) /\ IsSeq(after.lines) /\ NoteLines(e.lines) /\ NoteLines(InnerLines(e, end))
  BY <1>2 DEF RenderedAs, Rendering
<1>4. PICK c : SplitAt(e.lines, c, before, body)
  BY <1>1, <1>3, SplitFile
<1>5. PICK d : SplitAt(after.lines, d, later, body)
  BY <1>1, <1>3, SplitFile
<1>6. KeysOf(file) = KeysIn(before) /\ KeysOf(after) = KeysIn(later)
  BY DEF KeysOf, KeysIn
<1> HIDE DEF later, body
<1>7. /\ IsSeq(before) /\ IsSeq(later) /\ c \in 2..Len(e.lines) /\ Len(before) = c - 2
      /\ \A i \in 1..(c - 2) : before[i] = e.lines[i + 1]
  BY <1>4, <1>5 DEF SplitAt
<1>8. KeysIn(later) \subseteq KeysIn(before) \cup EnrichWritableFields
  <2>1. \A k \in (DOMAIN splitFrontmatterFields(before) \cup DOMAIN splitFrontmatterFields(later)) \ EnrichWritableFields :
            k \in DOMAIN splitFrontmatterFields(before)
    BY <1>1, Zenon DEF enrichCheckFieldGuard
  <2>2. DOMAIN splitFrontmatterFields(before) = KeysIn(before) /\ DOMAIN splitFrontmatterFields(later) = KeysIn(later)
    BY <1>7, FieldsAreThere
  <2> QED
    BY <2>1, <2>2
<1> HIDE DEF before
<1>9. CASE c = 2
  <2>1. DOMAIN before = 1..0
    BY <1>7, <1>9, SeqIs
  <2>2. KeysIn(before) = {}
    BY <2>1 DEF KeysIn
  <2> QED
    BY <1>1, <1>6, <1>8, <2>2 DEF body
<1>10. CASE c # 2
  <2>1. BlockKept(e, InnerLines(e, end), before, later)
    <3>1. CASE end <= c
      BY <1>2, <1>4, <1>5, <3>1, LateBlock
    <3>2. CASE c < end
      BY <1>2, <1>4, <1>5, <1>10, <3>2, EarlyBlock
    <3>3. end \in Int /\ c \in Int
      BY <1>2, <1>7 DEF RenderedAs
    <3> QED
      BY <3>1, <3>2, <3>3
  <2>2. KeysIn(before) \subseteq KeysIn(later)
    BY <1>7, <2>1, KeysAreKept
  <2>3. ASSUME NEW i \in 1..Len(before)
        PROVE  i + 1 \in 1..Len(e.lines) /\ before[i] = e.lines[i + 1] /\ WellFormed(before[i])
    <3>1. i + 1 \in 1..Len(e.lines) /\ i \in 1..(c - 2)
      BY <1>3, <1>7, SeqIs
    <3> QED
      BY <1>3, <1>7, <3>1 DEF NoteLines
  <2>4. NoteLines(before)
    BY <1>7, <2>3 DEF NoteLines
  <2>5. ASSUME NEW key \in KeysIn(before), key \notin ToSet(privateKeyOrder), ~LinksInBrackets(file)
        PROVE  EntriesOf(file, key) \subseteq EntriesOf(after, key)
    <3>1. PICK s, z : FieldOf(before, key, s, z)
      BY <1>7, FieldsAreThere
    <3>2. NoLinksIn(before[s])
      <4>1. s \in 1..Len(before)
        BY <3>1 DEF FieldOf, KeyAt
      <4>2. s + 1 \in DOMAIN file.lines /\ before[s] = file.lines[s + 1]
        BY <1>3, <2>3, <4>1, SeqIs
      <4> QED
        BY <2>5, <4>2 DEF LinksInBrackets, NoLinksIn
    <3>3. \E x, y : FieldOf(later, key, x, y) /\ FieldEntries(before, s, z) \subseteq FieldEntries(later, x, y)
      <4>1. CASE key \in {"tags", "related"}
        <5>1. /\ NoteLines(InnerLines(e, end)) /\ NoteLines(before) /\ IsSeq(later)
              /\ BlockKept(e, InnerLines(e, end), before, later) /\ enrichCheckFieldGuard(before, later, vocab)
              /\ key \in {"tags", "related"} /\ FieldOf(before, key, s, z) /\ NoLinksIn(before[s])
          BY <1>1, <1>3, <1>7, <2>1, <2>4, <3>1, <3>2, <4>1
        <5> QED
          BY ONLY <5>1, ListKept
      <4>2. CASE key \notin {"tags", "related"}
        <5>1. key \notin EnrichWritableFields
          BY <2>5, <4>2 DEF EnrichWritableFields
        <5>2. PICK x, y : FieldOf(later, key, x, y) /\ FieldEntries(before, s, z) = FieldEntries(later, x, y)
          BY <1>1, <1>7, <3>1, <5>1, OtherFieldKept
        <5> QED
          BY <5>2
      <4> QED
        BY <4>1, <4>2
    <3>4. PICK x, y : FieldOf(later, key, x, y) /\ FieldEntries(before, s, z) \subseteq FieldEntries(later, x, y)
      BY <3>3
    <3>5. EntriesOf(file, key) = FieldEntries(before, s, z)
      BY <1>7, <3>1, EntriesAreThere DEF before
    <3>6. EntriesOf(after, key) = FieldEntries(later, x, y)
      BY <1>7, <3>4, EntriesAreThere DEF later
    <3> QED
      BY <3>4, <3>5, <3>6
  <2> QED
    BY <1>1, <1>6, <1>8, <2>2, <2>5 DEF body
<1> QED
  BY <1>9, <1>10

-----------------------------------------------------------------------------
\* What an enrichment adds to a note.
RenderingOf(file, answer, fields) ==
    [lines |-> file.lines,
     tags |-> answer.tags \o (IF answer.review THEN <<Word("status/needs-review")>> ELSE <<>>),
     related |-> RelatedKept(answer.related), fields |-> fields]

\* It is one the renderer can make.
LEMMA IsRendering ==
    ASSUME NEW e \in Enrichments, NEW fields
    PROVE  LET r == RenderingOf(e.file, e.answer, fields)
           IN  /\ Rendering(r) /\ e.file = [plain |-> e.file.plain, lines |-> r.lines]
               /\ r.tags = e.answer.tags \o (IF e.answer.review THEN <<Word("status/needs-review")>> ELSE <<>>)
               /\ r.related = RelatedKept(e.answer.related) /\ r.fields = fields /\ r.lines = e.file.lines
<1> DEFINE r == RenderingOf(e.file, e.answer, fields)
           lines == e.file.lines
           more == IF e.answer.review THEN <<Word("status/needs-review")>> ELSE <<>>
           given == e.answer.related
<1>1. /\ e.file = [plain |-> e.file.plain, lines |-> lines]
      /\ lines \in Seq(ToSet(lines)) /\ \A line \in ToSet(lines) : WellFormed(line)
      /\ \A added \in {e.answer.tags, e.answer.related} : added \in Seq(ToSet(added))
  BY Zenon, EnrichmentsAssumption
<1>2. NoteLines(lines)
  <2>1. IsSeq(lines)
    BY <1>1 DEF IsSeq
  <2>2. \A i \in 1..Len(lines) : lines[i] \in ToSet(lines)
    BY <2>1, SeqIs
  <2> QED
    BY <1>1, <2>1, <2>2 DEF NoteLines
<1>3. IsSeq(e.answer.tags) /\ IsSeq(given)
  <2>1. e.answer.tags \in Seq(ToSet(e.answer.tags)) /\ given \in Seq(ToSet(given))
    BY <1>1
  <2> QED
    BY <2>1 DEF IsSeq
<1>4. IsSeq(e.answer.tags \o more)
  <2>1. IsSeq(more)
    <3> DEFINE w == Word("status/needs-review")
    <3>1. more = IF e.answer.review THEN <<w>> ELSE <<>>
      OBVIOUS
    <3> HIDE DEF w, more
    <3>2. IsSeq(<<w>>) /\ IsSeq(<<>>)
      BY Tuples DEF IsSeq
    <3> QED
      BY <3>1, <3>2
  <2> HIDE DEF more
  <2> QED
    BY <1>3, <2>1, PutTogether DEF PutOn
<1>5. IsSeq(RelatedKept(given))
  <2> DEFINE n == IF Len(given) < RelatedMax THEN Len(given) ELSE RelatedMax
  <2>1. Len(given) \in Nat /\ RelatedMax \in Nat
    BY <1>3, SeqIs, FrontmatterAssumption
  <2>2. n \in Nat /\ n <= Len(given) /\ 1 <= n + 1
    BY <2>1
  <2>3. RelatedKept(given) = SubSeq(given, 1, n)
    BY DEF RelatedKept
  <2> HIDE DEF n, given
  <2> QED
    BY <1>3, <2>2, <2>3, PartOf
<1>6. /\ r.lines = lines /\ r.tags = e.answer.tags \o more /\ r.related = RelatedKept(given) /\ r.fields = fields
  BY DEF RenderingOf
<1> HIDE DEF r
<1>7. Rendering(r)
  BY <1>2, <1>4, <1>5, <1>6 DEF Rendering
<1> QED
  BY <1>1, <1>6, <1>7 DEF r

\* What is made of an enrichment is what the renderer made and the guard let pass.
LEMMA EnrichedBy ==
    ASSUME NEW e, NEW after \in EnrichedNote(RawPath, e.file, e.answer, e.vocab)
    PROVE  \E fields :
              /\ after \in applyEnrichToFrontmatter(e.file,
                               e.answer.tags \o (IF e.answer.review THEN <<Word("status/needs-review")>> ELSE <<>>),
                               RelatedKept(e.answer.related), fields)
              /\ CheckEnrichContent(e.file, after, e.vocab)
<1> DEFINE fields == {"enriched_at", "enrich_run_id", "enrich_attempts"}
                         \cup (IF e.answer.route THEN {"route_suggestion"} ELSE {})
                         \cup (IF e.answer.candidates THEN {"new_tag_candidates"} ELSE {})
           stamps == [f \in fields |-> "this run"]
           tags == e.answer.tags \o (IF e.answer.review THEN <<Word("status/needs-review")>> ELSE <<>>)
           op(file) == [type |-> "rewrite_note", risk |-> "low", missing |-> {}, target |-> RawPath, hash |-> "sha256",
                        payload |-> [ok |-> TRUE, file |-> file]]
<1>1. PICK plan \in buildPlan(RawPath, e.file, e.answer) :
          CheckEnrichPlan(plan, RawPath, e.file, e.vocab) /\ after = plan.ops[1].payload.file
  BY DEF EnrichedNote
<1>2. PICK file \in applyEnrichToFrontmatter(e.file, tags, RelatedKept(e.answer.related), stamps) :
          plan = [risk |-> "low", approval |-> FALSE, status |-> "proposed", missing |-> {}, purpose |-> NoText,
                  targets |-> {RawPath}, ops |-> <<op(file)>>]
  BY <1>1, Zenon DEF buildPlan
<1>3. plan.ops[1].payload.file = file
  BY <1>2
<1>4. CheckEnrichContent(e.file, plan.ops[1].payload.file, e.vocab)
  BY <1>1 DEF CheckEnrichPlan
<1> HIDE DEF stamps
<1> QED
  BY <1>1, <1>2, <1>3, <1>4

EnrichInv ==
    request.kind = "enrich" =>
        /\ request.subject \in Enrichments
        /\ verdict = EnrichedNote(RawPath, request.subject.file, request.subject.answer, request.subject.vocab)

\* Once a note was enriched, the verdict is what is made of it.
LEMMA EnrichInvariant == Spec => []EnrichInv
<1>1. Init => EnrichInv
  BY DEF Init, Nothing, EnrichInv
<1>2. EnrichInv /\ [Next]_vars => EnrichInv'
  <2> SUFFICES ASSUME EnrichInv, [Next]_vars
               PROVE  EnrichInv'
    OBVIOUS
  <2>1. CASE FindWindow
    BY <2>1 DEF FindWindow, Ask, EnrichInv
  <2>2. CASE LoadSkills
    BY <2>2 DEF LoadSkills, Ask, EnrichInv
  <2>3. CASE Organize
    BY <2>3 DEF Organize, Ask, EnrichInv
  <2>4. CASE Expand
    BY <2>4 DEF Expand, Ask, EnrichInv
  <2>5. CASE CheckPlan
    BY <2>5 DEF CheckPlan, Ask, EnrichInv
  <2>6. CASE Enrich
    BY <2>6 DEF Enrich, Ask, EnrichInv
  <2>7. CASE Forget
    BY <2>7 DEF Forget, Nothing, EnrichInv
  <2>8. CASE UNCHANGED vars
    BY <2>8 DEF vars, EnrichInv
  <2> QED
    BY <2>1, <2>2, <2>3, <2>4, <2>5, <2>6, <2>7, <2>8 DEF Next
<1> QED
  BY <1>1, <1>2, PTL DEF Spec

\* However a note's frontmatter is laid out and whatever is added to it, what
\* the guard lets pass of what the renderer makes keeps the text, every key
\* and, but for links in brackets, every entry (enrich/render.go,
\* policy/enrich.go).
THEOREM UserFieldsAreKept == Spec => []EnrichKeepsUserFields
<1>1. EnrichInv => EnrichKeepsUserFields
  <2> SUFFICES ASSUME EnrichInv, request.kind = "enrich", NEW after \in verdict
               PROVE  LET before == request.subject.file
                      IN  /\ SplitFrontmatter(after).body = SplitFrontmatter(before).body
                          /\ KeysOf(before) \subseteq KeysOf(after)
                          /\ KeysOf(after) \subseteq KeysOf(before) \cup EnrichWritableFields
                          /\ \A key \in KeysOf(before) \ ToSet(privateKeyOrder) :
                                 LinksInBrackets(before) \/ EntriesOf(before, key) \subseteq EntriesOf(after, key)
    BY DEF EnrichKeepsUserFields
  <2> DEFINE e == request.subject
  <2>1. e \in Enrichments /\ after \in EnrichedNote(RawPath, e.file, e.answer, e.vocab)
    BY DEF EnrichInv
  <2> HIDE DEF e
  <2>2. PICK fields :
            /\ after \in applyEnrichToFrontmatter(e.file,
                             e.answer.tags \o (IF e.answer.review THEN <<Word("status/needs-review")>> ELSE <<>>),
                             RelatedKept(e.answer.related), fields)
            /\ CheckEnrichContent(e.file, after, e.vocab)
    BY <2>1, EnrichedBy
  <2> DEFINE r == RenderingOf(e.file, e.answer, fields)
  <2>3. /\ Rendering(r) /\ e.file = [plain |-> e.file.plain, lines |-> r.lines]
        /\ r.tags = e.answer.tags \o (IF e.answer.review THEN <<Word("status/needs-review")>> ELSE <<>>)
        /\ r.related = RelatedKept(e.answer.related) /\ r.fields = fields /\ r.lines = e.file.lines
    BY <2>1, IsRendering
  <2> HIDE DEF r
  <2>4. after \in applyEnrichToFrontmatter(e.file, r.tags, r.related, r.fields)
    BY <2>2, <2>3
  <2>5. /\ SplitFrontmatter(after).body = SplitFrontmatter(e.file).body
        /\ KeysOf(e.file) \subseteq KeysOf(after)
        /\ KeysOf(after) \subseteq KeysOf(e.file) \cup EnrichWritableFields
        /\ \A key \in KeysOf(e.file) \ ToSet(privateKeyOrder) :
               LinksInBrackets(e.file) \/ EntriesOf(e.file, key) \subseteq EntriesOf(after, key)
    BY <2>2, <2>3, <2>4, RenderedKeepsFields
  <2> QED
    BY <2>5 DEF e
<1> QED
  BY <1>1, EnrichInvariant, PTL

-----------------------------------------------------------------------------
(***************************************************************************)
(* Notes as this program writes them: what is rendered passes the guard.   *)
(***************************************************************************)
\* A list among lines that are added, whichever place it has: its items, and
\* then the next key or the end.
ListThere(t, key, entries) ==
    \A x \in 1..Len(t) : IsTopKey(t[x]) /\ t[x].key = key =>
        /\ t[x].style = "none" /\ x + Len(entries) <= Len(t)
        /\ \A j \in 1..Len(entries) :
              t[x + j].kind = "item" /\ t[x + j].items[1].entry = WriteEntry(entries[j]).entry
        /\ x + Len(entries) = Len(t) \/ IsTopKey(t[(x + Len(entries)) + 1])

\* Lines that are none, or begin with a key.
BeginsWithKey(t) == Len(t) = 0 \/ IsTopKey(t[1])

\* Two such parts put together.
LEMMA ThereTogether ==
    ASSUME NEW s, IsSeq(s), BeginsWithKey(s), NEW t, IsSeq(t), BeginsWithKey(t), NEW key, NEW entries, IsSeq(entries),
           ListThere(s, key, entries), ListThere(t, key, entries)
    PROVE  BeginsWithKey(PutOn(s, t)) /\ ListThere(PutOn(s, t), key, entries) /\ IsSeq(PutOn(s, t))
<1> DEFINE all == PutOn(s, t)
           l == Len(s)
           m == Len(t)
           k == Len(entries)
<1>1. /\ IsSeq(all) /\ l \in Nat /\ m \in Nat /\ Len(all) = l + m
      /\ \A i \in 1..l : all[i] = s[i]
      /\ \A i \in (l + 1)..(l + m) : all[i] = t[i - l]
  BY PutTogether
<1>2. k \in Nat
  BY SeqIs
<1> HIDE DEF all, l, m, k
<1>3. \A i \in 1..m : all[l + i] = t[i]
  <2> TAKE i \in 1..m
  <2>1. l + i \in (l + 1)..(l + m) /\ (l + i) - l = i
    BY <1>1
  <2> QED
    BY <1>1, <2>1
<1>4. m = 0 \/ IsTopKey(all[l + 1])
  <2>1. m = 0 \/ (1 \in 1..m /\ IsTopKey(t[1]))
    BY <1>1 DEF BeginsWithKey, m
  <2> QED
    BY <1>3, <2>1
<1>5. BeginsWithKey(all)
  <2>1. CASE l = 0
    BY <1>1, <1>4, <2>1 DEF BeginsWithKey
  <2>2. CASE l # 0
    <3>1. IsTopKey(s[1]) /\ 1 \in 1..l
      BY <1>1, <2>2 DEF BeginsWithKey, l
    <3> QED
      BY <1>1, <3>1 DEF BeginsWithKey
  <2> QED
    BY <2>1, <2>2
<1>6. ASSUME NEW x \in 1..Len(all), IsTopKey(all[x]) /\ all[x].key = key
      PROVE  /\ all[x].style = "none" /\ x + k <= Len(all)
             /\ \A j \in 1..k : all[x + j].kind = "item" /\ all[x + j].items[1].entry = WriteEntry(entries[j]).entry
             /\ x + k = Len(all) \/ IsTopKey(all[(x + k) + 1])
  <2>1. CASE x \in 1..l
    <3>1. all[x] = s[x]
      BY <1>1, <2>1
    <3>2. /\ s[x].style = "none" /\ x + k <= l
          /\ \A j \in 1..k : s[x + j].kind = "item" /\ s[x + j].items[1].entry = WriteEntry(entries[j]).entry
          /\ x + k = l \/ IsTopKey(s[(x + k) + 1])
      BY <1>6, <2>1, <3>1 DEF ListThere, l, k
    <3>3. \A j \in 1..k : all[x + j] = s[x + j]
      <4> TAKE j \in 1..k
      <4>1. x + j \in 1..l
        BY <1>1, <1>2, <2>1, <3>2
      <4> QED
        BY <1>1, <4>1
    <3>4. x + k = Len(all) \/ IsTopKey(all[(x + k) + 1])
      <4>1. CASE x + k = l
        BY <1>1, <1>4, <4>1
      <4>2. CASE x + k # l
        <5>1. (x + k) + 1 \in 1..l
          <6>1. x \in 1..l /\ l \in Nat /\ k \in Nat /\ x + k <= l /\ x + k # l
            BY <1>1, <1>2, <2>1, <3>2, <4>2
          <6> QED
            BY ONLY <6>1
        <5> QED
          BY <1>1, <3>2, <4>2, <5>1
      <4> QED
        BY <4>1, <4>2
    <3>5. x + k <= Len(all)
      BY <1>1, <1>2, <2>1, <3>2
    <3> QED
      BY <3>1, <3>2, <3>3, <3>4, <3>5
  <2>2. CASE x \notin 1..l
    <3> DEFINE y == x - l
    <3>1. y \in 1..m /\ l + y = x
      BY <1>1, <2>2
    <3>2. all[x] = t[y]
      BY <1>3, <3>1
    <3> HIDE DEF y
    <3>3. /\ t[y].style = "none" /\ y + k <= m
          /\ \A j \in 1..k : t[y + j].kind = "item" /\ t[y + j].items[1].entry = WriteEntry(entries[j]).entry
          /\ y + k = m \/ IsTopKey(t[(y + k) + 1])
      BY <1>6, <3>1, <3>2 DEF ListThere, m, k
    <3>4. \A j \in 1..k : all[x + j] = t[y + j]
      <4> TAKE j \in 1..k
      <4>1. y + j \in 1..m /\ l + (y + j) = x + j
        BY <1>1, <1>2, <3>1, <3>3
      <4>2. all[l + (y + j)] = t[y + j]
        BY <1>3, <4>1
      <4> QED
        BY <4>1, <4>2
    <3>5. x + k = Len(all) \/ IsTopKey(all[(x + k) + 1])
      <4>1. CASE y + k = m
        BY <1>1, <1>2, <3>1, <4>1
      <4>2. CASE y + k # m
        <5>1. (y + k) + 1 \in 1..m /\ l + ((y + k) + 1) = (x + k) + 1
          BY <1>1, <1>2, <3>1, <3>3, <4>2
        <5>2. all[l + ((y + k) + 1)] = t[(y + k) + 1]
          BY <1>3, <5>1
        <5> QED
          BY <3>3, <4>2, <5>1, <5>2
      <4> QED
        BY <4>1, <4>2
    <3>6. x + k <= Len(all)
      BY <1>1, <1>2, <3>1, <3>3
    <3> QED
      BY <3>2, <3>3, <3>4, <3>5, <3>6
  <2> QED
    BY <2>1, <2>2
<1>7. ListThere(all, key, entries)
  BY <1>6 DEF ListThere, k
<1> QED
  BY <1>1, <1>5, <1>7 DEF all

\* A list that is added.
LEMMA AddedListThere ==
    ASSUME NEW lines, NEW key, NEW entries, IsSeq(entries)
    PROVE  LET t == AddedList(lines, key, entries)
           IN  /\ IsSeq(t) /\ BeginsWithKey(t) /\ ListThere(t, key, entries)
               /\ \A other, more : other # key => ListThere(t, other, more)
<1> DEFINE t == AddedList(lines, key, entries)
<1>1. CASE MissingKey(lines, key) /\ entries # <<>>
  <2>1. t = emitListBlock(key, entries)
    BY <1>1 DEF AddedList
  <2>2. ListLines(t, key, entries)
    BY <2>1, WrittenList
  <2>3. Len(entries) \in Nat /\ Len(entries) # 0
    BY <1>1, SeqIs DEF IsSeq
  <2> HIDE DEF t
  <2>4. /\ IsSeq(t) /\ Len(t) = Len(entries) + 1
        /\ t[1].kind = "key" /\ ~t[1].indent /\ t[1].key = key /\ t[1].style = "none"
        /\ \A j \in 1..Len(entries) : t[j + 1].kind = "item" /\ t[j + 1].items[1].entry = WriteEntry(entries[j]).entry
    BY <2>2, <2>3 DEF ListLines
  <2>5. ASSUME NEW x \in 1..Len(t), IsTopKey(t[x])
        PROVE  x = 1
    <3>1. x = 1 \/ (x - 1 \in 1..Len(entries) /\ (x - 1) + 1 = x)
      BY <2>3, <2>4
    <3>2. x = 1 \/ t[x].kind = "item"
      BY <2>4, <3>1
    <3> QED
      BY <2>5, <3>2 DEF IsTopKey
  <2>6. \A j \in 1..Len(entries) : j + 1 = 1 + j
    BY <2>3
  <2>7. 1 + Len(entries) <= Len(t) /\ 1 + Len(entries) = Len(t)
    BY <2>3, <2>4
  <2>8. ListThere(t, key, entries)
    BY <2>4, <2>5, <2>6, <2>7 DEF ListThere
  <2>9. \A other, more : other # key => ListThere(t, other, more)
    BY <2>4, <2>5 DEF ListThere
  <2> QED
    BY <2>4, <2>8, <2>9 DEF t, BeginsWithKey, IsTopKey
<1>2. CASE ~(MissingKey(lines, key) /\ entries # <<>>)
  <2>1. t = <<>>
    BY <1>2 DEF AddedList
  <2>2. Len(t) = 0 /\ IsSeq(t) /\ 1..Len(t) = {}
    BY <2>1 DEF IsSeq
  <2> QED
    BY <2>2 DEF t, BeginsWithKey, ListThere
<1> QED
  BY <1>1, <1>2

\* What is added has the lists as they should be, and begins with a key.
LEMMA AddedLists ==
    ASSUME NEW e, Rendering(e), NEW lines
    PROVE  LET t == AddedLines(lines, e)
           IN  BeginsWithKey(t) /\ \A key \in {"tags", "related"} : ListThere(t, key, Additions(key, e.tags, e.related))
<1> DEFINE x == AddedList(lines, "tags", e.tags)
           y == AddedList(lines, "related", e.related)
           z == AddedFields(lines, e.fields)
           t == AddedLines(lines, e)
<1>1. IsSeq(e.tags) /\ IsSeq(e.related)
  BY DEF Rendering
<1>2. /\ IsSeq(x) /\ BeginsWithKey(x) /\ ListThere(x, "tags", e.tags) /\ ListThere(x, "related", e.related)
      /\ IsSeq(y) /\ BeginsWithKey(y) /\ ListThere(y, "tags", e.tags) /\ ListThere(y, "related", e.related)
  BY <1>1, AddedListThere
<1>3. IsSeq(z) /\ Len(z) \in Nat /\ \A i \in 1..Len(z) : IsTopKey(z[i]) /\ z[i].key \in ToSet(privateKeyOrder)
  BY FieldLinesAdded
<1>4. "tags" \notin ToSet(privateKeyOrder) /\ "related" \notin ToSet(privateKeyOrder)
  BY DEF privateKeyOrder, ToSet
<1> HIDE DEF x, y, z
<1>5. BeginsWithKey(z)
  BY <1>3 DEF BeginsWithKey
<1>6. ListThere(z, "tags", e.tags) /\ ListThere(z, "related", e.related)
  BY <1>3, <1>4 DEF ListThere
<1>7. /\ IsSeq(PutOn(x, y)) /\ BeginsWithKey(PutOn(x, y))
      /\ ListThere(PutOn(x, y), "tags", e.tags) /\ ListThere(PutOn(x, y), "related", e.related)
  BY <1>1, <1>2, ThereTogether
<1>8. t = PutOn(PutOn(x, y), z)
  BY DEF AddedLines, x, y, z
<1>9. BeginsWithKey(t) /\ ListThere(t, "tags", e.tags) /\ ListThere(t, "related", e.related)
  <2> HIDE DEF t
  <2> QED
    BY <1>1, <1>3, <1>5, <1>6, <1>7, <1>8, ThereTogether
<1> QED
  BY <1>9 DEF Additions

\* A block in which blank lines end nothing, and what the renderer made of it.
Laid(e, inner, off, f, t, after) ==
    LET pieces == Pieces(inner, e.tags, e.related, e.fields)
        n == Len(inner)
    IN  /\ NoteLines(inner) /\ n \in Nat \ {0} /\ \A i \in 1..n : inner[i] # Blank
        /\ OnlyItems(inner) /\ \A i \in 1..n : inner[i].key \in {"tags", "related"} => inner[i].style = "none"
        /\ \A i \in 1..n : PieceFits(inner, e.tags, e.related, i, pieces[i])
        /\ Places(off, f, pieces, n) /\ AddedFits(inner, t)
        /\ BeginsWithKey(t) /\ \A key \in {"tags", "related"} : ListThere(t, key, Additions(key, e.tags, e.related))
        /\ IsSeq(after) /\ Len(after) = Len(f) + Len(t)
        /\ \A i \in 1..Len(f) : after[i] = f[i]
        /\ \A i \in 1..Len(t) : after[Len(f) + i] = t[i]
        /\ IsSeq(e.tags) /\ IsSeq(e.related) /\ DOMAIN e.fields \subseteq ToSet(privateKeyOrder)

\* Its pieces.
PiecesOf(e, inner) == Pieces(inner, e.tags, e.related, e.fields)

\* Where the pieces stand, and what was added.
StandAt(p, n, off, f, t, after) ==
    /\ n \in Nat \ {0} /\ IsSeq(after) /\ Len(f) \in Nat /\ Len(t) \in Nat /\ Len(after) = Len(f) + Len(t)
    /\ \A i \in 1..n : off[i] \in Nat /\ Len(p[i]) \in Nat /\ off[i] + Len(p[i]) <= Len(f)
    /\ \A i \in 1..n : \A j \in 1..Len(p[i]) : off[i] + j \in 1..Len(f) /\ after[off[i] + j] = p[i][j]
    /\ \A h, i \in 1..n : h < i => off[h] + Len(p[h]) <= off[i]
    /\ \A x \in 1..Len(f) : \E i \in 1..n : \E j \in 1..Len(p[i]) : x = off[i] + j
    /\ \A i \in 1..Len(t) : after[Len(f) + i] = t[i]

\* What is laid out so, named.
LEMMA LaidParts ==
    ASSUME NEW e, NEW inner, NEW off, NEW f, NEW t, NEW after, Laid(e, inner, off, f, t, after)
    PROVE  LET p == PiecesOf(e, inner)
               n == Len(inner)
           IN  /\ NoteLines(inner) /\ IsSeq(inner) /\ StandAt(p, n, off, f, t, after)
               /\ \A i \in 1..n : /\ p[i] = PieceOf(inner, e.tags, e.related, e.fields, i)
                                  /\ PieceFits(inner, e.tags, e.related, i, p[i])
<1> DEFINE p == PiecesOf(e, inner)
           n == Len(inner)
<1>1. /\ NoteLines(inner) /\ n \in Nat \ {0}
      /\ \A i \in 1..n : PieceFits(inner, e.tags, e.related, i, p[i])
      /\ Places(off, f, p, n) /\ AddedFits(inner, t)
      /\ IsSeq(after) /\ Len(after) = Len(f) + Len(t)
      /\ \A i \in 1..Len(f) : after[i] = f[i]
      /\ \A i \in 1..Len(t) : after[Len(f) + i] = t[i]
  BY Zenon DEF Laid, PiecesOf
<1>2. IsSeq(inner) /\ DOMAIN inner = 1..n
  BY <1>1, SeqIs DEF NoteLines
<1>3. \A i \in 1..n : p[i] = PieceOf(inner, e.tags, e.related, e.fields, i)
  BY <1>2 DEF PiecesOf, Pieces
<1> HIDE DEF p, n
<1>4. /\ Len(f) \in Nat /\ Len(t) \in Nat
      /\ \A i \in 1..n : off[i] \in Nat /\ Len(p[i]) \in Nat /\ off[i] + Len(p[i]) <= Len(f)
      /\ \A i \in 1..n : \A j \in 1..Len(p[i]) : f[off[i] + j] = p[i][j]
      /\ \A h, i \in 1..n : h < i => off[h] + Len(p[h]) <= off[i]
      /\ \A x \in 1..Len(f) : \E i \in 1..n : off[i] < x /\ x <= off[i] + Len(p[i])
  BY <1>1 DEF Places, AddedFits, PieceFits
<1>5. \A i \in 1..n : \A j \in 1..Len(p[i]) : off[i] + j \in 1..Len(f) /\ after[off[i] + j] = p[i][j]
  <2> TAKE i \in 1..n
  <2> TAKE j \in 1..Len(p[i])
  <2>1. off[i] \in Nat /\ Len(p[i]) \in Nat /\ off[i] + Len(p[i]) <= Len(f) /\ Len(f) \in Nat
    BY <1>4
  <2>2. off[i] + j \in 1..Len(f)
    BY <2>1
  <2> QED
    BY <1>1, <1>4, <2>2
<1>6. \A x \in 1..Len(f) : \E i \in 1..n : \E j \in 1..Len(p[i]) : x = off[i] + j
  <2> TAKE x \in 1..Len(f)
  <2>1. PICK i \in 1..n : off[i] < x /\ x <= off[i] + Len(p[i])
    BY <1>4
  <2>2. x - off[i] \in 1..Len(p[i]) /\ x = off[i] + (x - off[i])
    <3>1. off[i] \in Nat /\ Len(p[i]) \in Nat
      BY <1>4
    <3> QED
      BY <2>1, <3>1
  <2> QED
    BY <2>2
<1>7. StandAt(p, n, off, f, t, after)
  BY <1>1, <1>4, <1>5, <1>6 DEF StandAt
<1> QED
  BY <1>1, <1>2, <1>3, <1>7 DEF p, n

\* The pieces stand side by side.
LEMMA SideBySide ==
    ASSUME NEW e, NEW inner, NEW off, NEW f, NEW t, NEW after, Laid(e, inner, off, f, t, after)
    PROVE  LET p == PiecesOf(e, inner)
               n == Len(inner)
           IN  /\ \A i \in 1..n : i # n => off[i] + Len(p[i]) = off[i + 1]
               /\ off[n] + Len(p[n]) = Len(f)
<1> DEFINE p == PiecesOf(e, inner)
           n == Len(inner)
           end(i) == off[i] + Len(p[i])
<1>1. StandAt(p, n, off, f, t, after)
  BY LaidParts
<1> HIDE DEF p, n
<1>2. /\ n \in Nat \ {0} /\ Len(f) \in Nat
      /\ \A i \in 1..n : off[i] \in Nat /\ Len(p[i]) \in Nat /\ off[i] + Len(p[i]) <= Len(f)
      /\ \A h, i \in 1..n : h < i => off[h] + Len(p[h]) <= off[i]
      /\ \A x \in 1..Len(f) : \E i \in 1..n : \E j \in 1..Len(p[i]) : x = off[i] + j
  BY <1>1 DEF StandAt
<1> HIDE DEF p, n
\* A place that no piece has.
<1>3. ASSUME NEW i \in 1..n, end(i) + 1 <= Len(f), \A h \in 1..n : h > i => end(i) + 1 <= off[h]
      PROVE  FALSE
  <2>1. end(i) + 1 \in 1..Len(f)
    BY <1>2, <1>3
  <2>2. PICK h \in 1..n : \E j \in 1..Len(p[h]) : end(i) + 1 = off[h] + j
    BY <1>2, <2>1
  <2>3. PICK j \in 1..Len(p[h]) : end(i) + 1 = off[h] + j
    BY <2>2
  <2>4. off[h] \in Nat /\ Len(p[h]) \in Nat /\ off[i] \in Nat /\ Len(p[i]) \in Nat
    BY <1>2
  <2>5. CASE h > i
    <3>1. end(i) + 1 <= off[h]
      BY <1>3, <2>5
    <3> QED
      BY <2>3, <2>4, <3>1
  <2>6. CASE h < i
    <3>1. off[h] + Len(p[h]) <= off[i]
      BY <1>2, <2>6
    <3>2. off[h] + j <= off[i]
      BY <2>4, <3>1
    <3> QED
      BY <2>3, <2>4, <3>2
  <2>7. CASE h = i
    BY <2>3, <2>4, <2>7
  <2> QED
    BY <2>5, <2>6, <2>7
<1>4. ASSUME NEW i \in 1..n, i # n
      PROVE  end(i) = off[i + 1]
  <2>1. i + 1 \in 1..n /\ i < i + 1
    BY <1>2, <1>4
  <2>2. end(i) <= off[i + 1] /\ end(i) \in Nat /\ off[i + 1] \in Nat /\ off[i + 1] <= Len(f)
    <3>1. off[i] \in Nat /\ Len(p[i]) \in Nat /\ off[i + 1] \in Nat /\ Len(p[i + 1]) \in Nat /\ off[i + 1] + Len(p[i + 1]) <= Len(f)
      BY <1>2, <2>1
    <3>2. end(i) <= off[i + 1]
      BY <1>2, <2>1
    <3> QED
      <4>1. Len(f) \in Nat
        BY <1>2
      <4> QED
        BY ONLY <3>1, <3>2, <4>1
  <2>3. ASSUME end(i) # off[i + 1]
        PROVE  FALSE
    <3>1. end(i) + 1 <= off[i + 1] /\ end(i) + 1 <= Len(f)
      BY <1>2, <2>2, <2>3
    <3>2. ASSUME NEW h \in 1..n, h > i
          PROVE  end(i) + 1 <= off[h]
      <4>1. CASE h = i + 1
        BY <3>1, <4>1
      <4>2. CASE h # i + 1
        <5>1. i + 1 < h
          BY <1>2, <3>2, <4>2
        <5>2. off[i + 1] + Len(p[i + 1]) <= off[h] /\ off[h] \in Nat /\ Len(p[i + 1]) \in Nat
          BY <1>2, <2>1, <5>1
        <5> QED
          BY <2>2, <3>1, <5>2
      <4> QED
        BY <4>1, <4>2
    <3> QED
      BY <1>3, <3>1, <3>2
  <2> QED
    BY <2>3
<1>5. end(n) = Len(f)
  <2>1. n \in 1..n /\ \A h \in 1..n : ~(h > n)
    BY <1>2
  <2>2. end(n) <= Len(f) /\ end(n) \in Nat
    BY <1>2, <2>1
  <2>3. ~(end(n) + 1 <= Len(f))
    BY <1>3, <2>1
  <2> QED
    BY <1>2, <2>2, <2>3
<1> QED
  BY <1>4, <1>5 DEF p, n

\* Where a block ended, what was made of it ends, too.
LEMMA EndsBeforeKey ==
    ASSUME NEW e, NEW inner, NEW off, NEW f, NEW t, NEW after, Laid(e, inner, off, f, t, after),
           NEW z \in 1..Len(inner), z = Len(inner) \/ IsTopKey(inner[z + 1])
    PROVE  LET y == off[z] + Len(PiecesOf(e, inner)[z])
           IN  y \in 0..Len(after) /\ (y = Len(after) \/ IsTopKey(after[y + 1]))
<1> DEFINE p == PiecesOf(e, inner)
           n == Len(inner)
           y == off[z] + Len(p[z])
<1>1. StandAt(p, n, off, f, t, after)
  BY LaidParts
<1> HIDE DEF p, n
<1>2. /\ n \in Nat \ {0} /\ Len(f) \in Nat /\ Len(t) \in Nat /\ Len(after) = Len(f) + Len(t)
      /\ \A i \in 1..n : off[i] \in Nat /\ Len(p[i]) \in Nat /\ off[i] + Len(p[i]) <= Len(f)
      /\ \A i \in 1..n : \A j \in 1..Len(p[i]) : off[i] + j \in 1..Len(f) /\ after[off[i] + j] = p[i][j]
      /\ \A i \in 1..Len(t) : after[Len(f) + i] = t[i]
  BY <1>1 DEF StandAt
<1> USE DEF p, n
<1>3. \A i \in 1..n : PieceFits(inner, e.tags, e.related, i, p[i])
  BY LaidParts DEF p, n
<1>4. /\ \A i \in 1..n : i # n => off[i] + Len(p[i]) = off[i + 1]
      /\ off[n] + Len(p[n]) = Len(f)
  BY SideBySide
<1> HIDE DEF p
<1>5. y \in 0..Len(after)
  BY <1>2
<1>6. CASE z = n
  <2>1. y = Len(f)
    BY <1>4, <1>6
  <2>2. Len(t) = 0 \/ (1 \in 1..Len(t) /\ IsTopKey(t[1]))
    BY <1>2 DEF Laid, BeginsWithKey
  <2>3. Len(t) = 0 \/ IsTopKey(after[Len(f) + 1])
    BY <1>2, <2>2
  <2> QED
    BY <1>2, <1>5, <2>1, <2>3 DEF p
<1>7. CASE z # n
  <2>1. z + 1 \in 1..n /\ IsTopKey(inner[z + 1]) /\ y = off[z + 1]
    BY <1>2, <1>4, <1>7
  <2>2. 1 \in 1..Len(p[z + 1]) /\ IsTopKey(p[z + 1][1])
    BY <1>2, <1>3, <2>1 DEF PieceFits
  <2>3. after[off[z + 1] + 1] = p[z + 1][1]
    BY <1>2, <2>1, <2>2
  <2>4. IsTopKey(after[y + 1])
    BY <2>1, <2>2, <2>3
  <2> QED
    BY <1>5, <2>4 DEF p
<1> QED
  BY <1>6, <1>7

\* A key of what was made of a block: of which line it is.
LEMMA KeyIsFrom ==
    ASSUME NEW e, NEW inner, NEW off, NEW f, NEW t, NEW after, Laid(e, inner, off, f, t, after),
           NEW w \in 1..Len(after), IsTopKey(after[w])
    PROVE  \/ \E i \in 1..Len(inner) : w = off[i] + 1 /\ IsTopKey(inner[i]) /\ inner[i].key = after[w].key
           \/ /\ w - Len(f) \in 1..Len(t) /\ after[w] = t[w - Len(f)]
              /\ MissingKey(inner, after[w].key) /\ after[w].key \in EnrichWritableFields
<1> DEFINE p == PiecesOf(e, inner)
           n == Len(inner)
<1>1. StandAt(p, n, off, f, t, after)
  BY LaidParts
<1> HIDE DEF p, n
<1>2. /\ n \in Nat \ {0} /\ Len(f) \in Nat /\ Len(t) \in Nat /\ Len(after) = Len(f) + Len(t)
      /\ \A i \in 1..n : off[i] \in Nat /\ Len(p[i]) \in Nat /\ off[i] + Len(p[i]) <= Len(f)
      /\ \A i \in 1..n : \A j \in 1..Len(p[i]) : off[i] + j \in 1..Len(f) /\ after[off[i] + j] = p[i][j]
      /\ \A x \in 1..Len(f) : \E i \in 1..n : \E j \in 1..Len(p[i]) : x = off[i] + j
      /\ \A i \in 1..Len(t) : after[Len(f) + i] = t[i]
  BY <1>1 DEF StandAt
<1>3. w \in 1..Len(f) \/ (w - Len(f) \in 1..Len(t) /\ Len(f) + (w - Len(f)) = w)
  BY <1>2
<1>4. w - Len(f) \in 1..Len(t) => after[Len(f) + (w - Len(f))] = t[w - Len(f)]
  BY <1>2
<1>5. \A i \in 1..n : PieceFits(inner, e.tags, e.related, i, p[i])
  BY LaidParts DEF p, n
<1>6. AddedFits(inner, t)
  BY Zenon DEF Laid
<1> HIDE DEF p, n
<1>7. CASE w \in 1..Len(f)
  <2>1. PICK i \in 1..n : \E j \in 1..Len(p[i]) : w = off[i] + j
    BY <1>2, <1>7
  <2>2. PICK j \in 1..Len(p[i]) : w = off[i] + j
    BY <2>1
  <2>3. after[w] = p[i][j]
    BY <1>2, <2>2
  <2>4. j = 1 /\ IsTopKey(inner[i]) /\ p[i][j].key = inner[i].key
    BY <1>5, <2>3 DEF PieceFits
  <2> QED
    BY <2>2, <2>3, <2>4 DEF n
<1>8. CASE w - Len(f) \in 1..Len(t) /\ after[w] = t[w - Len(f)]
  BY <1>6, <1>8 DEF AddedFits
<1> QED
  BY <1>7, <1>8, <1>3, <1>4

\* The field of a key is where it was put.
LEMMA FieldMoves ==
    ASSUME NEW e, NEW inner, NEW off, NEW f, NEW t, NEW after, Laid(e, inner, off, f, t, after),
           NEW key, NEW s, NEW z, KeyAt(inner, key, s), FieldTo(inner, s, z)
    PROVE  /\ KeyAt(after, key, off[s] + 1) /\ FieldTo(after, off[s] + 1, off[z] + Len(PiecesOf(e, inner)[z]))
           /\ off[z] + Len(PiecesOf(e, inner)[z]) <= Len(f)
<1> DEFINE p == PiecesOf(e, inner)
           n == Len(inner)
           x == off[s] + 1
           y == off[z] + Len(p[z])
<1>1. StandAt(p, n, off, f, t, after)
  BY LaidParts
<1> HIDE DEF p, n
<1>2. /\ n \in Nat \ {0} /\ Len(f) \in Nat /\ Len(t) \in Nat /\ Len(after) = Len(f) + Len(t)
      /\ \A i \in 1..n : off[i] \in Nat /\ Len(p[i]) \in Nat /\ off[i] + Len(p[i]) <= Len(f)
      /\ \A i \in 1..n : \A j \in 1..Len(p[i]) : off[i] + j \in 1..Len(f) /\ after[off[i] + j] = p[i][j]
      /\ \A h, i \in 1..n : h < i => off[h] + Len(p[h]) <= off[i]
  BY <1>1 DEF StandAt
<1> USE DEF p, n
<1>3. \A i \in 1..n : PieceFits(inner, e.tags, e.related, i, p[i])
  BY LaidParts DEF p, n
<1>4. /\ s \in 1..n /\ IsTopKey(inner[s]) /\ inner[s].key = key
      /\ \A i \in (s + 1)..n : ~(IsTopKey(inner[i]) /\ inner[i].key = key)
      /\ z \in s..n /\ (\A i \in (s + 1)..z : ~IsTopKey(inner[i])) /\ (z = n \/ IsTopKey(inner[z + 1]))
  BY DEF KeyAt, FieldTo
<1>5. y \in 0..Len(after) /\ (y = Len(after) \/ IsTopKey(after[y + 1]))
  <2>1. z \in 1..Len(inner)
    BY <1>2, <1>4
  <2> QED
    BY <1>4, <2>1, EndsBeforeKey
<1>6. ASSUME NEW w \in 1..Len(after), IsTopKey(after[w])
      PROVE  \/ \E i \in 1..n : w = off[i] + 1 /\ IsTopKey(inner[i]) /\ inner[i].key = after[w].key
             \/ w > Len(f) /\ MissingKey(inner, after[w].key)
  <2>1. \/ \E i \in 1..Len(inner) : w = off[i] + 1 /\ IsTopKey(inner[i]) /\ inner[i].key = after[w].key
        \/ w - Len(f) \in 1..Len(t) /\ MissingKey(inner, after[w].key)
    BY <1>6, KeyIsFrom
  <2>2. w - Len(f) \in 1..Len(t) => w > Len(f)
    BY <1>2
  <2> QED
    BY <2>1, <2>2
<1> HIDE DEF p
<1>7. 1 \in 1..Len(p[s]) /\ IsTopKey(p[s][1]) /\ p[s][1].key = key
  BY <1>2, <1>3, <1>4 DEF PieceFits
<1>8. x \in 1..Len(after) /\ after[x] = p[s][1] /\ x \in 1..Len(f)
  <2>1. off[s] + 1 \in 1..Len(f) /\ after[off[s] + 1] = p[s][1]
    BY <1>2, <1>4, <1>7
  <2> QED
    BY <1>2, <2>1
<1>9. ~MissingKey(inner, key)
  <2>1. DOMAIN inner = 1..n
    BY LaidParts, SeqIs
  <2> QED
    BY <1>4, <2>1 DEF MissingKey
\* The places of other keys.
<1>10. ASSUME NEW i \in 1..n, i < s
      PROVE  off[i] + 1 < x \/ ~IsTopKey(inner[i])
  <2>1. off[i] + Len(p[i]) <= off[s] /\ off[i] \in Nat /\ Len(p[i]) \in Nat /\ off[s] \in Nat
    BY <1>2, <1>4, <1>10
  <2>2. IsTopKey(inner[i]) => Len(p[i]) >= 1
    BY <1>3 DEF PieceFits
  <2> QED
    BY <2>1, <2>2
<1>11. ASSUME NEW w \in (x + 1)..Len(after), IsTopKey(after[w]) /\ after[w].key = key
       PROVE  FALSE
  <2>1. w \in 1..Len(after) /\ w > x
    BY <1>2, <1>4, <1>8
  <2>2. PICK i \in 1..n : w = off[i] + 1 /\ IsTopKey(inner[i]) /\ inner[i].key = key
    BY <1>6, <1>9, <1>11, <2>1
  <2>3. i \notin (s + 1)..n /\ off[i] \in Nat
    BY <1>2, <1>4, <2>2
  <2>4. CASE i = s
    BY <1>8, <2>1, <2>2, <2>4
  <2>5. CASE i < s
    BY <1>8, <1>10, <2>1, <2>2, <2>3, <2>5
  <2> QED
    BY <1>2, <1>4, <2>3, <2>4, <2>5
<1>12. x <= y /\ y <= Len(f)
  <2>1. off[s] \in Nat /\ off[z] \in Nat /\ Len(p[s]) \in Nat /\ Len(p[z]) \in Nat /\ z \in 1..n /\ Len(p[s]) >= 1
        /\ off[z] + Len(p[z]) <= Len(f)
    BY <1>2, <1>4, <1>7
  <2>2. s = z \/ off[s] + Len(p[s]) <= off[z]
    BY <1>2, <1>4, <2>1
  <2> QED
    BY <2>1, <2>2
<1>13. ASSUME NEW w \in (x + 1)..y, IsTopKey(after[w])
       PROVE  FALSE
  <2>1. w \in 1..Len(after) /\ w > x /\ w <= y /\ ~(w > Len(f))
    BY <1>2, <1>5, <1>8, <1>12
  <2>2. PICK i \in 1..n : w = off[i] + 1 /\ IsTopKey(inner[i])
    BY <1>6, <1>13, <2>1
  <2>3. i \notin (s + 1)..z /\ off[i] \in Nat
    BY <1>2, <1>4, <2>2
  <2>4. CASE i = s
    BY <1>8, <2>1, <2>2, <2>4
  <2>5. CASE i < s
    BY <1>8, <1>10, <2>1, <2>2, <2>3, <2>5
  <2>6. CASE i > z
    <3>1. z \in 1..n /\ z < i
      BY <1>2, <1>4, <2>6
    <3>2. y <= off[i]
      BY <1>2, <3>1
    <3> HIDE DEF y
    <3> QED
      BY <1>5, <2>1, <2>2, <2>3, <3>2
  <2> QED
    BY <1>2, <1>4, <2>3, <2>4, <2>5, <2>6
<1> HIDE DEF x, y
<1>14. KeyAt(after, key, x)
  BY <1>7, <1>8, <1>11 DEF KeyAt
<1>15. FieldTo(after, x, y)
  <2>1. y \in x..Len(after)
    BY <1>5, <1>8, <1>12
  <2> QED
    BY <1>5, <1>13, <2>1 DEF FieldTo
<1> QED
  BY <1>12, <1>14, <1>15 DEF x, y, p

\* Sequences with the same elements.
LEMMA SameSeq ==
    ASSUME NEW a, IsSeq(a), NEW b, IsSeq(b), Len(a) = Len(b), \A i \in 1..Len(a) : a[i] = b[i]
    PROVE  a = b
<1>1. PICK S : a \in Seq(S)
  BY DEF IsSeq
<1>2. PICK T : b \in Seq(T)
  BY DEF IsSeq
<1>3. a \in Seq(S \cup T) /\ b \in Seq(S \cup T)
  BY <1>1, <1>2
<1> QED
  BY <1>3

\* The lines of a field belong to its key.
LEMMA KeyOfField ==
    ASSUME NEW inner, IsSeq(inner), \A i \in 1..Len(inner) : inner[i] # Blank,
           NEW key, NEW s, NEW z, KeyAt(inner, key, s), FieldTo(inner, s, z), NEW i \in s..z
    PROVE  BlockKey(inner, i) = s
<1> DEFINE S == {k \in 1..i : IsTopKey(inner[k]) /\ \A j \in (k + 1)..i : ~IsTopKey(inner[j]) /\ inner[j] # Blank}
<1>1. /\ Len(inner) \in Nat /\ s \in 1..Len(inner) /\ z \in s..Len(inner) /\ IsTopKey(inner[s])
      /\ \A j \in (s + 1)..z : ~IsTopKey(inner[j])
  BY SeqIs DEF KeyAt, FieldTo
<1>2. i \in Nat /\ s \in 1..i /\ i \in 1..Len(inner) /\ \A j \in (s + 1)..i : j \in (s + 1)..z /\ j \in 1..Len(inner)
  BY <1>1
<1>3. s \in S
  BY <1>1, <1>2
<1>4. ASSUME NEW k \in S
      PROVE  k <= s
  <2>1. k \notin (s + 1)..z /\ k \in 1..i
    BY <1>1
  <2> QED
    BY <1>1, <1>2, <2>1
<1>5. S \in SUBSET (1..i)
  OBVIOUS
<1>6. BlockKey(inner, i) = LastIndex(S)
  BY DEF BlockKey
<1> HIDE DEF S
<1> QED
  BY <1>2, <1>3, <1>4, <1>5, <1>6, LastIs

\* What becomes of the lines of a field.
LEMMA PiecesOfField ==
    ASSUME NEW e, NEW inner, NEW off, NEW f, NEW t, NEW after, Laid(e, inner, off, f, t, after),
           NEW key, NEW s, NEW z, KeyAt(inner, key, s), FieldTo(inner, s, z)
    PROVE  LET p == PiecesOf(e, inner)
           IN  /\ key \notin EnrichWritableFields => \A i \in s..z : p[i] = <<inner[i]>>
               /\ key \in {"tags", "related"} => \A i \in (s + 1)..z : p[i] = <<>>
<1> DEFINE p == PiecesOf(e, inner)
<1>1. IsSeq(inner) /\ \A i \in 1..Len(inner) : inner[i] # Blank
  BY Zenon, SeqIs DEF Laid, NoteLines
<1>2. Len(inner) \in Nat /\ s \in 1..Len(inner) /\ z \in s..Len(inner) /\ inner[s].key = key
  BY <1>1, SeqIs DEF KeyAt, FieldTo
<1>3. DOMAIN e.fields \subseteq ToSet(privateKeyOrder)
  BY Zenon DEF Laid
<1>4. ASSUME NEW i \in s..z
      PROVE  p[i] = IF ~(key \in {"tags", "related"} \cup DOMAIN e.fields) THEN <<inner[i]>>
                    ELSE IF s = i THEN HeadOf(inner, e.tags, e.related, e.fields, s) ELSE <<>>
  <2>1. i \in 1..Len(inner) /\ s # 0
    BY <1>2
  <2>2. p[i] = PieceOf(inner, e.tags, e.related, e.fields, i)
    BY <2>1, LaidParts
  <2>3. BlockKey(inner, i) = s
    BY <1>1, KeyOfField
  <2> HIDE DEF p
  <2> QED
    BY <1>2, <2>1, <2>2, <2>3 DEF PieceOf
<1> HIDE DEF p
<1>5. ASSUME key \notin EnrichWritableFields, NEW i \in s..z
      PROVE  p[i] = <<inner[i]>>
  <2>1. ~(key \in {"tags", "related"} \cup DOMAIN e.fields)
    BY <1>3, <1>5 DEF EnrichWritableFields
  <2> QED
    BY <1>4, <2>1
<1>6. ASSUME key \in {"tags", "related"}, NEW i \in (s + 1)..z
      PROVE  p[i] = <<>>
  <2>1. i \in s..z /\ s # i /\ key \in {"tags", "related"} \cup DOMAIN e.fields
    BY <1>2, <1>6
  <2> QED
    BY <1>4, <2>1
<1> QED
  BY <1>5, <1>6 DEF p

\* Some lines of a block.
LinesOf(block, s, z) == SubSeq(block, s, z)

\* A field that an enrichment may not write is copied.
LEMMA FieldCopied ==
    ASSUME NEW e, NEW inner, NEW off, NEW f, NEW t, NEW after, Laid(e, inner, off, f, t, after),
           NEW key, key \notin EnrichWritableFields, NEW s, NEW z, KeyAt(inner, key, s), FieldTo(inner, s, z)
    PROVE  LinesOf(after, off[s] + 1, off[z] + Len(PiecesOf(e, inner)[z])) = LinesOf(inner, s, z)
<1> DEFINE p == PiecesOf(e, inner)
           n == Len(inner)
           x == off[s] + 1
           y == off[z] + Len(p[z])
<1>1. StandAt(p, n, off, f, t, after) /\ IsSeq(inner)
  BY LaidParts
<1>2. \A i \in s..z : p[i] = <<inner[i]>>
  BY PiecesOfField
<1>3. \A i \in 1..n : i # n => off[i] + Len(p[i]) = off[i + 1]
  BY SideBySide
<1>4. KeyAt(after, key, x) /\ FieldTo(after, x, y)
  BY FieldMoves
<1> HIDE DEF p
<1>5. /\ n \in Nat /\ IsSeq(after) /\ s \in 1..n /\ z \in s..n
      /\ \A i \in 1..n : off[i] \in Nat
      /\ \A i \in 1..n : \A j \in 1..Len(p[i]) : after[off[i] + j] = p[i][j]
  BY <1>1 DEF StandAt, KeyAt, FieldTo
<1>6. ASSUME NEW i \in s..z
      PROVE  i \in 1..n /\ Len(p[i]) = 1 /\ p[i][1] = inner[i]
  <2>1. i \in 1..n
    BY <1>5
  <2>2. p[i] = <<inner[i]>>
    BY <1>2
  <2> QED
    BY <2>1, <2>2
<1> DEFINE bad == {i \in s..z : off[i] # off[s] + (i - s)}
<1>7. bad = {}
  <2> SUFFICES ASSUME bad # {} PROVE FALSE
    OBVIOUS
  <2>1. bad \in SUBSET (s..z) /\ IsFiniteSet(s..z) /\ s..z \in SUBSET Int
    BY <1>5, FS_Interval
  <2>2. IsFiniteSet(bad) /\ bad \in SUBSET Int
    <3> HIDE DEF bad
    <3> QED
      BY <2>1, FS_Subset
  <2>3. PICK b \in bad : \A u \in bad : b <= u
    <3> HIDE DEF bad
    <3> QED
      BY <2>2, LeastOf
  <2>4. b \in s..z /\ off[b] # off[s] + (b - s) /\ off[s] \in Nat
    BY <1>5
  <2>5. b # s
    BY <1>5, <2>4
  <2>6. b - 1 \in s..z /\ b - 1 \in 1..n /\ b - 1 # n /\ (b - 1) + 1 = b /\ ~(b <= b - 1)
    BY <1>5, <2>4, <2>5
  <2>7. b - 1 \notin bad
    BY <2>3, <2>6
  <2>8. off[b - 1] = off[s] + ((b - 1) - s)
    BY <2>6, <2>7
  <2>9. off[b] = off[b - 1] + 1
    <3>1. off[b - 1] + Len(p[b - 1]) = off[(b - 1) + 1]
      BY <1>3, <2>6
    <3> QED
      BY <1>6, <2>6, <3>1
  <2>10. b \in Int /\ s \in Int
    BY <1>5, <2>4
  <2>11. off[s] + (b - s) = (off[s] + ((b - 1) - s)) + 1
    BY <2>4, <2>10
  <2> QED
    BY <2>4, <2>8, <2>9, <2>11
<1>8. \A i \in s..z : off[i] = off[s] + (i - s)
  BY <1>7
<1> HIDE DEF bad
<1>9. off[s] \in Nat /\ y = off[s] + ((z + 1) - s)
  <2>1. z \in s..z /\ s \in s..z
    BY <1>5
  <2>2. Len(p[z]) = 1 /\ off[z] = off[s] + (z - s) /\ off[s] \in Nat
    BY <1>5, <1>6, <1>8, <2>1
  <2> QED
    <3>1. s \in Int /\ z \in Int
      BY <1>5
    <3> QED
      BY ONLY <2>2, <3>1
<1> DEFINE a == SubSeq(after, x, y)
           b == SubSeq(inner, s, z)
<1>10. /\ IsSeq(a) /\ Len(a) = (y + 1) - x /\ \A j \in x..y : a[(j + 1) - x] = after[j]
  <2> HIDE DEF x, y
  <2> QED
    BY <1>4, <1>5, FieldLines
<1>11. IsSeq(b) /\ Len(b) = (z + 1) - s /\ \A j \in s..z : b[(j + 1) - s] = inner[j]
  BY <1>1, FieldLines
<1> HIDE DEF a, b, y
<1>12. Len(a) = Len(b)
  BY <1>5, <1>9, <1>10, <1>11
<1>13. ASSUME NEW i \in 1..Len(a)
       PROVE  a[i] = b[i]
  <2> DEFINE j == (s + i) - 1
             w == (x + i) - 1
  <2>1. j \in s..z /\ (j + 1) - s = i /\ w \in x..y /\ (w + 1) - x = i /\ w = (off[s] + (j - s)) + 1
    <3>1. s \in Nat /\ z \in Nat /\ off[s] \in Nat /\ i \in Nat /\ 1 <= i /\ i <= (z + 1) - s
      BY <1>5, <1>9, <1>11, <1>12
    <3>2. j \in s..z /\ (j + 1) - s = i /\ j - s = i - 1
      BY ONLY <3>1 DEF j
    <3>3. w \in x..y /\ (w + 1) - x = i /\ w = (off[s] + (i - 1)) + 1
      <4>1. y \in Int /\ x \in Int /\ y = x + (z - s)
        BY ONLY <1>9, <3>1 DEF x
      <4>2. w = (off[s] + (i - 1)) + 1 /\ (w + 1) - x = i /\ w = x + (i - 1)
        BY ONLY <3>1 DEF w, x
      <4> HIDE DEF w, x
      <4>3. x <= w /\ w <= y /\ w \in Int
        BY ONLY <3>1, <4>1, <4>2
      <4> QED
        BY ONLY <4>1, <4>2, <4>3
    <3> HIDE DEF j, w, x
    <3> QED
      BY <3>2, <3>3
  <2> HIDE DEF j, w, x
  <2>2. b[i] = inner[j] /\ a[i] = after[w]
    <3>1. b[(j + 1) - s] = inner[j] /\ a[(w + 1) - x] = after[w]
      BY <1>10, <1>11, <2>1
    <3> QED
      BY <2>1, <3>1
  <2>3. off[j] = off[s] + (j - s) /\ j \in 1..n /\ 1 \in 1..Len(p[j]) /\ p[j][1] = inner[j]
    BY <1>6, <1>8, <2>1
  <2>4. after[off[j] + 1] = inner[j]
    BY <1>5, <2>3
  <2> QED
    BY <2>1, <2>2, <2>3, <2>4
<1>14. a = b
  BY <1>10, <1>11, <1>12, <1>13, SameSeq
<1> QED
  BY <1>14 DEF a, b, y, p, LinesOf

\* The renderer reads a list to its end.
LEMMA ReadToEnd ==
    ASSUME NEW inner, NoteLines(inner), OnlyItems(inner), NEW key \in {"tags", "related"}, NEW s, NEW z,
           KeyAt(inner, key, s), FieldTo(inner, s, z), inner[s].style = "none"
    PROVE  /\ ToSet(readListBlock(inner, s)) = FieldItems(inner, s, z)
           /\ \A v \in FieldItems(inner, s, z) : v.cut = "no"
<1> DEFINE n == Len(inner)
           places == {j \in (s + 1)..n : inner[j].kind # "item"}
           stop == FirstIndex(places)
           last == IF stop = 0 THEN n ELSE stop - 1
<1>1. IsSeq(inner) /\ DOMAIN inner = 1..n /\ (\A i \in 1..n : WellFormed(inner[i])) /\ n \in Nat
  BY SeqIs DEF NoteLines
<1> HIDE DEF n
<1>2. /\ n \in Nat /\ s \in 1..n /\ z \in s..n /\ s \in Nat /\ z \in Nat /\ s <= z /\ z <= n
      /\ IsTopKey(inner[s]) /\ inner[s].key = key
      /\ (\A j \in (s + 1)..z : ~IsTopKey(inner[j])) /\ (z = n \/ IsTopKey(inner[z + 1]))
  <2>1. /\ s \in 1..n /\ z \in s..n /\ IsTopKey(inner[s]) /\ inner[s].key = key
        /\ (\A j \in (s + 1)..z : ~IsTopKey(inner[j])) /\ (z = n \/ IsTopKey(inner[z + 1]))
    BY DEF KeyAt, FieldTo, n
  <2>2. s \in Nat /\ z \in Nat /\ s <= z /\ z <= n
    BY <1>1, <2>1
  <2> QED
    BY <1>1, <2>1, <2>2
<1>3. \A j \in (s + 1)..z : inner[j].kind = "item"
  <2> TAKE j \in (s + 1)..z
  <2>1. s \in DOMAIN inner /\ j \in DOMAIN inner /\ s < j /\ \A k \in (s + 1)..j : k \in (s + 1)..z
    BY <1>1, <1>2
  <2> QED
    BY <1>2, <2>1 DEF OnlyItems
<1>4. readListBlock(inner, s) = ItemEntries(SubSeq(inner, s + 1, last))
  BY DEF readListBlock, n
<1>5. last = z
  <2>1. places \in SUBSET (1..n)
    BY <1>2
  <2>2. CASE z = n
    <3>1. places = {}
      BY <1>3, <2>2
    <3>2. stop = 0
      <4> HIDE DEF places
      <4> QED
        BY <1>2, <2>1, <3>1, FirstOf
    <3> HIDE DEF stop
    <3> QED
      BY <2>2, <3>2
  <2>3. CASE z # n
    <3>1. z + 1 \in places
      BY <1>2, <2>3 DEF IsTopKey
    <3>2. \A j \in places : z + 1 <= j
      BY <1>2, <1>3
    <3>3. (stop = 0 <=> places = {}) /\ (places # {} => stop \in places /\ \A j \in places : stop <= j)
      <4> HIDE DEF places
      <4> QED
        BY <1>2, <2>1, FirstOf
    <3>4. stop \in 1..n /\ stop <= z + 1 /\ z + 1 <= stop
      <4> HIDE DEF places, stop
      <4> QED
        BY <2>1, <3>1, <3>2, <3>3
    <3> HIDE DEF stop
    <3> QED
      BY <1>2, <3>4
  <2> QED
    BY <2>2, <2>3
<1> HIDE DEF last
<1> DEFINE part == SubSeq(inner, s + 1, z)
           m == (z + 1) - (s + 1)
<1>6. IsSeq(part) /\ Len(part) = m /\ m \in Nat /\ \A i \in 1..m : part[i] = inner[s + i]
  <2>1. s + 1 \in Nat \ {0} /\ z \in Nat /\ s + 1 <= z + 1 /\ z <= n /\ m \in Nat /\ (s + 1) - 1 = s
    BY <1>2
  <2>2. IsSeq(part) /\ Len(part) = m /\ \A i \in 1..m : part[i] = inner[((s + 1) - 1) + i]
    BY <1>1, <2>1, PartOf DEF n
  <2> HIDE DEF part, m
  <2> QED
    BY <2>1, <2>2
<1>7. ToSet(readListBlock(inner, s)) = {part[i].items[1].entry : i \in {i \in 1..m : part[i].kind = "item"}}
  BY <1>4, <1>5, <1>6, EntriesOfItems
<1>8. FieldItems(inner, s, z) = {inner[i].items[1].entry : i \in (s + 1)..z}
  BY <1>3 DEF FieldItems
<1> HIDE DEF part
<1>9. \A i \in 1..m : s + i \in (s + 1)..z /\ part[i] = inner[s + i] /\ part[i].kind = "item"
  <2> TAKE i \in 1..m
  <2>1. s + i \in (s + 1)..z
    BY <1>2
  <2> QED
    BY <1>3, <1>6, <2>1
<1>10. \A j \in (s + 1)..z : j - s \in 1..m /\ part[j - s] = inner[j]
  <2> TAKE j \in (s + 1)..z
  <2>1. j - s \in 1..m /\ s + (j - s) = j
    BY <1>2
  <2> QED
    BY <1>6, <2>1
<1> HIDE DEF m
<1>11. {part[i].items[1].entry : i \in {i \in 1..m : part[i].kind = "item"}} = {inner[i].items[1].entry : i \in (s + 1)..z}
  <2>1. {i \in 1..m : part[i].kind = "item"} = 1..m
    BY <1>9
  <2>2. ASSUME NEW v \in {part[i].items[1].entry : i \in 1..m}
        PROVE  v \in {inner[i].items[1].entry : i \in (s + 1)..z}
    BY <1>9
  <2>3. ASSUME NEW v \in {inner[i].items[1].entry : i \in (s + 1)..z}
        PROVE  v \in {part[i].items[1].entry : i \in 1..m}
    BY <1>10
  <2> QED
    BY <2>1, <2>2, <2>3
<1>12. ASSUME NEW j \in (s + 1)..z
       PROVE  inner[j].items[1].entry.cut = "no"
  <2>1. j \in 1..n /\ inner[j].kind = "item" /\ WellFormed(inner[j])
    BY <1>1, <1>2, <1>3
  <2>2. IsSeq(inner[j].items) /\ \A w \in ToSet(inner[j].items) : Whole(w)
    BY <2>1, FormOfLine
  <2>3. Len(inner[j].items) = 1
    BY <2>1 DEF WellFormed
  <2>4. PICK w \in ToSet(inner[j].items) : w = inner[j].items[1]
    BY <2>2, <2>3, SeqIs
  <2>5. Whole(w)
    BY <2>2
  <2>6. w.entry.cut = "no"
    BY <2>5 DEF Whole
  <2> QED
    BY <2>4, <2>6
<1> QED
  BY <1>7, <1>8, <1>11, <1>12

\* A list of which there is a part gets the rest.
LEMMA ListWritten ==
    ASSUME NEW e, NEW inner, NEW off, NEW f, NEW t, NEW after, Laid(e, inner, off, f, t, after),
           NEW key \in {"tags", "related"}, NEW s, NEW z, KeyAt(inner, key, s), FieldTo(inner, s, z),
           \A v \in ToSet(Additions(key, e.tags, e.related)) : v.cut = "no"
    PROVE  ToSet(parseYAMLList(SubSeq(after, off[s] + 1, off[z] + Len(PiecesOf(e, inner)[z])))) =
               ToSet(parseYAMLList(SubSeq(inner, s, z))) \cup ToSet(Additions(key, e.tags, e.related))
<1> DEFINE p == PiecesOf(e, inner)
           n == Len(inner)
           x == off[s] + 1
           y == off[z] + Len(p[z])
           adds == ToSet(Additions(key, e.tags, e.related))
<1>1. StandAt(p, n, off, f, t, after) /\ NoteLines(inner) /\ IsSeq(inner)
  BY LaidParts
<1>2. \A i \in (s + 1)..z : p[i] = <<>>
  BY PiecesOfField
<1>3. s \in 1..n /\ IsTopKey(inner[s]) /\ inner[s].key = key /\ z \in s..n
  BY DEF KeyAt, FieldTo
<1>4. KeyAt(after, key, x) /\ FieldTo(after, x, y) /\ y <= Len(f)
  BY FieldMoves
<1>5. PieceFits(inner, e.tags, e.related, s, p[s])
  BY <1>3, LaidParts
<1>6. OnlyItems(inner) /\ inner[s].style = "none"
  BY <1>3 DEF Laid
<1>7. /\ ToSet(readListBlock(inner, s)) = FieldItems(inner, s, z)
      /\ \A v \in FieldItems(inner, s, z) : v.cut = "no"
  BY <1>1, <1>6, ReadToEnd
<1>8. ToSet(parseYAMLList(SubSeq(inner, s, z))) = FieldItems(inner, s, z)
  BY <1>1, <1>6, ParsedField
<1> HIDE DEF p, adds
<1>9. /\ n \in Nat /\ IsSeq(after) /\ Len(f) \in Nat
      /\ \A i \in 1..n : off[i] \in Nat /\ Len(p[i]) \in Nat
      /\ \A i \in 1..n : \A j \in 1..Len(p[i]) : off[i] + j \in 1..Len(f) /\ after[off[i] + j] = p[i][j]
      /\ \A h, i \in 1..n : h < i => off[h] + Len(p[h]) <= off[i]
      /\ \A w \in 1..Len(f) : \E i \in 1..n : \E j \in 1..Len(p[i]) : w = off[i] + j
  BY <1>1 DEF StandAt
<1>10. PICK entries : /\ IsSeq(entries) /\ ListLines(p[s], key, entries)
                     /\ ToSet(entries) = ToSet(readListBlock(inner, s)) \cup adds
  BY <1>3, <1>5 DEF PieceFits, Replaced, adds
<1> DEFINE k == Len(entries)
<1>11. /\ k \in Nat /\ ToSet(entries) = {entries[j] : j \in 1..k}
       /\ Len(p[s]) = k + 1 /\ p[s][1].style = (IF k = 0 THEN "flow" ELSE "none") /\ (k = 0 => p[s][1].items = <<>>)
       /\ \A j \in 1..k : p[s][j + 1].kind = "item" /\ p[s][j + 1].items[1].entry = WriteEntry(entries[j]).entry
  BY <1>10, SeqIs DEF ListLines
<1>12. \A j \in 1..k : WriteEntry(entries[j]).entry = entries[j]
  <2> TAKE j \in 1..k
  <2>1. entries[j] \in ToSet(entries)
    BY <1>11
  <2>2. entries[j].cut = "no"
    BY <1>7, <1>10, <2>1 DEF adds
  <2> QED
    BY <2>2, WrittenWhole
<1> HIDE DEF k
<1>13. after[x] = p[s][1]
  BY <1>3, <1>9, <1>11
<1>14. off[s] + (k + 1) <= y /\ y \in Nat /\ off[s] \in Nat
  <2>1. z \in 1..n /\ off[z] \in Nat /\ Len(p[z]) \in Nat /\ off[s] \in Nat /\ (s = z \/ s < z)
    BY <1>3, <1>9
  <2>2. s < z => off[s] + Len(p[s]) <= off[z]
    BY <1>3, <1>9, <2>1
  <2> QED
    BY <1>11, <2>1, <2>2, SMTT(30)
<1>15. ASSUME NEW w \in (x + 1)..y
       PROVE  \E j \in 1..k : after[w] = p[s][j + 1]
  <2>1. w \in 1..Len(f) /\ w > off[s] + 1 /\ w <= y
    BY <1>4, <1>9, <1>14
  <2>2. PICK i \in 1..n : \E j \in 1..Len(p[i]) : w = off[i] + j
    BY <1>9, <2>1
  <2>3. PICK j \in 1..Len(p[i]) : w = off[i] + j
    BY <2>2
  <2>4. off[i] \in Nat /\ Len(p[i]) \in Nat /\ Len(p[s]) \in Nat /\ j >= 1 /\ j <= Len(p[i]) /\ j \in Nat
    BY <1>3, <1>9, <2>3
  <2>5. CASE i < s
    <3>1. off[i] + Len(p[i]) <= off[s]
      BY <1>3, <1>9, <2>5
    <3>2. off[i] + j <= off[s]
      BY <1>14, <2>4, <3>1
    <3> QED
      BY <1>14, <2>1, <2>3, <2>4, <3>2
  <2>6. CASE i \in (s + 1)..z
    BY <1>2, <2>3, <2>6
  <2>7. CASE i > z
    <3>1. z \in 1..n
      BY <1>3, <1>9
    <3>2. y <= off[i]
      BY <1>9, <2>7, <3>1
    <3> HIDE DEF y
    <3> QED
      BY <1>14, <2>1, <2>3, <2>4, <3>2
  <2>8. CASE i = s
    <3>1. j - 1 \in 1..k /\ (j - 1) + 1 = j
      BY <1>11, <1>14, <2>1, <2>3, <2>4, <2>8
    <3>2. after[w] = p[s][j]
      BY <1>9, <2>3, <2>8
    <3> QED
      BY <3>1, <3>2
  <2> QED
    BY <1>3, <1>9, <2>5, <2>6, <2>7, <2>8
<1>16. ASSUME NEW j \in 1..k
       PROVE  /\ off[s] + (j + 1) \in (x + 1)..y
              /\ after[off[s] + (j + 1)] = p[s][j + 1]
  <2>1. j + 1 \in 1..Len(p[s])
    BY <1>11
  <2>2. after[off[s] + (j + 1)] = p[s][j + 1]
    BY <1>3, <1>9, <2>1
  <2>3. off[s] + (j + 1) \in (x + 1)..y
    <3> HIDE DEF y
    <3> QED
      BY <1>11, <1>14
  <2> QED
    BY <2>2, <2>3
<1> HIDE DEF x, y
<1>17. FieldItems(after, x, y) = ToSet(entries)
  <2>1. ASSUME NEW v \in FieldItems(after, x, y)
        PROVE  v \in ToSet(entries)
    <3>1. PICK w \in (x + 1)..y : after[w].kind = "item" /\ v = after[w].items[1].entry
      BY <2>1 DEF FieldItems
    <3>2. PICK j \in 1..k : after[w] = p[s][j + 1]
      BY <1>15
    <3> QED
      BY <1>11, <1>12, <3>1, <3>2
  <2>2. ASSUME NEW v \in ToSet(entries)
        PROVE  v \in FieldItems(after, x, y)
    <3>1. PICK j \in 1..k : v = entries[j]
      BY <1>11, <2>2
    <3>2. PICK w \in (x + 1)..y : after[w] = p[s][j + 1]
      BY <1>16
    <3>3. after[w].kind = "item" /\ v = after[w].items[1].entry
      BY <1>11, <1>12, <3>1, <3>2
    <3> QED
      BY <3>3 DEF FieldItems
  <2> QED
    BY <2>1, <2>2
<1>18. ToSet(parseYAMLList(SubSeq(after, x, y))) =
           IF after[x].style = "flow" THEN ToSet(FlowEntries(after[x].items)) ELSE FieldItems(after, x, y)
  BY <1>4, <1>9, ParsedField
<1>19. ToSet(parseYAMLList(SubSeq(after, x, y))) = ToSet(entries)
  <2>1. CASE k = 0
    <3>1. ToSet(entries) = {}
      BY <1>11, <2>1
    <3>2. ToSet(FlowEntries(<<>>)) = {}
      <4>1. IsSeq(<<>>) /\ ToSet(<<>>) = {}
        BY Tuples DEF IsSeq, ToSet
      <4>2. ToSet(FlowEntries(<<>>)) = {w.entry : w \in ToSet(<<>>)}
        BY <4>1, EntriesInBrackets
      <4> QED
        BY <4>1, <4>2
    <3> QED
      BY <1>11, <1>13, <1>18, <2>1, <3>1, <3>2
  <2>2. CASE k # 0
    BY <1>11, <1>13, <1>17, <1>18, <2>2
  <2> QED
    BY <2>1, <2>2
<1>20. ToSet(parseYAMLList(SubSeq(after, x, y))) = ToSet(parseYAMLList(SubSeq(inner, s, z))) \cup adds
  BY <1>7, <1>8, <1>10, <1>19
<1> QED
  BY <1>20 DEF x, y, p, adds

\* A field has one end.
LEMMA FieldToOne ==
    ASSUME NEW block, IsSeq(block), NEW s \in 1..Len(block), NEW y, FieldTo(block, s, y), NEW z, FieldTo(block, s, z)
    PROVE  y = z
<1>1. /\ Len(block) \in Nat /\ y \in s..Len(block) /\ z \in s..Len(block)
      /\ (\A i \in (s + 1)..y : ~IsTopKey(block[i])) /\ (\A i \in (s + 1)..z : ~IsTopKey(block[i]))
      /\ y = Len(block) \/ IsTopKey(block[y + 1])
      /\ z = Len(block) \/ IsTopKey(block[z + 1])
  BY SeqIs DEF FieldTo
<1>2. ~(y < z)
  <2> SUFFICES ASSUME y < z PROVE FALSE
    OBVIOUS
  <2>1. y + 1 \in (s + 1)..z /\ y # Len(block)
    BY <1>1
  <2> QED
    BY <1>1, <2>1
<1>3. ~(z < y)
  <2> SUFFICES ASSUME z < y PROVE FALSE
    OBVIOUS
  <2>1. z + 1 \in (s + 1)..y /\ z # Len(block)
    BY <1>1
  <2> QED
    BY <1>1, <2>1
<1>4. y \in Int /\ z \in Int
  BY <1>1
<1> QED
  BY <1>2, <1>3, <1>4

\* A list of which there is none yet has what is added.
LEMMA ListAdded ==
    ASSUME NEW e, NEW inner, NEW off, NEW f, NEW t, NEW after, Laid(e, inner, off, f, t, after),
           NEW key \in {"tags", "related"}, key \notin KeysIn(inner),
           NEW x, NEW y, KeyAt(after, key, x), FieldTo(after, x, y),
           \A v \in ToSet(Additions(key, e.tags, e.related)) : v.cut = "no"
    PROVE  ToSet(parseYAMLList(SubSeq(after, x, y))) \subseteq ToSet(Additions(key, e.tags, e.related))
<1> DEFINE entries == Additions(key, e.tags, e.related)
           k == Len(entries)
           m == x - Len(f)
<1>1. StandAt(PiecesOf(e, inner), Len(inner), off, f, t, after) /\ IsSeq(inner)
  BY LaidParts
<1>2. /\ IsSeq(after) /\ Len(f) \in Nat /\ Len(t) \in Nat /\ Len(after) = Len(f) + Len(t)
      /\ \A i \in 1..Len(t) : after[Len(f) + i] = t[i]
  BY <1>1 DEF StandAt
<1>3. /\ x \in 1..Len(after) /\ IsTopKey(after[x]) /\ after[x].key = key
      /\ y \in x..Len(after) /\ (\A i \in (x + 1)..y : ~IsTopKey(after[i]))
  BY DEF KeyAt, FieldTo
<1>4. m \in 1..Len(t) /\ after[x] = t[m]
  <2>1. ~\E i \in 1..Len(inner) : IsTopKey(inner[i]) /\ inner[i].key = key
    BY <1>1, SeqIs DEF KeysIn
  <2>2. \/ \E i \in 1..Len(inner) : x = off[i] + 1 /\ IsTopKey(inner[i]) /\ inner[i].key = after[x].key
        \/ x - Len(f) \in 1..Len(t) /\ after[x] = t[x - Len(f)]
    BY <1>3, KeyIsFrom
  <2> QED
    BY <1>3, <2>1, <2>2
<1>5. IsSeq(entries) /\ k \in Nat
  <2>1. IsSeq(e.tags) /\ IsSeq(e.related)
    BY Zenon DEF Laid
  <2>2. IsSeq(entries)
    BY <2>1 DEF Additions
  <2> HIDE DEF entries
  <2> QED
    BY <2>2, SeqIs
<1>6. ListThere(t, key, entries)
  BY Zenon DEF Laid
<1> HIDE DEF entries, k, m
<1>7. /\ t[m].style = "none" /\ m + k <= Len(t)
      /\ \A j \in 1..k : t[m + j].kind = "item" /\ t[m + j].items[1].entry = WriteEntry(entries[j]).entry
      /\ m + k = Len(t) \/ IsTopKey(t[(m + k) + 1])
  BY <1>3, <1>4, <1>6 DEF ListThere, k
<1>8. x = Len(f) + m /\ x \in Nat /\ m \in Nat /\ y \in Nat
  BY <1>2, <1>3, <1>4 DEF m
<1>9. y <= x + k
  <2> SUFFICES ASSUME y > x + k PROVE FALSE
    BY <1>5, <1>8
  <2>1. (x + k) + 1 \in (x + 1)..y /\ (m + k) + 1 \in 1..Len(t) /\ Len(f) + ((m + k) + 1) = (x + k) + 1
    BY <1>2, <1>3, <1>5, <1>8
  <2>2. after[(x + k) + 1] = t[(m + k) + 1]
    <3>1. after[Len(f) + ((m + k) + 1)] = t[(m + k) + 1]
      BY <1>2, <2>1
    <3> QED
      BY <2>1, <3>1
  <2>3. m + k # Len(t)
    BY <1>2, <1>5, <1>8, <2>1
  <2> QED
    BY <1>3, <1>7, <2>1, <2>2, <2>3
<1>10. ASSUME NEW v \in FieldItems(after, x, y)
      PROVE  v \in ToSet(entries)
  <2>1. PICK w \in (x + 1)..y : after[w].kind = "item" /\ v = after[w].items[1].entry
    BY <1>10 DEF FieldItems
  <2>2. w - x \in 1..k /\ m + (w - x) \in 1..Len(t) /\ Len(f) + (m + (w - x)) = w
    BY <1>2, <1>5, <1>7, <1>8, <1>9
  <2>3. after[w] = t[m + (w - x)]
    <3>1. after[Len(f) + (m + (w - x))] = t[m + (w - x)]
      BY <1>2, <2>2
    <3> QED
      BY <2>2, <3>1
  <2>4. entries[w - x] \in ToSet(entries)
    BY <1>5, <2>2, SeqIs DEF k
  <2>5. entries[w - x].cut = "no"
    BY <2>4 DEF entries
  <2>6. WriteEntry(entries[w - x]).entry = entries[w - x]
    BY <2>5, WrittenWhole
  <2>7. v = entries[w - x]
    BY <1>7, <2>1, <2>2, <2>3, <2>6
  <2> QED
    BY <2>4, <2>7
<1>11. ToSet(parseYAMLList(SubSeq(after, x, y))) =
           IF after[x].style = "flow" THEN ToSet(FlowEntries(after[x].items)) ELSE FieldItems(after, x, y)
  BY <1>2, ParsedField
<1>12. ToSet(parseYAMLList(SubSeq(after, x, y))) = FieldItems(after, x, y)
  BY <1>4, <1>7, <1>11
<1> QED
  BY <1>10, <1>12 DEF entries

\* What the guard reads of a list.
ListRead(block, key) ==
    LET fields == splitFrontmatterFields(block) IN IF key \in DOMAIN fields THEN parseYAMLList(fields[key]) ELSE <<>>

\* It finds there what it found before, and what was added.
LEMMA ListsOnlyGrow ==
    ASSUME NEW e, NEW inner, NEW off, NEW f, NEW t, NEW after, Laid(e, inner, off, f, t, after),
           NEW key \in {"tags", "related"}, \A v \in ToSet(Additions(key, e.tags, e.related)) : v.cut = "no"
    PROVE  /\ ToSet(ListRead(inner, key)) \subseteq ToSet(ListRead(after, key))
           /\ ToSet(ListRead(after, key)) \subseteq ToSet(ListRead(inner, key)) \cup ToSet(Additions(key, e.tags, e.related))
<1> DEFINE adds == ToSet(Additions(key, e.tags, e.related))
<1>1. StandAt(PiecesOf(e, inner), Len(inner), off, f, t, after) /\ IsSeq(inner)
  BY LaidParts
<1>2. IsSeq(after)
  BY <1>1 DEF StandAt
<1>3. ASSUME NEW block, IsSeq(block), NEW s, NEW z, FieldOf(block, key, s, z)
      PROVE  ListRead(block, key) = parseYAMLList(SubSeq(block, s, z))
  BY <1>3 DEF FieldOf, ListRead
<1>4. ASSUME NEW block, IsSeq(block), key \notin KeysIn(block)
      PROVE  ToSet(ListRead(block, key)) = {}
  <2>1. DOMAIN splitFrontmatterFields(block) = KeysIn(block)
    BY <1>4, FieldsAreThere
  <2>2. ListRead(block, key) = <<>>
    BY <1>4, <2>1 DEF ListRead
  <2>3. ToSet(<<>>) = {}
    BY DEF ToSet
  <2> QED
    BY <2>2, <2>3
<1>5. CASE key \in KeysIn(inner)
  <2>1. PICK s, z : FieldOf(inner, key, s, z)
    BY <1>1, <1>5, FieldsAreThere
  <2>2. KeyAt(inner, key, s) /\ FieldTo(inner, s, z)
    BY <2>1 DEF FieldOf
  <2> DEFINE x == off[s] + 1
             y == off[z] + Len(PiecesOf(e, inner)[z])
  <2>3. KeyAt(after, key, x) /\ FieldTo(after, x, y)
    BY <2>2, FieldMoves
  <2>4. ToSet(parseYAMLList(SubSeq(after, x, y))) = ToSet(parseYAMLList(SubSeq(inner, s, z))) \cup adds
    BY <2>2, ListWritten
  <2> HIDE DEF x, y, adds
  <2>5. PICK w : FieldOf(after, key, x, w)
    BY <1>2, <2>3, FieldsAreThere
  <2>6. w = y
    <3>1. x \in 1..Len(after) /\ FieldTo(after, x, w)
      BY <2>5 DEF FieldOf, KeyAt
    <3> QED
      BY <1>2, <2>3, <3>1, FieldToOne
  <2>7. ToSet(ListRead(after, key)) = ToSet(ListRead(inner, key)) \cup adds
    BY <1>1, <1>2, <1>3, <2>1, <2>4, <2>5, <2>6
  <2> QED
    BY <2>7 DEF adds
<1>6. CASE key \notin KeysIn(inner)
  <2>1. ToSet(ListRead(inner, key)) = {}
    BY <1>1, <1>4, <1>6
  <2>2. ToSet(ListRead(after, key)) \subseteq adds
    <3>1. CASE key \in KeysIn(after)
      <4>1. PICK x, y : FieldOf(after, key, x, y)
        BY <1>2, <3>1, FieldsAreThere
      <4>2. KeyAt(after, key, x) /\ FieldTo(after, x, y)
        BY <4>1 DEF FieldOf
      <4>3. ToSet(parseYAMLList(SubSeq(after, x, y))) \subseteq adds
        BY <1>6, <4>2, ListAdded
      <4> QED
        BY <1>2, <1>3, <4>1, <4>3
    <3>2. CASE key \notin KeysIn(after)
      BY <1>2, <1>4, <3>2
    <3> QED
      BY <3>1, <3>2
  <2> QED
    BY <2>1, <2>2 DEF adds
<1> QED
  BY <1>5, <1>6

\* What may not be written is the same.
LEMMA OthersSame ==
    ASSUME NEW e, NEW inner, NEW off, NEW f, NEW t, NEW after, Laid(e, inner, off, f, t, after),
           NEW key, key \notin EnrichWritableFields, key \in KeysIn(inner) \cup KeysIn(after)
    PROVE  /\ key \in KeysIn(inner) /\ key \in KeysIn(after)
           /\ splitFrontmatterFields(after)[key] = splitFrontmatterFields(inner)[key]
<1>1. StandAt(PiecesOf(e, inner), Len(inner), off, f, t, after) /\ IsSeq(inner)
  BY LaidParts
<1>2. IsSeq(after)
  BY <1>1 DEF StandAt
<1>3. key \in KeysIn(inner)
  <2> SUFFICES ASSUME key \in KeysIn(after) PROVE key \in KeysIn(inner)
    OBVIOUS
  <2>1. PICK w \in 1..Len(after) : IsTopKey(after[w]) /\ after[w].key = key
    BY <1>2, SeqIs DEF KeysIn
  <2>2. PICK i \in 1..Len(inner) : IsTopKey(inner[i]) /\ inner[i].key = key
    BY <2>1, KeyIsFrom
  <2> QED
    BY <1>1, <2>2, SeqIs DEF KeysIn
<1>4. PICK s, z : FieldOf(inner, key, s, z)
  BY <1>1, <1>3, FieldsAreThere
<1>5. KeyAt(inner, key, s) /\ FieldTo(inner, s, z)
  BY <1>4 DEF FieldOf
<1> DEFINE x == off[s] + 1
           y == off[z] + Len(PiecesOf(e, inner)[z])
<1>6. KeyAt(after, key, x) /\ FieldTo(after, x, y)
  BY <1>5, FieldMoves
<1>7. SubSeq(after, x, y) = SubSeq(inner, s, z)
  <2>1. LinesOf(after, x, y) = LinesOf(inner, s, z)
    BY <1>5, FieldCopied
  <2> QED
    BY <2>1 DEF LinesOf
<1> HIDE DEF x, y
<1>8. PICK w : FieldOf(after, key, x, w)
  BY <1>2, <1>6, FieldsAreThere
<1>9. w = y
  <2>1. x \in 1..Len(after) /\ FieldTo(after, x, w)
    BY <1>8 DEF FieldOf, KeyAt
  <2> QED
    BY <1>2, <1>6, <2>1, FieldToOne
<1>10. key \in DOMAIN splitFrontmatterFields(after)
  BY <1>8 DEF FieldOf
<1>11. key \in KeysIn(after)
  BY <1>2, <1>10, FieldsAreThere
<1> QED
  BY <1>3, <1>4, <1>7, <1>8, <1>9, <1>11 DEF FieldOf

\* What is added is whole and allowed, where it is not there already.
MayBeAdded(e, inner, vocab) ==
    /\ \A v \in ToSet(e.tags) \cup ToSet(e.related) : v.cut = "no"
    /\ \A v \in ToSet(e.tags) : v \in ToSet(ListRead(inner, "tags")) \/ MayAdd(v, vocab)
    /\ \A v \in ToSet(e.related) : v \in ToSet(ListRead(inner, "related")) \/ v.link
    /\ IsFiniteSet(ToSet(e.related)) /\ Cardinality(ToSet(e.related)) <= RelatedMax

\* Then the guard lets pass what the renderer made.
LEMMA GuardPasses ==
    ASSUME NEW e, NEW inner, NEW off, NEW f, NEW t, NEW after, Laid(e, inner, off, f, t, after),
           NEW vocab, MayBeAdded(e, inner, vocab)
    PROVE  enrichCheckFieldGuard(inner, after, vocab)
<1> DEFINE b == splitFrontmatterFields(inner)
           a == splitFrontmatterFields(after)
<1>1. StandAt(PiecesOf(e, inner), Len(inner), off, f, t, after) /\ IsSeq(inner)
  BY LaidParts
<1>2. IsSeq(after)
  BY <1>1 DEF StandAt
<1>3. /\ \A v \in ToSet(Additions("tags", e.tags, e.related)) : v.cut = "no"
      /\ \A v \in ToSet(Additions("related", e.tags, e.related)) : v.cut = "no"
      /\ Additions("tags", e.tags, e.related) = e.tags /\ Additions("related", e.tags, e.related) = e.related
  BY DEF MayBeAdded, Additions
<1>4. /\ ToSet(ListRead(inner, "tags")) \subseteq ToSet(ListRead(after, "tags"))
      /\ ToSet(ListRead(after, "tags")) \subseteq ToSet(ListRead(inner, "tags")) \cup ToSet(e.tags)
  BY <1>3, ListsOnlyGrow
<1>5. /\ ToSet(ListRead(inner, "related")) \subseteq ToSet(ListRead(after, "related"))
      /\ ToSet(ListRead(after, "related")) \subseteq ToSet(ListRead(inner, "related")) \cup ToSet(e.related)
  BY <1>3, ListsOnlyGrow
<1>6. enrichValidateTagsAppend(ListRead(inner, "tags"), ListRead(after, "tags"), vocab)
  <2>1. ASSUME NEW v \in setDiff(ListRead(after, "tags"), ListRead(inner, "tags"))
        PROVE  MayAdd(v, vocab)
    BY <1>4, <2>1 DEF setDiff, MayBeAdded
  <2> QED
    BY <1>4, <2>1 DEF enrichValidateTagsAppend, setSubset
<1>7. enrichValidateRelatedAppend(ListRead(inner, "related"), ListRead(after, "related"))
  <2> DEFINE new == setDiff(ListRead(after, "related"), ListRead(inner, "related"))
  <2>1. new \in SUBSET ToSet(e.related) /\ \A v \in new : v \notin ToSet(ListRead(inner, "related"))
    BY <1>5 DEF setDiff
  <2> HIDE DEF new
  <2>2. /\ IsFiniteSet(ToSet(e.related)) /\ Cardinality(ToSet(e.related)) <= RelatedMax
        /\ \A v \in ToSet(e.related) : v.cut = "no" /\ (v \in ToSet(ListRead(inner, "related")) \/ v.link)
    BY DEF MayBeAdded
  <2>3. Cardinality(new) <= Cardinality(ToSet(e.related)) /\ Cardinality(new) \in Nat /\ Cardinality(ToSet(e.related)) \in Nat
    BY <2>1, <2>2, FS_Subset, FS_CardinalityType
  <2>4. Cardinality(new) <= RelatedMax
    BY <2>2, <2>3, FrontmatterAssumption
  <2>5. \A v \in new : v.link /\ v.cut = "no"
    BY <2>1, <2>2
  <2> QED
    BY <1>5, <2>4, <2>5 DEF enrichValidateRelatedAppend, setSubset, new
<1>8. DOMAIN b = KeysIn(inner) /\ DOMAIN a = KeysIn(after)
  BY <1>1, <1>2, FieldsAreThere
<1>9. ASSUME NEW key \in (DOMAIN b \cup DOMAIN a) \ EnrichWritableFields
      PROVE  key \in DOMAIN b /\ key \in DOMAIN a /\ normalizeBlob(b[key]) = normalizeBlob(a[key])
  <2> HIDE DEF b, a
  <2>1. key \notin EnrichWritableFields /\ key \in KeysIn(inner) \cup KeysIn(after)
    BY <1>8
  <2>2. key \in KeysIn(inner) /\ key \in KeysIn(after) /\ a[key] = b[key]
    BY <2>1, OthersSame DEF a, b
  <2> QED
    BY <1>8, <2>2
<1> QED
  <2> DEFINE listed(fields, key) == IF key \in DOMAIN fields THEN parseYAMLList(fields[key]) ELSE <<>>
  <2>1. \A key : listed(b, key) = ListRead(inner, key) /\ listed(a, key) = ListRead(after, key)
    BY DEF ListRead
  <2>2. enrichCheckFieldGuard(inner, after, vocab) <=>
            /\ \A key \in (DOMAIN b \cup DOMAIN a) \ EnrichWritableFields :
                   key \in DOMAIN b /\ key \in DOMAIN a /\ normalizeBlob(b[key]) = normalizeBlob(a[key])
            /\ enrichValidateTagsAppend(listed(b, "tags"), listed(a, "tags"), vocab)
            /\ enrichValidateRelatedAppend(listed(b, "related"), listed(a, "related"))
    BY Zenon DEF enrichCheckFieldGuard
  <2> HIDE DEF listed, a, b
  <2> QED
    BY <1>6, <1>7, <1>9, <2>1, <2>2

\* A file with a fence first and another one has a block.
LEMMA FenceSplits ==
    ASSUME NEW file, IsSeq(file.lines), NEW m \in 2..Len(file.lines), file.lines[1] = Fence, file.lines[m].kind = "fence"
    PROVE  SplitFrontmatter(file).found
<1> DEFINE lines == file.lines
           fences == {i \in 2..Len(lines) : lines[i].kind = "fence"}
           close == FirstIndex(fences)
<1>1. Len(lines) \in Nat /\ fences \in SUBSET (1..Len(lines)) /\ m \in fences
  BY SeqIs
<1>2. close # 0
  <2> HIDE DEF fences
  <2> QED
    BY <1>1, FirstOf
<1>3. lines # <<>>
  BY <1>1
<1> HIDE DEF close
<1> QED
  BY <1>2, <1>3 DEF SplitFrontmatter, close

\* Where the renderer and the readers see the end of a block that is written
\* by this program.
LEMMA CanonicalEnds ==
    ASSUME NEW file, Canonical(file), NoteLines(file.lines)
    PROVE  \E c : /\ SplitAt(file.lines, c, SplitFrontmatter(file).block, SplitFrontmatter(file).body)
                  /\ FrontmatterEnd(file.lines) = c /\ c \in 3..Len(file.lines)
<1> DEFINE lines == file.lines
           ends == {i \in 3..Len(lines) : lines[i].kind \in {"fence", "rule"} /\ ~lines[i].indent}
<1>1. IsSeq(lines) /\ Len(lines) \in Nat /\ DOMAIN lines = 1..Len(lines)
  BY SeqIs DEF NoteLines
<1>2. /\ SplitFrontmatter(file).found /\ lines[2].kind = "key"
      /\ \A i \in DOMAIN lines : /\ lines[i].kind \in {"fence", "key", "item", "text"}
                                 /\ lines[i].kind = "fence" => ~lines[i].indent
  BY Zenon DEF Canonical
<1>3. PICK c : SplitAt(lines, c, SplitFrontmatter(file).block, SplitFrontmatter(file).body)
  BY <1>1, <1>2, SplitFile
<1>4. c \in 2..Len(lines) /\ lines[c].kind = "fence" /\ \A i \in 2..(c - 1) : lines[i].kind # "fence"
  BY <1>3 DEF SplitAt
<1>5. c # 2
  BY <1>2, <1>4
<1>6. c \in ends /\ ends \in SUBSET (1..Len(lines))
  BY <1>1, <1>2, <1>4, <1>5
<1>7. ASSUME NEW j \in ends
      PROVE  c <= j
  <2>1. j \in 3..Len(lines) /\ j \in DOMAIN lines /\ lines[j].kind \in {"fence", "rule"}
    BY <1>1
  <2>2. lines[j].kind = "fence"
    BY <1>2, <2>1
  <2>3. j \notin 2..(c - 1)
    BY <1>4, <2>2
  <2> QED
    BY <1>1, <1>4, <2>1, <2>3
<1>8. FrontmatterEnd(lines) = FirstIndex(ends)
  BY DEF FrontmatterEnd
<1>9. FirstIndex(ends) = c
  <2> HIDE DEF ends
  <2> QED
    BY <1>1, <1>6, <1>7, FirstIs
<1>10. c \in 3..Len(lines)
  BY <1>1, <1>4, <1>5
<1> HIDE DEF ends
<1> QED
  BY <1>3, <1>8, <1>9, <1>10

\* What the renderer made of a block that this program wrote is laid out so.
LEMMA CanonicalIsLaid ==
    ASSUME NEW e, Rendering(e), DOMAIN e.fields \subseteq ToSet(privateKeyOrder),
           NEW a, NEW end, NEW off, NEW f, NEW t, RenderedAs(e, a, end, off, f, t), t = AddedLines(InnerLines(e, end), e),
           OnlyItems(InnerLines(e, end)),
           \A i \in 1..Len(InnerLines(e, end)) :
               /\ InnerLines(e, end)[i].kind # "blank"
               /\ InnerLines(e, end)[i].key \in {"tags", "related"} => InnerLines(e, end)[i].style = "none",
           NEW after, IsSeq(after), Len(after) = Len(f) + Len(t), \A i \in 1..Len(after) : after[i] = a[i + 1]
    PROVE  Laid(e, InnerLines(e, end), off, f, t, after)
<1> DEFINE inner == InnerLines(e, end)
           n == Len(inner)
           pieces == Pieces(inner, e.tags, e.related, e.fields)
<1>1. /\ IsSeq(e.lines) /\ end \in 3..Len(e.lines) /\ NoteLines(inner) /\ n = end - 2
      /\ AddedFits(inner, t) /\ Places(off, f, pieces, end - 2)
      /\ \A i \in 1..Len(f) : a[1 + i] = f[i]
      /\ \A i \in 1..Len(t) : a[1 + Len(f) + i] = t[i]
  BY Zenon DEF RenderedAs
<1>2. \A i \in 1..(end - 2) : PieceFits(inner, e.tags, e.related, i, pieces[i])
  BY Zenon DEF RenderedAs
<1>3. BeginsWithKey(t) /\ \A key \in {"tags", "related"} : ListThere(t, key, Additions(key, e.tags, e.related))
  BY AddedLists
<1>4. IsSeq(e.tags) /\ IsSeq(e.related)
  BY DEF Rendering
<1>5. \A i \in 1..n : inner[i] # Blank
  BY DEF Blank, Line
<1>6. OnlyItems(inner) /\ \A i \in 1..n : inner[i].key \in {"tags", "related"} => inner[i].style = "none"
  OBVIOUS
<1> HIDE DEF inner, n, pieces
<1>7. n \in Nat \ {0} /\ end - 2 = n /\ Len(f) \in Nat /\ Len(t) \in Nat
  <2>1. Len(e.lines) \in Nat /\ Len(f) \in Nat /\ Len(t) \in Nat
    BY <1>1, SeqIs DEF Places, AddedFits
  <2> QED
    BY <1>1, <2>1
<1>8. ASSUME NEW i \in 1..Len(f)
      PROVE  after[i] = f[i]
  <2>1. i \in 1..Len(after) /\ 1 + i = i + 1
    BY <1>7
  <2> QED
    BY <1>1, <2>1
<1>9. ASSUME NEW i \in 1..Len(t)
      PROVE  after[Len(f) + i] = t[i]
  <2>1. Len(f) + i \in 1..Len(after) /\ 1 + Len(f) + i = (Len(f) + i) + 1
    BY <1>7
  <2>2. after[Len(f) + i] = a[(Len(f) + i) + 1]
    BY <2>1
  <2> QED
    BY <1>1, <2>1, <2>2
<1>10. Places(off, f, pieces, n) /\ \A i \in 1..n : PieceFits(inner, e.tags, e.related, i, pieces[i])
  BY <1>1, <1>2, <1>7
<1>11. NoteLines(inner) /\ AddedFits(inner, t)
  BY <1>1
<1> QED
  BY <1>3, <1>4, <1>5, <1>6, <1>7, <1>8, <1>9, <1>10, <1>11 DEF Laid, inner, n, pieces

\* An enrichment of a note as this program writes it passes the guard.
LEMMA CanonicalPasses ==
    ASSUME NEW e, Rendering(e), DOMAIN e.fields \subseteq ToSet(privateKeyOrder),
           NEW file, file = [plain |-> file.plain, lines |-> e.lines], Canonical(file),
           NEW vocab, MayBeAdded(e, SplitFrontmatter(file).block, vocab)
    PROVE  \E after \in applyEnrichToFrontmatter(file, e.tags, e.related, e.fields) : CheckEnrichContent(file, after, vocab)
<1> DEFINE lines == e.lines
           m == Len(lines)
           before == SplitFrontmatter(file).block
           body == SplitFrontmatter(file).body
<1>1. file.lines = lines /\ NoteLines(lines) /\ IsSeq(lines) /\ m \in Nat /\ DOMAIN lines = 1..m
  BY SeqIs DEF Rendering, NoteLines
<1>2. /\ file.plain /\ SplitFrontmatter(file).found /\ OnlyItems(before)
      /\ \A i \in DOMAIN lines : /\ lines[i].kind \in {"fence", "key", "item", "text"}
                                 /\ lines[i].kind = "fence" => ~lines[i].indent
                                 /\ lines[i].key \in {"tags", "related"} => lines[i].style = "none"
  BY <1>1, Zenon DEF Canonical
<1>3. PICK c : SplitAt(lines, c, before, body) /\ FrontmatterEnd(lines) = c /\ c \in 3..m
  BY <1>1, CanonicalEnds
<1>4. /\ lines[1] = Fence /\ lines[c].kind = "fence" /\ \A i \in 2..(c - 1) : lines[i].kind # "fence"
      /\ IsSeq(before) /\ Len(before) = c - 2 /\ \A i \in 1..(c - 2) : before[i] = lines[i + 1]
      /\ IsSeq(body) /\ Len(body) = m - c /\ \A i \in 1..(m - c) : body[i] = lines[c + i]
  BY <1>3 DEF SplitAt
<1> HIDE DEF before, body, m
<1>5. PICK after : after \in applyEnrichToFrontmatter(file, e.tags, e.related, e.fields)
  <2>1. lines # <<>> /\ c # 0
    BY <1>1, <1>3 DEF m
  <2>2. ~(~file.plain \/ file.lines = <<>> \/ file.lines[1] # Fence \/ FrontmatterEnd(file.lines) = 0)
    BY <1>1, <1>2, <1>3, <1>4, <2>1
  <2> QED
    BY <2>2 DEF applyEnrichToFrontmatter
<1>6. PICK end, off, f, t : RenderedAs(e, after.lines, end, off, f, t) /\ t = AddedLines(InnerLines(e, end), e)
  BY <1>5, RenderedNote
<1> DEFINE a == after.lines
           inner == InnerLines(e, end)
<1>7. /\ end \in 3..m /\ lines[end].kind \in {"fence", "rule"} /\ \A i \in 3..(end - 1) : lines[i].kind = "fence" => lines[i].indent
      /\ IsSeq(inner) /\ Len(inner) = end - 2 /\ \A i \in 1..(end - 2) : inner[i] = lines[i + 1]
      /\ IsSeq(a) /\ Len(a) = 1 + Len(f) + Len(t) + (m + 1 - end)
      /\ a[1] = Fence
      /\ \A i \in 1..(m + 1 - end) : a[1 + Len(f) + Len(t) + i] = lines[end - 1 + i]
      /\ Len(f) \in Nat /\ Len(t) \in Nat
  BY <1>6 DEF RenderedAs, NoteLines, Places, AddedFits, m
<1> HIDE DEF a, inner
<1>8. end = c
  <2>1. end \in DOMAIN lines /\ c \in DOMAIN lines
    BY <1>1, <1>3, <1>7
  <2>2. lines[end].kind = "fence" /\ ~lines[c].indent
    BY <1>2, <1>4, <1>7, <2>1
  <2>3. end \notin 2..(c - 1) /\ c \notin 3..(end - 1)
    BY <1>4, <1>7, <2>2
  <2> QED
    BY <1>1, <1>3, <1>7, <2>3
<1>9. inner = before
  <2>1. Len(inner) = Len(before) /\ \A i \in 1..Len(inner) : inner[i] = before[i]
    BY <1>4, <1>7, <1>8
  <2> QED
    BY <1>4, <1>7, <2>1, SameSeq
<1> DEFINE w == 2 + Len(f) + Len(t)
<1>10. w \in 2..Len(a) /\ a[w].kind = "fence"
  <2>1. 1 \in 1..(m + 1 - end) /\ w \in 2..Len(a) /\ 1 + Len(f) + Len(t) + 1 = w /\ end - 1 + 1 = end
    <3>1. end \in 3..m /\ m \in Nat /\ Len(f) \in Nat /\ Len(t) \in Nat /\ Len(a) = 1 + Len(f) + Len(t) + (m + 1 - end)
      BY <1>1, <1>7
    <3> QED
      BY ONLY <3>1
  <2>2. a[1 + Len(f) + Len(t) + 1] = lines[end - 1 + 1]
    BY <1>7, <2>1
  <2> HIDE DEF w
  <2> QED
    BY <1>4, <1>8, <2>1, <2>2
<1> HIDE DEF w
<1>11. SplitFrontmatter(after).found
  BY <1>7, <1>10, FenceSplits DEF a
<1> DEFINE later == SplitFrontmatter(after).block
           text == SplitFrontmatter(after).body
<1>12. PICK d : SplitAt(a, d, later, text)
  BY <1>7, <1>11, SplitFile DEF a
<1> HIDE DEF later, text
<1>13. d = w
  <2>1. d = Len(f) + Len(t) + 2 + c - end
    <3>1. end <= c
      BY <1>3, <1>8
    <3>2. RenderedAs(e, a, end, off, f, t) /\ SplitAt(e.lines, c, before, body) /\ SplitAt(a, d, later, text)
      BY <1>3, <1>6, <1>12 DEF a
    <3>3. ClosesAt(d, f, t, c, end)
      BY <3>1, <3>2, LateBlock
    <3> QED
      BY <3>3 DEF ClosesAt
  <2> QED
    BY <1>3, <1>7, <1>8, <2>1 DEF w
<1>14. /\ IsSeq(later) /\ Len(later) = d - 2 /\ \A i \in 1..(d - 2) : later[i] = a[i + 1]
       /\ IsSeq(text) /\ Len(text) = Len(a) - d /\ \A i \in 1..(Len(a) - d) : text[i] = a[d + i]
  BY <1>12 DEF SplitAt
<1>15. text = body
  <2>1. Len(a) - d = m - c
    BY <1>1, <1>3, <1>7, <1>8, <1>13 DEF w
  <2>2. ASSUME NEW i \in 1..(m - c)
        PROVE  text[i] = body[i]
    <3>1. /\ i + 1 \in 1..(m + 1 - end) /\ 1 + Len(f) + Len(t) + (i + 1) = d + i /\ end - 1 + (i + 1) = c + i
      <4>1. m \in Nat /\ c \in 3..m /\ end = c /\ d = 2 + Len(f) + Len(t) /\ Len(f) \in Nat /\ Len(t) \in Nat /\ i \in 1..(m - c)
        BY <1>1, <1>3, <1>7, <1>8, <1>13 DEF w
      <4> QED
        BY ONLY <4>1
    <3>2. a[1 + Len(f) + Len(t) + (i + 1)] = lines[end - 1 + (i + 1)]
      BY <1>7, <3>1
    <3>3. a[d + i] = lines[c + i]
      BY <3>1, <3>2
    <3> QED
      BY <1>4, <1>14, <2>1, <3>3
  <2> QED
    BY <1>4, <1>14, <2>1, <2>2, SameSeq
<1>16. Laid(e, inner, off, f, t, later)
  <2>1. Len(later) = Len(f) + Len(t) /\ \A i \in 1..Len(later) : later[i] = a[i + 1]
    BY <1>7, <1>13, <1>14 DEF w
  <2>2. OnlyItems(inner)
    BY <1>2, <1>9
  <2>3. ASSUME NEW i \in 1..Len(inner)
        PROVE  /\ inner[i].kind # "blank"
               /\ inner[i].key \in {"tags", "related"} => inner[i].style = "none"
    <3>1. i + 1 \in DOMAIN lines /\ i \in 1..(end - 2)
      <4>1. i \in 1..(end - 2) /\ end \in 3..m /\ m \in Nat /\ DOMAIN lines = 1..m
        BY <1>1, <1>7
      <4>2. i + 1 \in 1..m
        BY ONLY <4>1
      <4> QED
        BY <4>1, <4>2
    <3>2. inner[i] = lines[i + 1]
      BY <1>7, <3>1
    <3> QED
      BY <1>2, <3>1, <3>2
  <2> QED
    BY <1>6, <1>14, <2>1, <2>2, <2>3, CanonicalIsLaid DEF inner, a
<1>17. MayBeAdded(e, inner, vocab)
  BY <1>9 DEF before
<1>18. enrichCheckFieldGuard(before, later, vocab)
  BY <1>9, <1>16, <1>17, GuardPasses
<1>19. CheckEnrichContent(file, after, vocab)
  BY <1>2, <1>11, <1>15, <1>18 DEF CheckEnrichContent, before, later, text, body
<1> QED
  BY <1>5, <1>19

\* A sequence has no more elements than places.
LEMMA FewElements ==
    ASSUME NEW s, IsSeq(s)
    PROVE  IsFiniteSet(ToSet(s)) /\ Cardinality(ToSet(s)) <= Len(s)
<1> DEFINE n == Len(s)
           f == [i \in 1..n |-> s[i]]
           S == ToSet(s)
<1>1. n \in Nat /\ S = {s[i] : i \in 1..n}
  BY SeqIs
<1>2. f \in Surjection(1..n, S)
  BY <1>1 DEF Surjection
<1>3. IsFiniteSet(1..n) /\ Cardinality(1..n) = n
  <2>1. IsFiniteSet(1..n) /\ Cardinality(1..n) = IF 1 > n THEN 0 ELSE n - 1 + 1
    BY <1>1, FS_Interval
  <2> QED
    BY <1>1, <2>1
<1> HIDE DEF f, S, n
<1>4. IsFiniteSet(S) /\ Cardinality(S) <= Cardinality(1..n)
  BY <1>2, <1>3, FS_Surjection
<1> QED
  BY <1>3, <1>4 DEF S, n

\* The guard reads of the lists of a note that this program wrote all there is.
LEMMA CanonicalIsRead ==
    ASSUME NEW file, Canonical(file), NoteLines(file.lines), NEW key \in {"tags", "related"}
    PROVE  EntriesOf(file, key) = ToSet(ListRead(SplitFrontmatter(file).block, key))
<1> DEFINE block == SplitFrontmatter(file).block
           lines == file.lines
<1>1. IsSeq(lines) /\ DOMAIN lines = 1..Len(lines) /\ Len(lines) \in Nat
  BY SeqIs DEF NoteLines
<1>2. \A i \in DOMAIN lines : lines[i].key \in {"tags", "related"} => lines[i].style = "none"
  BY Zenon DEF Canonical
<1>3. PICK c : SplitAt(lines, c, block, SplitFrontmatter(file).body) /\ c \in 3..Len(lines)
  BY CanonicalEnds
<1>4. IsSeq(block) /\ Len(block) = c - 2 /\ \A i \in 1..(c - 2) : block[i] = lines[i + 1]
  BY <1>3 DEF SplitAt
<1> HIDE DEF block
<1>5. DOMAIN splitFrontmatterFields(block) = KeysIn(block)
  BY <1>4, FieldsAreThere
<1>6. CASE key \in KeysIn(block)
  <2>1. PICK s, z : FieldOf(block, key, s, z)
    BY <1>4, <1>6, FieldsAreThere
  <2>2. KeyAt(block, key, s) /\ FieldTo(block, s, z) /\ s \in 1..Len(block) /\ block[s].key = key
    BY <2>1 DEF FieldOf, KeyAt
  <2>3. block[s].style = "none"
    <3>1. s + 1 \in DOMAIN lines /\ block[s] = lines[s + 1]
      BY <1>1, <1>3, <1>4, <2>2
    <3> QED
      BY <1>2, <2>2, <3>1
  <2>4. EntriesOf(file, key) = FieldItems(block, s, z)
    <3>1. EntriesOf(file, key) = FieldEntries(block, s, z)
      BY <1>4, <2>1, EntriesAreThere DEF block
    <3> QED
      BY <2>3, <3>1 DEF FieldEntries
  <2>5. ToSet(parseYAMLList(SubSeq(block, s, z))) = FieldItems(block, s, z)
    BY <1>4, <2>2, <2>3, ParsedField
  <2>6. ListRead(block, key) = parseYAMLList(SubSeq(block, s, z))
    BY <2>1 DEF FieldOf, ListRead
  <2> QED
    BY <2>4, <2>5, <2>6 DEF block
<1>7. CASE key \notin KeysIn(block)
  <2> DEFINE S == {i \in DOMAIN block : IsTopKey(block[i]) /\ block[i].key = key}
  <2>1. S = {}
    BY <1>7 DEF KeysIn
  <2>2. LastIndex(S) = 0
    BY <2>1 DEF LastIndex
  <2>3. EntriesOf(file, key) = {}
    BY <2>2 DEF EntriesOf, block
  <2>4. ListRead(block, key) = <<>>
    BY <1>5, <1>7 DEF ListRead
  <2>5. ToSet(<<>>) = {}
    BY DEF ToSet
  <2> QED
    BY <2>3, <2>4, <2>5 DEF block
<1> QED
  BY <1>6, <1>7

\* What an answer adds.
AnswerAllowed(e) ==
    /\ \A tag \in ToSet(e.answer.tags) \ EntriesOf(e.file, "tags") : MayAdd(tag, e.vocab)
    /\ \A entry \in ToSet(e.answer.related) \ EntriesOf(e.file, "related") : entry.link

\* It may be added if it is allowed.
LEMMA AnswerMayBeAdded ==
    ASSUME NEW e \in Enrichments, Canonical(e.file), AnswerAllowed(e), NEW fields
    PROVE  MayBeAdded(RenderingOf(e.file, e.answer, fields), SplitFrontmatter(e.file).block, e.vocab)
<1> DEFINE r == RenderingOf(e.file, e.answer, fields)
           block == SplitFrontmatter(e.file).block
           review == Word("status/needs-review")
           more == IF e.answer.review THEN <<review>> ELSE <<>>
           tags == e.answer.tags
           given == e.answer.related
           n == IF Len(given) < RelatedMax THEN Len(given) ELSE RelatedMax
<1>1. /\ Rendering(r) /\ r.tags = tags \o more /\ r.related = RelatedKept(given) /\ r.lines = e.file.lines
  BY IsRendering
<1>2. /\ \A added \in {tags, given} : added \in Seq(ToSet(added)) /\ \A entry \in ToSet(added) : entry.cut = "no"
      /\ TagClass["status/needs-review"] = "needs-review"
  BY Zenon, EnrichmentsAssumption
<1>3. IsSeq(tags) /\ IsSeq(given)
  <2>1. tags \in Seq(ToSet(tags)) /\ given \in Seq(ToSet(given))
    BY <1>2
  <2> QED
    BY <2>1 DEF IsSeq
<1>4. NoteLines(e.file.lines)
  BY <1>1 DEF Rendering
<1>5. /\ EntriesOf(e.file, "tags") = ToSet(ListRead(block, "tags"))
      /\ EntriesOf(e.file, "related") = ToSet(ListRead(block, "related"))
  BY <1>4, CanonicalIsRead
<1>6. review.cut = "no" /\ MayAdd(review, e.vocab)
  <2>1. review.cut = "no" /\ review.link = FALSE /\ review.name = "status/needs-review"
    BY DEF Word
  <2> HIDE DEF review
  <2> QED
    BY <1>2, <2>1 DEF MayAdd
<1> HIDE DEF r, block, review
<1>7. IsSeq(more) /\ ToSet(more) \subseteq {review}
  <2>1. IsSeq(<<review>>) /\ IsSeq(<<>>)
    BY Tuples DEF IsSeq
  <2>2. ToSet(<<review>>) = {review} /\ ToSet(<<>>) = {}
    BY DEF ToSet
  <2> QED
    BY <2>1, <2>2
<1> HIDE DEF more, tags, given
<1>8. ToSet(r.tags) = ToSet(tags) \cup ToSet(more)
  BY <1>1, <1>3, <1>7, PutOnSet DEF PutOn
<1>9. /\ IsSeq(RelatedKept(given)) /\ Len(RelatedKept(given)) <= RelatedMax
      /\ ToSet(RelatedKept(given)) \subseteq ToSet(given)
  <2>1. Len(given) \in Nat /\ RelatedMax \in Nat
    BY <1>3, SeqIs, FrontmatterAssumption
  <2>2. n \in Nat /\ n <= Len(given) /\ 1 <= n + 1 /\ n <= RelatedMax /\ (n + 1) - 1 = n /\ 1 \in Nat \ {0}
    BY <2>1
  <2>3. RelatedKept(given) = SubSeq(given, 1, n)
    BY DEF RelatedKept
  <2> HIDE DEF n
  <2>4. /\ IsSeq(SubSeq(given, 1, n)) /\ Len(SubSeq(given, 1, n)) = (n + 1) - 1
        /\ \A i \in 1..((n + 1) - 1) : SubSeq(given, 1, n)[i] = given[(1 - 1) + i]
    BY <1>3, <2>2, PartOf
  <2> DEFINE kept == RelatedKept(given)
  <2>5. IsSeq(kept) /\ Len(kept) = n /\ \A i \in 1..n : kept[i] = given[(1 - 1) + i]
    BY <2>2, <2>3, <2>4
  <2> HIDE DEF kept
  <2>6. ASSUME NEW v \in ToSet(kept)
        PROVE  v \in ToSet(given)
    <3>1. PICK i \in 1..n : v = kept[i]
      BY <2>5, <2>6, SeqIs
    <3>2. i \in 1..Len(given) /\ (1 - 1) + i = i
      BY <2>1, <2>2
    <3>3. v = given[i]
      BY <2>5, <3>1, <3>2
    <3> QED
      BY <1>3, <3>2, <3>3, SeqIs
  <2> QED
    BY <2>2, <2>5, <2>6 DEF kept
<1>10. IsFiniteSet(ToSet(r.related)) /\ Cardinality(ToSet(r.related)) <= RelatedMax
  <2>1. IsFiniteSet(ToSet(r.related)) /\ Cardinality(ToSet(r.related)) <= Len(r.related) /\ IsSeq(r.related)
    BY <1>1, <1>9, FewElements
  <2>2. Cardinality(ToSet(r.related)) \in Nat /\ Len(r.related) \in Nat /\ RelatedMax \in Nat /\ Len(r.related) <= RelatedMax
    BY <1>1, <1>9, <2>1, SeqIs, FS_CardinalityType, FrontmatterAssumption
  <2> QED
    BY <2>1, <2>2
<1>11. \A v \in ToSet(r.tags) : v.cut = "no" /\ (v \in ToSet(ListRead(block, "tags")) \/ MayAdd(v, e.vocab))
  <2> TAKE v \in ToSet(r.tags)
  <2>1. CASE v \in ToSet(tags)
    BY <1>2, <1>5, <2>1 DEF AnswerAllowed, tags
  <2>2. CASE v = review
    BY <1>6, <2>2
  <2> QED
    BY <1>7, <1>8, <2>1, <2>2
<1>12. \A v \in ToSet(r.related) : v.cut = "no" /\ (v \in ToSet(ListRead(block, "related")) \/ v.link)
  <2> TAKE v \in ToSet(r.related)
  <2>1. v \in ToSet(given)
    BY <1>1, <1>9
  <2> QED
    BY <1>2, <1>5, <2>1 DEF AnswerAllowed, given
<1>13. MayBeAdded(r, block, e.vocab)
  BY <1>10, <1>11, <1>12 DEF MayBeAdded
<1> QED
  BY <1>13 DEF r, block

\* A note whose rendering passes the guard is enriched.
LEMMA PassedIsEnriched ==
    ASSUME NEW e \in Enrichments, Canonical(e.file), AnswerAllowed(e)
    PROVE  EnrichedNote(RawPath, e.file, e.answer, e.vocab) # {}
<1> DEFINE fields == {"enriched_at", "enrich_run_id", "enrich_attempts"}
                         \cup (IF e.answer.route THEN {"route_suggestion"} ELSE {})
                         \cup (IF e.answer.candidates THEN {"new_tag_candidates"} ELSE {})
           stamps == [f \in fields |-> "this run"]
           tags == e.answer.tags \o (IF e.answer.review THEN <<Word("status/needs-review")>> ELSE <<>>)
           r == RenderingOf(e.file, e.answer, stamps)
           op(file) == [type |-> "rewrite_note", risk |-> "low", missing |-> {}, target |-> RawPath, hash |-> "sha256",
                        payload |-> [ok |-> TRUE, file |-> file]]
           planOf(file) == [risk |-> "low", approval |-> FALSE, status |-> "proposed", missing |-> {}, purpose |-> NoText,
                            targets |-> {RawPath}, ops |-> <<op(file)>>]
<1>1. DOMAIN stamps \subseteq ToSet(privateKeyOrder)
  <2>1. ToSet(privateKeyOrder) = {"route_suggestion", "new_tag_candidates", "enriched_at", "enrich_run_id", "enrich_attempts"}
    BY DEF privateKeyOrder, ToSet
  <2> QED
    BY <2>1
<1>2. /\ Rendering(r) /\ e.file = [plain |-> e.file.plain, lines |-> r.lines]
      /\ r.tags = tags /\ r.related = RelatedKept(e.answer.related) /\ r.fields = stamps
  BY IsRendering, ZenonT(30)
<1>3. MayBeAdded(r, SplitFrontmatter(e.file).block, e.vocab)
  BY AnswerMayBeAdded
<1>4. validateRelativeVaultPath(RawPath)
  BY Zenon, EnrichmentsAssumption
<1> HIDE DEF stamps, tags, r
<1>5. PICK after \in applyEnrichToFrontmatter(e.file, tags, RelatedKept(e.answer.related), stamps) :
          CheckEnrichContent(e.file, after, e.vocab)
  <2>1. \E after \in applyEnrichToFrontmatter(e.file, r.tags, r.related, r.fields) : CheckEnrichContent(e.file, after, e.vocab)
    BY <1>1, <1>2, <1>3, CanonicalPasses
  <2> QED
    BY <1>2, <2>1
<1> DEFINE plan == planOf(after)
<1>6. plan \in buildPlan(RawPath, e.file, e.answer)
  BY <1>5, Zenon DEF buildPlan, stamps, tags
<1>7. /\ plan.risk = "low" /\ ~plan.approval /\ plan.ops = <<op(after)>>
  OBVIOUS
<1>8. /\ op(after).type = "rewrite_note" /\ op(after).risk = "low" /\ op(after).target = RawPath /\ op(after).hash = "sha256"
      /\ op(after).payload.ok /\ op(after).payload.file = after
  OBVIOUS
<1> HIDE DEF op, plan
<1>9. CheckEnrichPlan(plan, RawPath, e.file, e.vocab)
  <2>1. Len(plan.ops) = 1 /\ plan.ops[1] = op(after)
    BY <1>7
  <2> QED
    BY <1>4, <1>5, <1>7, <1>8, <2>1 DEF CheckEnrichPlan, validateMutatingBeforeHash
<1> QED
  BY <1>6, <1>9 DEF EnrichedNote

\* An answer that adds what may be added to a note as this program writes it
\* is always taken, whatever the note has already (enrich/render.go against
\* policy/enrich.go).
LEMMA EnrichmentsPass == Spec => []EnrichedNotesPass
<1>1. EnrichInv => EnrichedNotesPass
  <2> SUFFICES ASSUME EnrichInv, request.kind = "enrich", Canonical(request.subject.file), AnswerAllowed(request.subject)
               PROVE  verdict # {}
    BY Zenon DEF EnrichedNotesPass, AnswerAllowed
  <2> DEFINE e == request.subject
  <2>1. e \in Enrichments /\ verdict = EnrichedNote(RawPath, e.file, e.answer, e.vocab)
    BY DEF EnrichInv
  <2>2. Canonical(e.file) /\ AnswerAllowed(e)
    OBVIOUS
  <2> HIDE DEF e
  <2> QED
    BY <2>1, <2>2, PassedIsEnriched
<1> QED
  BY <1>1, EnrichInvariant, PTL

\* What the program makes of a valid answer of a model, be it a draft, an
\* expansion or an enrichment, passes its own checks, and a draft that would
\* end its frontmatter early does not (agent/openai_raw_organizer.go,
\* agent/openai_knowledge_expander.go, enrich/render.go against
\* policy/checker.go, policy/enrich.go).
THEOREM WhatIsBuiltPasses == Spec => []BuiltPlansPass
<1>1. OrganizedPlansPass /\ ExpandedPlansPass /\ EnrichedNotesPass => BuiltPlansPass
  BY DEF BuiltPlansPass
<1> QED
  BY <1>1, BuiltPlansFit, EnrichmentsPass, PTL
=============================================================================
