CONSTANTS
  p1 = p1
  p2 = p2
  h1 = h1
  a1 = a1
  a2 = a2
  raw = raw
  done = done
  draft = draft
  note = note
  prop = prop
  Absent = Absent
  NoPlan = NoPlan
  PlanOps <- MCPlanOps
  Plans = {p1, h1}
  Actors = {a1, a2}
  Paths = {raw, done, draft, prop}
  InitialNotes = {raw}
  Prepared = {}
  HighRisk = {h1}
  Syncs = {a1}
  Quiet = {a2}
  MaxOrganized = 1
  MaxFaults = 1
  MaxEdits = 1
SPECIFICATION FairSpec
INVARIANTS AuditInv NoEffectBeforeApproval
PROPERTIES ApprovalSettles LocksComeFree
CHECK_DEADLOCK FALSE
