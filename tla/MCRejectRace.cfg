CONSTANTS
  p1 = p1
  p2 = p2
  h1 = h1
  a1 = a1
  a2 = a2
  raw = raw
  done = done
  draft = draft
  note = note
  prop = prop
  Absent = Absent
  NoPlan = NoPlan
  PlanOps <- MCPlanOps
  Plans = {p1}
  Actors = {a1, a2}
  Paths = {raw, done, draft}
  InitialNotes = {raw}
  Prepared = {p1}
  HighRisk = {}
  Syncs = {a1}
  Quiet = {}
  MaxOrganized = 0
  MaxFaults = 0
  MaxEdits = 0
SPECIFICATION Spec
INVARIANTS RejectedLeavesNoTrace
CHECK_DEADLOCK FALSE
