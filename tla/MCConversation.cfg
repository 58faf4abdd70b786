CONSTANTS
  h1 = h1
  h2 = h2
  Handlers = {h1, h2}
  Scenarios <- MCScenarios
  MaxMessages = 5
  MaxEdits = 1
  MaxLapses = 1
  MaxFaults = 2
SPECIFICATION Spec
INVARIANTS BucketsInv SavedOnce NoTextAfterEdit AnswerGoesWhereAsked
CHECK_DEADLOCK FALSE
