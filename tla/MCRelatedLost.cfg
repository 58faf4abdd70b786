CONSTANTS
  HoursPerDay = 4
  MinutesPerHour = 2
  Horizon = 4
  Days <- MCDays
  Instants <- MCInstants
  PathOf <- MCPathOf
  TagClass <- MCTagClass
  RelatedMax = 2
  NumberOf <- MCNumberOf
  CronText <- MCCronText
  Zones = {"Europe/Berlin"}
  BulkAffects = 3
  Windows <- CalmWindows
  Vaults <- MCVaults
  BudgetCaps <- MCCaps
  Organizings <- MCOrganizings
  Expansions <- MCExpansions
  Plans <- MCPlans
  Enrichments <- MCEnrichments
  RawPath = "in"
SPECIFICATION Spec
INVARIANTS RelatedIsAppendOnly
