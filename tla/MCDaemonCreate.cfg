CONSTANTS
  r1 = r1  r2 = r2  n1 = n1  n2 = n2  e1 = e1  e2 = e2  local = local  other = other
  NoLabel = NoLabel  None = None
  Reqs <- MCReqs
  Names <- MCNames
  Existing <- MCExisting
  ExistingLabel <- MCExistingLabel
  Specs <- MCSpecs
  Volumes <- MCVolumes
  Drivers <- MCDrivers
  GenNames <- MCGenNames
SPECIFICATION MCSpec
INVARIANTS TypeOK RollbackReleasesName RegisteredComplete
