SPECIFICATION Spec
CONSTANTS
  c1 = c1
  c2 = c2
  Nobody = Nobody
  Call = {c1, c2}
  Format <- TwoFormat
  Node <- TwoNode
  Above <- TwoAbove
  Layouts <- TwoLayouts
  Root <- TwoRoot
  Archives <- TwoArchives
  EntryOption <- TwoEntry
  TotalOption <- TwoTotal
  CountOption <- TwoCount
  DefaultLimit = 2
  MaxInt = 5
INVARIANTS TypeOK WithinLimits SuccessIsComplete FailedRemoved
PROPERTIES PreexistingKept
CHECK_DEADLOCK FALSE
