SPECIFICATION Spec
CONSTANTS
  c1 = c1
  c2 = c2
  Nobody = Nobody
  Call = {c1}
  Format <- NestedFormat
  Node <- NestedNode
  Above <- NestedAbove
  Layouts <- NestedLayouts
  Root <- NestedRoot
  Archives <- NestedArchives
  EntryOption <- OneLimit
  TotalOption <- OneLimit
  CountOption <- OneLimit
  DefaultLimit = 2
  MaxInt = 5
INVARIANT FailedLeavesNothing
CHECK_DEADLOCK FALSE
