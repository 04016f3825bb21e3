SPECIFICATION Spec
CONSTANTS
  c1 = c1
  c2 = c2
  Nobody = Nobody
  Call = {c1, c2}
  Format <- SharedFormat
  Node <- SharedNode
  Above <- SharedAbove
  Layouts <- SharedLayouts
  Root <- SharedRoot
  Archives <- SharedArchives
  EntryOption <- TwoEntry
  TotalOption <- TwoTotal
  CountOption <- TwoCount
  DefaultLimit = 2
  MaxInt = 5
PROPERTIES OnlyCreatorRemoves
CHECK_DEADLOCK FALSE
