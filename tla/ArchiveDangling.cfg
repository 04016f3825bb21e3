SPECIFICATION Spec
CONSTANTS
  c1 = c1
  c2 = c2
  Nobody = Nobody
  Call = {c1}
  Format <- DanglingFormat
  Node <- DanglingNode
  Above <- DanglingAbove
  Layouts <- DanglingLayouts
  Root <- DanglingRoot
  Archives <- DanglingArchives
  EntryOption <- OneLimit
  TotalOption <- OneLimit
  CountOption <- OneLimit
  DefaultLimit = 2
  MaxInt = 5
PROPERTIES DestinationKept
CHECK_DEADLOCK FALSE
