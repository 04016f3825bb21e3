SPECIFICATION Spec
CONSTANTS
  c1 = c1
  c2 = c2
  c3 = c3
  Absent = Absent
  Original = Original
  Call = {c1, c2, c3}
  Path = {"out", "other"}
  TempName = {"t1", "t2"}
  Target <- MCTarget
  Stream <- MCStream
  EntryOption <- MCEntry
  TotalOption <- MCTotal
  DefaultEntry = 2
  DefaultTotal = 3
  MaxInt = 3
INVARIANTS TypeOK OutputWhole
PROPERTIES ReplacesAtomically
CHECK_DEADLOCK FALSE
