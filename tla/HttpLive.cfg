SPECIFICATION FairSpec
CONSTANTS
  c1 = c1
  c2 = c2
  Call = {c1, c2}
  Path = {"dst"}
  TempName = {"t1", "t2"}
  Target <- LiveTarget
  Limit <- LiveLimit
  Reply <- LiveReply
  Mode = {"m644"}
  FreshMode = "m644"
  MaxInt = 2
  NoFile = NoFile
PROPERTIES CallsEnd ReplacesAtomically
CHECK_DEADLOCK FALSE
