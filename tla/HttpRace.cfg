SPECIFICATION FairSpec
CONSTANTS
  c1 = c1
  c2 = c2
  Call = {c1, c2}
  Path = {"dst"}
  TempName = {"t1", "t2"}
  Target <- RaceTarget
  Limit <- RaceLimit
  Reply <- RaceReply
  Mode = {"m644", "m600"}
  FreshMode = "m644"
  MaxInt = 3
  NoFile = NoFile
INVARIANTS TypeOK DestinationWhole TempOwned NoStrayTemp ModeKept ReportedSizeIsWhole
PROPERTIES OthersUntouched
CHECK_DEADLOCK FALSE
