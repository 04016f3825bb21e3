SPECIFICATION Spec
INVARIANTS TypeOK ForcedGathererWins WebVendorGoesToGit OwnExpanderWins
CHECK_DEADLOCK FALSE
