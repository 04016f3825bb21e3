SPECIFICATION Spec
INVARIANT UriSelectsGatherer
CHECK_DEADLOCK FALSE
