SPECIFICATION Spec
CONSTANTS
  MaxRequests = 2
  id1 = id1
  id2 = id2
  SIDs = {id1, id2}
  EvtCap = 1
  MaxLog = 1
  Services = {"known"}
  SpawnResults = {"spawned"}
INVARIANTS ReachableUntilComplete ClosedOnce ExitLeavesNoKnownDaemon
SYMMETRY Symmetry
