SPECIFICATION Spec
CONSTANTS
  m1 = m1
  h1 = h1
  c1 = c1
  d1 = d1
  r1 = r1
  NoHost = NoHost
  NoWorker = NoWorker
  NoMachine = NoMachine
  Machines <- OneMachine
  Hosts <- OneHost
  Workers <- SmallPool
  Creators <- OneCreator
  Destroyers <- OneDestroyer
  Reconcilers <- OneReconciler
  Demand <- UnitDemand
  Capacity <- RoomForOne
  Quota = 1
  MaxBoots = 1
  MaxCrashes = 0
  MaxRestarts = 0
  MaxOutages = 0
INVARIANTS StoppedIsClean
CHECK_DEADLOCK FALSE
