SPECIFICATION Spec
CONSTANTS
  m1 = m1
  h1 = h1
  c1 = c1
  d1 = d1
  r1 = r1
  NoHost = NoHost
  NoWorker = NoWorker
  NoMachine = NoMachine
  Machines <- OneMachine
  Hosts <- OneHost
  Workers <- SmallPool
  Creators <- OneCreator
  Destroyers <- OneDestroyer
  Reconcilers <- OneReconciler
  Demand <- UnitDemand
  Capacity <- RoomForOne
  Quota = 1
  MaxBoots = 2
  MaxCrashes = 0
  MaxRestarts = 1
  MaxOutages = 1
INVARIANTS RecoverableByKey IntentFirst
PROPERTY ImplementsTable
CHECK_DEADLOCK FALSE
