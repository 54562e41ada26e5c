CONSTANTS
  Pages = {p1, p2}
  NumSyncStates = 2
  MaxPendingRenderPassesBeforeFlush = 1
  MaxPrimitives = 3
  MinimumPrimitivesForIdleFlush = 2
  MinimumRenderPassesForIdleFlush = 1
  RingSize = 1
  MaxDraws = 3
  MaxSyncs = 2
SPECIFICATION Spec
INVARIANTS
  TimelineMeansVisible
  NoLostGpuWrite
  InstanceNotInUse
  RendererExclusive
  WritesCounted
  SignalInFlight
SYMMETRY Symmetry
