SPECIFICATION FairSpec
CONSTANTS
  None = None
  me = me
  n1 = n1
  n2 = n2
  Nodes <- ThreeNodes
  Local = me
  Bits = 2
  Hash <- TwoBits
  MaxNodesPerBucket = 1
  MaxReplacements = 1
  LivenessSize = 4
  Bootnodes <- Boot
  Lookups = {l1}
  Conns = {c1}
  NeighborLists <- Lists
  Alpha = 1
  RevalidationLimit = 1
  MaxPings = 1
  MaxLookups = 1
  TaskSets <- Pairs
INVARIANTS TableSound EndpointProof ChannelsLead FoundBounded
PROPERTIES LookupEnds
