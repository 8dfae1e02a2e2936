SPECIFICATION Spec
CONSTANTS
  r1 = r1
  r2 = r2
  e1 = e1
  e2 = e2
  both = both
  moved = moved
  None = None
  Requests <- MCRequests
  LayerOf <- MCLayerOf
  Endpoints <- MCEndpoints
  Configs <- MCConfigs
  Holding <- MCHolding
  Local <- MCLocal
  Tunnel <- MCTunnel
  Mode <- MCMode
  Ttl = 2
  ProbeTime = 1
  Budget = 1
  Delay = 1
  MaxTime = 7
  MaxChanges = 2
INVARIANTS
  HeldBounded
  OnlyFirstPays
  FollowsServers
CHECK_DEADLOCK FALSE
