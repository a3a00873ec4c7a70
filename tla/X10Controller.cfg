SPECIFICATION Spec
CONSTANTS
  Beyond <- MCBeyond
  Houses = {"E", "J"}
  Units = {1, 4, 9}
  Ops = {"ON", "OFF", "DIM", "BRIGHT", "MOVE"}
  RemoteOps = {"ON", "OFF", "DIM"}
INVARIANTS
  TypeOK
  MemoryAgrees
  ReachesItsUnit
