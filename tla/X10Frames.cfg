SPECIFICATION Spec
CONSTANTS
  Beyond <- MCBeyond
  Houses = {"E"}
  Units = {2, 3, 9}
  Ops = {"ON", "BRIGHT"}
  RemoteOps = {"ON", "OFF"}
INVARIANT
  FramesAsListed
