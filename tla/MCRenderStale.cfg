SPECIFICATION Spec
CONSTANTS
  Entities = {"a"}
  Meshes = {"m1"}
  MeshOf <- MCOneMesh
  Shader = "s"
  Permanent = {}
  FrameCount = 2
  QueueMax = 3
  None = "none"
  FrameBound = 5
  FailureBound = 0
INVARIANT DrawsLive
CHECK_DEADLOCK FALSE
