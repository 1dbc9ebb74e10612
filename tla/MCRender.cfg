SPECIFICATION FairSpec
CONSTANTS
  Entities = {"a", "b", "c"}
  Meshes = {"m1", "m2"}
  MeshOf <- MCMeshOf
  Shader = "s"
  Permanent = {"a", "c"}
  FrameCount = 2
  QueueMax = 2
  None = "none"
  FrameBound = 4
  FailureBound = 1
INVARIANTS TypeOK InFlightLive DrawsLive NothingLeft GameOutlivesCommands ChildrenFirst
PROPERTY RenderExits
CHECK_DEADLOCK FALSE
