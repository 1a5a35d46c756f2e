SPECIFICATION Spec
CONSTANTS
  k1 = k1
  k2 = k2
  k3 = k3
  pa = pa
  pb = pb
  pc = pc
  pd = pd
  Chunks = {k1, k2, k3}
  Params = {pa, pb, pc, pd}
  ChunkOf <- MCChunkOf
  Fwd <- MCFwd
  Bwd <- MCBwd
  GroupSize = 2
  MaxIterations = 3
  MaxInferences = 1
  Configs <- OverflowAmidAccumulation
INVARIANT GradsComplete
CHECK_DEADLOCK FALSE
