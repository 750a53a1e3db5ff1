SPECIFICATION FairSpec
CONSTANTS
  plain = plain
  single = single
  batch = batch
  batchReport = batchReport
  Package = {single}
  Shape <- MC_Shape
  Job = {j1, j2}
  Op = {o1}
  Key = {}
  NoKey = NoKey
  Client = {c1}
  Retrier = Retrier
  Stopper = Stopper
  Nobody = Nobody
  NoOp = NoOp
  MaxSamples = 2
  MaxModels = 1
  MaxInstance = 0
  JobWriteFaults = FALSE
  OpWriteFaults = FALSE
  OrphanedCLI = FALSE
PROPERTY QueuedJobEnds
