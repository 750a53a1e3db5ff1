SPECIFICATION Spec
CONSTANTS
  plain = plain
  single = single
  batch = batch
  batchReport = batchReport
  Package = {single}
  Shape <- MC_Shape
  Job = {j1, j2}
  Op = {o1}
  Key = {}
  NoKey = NoKey
  Client = {c1}
  Retrier = Retrier
  Stopper = Stopper
  Nobody = Nobody
  NoOp = NoOp
  MaxSamples = 2
  MaxModels = 1
  MaxInstance = 1
  JobWriteFaults = TRUE
  OpWriteFaults = FALSE
  OrphanedCLI = FALSE
SYMMETRY MC_Symmetry
INVARIANT OneExecution
INVARIANT StopIsQuiet
