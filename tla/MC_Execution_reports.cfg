SPECIFICATION Spec
CONSTANTS
  plain = plain
  single = single
  batch = batch
  batchReport = batchReport
  Package = {batchReport}
  Shape <- MC_Shape
  Job = {j1}
  Op = {o1, o2}
  Key = {}
  NoKey = NoKey
  Client = {c1}
  Retrier = Retrier
  Stopper = Stopper
  Nobody = Nobody
  NoOp = NoOp
  MaxSamples = 2
  MaxModels = 1
  MaxInstance = 1
  JobWriteFaults = FALSE
  OpWriteFaults = FALSE
  OrphanedCLI = FALSE
SYMMETRY MC_Symmetry
INVARIANT SucceededIsComplete
INVARIANT ReportIsOwn
PROPERTY ExecutionsAreSerial
