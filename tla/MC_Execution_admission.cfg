SPECIFICATION Spec
CONSTANTS
  plain = plain
  single = single
  batch = batch
  batchReport = batchReport
  Package = {plain, single}
  Shape <- MC_Shape
  Job = {j1, j2}
  Op = {}
  Key = {k1}
  NoKey = NoKey
  Client = {c1, c2}
  Retrier = Retrier
  Stopper = Stopper
  Nobody = Nobody
  NoOp = NoOp
  MaxSamples = 2
  MaxModels = 1
  MaxInstance = 1
  JobWriteFaults = FALSE
  OpWriteFaults = FALSE
  OrphanedCLI = FALSE
SYMMETRY MC_Symmetry
INVARIANT KeyNamesOneRun
INVARIANT PackageActiveOnce
INVARIANT RecordAgrees
PROPERTY OutcomeIsFinal
