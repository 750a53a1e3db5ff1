SPECIFICATION MC_Spec
CONSTANTS
  thread1 = thread1
  thread2 = thread2
  command = command
  server = server
  terminal = terminal
  pid1 = pid1
  pid2 = pid2
  Pass = {thread1, thread2, command}
  NoPass = NoPass
  Process = {server, terminal}
  Home <- MC_Home
  Pid = {pid1, pid2}
  NoPid = NoPid
  PidOf <- MC_PidOf
  Server = {server}
  Task = {}
  Quantity = {q1}
  First = {q1}
  Editor = {}
  MaxChanges = 2
  Invocation = {h1, h2, h3}
  Address = {adr}
  Command = {"start", "restart", "force", "uninstall"}
  None = None
  Other = Other
  Weight = {"nowcastnet", "embedded"}
  Embedded = {"embedded"}
  DataImage = "sevir"
  WEIGHT_SOURCE = TRUE
  MaxSelected = 2
CHECK_DEADLOCK FALSE
SYMMETRY MC_Symmetry
INVARIANT FileInv
INVARIANT ExclusiveUnlessTaken
INVARIANT HandlerIsRecorded
INVARIANT StoppedIsSilent
INVARIANT WeightsAreShown
