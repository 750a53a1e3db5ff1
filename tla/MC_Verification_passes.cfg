SPECIFICATION Spec
CONSTANTS
  thread1 = thread1
  thread2 = thread2
  command = command
  server = server
  terminal = terminal
  pid1 = pid1
  pid2 = pid2
  Pass = {thread1, command}
  NoPass = NoPass
  Process = {server, terminal}
  Home <- MC_Home
  Pid = {pid1, pid2}
  NoPid = NoPid
  PidOf <- MC_PidOf
  Server = {server}
  Task = {t1, t2}
  Quantity = {q1, q2}
  First = {q1}
  Editor = {e1}
  MaxChanges = 2
CHECK_DEADLOCK FALSE
SYMMETRY TaskSymmetry
PROPERTY RefusedOnlyByHolder
PROPERTY PassIsComplete
