SPECIFICATION Spec
CONSTANTS
  p1 = p1
  p2 = p2
  p3 = p3
  p4 = p4
  NoFile = NoFile
  Unreadable = Unreadable
  Processes <- MCProcesses
  Pids = {1, 2}
  PidOf <- MCPidOf
  Hosts = {"here", "elsewhere"}
  HostOf <- MCHostOf
  Pinning = FALSE
INVARIANT
  OneHolder
CHECK_DEADLOCK FALSE
