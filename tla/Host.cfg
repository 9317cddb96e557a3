SPECIFICATION SystemSpec
CONSTANTS
  Still = Still
  u1 = u1
  a1 = a1
  u2 = u2
  s1 = s1
  s2 = s2
  Absent = Absent
  Records <- MCRecords
  Width <- MCWidth
  Separated = {}
  Batches <- MCBatches
  Summaries <- MCSummaries
  MaxRecords = 4
  Exposed <- MCExposed
  p1 = p1
  p2 = p2
  p3 = p3
  p4 = p4
  NoFile = NoFile
  Unreadable = Unreadable
  Processes <- MCProcesses
  Pids = {1, 2}
  PidOf <- MCPidOf
  Hosts = {"here", "elsewhere"}
  HostOf <- MCHostOf
  Pinning = TRUE
  Subs = {"ring", "file", "a"}
  Ring = "ring"
  File = "file"
  MaxStrikes = 2
  Capacity = 2
  MaxEvents = 3
  MaxDays = 2
  LoadOrder <- HostOrder
  Caps <- HostCaps
  Acquires <- HostAcquires
  Deps <- HostDeps
  Critical = {1}
  CliBuiltin = 1
  Required = {"cli_entry", "model"}
  HookBindings <- MCHookBindings
  CriticalHooks = {"q"}
  Remaining = 3
INVARIANTS
  TypeOK
  OneHolder
  HolderNamed
  PluginsAllOrNothing
  EventsReachAll
  HooksAreIsolated
  SessionsAreSafe
  ReaderSeesOneCommit
  CapabilitiesResolve
  CommandsAreRouted
  PluginsArePlanned
  ConfigurationHolds
  FilesAreHonest
PROPERTIES
  OrderIsKept
  ImplementsSessionLog
  HostWorkEnds
CHECK_DEADLOCK FALSE
