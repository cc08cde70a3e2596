\* Both launchers when every QEMU spawn succeeds and a stopped process is gone before the next start,
\* every session attaches a remote target that accepts, and stdout chunks
\* end on record boundaries; three IDE child processes, any of whose spawns may fail;
\* the serial ports and protocol clients when each IPC call is made after the
\* previous one replied (and, for the debugger's monitor, after its port
\* settled), with devices that may be absent or unplugged; up to three IDE
\* file handler calls, whose fs calls succeed.
CONSTANTS
  MaxQemus = 2
  MaxSpawns = 2
  MaxCmds = 3
  QemuOverlap = FALSE
  QemuSpawnFails = FALSE
  Overlap = FALSE
  RemoteRefused = FALSE
  SplitLines = FALSE
  StartModes = {TRUE}
  MaxProcSpawns = 3
  SpawnCanFail = TRUE
  DevicePaths = {"p1", "p2"}
  MaxOpens = 3
  CallsApart = TRUE
  DeviceCanFail = TRUE
  MonitorPaths = {"p1", "p2"}
  MaxMonOpens = 3
  SettleFirst = TRUE
  CloseFirst = TRUE
  MonitorCanFail = TRUE
  MaxConnects = 3
  ModbusTypes = {"tcp", "rtu"}
  CallsOverlap = FALSE
  LinkDrops = FALSE
  Configs <- MCConfigs
  Texts <- MCTexts
  UserFiles = {"P/src/main.st"}
  MaxCalls = 3
  FsFails = FALSE
  AppCrashes = FALSE
SPECIFICATION Spec
INVARIANT TypeOK
INVARIANT QemuStatusFaithful
INVARIANT GdbStateFaithful
INVARIANT ProcessMapFaithful
INVARIANT ModbusFlagFaithful
INVARIANT OpcuaFlagFaithful
\* A launcher with every process exited and every pipe drained waits for
\* the next IPC call: the program is idle there, not stuck.
CHECK_DEADLOCK FALSE
