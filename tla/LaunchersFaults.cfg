\* QEMU's spawn may fail, a stopped QEMU or GDB may exit or print after the next start, the remote
\* may refuse, stdout chunks may cut an MI record, and a GDB session may
\* start without a remote target; serial and protocol calls may overlap, the
\* Modbus peer may drop, and modbus:connect may get an unknown config.type.
CONSTANTS
  MaxQemus = 2
  MaxSpawns = 2
  MaxCmds = 2
  QemuOverlap = TRUE
  QemuSpawnFails = TRUE
  Overlap = TRUE
  RemoteRefused = TRUE
  SplitLines = TRUE
  StartModes = {TRUE, FALSE}
  MaxProcSpawns = 3
  SpawnCanFail = TRUE
  DevicePaths = {"p1", "p2"}
  MaxOpens = 3
  CallsApart = FALSE
  DeviceCanFail = TRUE
  MonitorPaths = {"p1", "p2"}
  MaxMonOpens = 3
  SettleFirst = FALSE
  CloseFirst = FALSE
  MonitorCanFail = TRUE
  MaxConnects = 3
  ModbusTypes = {"tcp", "rtu", "other"}
  CallsOverlap = TRUE
  LinkDrops = TRUE
  Configs <- MCConfigs
  Texts <- MCTexts
  UserFiles = {"P/src/main.st"}
  MaxCalls = 3
  FsFails = TRUE
  AppCrashes = TRUE
SPECIFICATION Spec
INVARIANT LaunchersFaithful
CHECK_DEADLOCK FALSE
