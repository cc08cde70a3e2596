\* Two POUs with a program tab and a variables tab each; closeOtherTabs is
\* called on an open tab; two PLC configurations, three connect() calls,
\* and no connect() or disconnect() while a connect() awaits its timer;
\* two projects, three POU ids, one global variable and one data type, and
\* one compile() call in flight at a time.
CONSTANTS
  Pous <- MCPous
  TabTypes = {"pou", "variables"}
  StrayTabIds = FALSE
  Configs = {"tcp", "serial"}
  MaxConnects = 3
  Overlapping = FALSE
  MaxProjects = 2
  MaxPous = 3
  MaxItems = 1
  MaxCompiles = 1
  Paths = {"a.st", "b.st"}
  MaxBuildOutput = 2
  StrayActiveFile = FALSE
  MaxOutputSize = 2
  MaxWatches = 2
  MaxTime = 2
  BpIds = {1, 2}
  MaxBreakpoints = 2
  SameMsAdds = FALSE
  DigitalPins = 2
  AnalogChannels = 1
  AnalogValues <- MCAnalogValues
  MaxLogSize = 2
  NaN = NaN
  Sizes = {512, 1024}
  MaxFlashes = 2
  MaxLogs = 3
  OutPins = 2
  OutChannels = 1
  SetValues <- MCAnalogValues
  NotANumber = NaN
  Locations = {"main.c:10", "main.c:20"}
  MaxBpAdds = 3
SPECIFICATION Spec
INVARIANT TypeOK
INVARIANT ActiveTabOpen
INVARIANT MonitorNeedsConnection
INVARIANT UnsavedChangesFlagged
INVARIANT ActiveFileOpen
INVARIANT IOInRange
