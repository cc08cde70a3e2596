------------------------------ MODULE PlcStore ------------------------------
(***************************************************************************)
(* The SoftPLC IDE's PLC store (softplc-ide/src/stores/plc.ts): the        *)
(* connection, the status machine and the monitoring flag. connect() is    *)
(* split at its await (a one-second timer): ConnectStart runs up to it,    *)
(* ConnectResume after it; any other handler may run in between.           *)
(* disconnect() awaits stopMonitor() and stop(), whose promises are        *)
(* already settled, so only microtasks run between its parts and it is one *)
(* step. download, upload and setVariableValue only add output messages    *)
(* and are left out with the message log.                                  *)
(***************************************************************************)
EXTENDS Naturals

CONSTANTS
  Configs,      \* PLCConnection values connect() is called with
  MaxConnects,  \* bound on connect() calls
  Overlapping   \* connect() or disconnect() may run while a connect awaits

NoConnection == "null"

VARIABLES
  connection,      \* the PLCConnection, or NoConnection
  status,          \* PLCStatus
  isMonitoring,
  connectsPending, \* connect() calls waiting on their timer
  connects         \* connect() calls so far

pvars == <<connection, status, isMonitoring, connectsPending, connects>>

IsConnected == status \in {"connected", "running", "stopped"}
IsRunning == status = "running"

PInit ==
  /\ connection = NoConnection
  /\ status = "disconnected"
  /\ isMonitoring = FALSE
  /\ connectsPending = 0
  /\ connects = 0

\* connect(config), up to its await: status connecting, connection set.
ConnectStart(c) ==
  /\ connects < MaxConnects
  /\ Overlapping \/ connectsPending = 0
  /\ status' = "connecting"
  /\ connection' = c
  /\ connectsPending' = connectsPending + 1
  /\ connects' = connects + 1
  /\ UNCHANGED isMonitoring

\* A disconnect() that leaves monitoring on.
DisconnectKeepMonitoring ==
  /\ Overlapping \/ connectsPending = 0
  /\ connection' = NoConnection
  /\ status' = "disconnected"
  /\ UNCHANGED <<isMonitoring, connectsPending, connects>>

\* A connect() resumption that runs whether or not a connect() awaits.
ConnectResumeUnguarded ==
  /\ status' = "connected"
  /\ connectsPending' = connectsPending - 1
  /\ UNCHANGED <<connection, isMonitoring, connects>>

\* connect(config) after its timer: status connected, whatever happened
\* to the connection meanwhile.
ConnectResume ==
  /\ connectsPending > 0
  /\ status' = "connected"
  /\ connectsPending' = connectsPending - 1
  /\ UNCHANGED <<connection, isMonitoring, connects>>

\* disconnect(): stopMonitor() if monitoring, stop() if running (its
\* status 'stopped' is overwritten at once), then connection null and
\* status disconnected.
Disconnect ==
  /\ Overlapping \/ connectsPending = 0
  /\ isMonitoring' = FALSE
  /\ connection' = NoConnection
  /\ status' = "disconnected"
  /\ UNCHANGED <<connectsPending, connects>>

\* run(): when connected, status running.
Run ==
  /\ IsConnected
  /\ status' = "running"
  /\ UNCHANGED <<connection, isMonitoring, connectsPending, connects>>

\* stop(): when running, status stopped.
Stop ==
  /\ IsRunning
  /\ status' = "stopped"
  /\ UNCHANGED <<connection, isMonitoring, connectsPending, connects>>

\* startMonitor(): when connected, monitoring on.
StartMonitor ==
  /\ IsConnected
  /\ isMonitoring' = TRUE
  /\ UNCHANGED <<connection, status, connectsPending, connects>>

\* stopMonitor(): monitoring off (and monitorData cleared).
StopMonitor ==
  /\ isMonitoring' = FALSE
  /\ UNCHANGED <<connection, status, connectsPending, connects>>

\* toggleMonitor() is stopMonitor() or startMonitor() by isMonitoring.
ToggleMonitor ==
  IF isMonitoring THEN StopMonitor ELSE StartMonitor

PNext ==
  \/ \E c \in Configs : ConnectStart(c)
  \/ ConnectResume
  \/ Disconnect
  \/ Run
  \/ Stop
  \/ ToggleMonitor

PTypeOK ==
  /\ connection \in Configs \cup {NoConnection}
  /\ status \in {"disconnected", "connecting", "connected", "running",
                 "stopped", "error"}
  /\ isMonitoring \in BOOLEAN
  /\ connectsPending \in 0..MaxConnects /\ connects \in 0..MaxConnects

(* While the store says the PLC is connected (isConnected: connected,    *)
(* running or stopped) it has the connection it is connected to: about   *)
(* connect() setting status after its await and disconnect() clearing   *)
(* the connection.                                                       *)
ConnectedHasConnection ==
  IsConnected => connection # NoConnection

(* Monitoring is on only while the PLC is connected or being connected   *)
(* to: startMonitor checks isConnected and disconnect stops monitoring   *)
(* before it disconnects.                                                *)
MonitorNeedsConnection ==
  isMonitoring => status \in {"connecting", "connected", "running", "stopped"}

=============================================================================
