---------------------------- MODULE DebuggerSerial ----------------------------
(***************************************************************************)
(* The debugger's serial monitor in the main process                       *)
(* (debugger/electron/ipc/serial.js): the module-level serialPort, the     *)
(* 'serial:open' and 'serial:close' handlers and the port objects they     *)
(* create. Both handlers run to their reply without an await: serial:open  *)
(* calls close() on an open port without waiting for it and constructs a   *)
(* new SerialPort, which opens by itself (autoOpen) some time later, with  *)
(* its 'data' and 'error' listeners attached at once. serial:open number c *)
(* creates port object c, in the states of FlasherSerial. A failed open    *)
(* emits 'error', which the listener forwards as a 'serial:data' event of  *)
(* type error; serial:open has already replied success. 'serial:list' and  *)
(* 'serial:write' change no handler state.                                 *)
(***************************************************************************)
EXTENDS Naturals

CONSTANTS
  MonitorPaths,   \* the device paths serial:open is called with
  MaxMonOpens,    \* bound on serial:open calls
  SettleFirst,    \* a port's pending open or close ends before the next call
  CloseFirst,     \* the OS ends a pending close before it handles an open
  MonitorCanFail  \* an open may fail and an open port may be unplugged

MonPorts == 1..MaxMonOpens
NoMonPort == 0

VARIABLES
  serialPort,   \* the module-level serialPort, or NoMonPort (null)
  mst,          \* mst[p]: "new", "opening", "open", "closing" or "closed"
  mPath,        \* the device path of port object p
  lockErrors,   \* ports whose 'error' event says another port holds the device
  nMonOpen      \* serial:open calls made

dsvars == <<serialPort, mst, mPath, lockErrors, nMonOpen>>

DSInit ==
  /\ serialPort = NoMonPort
  /\ mst = [p \in MonPorts |-> "new"]
  /\ mPath = [p \in MonPorts |-> CHOOSE d \in MonitorPaths : TRUE]
  /\ lockErrors = {}
  /\ nMonOpen = 0

\* serialPort && serialPort.isOpen
MonIsOpen(p) == p # NoMonPort /\ mst[p] = "open"

\* No port object is between its open() or close() and the callback.
Settled == \A p \in MonPorts : mst[p] \notin {"opening", "closing"}

\* The OS handles the open of a port now (with CloseFirst, once no close is
\* pending).
OsOpens == CloseFirst => \A q \in MonPorts : mst[q] # "closing"

\* A device path is held by a port that has it open or is still closing it.
MonHeld(d) == \E q \in MonPorts : mPath[q] = d /\ mst[q] \in {"open", "closing"}

\* serial:open(config): close() on an open port, not awaited, then
\* serialPort = new SerialPort(...), opening by itself; replies success.
MonitorOpen(path) ==
  LET c == nMonOpen + 1
      st == IF MonIsOpen(serialPort)
            THEN [mst EXCEPT ![serialPort] = "closing"] ELSE mst
  IN
  /\ nMonOpen < MaxMonOpens
  /\ SettleFirst => Settled
  /\ serialPort' = c
  /\ mst' = [st EXCEPT ![c] = "opening"]
  /\ mPath' = [mPath EXCEPT ![c] = path]
  /\ nMonOpen' = c
  /\ UNCHANGED lockErrors

\* serial:close: close() on an open port, not awaited, and serialPort =
\* null; a port that is not open yet is left alone and stays referenced.
MonitorClose ==
  /\ SettleFirst => Settled
  /\ MonIsOpen(serialPort)
  /\ mst' = [mst EXCEPT ![serialPort] = "closing"]
  /\ serialPort' = NoMonPort
  /\ UNCHANGED <<mPath, lockErrors, nMonOpen>>

\* The close callback of port p: the device is released.
MonCloseDone(p) ==
  /\ mst[p] = "closing"
  /\ mst' = [mst EXCEPT ![p] = "closed"]
  /\ UNCHANGED <<serialPort, mPath, lockErrors, nMonOpen>>

\* The automatic open of port p succeeds unless another port object holds
\* the device; a failed open emits 'error', forwarded to the renderer.
MonOpenSucceeds(p) ==
  /\ mst[p] = "opening" /\ OsOpens
  /\ ~MonHeld(mPath[p])
  /\ mst' = [mst EXCEPT ![p] = "open"]
  /\ UNCHANGED <<serialPort, mPath, lockErrors, nMonOpen>>

MonOpenFails(p) ==
  /\ mst[p] = "opening" /\ OsOpens
  /\ MonHeld(mPath[p]) \/ MonitorCanFail
  /\ mst' = [mst EXCEPT ![p] = "closed"]
  /\ lockErrors' = IF MonHeld(mPath[p]) THEN lockErrors \cup {p} ELSE lockErrors
  /\ UNCHANGED <<serialPort, mPath, nMonOpen>>

\* The device of an open port is unplugged: the port closes by itself.
MonUnplug(p) ==
  /\ MonitorCanFail
  /\ mst[p] = "open"
  /\ mst' = [mst EXCEPT ![p] = "closed"]
  /\ UNCHANGED <<serialPort, mPath, lockErrors, nMonOpen>>

DSNext ==
  \/ \E d \in MonitorPaths : MonitorOpen(d)
  \/ MonitorClose
  \/ \E p \in MonPorts : \/ MonCloseDone(p) \/ MonOpenSucceeds(p)
                         \/ MonOpenFails(p) \/ MonUnplug(p)

DSTypeOK ==
  /\ serialPort \in MonPorts \cup {NoMonPort}
  /\ mst \in [MonPorts -> {"new", "opening", "open", "closing", "closed"}]
  /\ mPath \in [MonPorts -> MonitorPaths]
  /\ lockErrors \subseteq MonPorts
  /\ nMonOpen \in 0..MaxMonOpens

(* Every port object the monitor opened is either closed or the one      *)
(* serialPort holds, so serial:close and serial:write reach it and no    *)
(* port left running sends its data to the renderer beside the current   *)
(* one; and a serial:open on a device that is present ends with the port *)
(* open, never with an 'error' event because the port it replaced still  *)
(* held the device. It is about serial:open not waiting for the close of *)
(* the old port, and for the open of a port still opening, before it     *)
(* replaces serialPort.                                                  *)
MonitorPortOwned ==
  /\ \A p \in MonPorts : mst[p] = "open" => p = serialPort
  /\ lockErrors = {}

=============================================================================
