---------------------------- MODULE FlasherSerial ----------------------------
(***************************************************************************)
(* The flasher's serial port in the main process                          *)
(* (flasher/electron/ipc/serial.js): the module-level port, the            *)
(* 'serial:open' and 'serial:close' handlers, and the port objects they   *)
(* create. serial:open number c creates port object c. A port object is   *)
(* "new" until open() is called, "opening" until its open callback,        *)
(* "open", "closing" until its close callback, and "closed" after a close  *)
(* or a failed open. An open callback and the continuation of the handler  *)
(* awaiting it run with no IPC call between them (a microtask), and so     *)
(* does a close callback with the handlers awaiting it: each pair is one   *)
(* step here. 'serial:list' and 'serial:write' change no handler state     *)
(* (serial:write is FlashProtocol's IpcWrite).                             *)
(***************************************************************************)
EXTENDS Naturals

CONSTANTS
  DevicePaths,    \* the serial device paths serial:open is called with
  MaxOpens,       \* bound on serial:open calls
  CallsApart,     \* a serial call is made only once the previous replied
  DeviceCanFail   \* an open may fail and an open port may be unplugged

Ports == 1..MaxOpens
NoPort == 0

VARIABLES
  port,         \* the module-level port: a port object or NoPort (null)
  pst,          \* pst[p]: "new", "opening", "open", "closing" or "closed"
  pPath,        \* the device path of port object p
  listeners,    \* 'data' and 'error' listener pairs attached to p
  opc,          \* serial:open number c: "none", "awaitClose", "awaitOpen", "done"
  waitOn,       \* the port serial:open c awaits the close of
  closeCall,    \* the port an in-flight serial:close awaits, or NoPort
  nOpen         \* serial:open calls made

fsvars == <<port, pst, pPath, listeners, opc, waitOn, closeCall, nOpen>>

FSInit ==
  /\ port = NoPort
  /\ pst = [p \in Ports |-> "new"]
  /\ pPath = [p \in Ports |-> CHOOSE d \in DevicePaths : TRUE]
  /\ listeners = [p \in Ports |-> 0]
  /\ opc = [c \in Ports |-> "none"]
  /\ waitOn = [c \in Ports |-> NoPort]
  /\ closeCall = NoPort
  /\ nOpen = 0

\* port && port.isOpen (isOpen is false while a close is in progress)
IsOpen(p) == p # NoPort /\ pst[p] = "open"

\* No handler is between its call and its reply.
Idle == closeCall = NoPort /\ \A c \in Ports : opc[c] \in {"none", "done"}

\* A device path is held by a port that has it open or is still closing it.
Held(d) == \E q \in Ports : pPath[q] = d /\ pst[q] \in {"open", "closing"}

\* serial:open's tail after the old port is closed: port = new SerialPort
\* (autoOpen false), then port.open(cb); st is the port states before it.
ConstructAndOpen(c, path, st) ==
  /\ port' = c
  /\ pst' = [st EXCEPT ![c] = "opening"]
  /\ pPath' = [pPath EXCEPT ![c] = path]
  /\ opc' = [opc EXCEPT ![c] = "awaitOpen"]

\* serial:open(path): closes the open port and awaits the close callback,
\* or goes on at once.
SerialOpen(path) ==
  LET c == nOpen + 1 IN
  /\ nOpen < MaxOpens
  /\ CallsApart => Idle
  /\ nOpen' = c
  /\ \/ /\ IsOpen(port)
        /\ pst' = [pst EXCEPT ![port] = "closing"]
        /\ pPath' = [pPath EXCEPT ![c] = path]
        /\ opc' = [opc EXCEPT ![c] = "awaitClose"]
        /\ waitOn' = [waitOn EXCEPT ![c] = port]
        /\ UNCHANGED port
     \/ /\ ~IsOpen(port)
        /\ ConstructAndOpen(c, path, pst)
        /\ UNCHANGED waitOn
  /\ UNCHANGED <<listeners, closeCall>>

\* serial:close: closes an open port and awaits the close callback;
\* replies success at once otherwise. The port variable is left as it is.
SerialClose ==
  /\ CallsApart => Idle
  /\ IsOpen(port)
  /\ pst' = [pst EXCEPT ![port] = "closing"]
  /\ closeCall' = port
  /\ UNCHANGED <<port, pPath, listeners, opc, waitOn, nOpen>>

\* The close callback of port p: the device is released, an in-flight
\* serial:close replies, and a serial:open awaiting it creates and opens
\* its own port.
CloseDone(p) ==
  /\ pst[p] = "closing"
  /\ closeCall' = IF closeCall = p THEN NoPort ELSE closeCall
  /\ IF \E c \in Ports : opc[c] = "awaitClose" /\ waitOn[c] = p
     THEN LET c == CHOOSE c \in Ports : opc[c] = "awaitClose" /\ waitOn[c] = p
          IN  ConstructAndOpen(c, pPath[c], [pst EXCEPT ![p] = "closed"])
     ELSE /\ pst' = [pst EXCEPT ![p] = "closed"]
          /\ UNCHANGED <<port, pPath, opc>>
  /\ UNCHANGED <<listeners, waitOn, nOpen>>

\* The open callback of port c and serial:open c's continuation. Success
\* attaches the 'data' and 'error' listeners to port, the module-level
\* variable, which a later serial:open may have replaced meanwhile.
OpenSucceeds(c) ==
  /\ opc[c] = "awaitOpen" /\ pst[c] = "opening"
  /\ ~Held(pPath[c])
  /\ pst' = [pst EXCEPT ![c] = "open"]
  /\ listeners' = [listeners EXCEPT ![port] = @ + 1]
  /\ opc' = [opc EXCEPT ![c] = "done"]
  /\ UNCHANGED <<port, pPath, waitOn, closeCall, nOpen>>

\* The open fails: the device is held by another port object (the OS
\* lock) or, with DeviceCanFail, absent. serial:open replies the error.
OpenFails(c) ==
  /\ opc[c] = "awaitOpen" /\ pst[c] = "opening"
  /\ Held(pPath[c]) \/ DeviceCanFail
  /\ pst' = [pst EXCEPT ![c] = "closed"]
  /\ opc' = [opc EXCEPT ![c] = "done"]
  /\ UNCHANGED <<port, pPath, listeners, waitOn, closeCall, nOpen>>

\* The device of an open port is unplugged: the port closes by itself.
Unplug(p) ==
  /\ DeviceCanFail
  /\ pst[p] = "open"
  /\ pst' = [pst EXCEPT ![p] = "closed"]
  /\ UNCHANGED <<port, pPath, listeners, opc, waitOn, closeCall, nOpen>>

FSNext ==
  \/ \E d \in DevicePaths : SerialOpen(d)
  \/ SerialClose
  \/ \E p \in Ports : CloseDone(p) \/ OpenSucceeds(p) \/ OpenFails(p) \/ Unplug(p)

FSTypeOK ==
  /\ port \in Ports \cup {NoPort}
  /\ pst \in [Ports -> {"new", "opening", "open", "closing", "closed"}]
  /\ pPath \in [Ports -> DevicePaths]
  /\ listeners \in [Ports -> 0..MaxOpens]
  /\ opc \in [Ports -> {"none", "awaitClose", "awaitOpen", "done"}]
  /\ waitOn \in [Ports -> Ports \cup {NoPort}]
  /\ closeCall \in Ports \cup {NoPort}
  /\ nOpen \in 0..MaxOpens

(* The flasher owns at most one live port, and it is the one the module  *)
(* variable holds: every port object that is open is port, so          *)
(* serial:close and serial:write reach it and no device stays locked by  *)
(* a port nobody can close; and once the handlers have replied, an open  *)
(* port has exactly one pair of listeners, so each byte the device sends *)
(* reaches the renderer once. It is about serial:open reading the port   *)
(* variable again after awaiting the open.                               *)
FlasherPortOwned ==
  /\ \A p \in Ports : pst[p] = "open" => p = port
  /\ \A p \in Ports : listeners[p] <= 1
  /\ Idle /\ IsOpen(port) => listeners[port] = 1

=============================================================================
