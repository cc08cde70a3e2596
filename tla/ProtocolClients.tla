--------------------------- MODULE ProtocolClients ---------------------------
(***************************************************************************)
(* The simulator's Modbus and OPC UA clients in the main process           *)
(* (simulator/electron/ipc/protocol.js): the module-level client, session  *)
(* and connected flags, the connect and disconnect handlers, and the       *)
(* client objects they create. Connect call number c creates client c (and *)
(* OPC UA session c). A step is a callback together with the continuation  *)
(* of the handler awaiting it, which runs before any other IPC call. The   *)
(* read and write handlers change no state: they check the connected flag  *)
(* and call the client; the properties say when that check can be trusted. *)
(***************************************************************************)
EXTENDS Naturals

CONSTANTS
  MaxConnects,   \* bound on modbus:connect and on opcua:connect calls
  ModbusTypes,   \* config.type values modbus:connect is called with
  CallsOverlap,       \* a call may be made before the previous one replied
  LinkDrops      \* the Modbus peer may close an established connection

Clients == 1..MaxConnects
None == 0

VARIABLES
  modbusClient, modbusConnected,
  mcst,          \* Modbus client c: "new", "connecting", "connected", "closed"
  mcall,         \* modbus:connect c: "none", "awaitConnect", "done"
  opcuaClient, opcuaSession, opcuaConnected,
  ocst,          \* OPC UA client c: "new", "connecting", "connected", "disconnected"
  sessOn,        \* the client session c was created on, or None
  ocall,         \* opcua:connect c: "none", "awaitDisconnect", "awaitConnect",
                 \* "awaitSession", "done"
  waitC,         \* the client opcua:connect c awaits the disconnect of
  dcall,         \* opcua:disconnect: "none", "closeSession", "disconnectClient"
  dWait          \* the session or client opcua:disconnect awaits

pcvars == <<modbusClient, modbusConnected, mcst, mcall, opcuaClient,
            opcuaSession, opcuaConnected, ocst, sessOn, ocall, waitC, dcall,
            dWait>>
opcuaVars == <<opcuaClient, opcuaSession, opcuaConnected, ocst, sessOn,
               ocall, waitC, dcall, dWait>>
modbusVars == <<modbusClient, modbusConnected, mcst, mcall>>

PCInit ==
  /\ modbusClient = None /\ modbusConnected = FALSE
  /\ mcst = [c \in Clients |-> "new"] /\ mcall = [c \in Clients |-> "none"]
  /\ opcuaClient = None /\ opcuaSession = None /\ opcuaConnected = FALSE
  /\ ocst = [c \in Clients |-> "new"] /\ sessOn = [c \in Clients |-> None]
  /\ ocall = [c \in Clients |-> "none"] /\ waitC = [c \in Clients |-> None]
  /\ dcall = "none" /\ dWait = None

ModbusIdle == \A c \in Clients : mcall[c] \in {"none", "done"}
OpcuaIdle == dcall = "none" /\ \A c \in Clients : ocall[c] \in {"none", "done"}

\* The next connect call's number, when one may be made.
NextCall(calls) ==
  {c \in Clients : calls[c] = "none" /\ \A k \in 1..(c - 1) : calls[k] # "none"}

-----------------------------------------------------------------------------
(* Modbus *)

\* modbus:connect(config): close() on the old client (callback ignored),
\* a new client, and connectTCP or connectRTUBuffered awaited; any other
\* config.type connects nothing and goes on to set connected at once.
ModbusConnect(c, type) ==
  /\ c \in NextCall(mcall)
  /\ CallsOverlap \/ ModbusIdle
  /\ modbusClient' = c
  /\ LET st == IF modbusClient # None
               THEN [mcst EXCEPT ![modbusClient] = "closed"] ELSE mcst
     IN  IF type \in {"tcp", "rtu"}
         THEN /\ mcst' = [st EXCEPT ![c] = "connecting"]
              /\ mcall' = [mcall EXCEPT ![c] = "awaitConnect"]
              /\ UNCHANGED modbusConnected
         ELSE /\ mcst' = st
              /\ mcall' = [mcall EXCEPT ![c] = "done"]
              /\ modbusConnected' = TRUE
  /\ UNCHANGED opcuaVars

\* A settle whose failure path leaves the connected flag as it was.
ModbusConnectSettlesKeepFlag(c) ==
  /\ mcall[c] = "awaitConnect"
  /\ mcall' = [mcall EXCEPT ![c] = "done"]
  /\ \/ /\ mcst[c] = "connecting"
        /\ mcst' = [mcst EXCEPT ![c] = "connected"]
        /\ modbusConnected' = (modbusClient # None)
     \/ /\ mcst' = [mcst EXCEPT ![c] = "closed"]
        /\ UNCHANGED modbusConnected
  /\ UNCHANGED <<modbusClient>>
  /\ UNCHANGED opcuaVars

\* The connect of client c settles; the handler then calls setID on
\* modbusClient, which throws (caught: connected = false) when a
\* disconnect has set it to null meanwhile. A closed client fails.
ModbusConnectSettles(c) ==
  /\ mcall[c] = "awaitConnect"
  /\ mcall' = [mcall EXCEPT ![c] = "done"]
  /\ \/ /\ mcst[c] = "connecting"
        /\ mcst' = [mcst EXCEPT ![c] = "connected"]
        /\ modbusConnected' = (modbusClient # None)
     \/ /\ mcst' = [mcst EXCEPT ![c] = "closed"]
        /\ modbusConnected' = FALSE
  /\ UNCHANGED <<modbusClient>>
  /\ UNCHANGED opcuaVars

\* modbus:disconnect: close(), client null, connected false.
ModbusDisconnect ==
  /\ CallsOverlap \/ ModbusIdle
  /\ modbusClient # None
  /\ mcst' = [mcst EXCEPT ![modbusClient] = "closed"]
  /\ modbusClient' = None
  /\ modbusConnected' = FALSE
  /\ UNCHANGED <<mcall>>
  /\ UNCHANGED opcuaVars

\* The peer closes an established connection; protocol.js has no 'close'
\* listener, so nothing else changes.
ModbusLinkDrop(c) ==
  /\ LinkDrops /\ mcst[c] = "connected"
  /\ mcst' = [mcst EXCEPT ![c] = "closed"]
  /\ UNCHANGED <<modbusClient, modbusConnected, mcall>>
  /\ UNCHANGED opcuaVars

-----------------------------------------------------------------------------
(* OPC UA *)

\* OPCUAClient.create and the connect that is awaited next.
CreateOpcuaClient(c, st) ==
  /\ opcuaClient' = c
  /\ ocst' = [st EXCEPT ![c] = "connecting"]
  /\ ocall' = [ocall EXCEPT ![c] = "awaitConnect"]

\* A client disconnects, and the sessions on it close.
Disconnected(k) == [ocst EXCEPT ![k] = "disconnected"]

\* opcua:connect(config): awaits the disconnect of the old client first.
OpcuaConnect(c) ==
  /\ c \in NextCall(ocall)
  /\ CallsOverlap \/ OpcuaIdle
  /\ \/ /\ opcuaClient # None
        /\ ocall' = [ocall EXCEPT ![c] = "awaitDisconnect"]
        /\ waitC' = [waitC EXCEPT ![c] = opcuaClient]
        /\ UNCHANGED <<opcuaClient, ocst>>
     \/ /\ opcuaClient = None
        /\ CreateOpcuaClient(c, ocst)
        /\ UNCHANGED waitC
  /\ UNCHANGED <<opcuaSession, opcuaConnected, sessOn, dcall, dWait>>
  /\ UNCHANGED modbusVars

\* The old client's disconnect resolves; the handler creates its client.
OpcuaOldDisconnected(c) ==
  /\ ocall[c] = "awaitDisconnect"
  /\ CreateOpcuaClient(c, Disconnected(waitC[c]))
  /\ UNCHANGED <<opcuaSession, opcuaConnected, sessOn, waitC, dcall, dWait>>
  /\ UNCHANGED modbusVars

\* The connect of client c settles. On success the handler calls
\* createSession on opcuaClient, read again after the await; on failure
\* the catch sets connected to false; a disconnect that set opcuaClient to
\* null meanwhile makes the createSession call throw.
OpcuaConnectSettles(c) ==
  /\ ocall[c] = "awaitConnect"
  /\ \/ /\ ocst[c] = "connecting" /\ opcuaClient # None
        /\ ocst' = [ocst EXCEPT ![c] = "connected"]
        /\ ocall' = [ocall EXCEPT ![c] = "awaitSession"]
        /\ sessOn' = [sessOn EXCEPT ![c] = opcuaClient]
        /\ UNCHANGED opcuaConnected
     \/ /\ ocst[c] = "connecting" /\ opcuaClient = None   \* TypeError, caught
        /\ ocst' = [ocst EXCEPT ![c] = "connected"]
        /\ ocall' = [ocall EXCEPT ![c] = "done"]
        /\ opcuaConnected' = FALSE
        /\ UNCHANGED sessOn
     \/ /\ ocst' = [ocst EXCEPT ![c] = "disconnected"]
        /\ ocall' = [ocall EXCEPT ![c] = "done"]
        /\ opcuaConnected' = FALSE
        /\ UNCHANGED sessOn
  /\ UNCHANGED <<opcuaClient, opcuaSession, waitC, dcall, dWait>>
  /\ UNCHANGED modbusVars

\* createSession settles: session c on a connected client, or the catch.
OpcuaSessionSettles(c) ==
  /\ ocall[c] = "awaitSession"
  /\ ocall' = [ocall EXCEPT ![c] = "done"]
  /\ \/ /\ ocst[sessOn[c]] = "connected"
        /\ opcuaSession' = c
        /\ opcuaConnected' = TRUE
        /\ UNCHANGED sessOn
     \/ /\ sessOn' = [sessOn EXCEPT ![c] = None]
        /\ opcuaConnected' = FALSE
        /\ UNCHANGED opcuaSession
  /\ UNCHANGED <<opcuaClient, ocst, waitC, dcall, dWait>>
  /\ UNCHANGED modbusVars

\* opcua:disconnect: awaits the session's close, then the client's
\* disconnect, then sets connected to false.
OpcuaDisconnect ==
  /\ dcall = "none"
  /\ CallsOverlap \/ OpcuaIdle
  /\ \/ /\ opcuaSession # None
        /\ dcall' = "closeSession" /\ dWait' = opcuaSession
        /\ UNCHANGED opcuaConnected
     \/ /\ opcuaSession = None /\ opcuaClient # None
        /\ dcall' = "disconnectClient" /\ dWait' = opcuaClient
        /\ UNCHANGED opcuaConnected
     \/ /\ opcuaSession = None /\ opcuaClient = None
        /\ opcuaConnected' = FALSE
        /\ UNCHANGED <<dcall, dWait>>
  /\ UNCHANGED <<opcuaClient, opcuaSession, ocst, sessOn, ocall, waitC>>
  /\ UNCHANGED modbusVars

\* The session's close resolves (closing a session whose client is gone is
\* taken to succeed): opcuaSession = null, then the client's
\* disconnect is awaited if there is a client.
OpcuaSessionClosed ==
  /\ dcall = "closeSession"
  /\ sessOn' = [sessOn EXCEPT ![dWait] = None]
  /\ opcuaSession' = None
  /\ IF opcuaClient # None
     THEN dcall' = "disconnectClient" /\ dWait' = opcuaClient
          /\ UNCHANGED opcuaConnected
     ELSE dcall' = "none" /\ dWait' = None /\ opcuaConnected' = FALSE
  /\ UNCHANGED <<opcuaClient, ocst, ocall, waitC>>
  /\ UNCHANGED modbusVars

\* An opcua:disconnect tail that forgets to clear the connected flag.
OpcuaClientDisconnectedKeepFlag ==
  /\ dcall = "disconnectClient"
  /\ ocst' = Disconnected(dWait)
  /\ opcuaClient' = None
  /\ dcall' = "none" /\ dWait' = None
  /\ UNCHANGED <<opcuaConnected, opcuaSession, sessOn, ocall, waitC>>
  /\ UNCHANGED modbusVars

\* The client's disconnect resolves: opcuaClient = null, connected false.
OpcuaClientDisconnected ==
  /\ dcall = "disconnectClient"
  /\ ocst' = Disconnected(dWait)
  /\ opcuaClient' = None
  /\ opcuaConnected' = FALSE
  /\ dcall' = "none" /\ dWait' = None
  /\ UNCHANGED <<opcuaSession, sessOn, ocall, waitC>>
  /\ UNCHANGED modbusVars

PCNext ==
  \/ \E c \in Clients, t \in ModbusTypes : ModbusConnect(c, t)
  \/ \E c \in Clients : ModbusConnectSettles(c) \/ ModbusLinkDrop(c)
  \/ ModbusDisconnect
  \/ \E c \in Clients : \/ OpcuaConnect(c) \/ OpcuaOldDisconnected(c)
                        \/ OpcuaConnectSettles(c) \/ OpcuaSessionSettles(c)
  \/ OpcuaDisconnect \/ OpcuaSessionClosed \/ OpcuaClientDisconnected

PCTypeOK ==
  /\ modbusClient \in Clients \cup {None} /\ modbusConnected \in BOOLEAN
  /\ mcst \in [Clients -> {"new", "connecting", "connected", "closed"}]
  /\ mcall \in [Clients -> {"none", "awaitConnect", "done"}]
  /\ opcuaClient \in Clients \cup {None} /\ opcuaSession \in Clients \cup {None}
  /\ opcuaConnected \in BOOLEAN
  /\ ocst \in [Clients -> {"new", "connecting", "connected", "disconnected"}]
  /\ sessOn \in [Clients -> Clients \cup {None}]
  /\ ocall \in [Clients -> {"none", "awaitDisconnect", "awaitConnect",
                            "awaitSession", "done"}]
  /\ waitC \in [Clients -> Clients \cup {None}]
  /\ dcall \in {"none", "closeSession", "disconnectClient"}
  /\ dWait \in Clients \cup {None}

\* A session the server keeps and the handlers can use: created, not
\* closed, on a client that is still connected.
SessionLive(s) == s # None /\ sessOn[s] # None /\ ocst[sessOn[s]] = "connected"

(* Once the Modbus handlers have replied, modbusConnected, which         *)
(* modbus:read and modbus:write check before they use the client, says   *)
(* whether modbusClient holds an established connection. It is about    *)
(* modbus:connect closing the old client without waiting, the catch of a *)
(* connect that lost the race setting the flag for the winner, and the   *)
(* flag nothing resets when the peer goes away.                          *)
ModbusFlagFaithful ==
  ModbusIdle =>
    (modbusConnected <=> modbusClient # None /\ mcst[modbusClient] = "connected")

(* Once the OPC UA handlers have replied, opcuaConnected says whether     *)
(* opcuaSession is a live session, and no other session is live: every    *)
(* session the server keeps is the one opcua:disconnect will close. It is  *)
(* about opcua:connect reading opcuaClient again after its awaits and      *)
(* opcua:disconnect setting to null a client or session a later connect   *)
(* installed.                                                              *)
OpcuaFlagFaithful ==
  OpcuaIdle =>
    /\ opcuaConnected <=> SessionLive(opcuaSession)
    /\ \A s \in Clients : SessionLive(s) => s = opcuaSession

=============================================================================
