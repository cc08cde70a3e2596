--------------------------- MODULE FlashProtocol ---------------------------
(***************************************************************************)
(* The flasher's command/response session: the FlashProtocol object of     *)
(* src/devtools/flasher/src/utils/flash-protocol.js (its fields, the       *)
(* serial-data handler, sendCommand with its timer, destroy and the five   *)
(* device operations), the IPC write path of the preload and main process  *)
(* (flasher/electron/preload.js, flasher/electron/ipc/serial.js), the      *)
(* serial line and the device at the far end.                              *)
(*                                                                         *)
(* Bytes are abstracted to tokens [id, val]: val is the byte value the     *)
(* code reads, id the command whose reply the byte belongs to (provenance, *)
(* never read by the code).  A reply's data bytes are one token: INFO's 12 *)
(* bytes and VERIFY's 4 bytes are either all there when the header is      *)
(* consumed or not.                                                        *)
(***************************************************************************)
EXTENDS Integers, Sequences, FiniteSets

CONSTANTS
  MaxCmds,       \* bound on the number of sendCommand calls
  BlockAddr,     \* address the caller passes to erase/write/verify
  BlockLen,      \* length of the block it erases, writes and verifies
  MaxChunkSize,  \* writeBlock's maxChunkSize argument
  DataBytes,     \* values a data byte of a reply can take
  Lossy,         \* a request may never be answered (port closed, line noise, device hung)
  LateReplies,   \* a timer may fire while the reply is still on its way
  SplitChunks,   \* the serial driver may cut a reply into several 'data' events
  WriteRejects,  \* ipcRenderer.invoke('serial:write') may reject
  CanDestroy,    \* the owner may call destroy() while an operation is in flight
  Overlapping,   \* a second caller may call a method without awaiting the owner's
  SharedWindow   \* an older FlashProtocol of the same window may be destroyed

ASSUME BlockLen > 0 /\ MaxChunkSize > 0 /\ MaxCmds >= 1

CMD  == [ERASE |-> 1, WRITE |-> 2, VERIFY |-> 3, RESET |-> 4, INFO |-> 5]
RESP == [OK |-> 0, ERROR |-> 255, BUSY |-> 254]
NONE == 0          \* null responseCallback / timeout handle
NoAnswer == -1     \* the device has not answered a command

Ids == 1..MaxCmds
Methods == {"getDeviceInfo", "eraseFlash", "writeBlock", "verifyBlock", "resetDevice"}
FirstCmd == [getDeviceInfo |-> CMD.INFO, eraseFlash |-> CMD.ERASE,
             writeBlock |-> CMD.WRITE, verifyBlock |-> CMD.VERIFY,
             resetDevice |-> CMD.RESET]

\* Mutant: the last chunk is not cut to what is left of the block.
ChunkSizeUncut(offset) == MaxChunkSize

\* writeBlock: Math.min(maxChunkSize, data.length - offset)
ChunkSize(offset) ==
  IF MaxChunkSize < BlockLen - offset THEN MaxChunkSize ELSE BlockLen - offset
NumChunks == (BlockLen + MaxChunkSize - 1) \div MaxChunkSize
CmdsOf(m) == IF m = "writeBlock" THEN NumChunks ELSE 1

\* The payload each method builds: be32 address and size, or address and chunk.
PayloadLen(c, chunk) ==
  CASE c \in {CMD.ERASE, CMD.VERIFY} -> 8
    [] c = CMD.WRITE                 -> 4 + chunk
    [] OTHER                         -> 0

\* [(a >> 24) & 0xFF, (a >> 16) & 0xFF, (a >> 8) & 0xFF, a & 0xFF]: floored
\* division and modulus give the same two's-complement bytes for a < 0.
Be32(a) == <<(a \div 16777216) % 256, (a \div 65536) % 256, (a \div 256) % 256, a % 256>>

\* [cmd, data.length, ...data] stored in a Uint8Array: the length byte wraps.
Packet(id, c, addr, chunk) ==
  [id |-> id, cmd |-> c, addr |-> IF c \in {CMD.INFO, CMD.RESET} THEN <<>> ELSE Be32(addr),
   size |-> chunk, payload |-> PayloadLen(c, chunk),
   lenByte |-> PayloadLen(c, chunk) % 256]

\* The device's answer [code, status, ...data]; INFO and VERIFY carry data on OK.
Reply(p, s, d) ==
  <<[id |-> p.id, val |-> p.cmd], [id |-> p.id, val |-> s]>>
  \o (IF s = RESP.OK /\ p.cmd \in {CMD.INFO, CMD.VERIFY}
        THEN <<[id |-> p.id, val |-> d]>> ELSE <<>>)

Idle == [m |-> "idle", id |-> NONE, offset |-> 0, addr |-> 0, ids |-> {}]

VARIABLES
  responseBuffer,   \* this.responseBuffer
  responseCallback, \* this.responseCallback: id of the promise whose resolve it holds
  timeout,          \* this.timeout: id of the last armed timer
  armed,            \* ids of the timers setTimeout armed that have not fired or been cleared
  listening,        \* the onSerialData listener is registered
  destroyed,        \* the owner has called destroy()
  cmdState,         \* state of the promise of each sendCommand call
  cmdResp,          \* the response object a resolved sendCommand returned
  nCmd,             \* sendCommand calls so far
  sent,             \* history: every packet sendCommand passed to writePort
  ipc,              \* writePort invocations not yet handled by the main process
  tx,               \* bytes on the serial line to the device, as packets
  rx,               \* bytes on the serial line from the device, as tokens
  devStatus,        \* the status the device answered to each command
  devData,          \* the data value the device answered to each command
  call,             \* the FlashProtocol method in progress
  log               \* history: methods that returned or threw

protoVars == <<responseBuffer, responseCallback, timeout, armed, listening, destroyed>>
envVars == <<ipc, tx, rx, devStatus, devData>>
vars == <<protoVars, cmdState, cmdResp, nCmd, sent, envVars, call, log>>

Token == [id : Ids, val : 0..255]
Response == [cmd : Token, status : Token, data : Seq(Token)]
NoResp == [cmd |-> [id |-> 1, val |-> 0], status |-> [id |-> 1, val |-> 0], data |-> <<>>]

TypeOK ==
  /\ responseBuffer \in Seq(Token)
  /\ responseCallback \in {NONE} \cup Ids
  /\ timeout \in {NONE} \cup Ids
  /\ armed \subseteq Ids
  /\ listening \in BOOLEAN /\ destroyed \in BOOLEAN
  /\ cmdState \in [Ids -> {"unsent", "pending", "resolved", "rejected"}]
  /\ cmdResp \in [Ids -> Response]
  /\ nCmd \in 0..MaxCmds
  /\ ipc \in Seq({sent[i] : i \in 1..Len(sent)})
  /\ rx \in Seq(Token)
  /\ devStatus \in [Ids -> {NoAnswer} \cup {RESP.OK, RESP.ERROR, RESP.BUSY}]
  /\ call.m \in Methods \cup {"idle"}
  /\ log \in Seq([m : Methods, result : {"ok", "failed", "rejected"},
                  ids : SUBSET Ids, value : DataBytes \cup {0}])

Init ==
  /\ responseBuffer = <<>>
  /\ responseCallback = NONE
  /\ timeout = NONE
  /\ armed = {}
  /\ listening = TRUE /\ destroyed = FALSE
  /\ cmdState = [i \in Ids |-> "unsent"]
  /\ cmdResp = [i \in Ids |-> NoResp]
  /\ nCmd = 0
  /\ sent = <<>>
  /\ ipc = <<>> /\ tx = <<>> /\ rx = <<>>
  /\ devStatus = [i \in Ids |-> NoAnswer]
  /\ devData = [i \in Ids |-> NoAnswer]
  /\ call = Idle
  /\ log = <<>>

(***************************************************************************)
(* Promise settlement: resolve and reject are no-ops on a settled promise. *)
(***************************************************************************)
Settle(id, how, resp) ==
  IF cmdState[id] = "pending"
    THEN /\ cmdState' = [cmdState EXCEPT ![id] = how]
         /\ cmdResp' = [cmdResp EXCEPT ![id] = resp]
    ELSE UNCHANGED <<cmdState, cmdResp>>

\* Mutant: sendCommand arms no timer.
SendCommandNoTimer(id, c, addr, chunk) ==
  LET p == Packet(id, c, addr, chunk) IN
  /\ nCmd' = id
  /\ responseCallback' = id
  /\ timeout' = id
  /\ armed' = armed
  /\ cmdState' = [cmdState EXCEPT ![id] = "pending"]
  /\ sent' = Append(sent, p)
  /\ ipc' = Append(ipc, p)

(***************************************************************************)
(* sendCommand(cmd, data, timeoutMs): store resolve, arm the timer, call   *)
(* writePort; the invoke is handled later by the main process.             *)
(***************************************************************************)
SendCommand(id, c, addr, chunk) ==
  LET p == Packet(id, c, addr, chunk) IN
  /\ nCmd' = id
  /\ responseCallback' = id
  /\ timeout' = id
  /\ armed' = armed \cup {id}
  /\ cmdState' = [cmdState EXCEPT ![id] = "pending"]
  /\ sent' = Append(sent, p)
  /\ ipc' = Append(ipc, p)

(***************************************************************************)
(* The owner calls one of getDeviceInfo, eraseFlash(addr, size),           *)
(* writeBlock(addr, data), verifyBlock(addr, size), resetDevice: each      *)
(* starts with one sendCommand.  It awaits each call before the next and   *)
(* stops using the object once it has destroyed it.                        *)
(***************************************************************************)
Invoke(m) ==
  /\ call = Idle
  /\ ~destroyed
  /\ nCmd + CmdsOf(m) <= MaxCmds
  /\ call' = [m |-> m, id |-> nCmd + 1, offset |-> 0, addr |-> BlockAddr,
              ids |-> {nCmd + 1}]
  /\ SendCommand(nCmd + 1, FirstCmd[m], BlockAddr, IF m = "writeBlock" THEN ChunkSize(0) ELSE BlockLen)
  /\ UNCHANGED <<responseBuffer, listening, destroyed, cmdResp, tx, rx, devStatus, devData, log>>

(* A settled await resumes in the microtask queue, before any other event. *)
Ready == call # Idle /\ cmdState[call.id] \in {"resolved", "rejected"}

\* Mutant: the fields are read from the start of the response, not its data.
DecodeFromHeader(r) == r.cmd.val

(* The decoded field: (data[0] << 24) | ..., where undefined bytes read as 0. *)
Decode(r) == IF r.data = <<>> THEN 0 ELSE r.data[1].val

Finish(result, value) ==
  /\ log' = Append(log, [m |-> call.m, result |-> result, ids |-> call.ids, value |-> value])
  /\ call' = Idle

\* Mutant: the status check after await is missing for all but writeBlock's loop.
ContinueNoStatusCheck ==
  /\ Ready
  /\ LET r == cmdResp[call.id]
         cs == ChunkSize(call.offset) IN
     CASE cmdState[call.id] = "rejected" ->
            Finish("rejected", 0) /\ UNCHANGED <<nCmd, responseCallback, timeout, armed, cmdState, sent, ipc>>
       [] r.status.val # RESP.OK /\ call.m = "writeBlock" ->
            Finish("failed", 0) /\ UNCHANGED <<nCmd, responseCallback, timeout, armed, cmdState, sent, ipc>>
       [] call.m = "writeBlock" /\ call.offset + cs < BlockLen ->
            /\ call' = [call EXCEPT !.id = nCmd + 1, !.offset = @ + cs, !.addr = @ + cs,
                                    !.ids = @ \cup {nCmd + 1}]
            /\ SendCommand(nCmd + 1, CMD.WRITE, call.addr + cs, ChunkSize(call.offset + cs))
            /\ UNCHANGED log
       [] OTHER ->
            Finish("ok", Decode(r)) /\ UNCHANGED <<nCmd, responseCallback, timeout, armed, cmdState, sent, ipc>>
  /\ UNCHANGED <<responseBuffer, listening, destroyed, cmdResp, tx, rx, devStatus, devData>>

(***************************************************************************)
(* The continuation after `await this.sendCommand(...)` in each method:    *)
(* a rejection propagates; a status other than OK throws; writeBlock       *)
(* advances offset and address by the chunk and sends the next chunk;     *)
(* getDeviceInfo and verifyBlock decode the response data.                 *)
(***************************************************************************)
Continue ==
  /\ Ready
  /\ LET r == cmdResp[call.id]
         cs == ChunkSize(call.offset) IN
     CASE cmdState[call.id] = "rejected" ->
            Finish("rejected", 0) /\ UNCHANGED <<nCmd, responseCallback, timeout, armed, cmdState, sent, ipc>>
       [] r.status.val # RESP.OK ->
            Finish("failed", 0) /\ UNCHANGED <<nCmd, responseCallback, timeout, armed, cmdState, sent, ipc>>
       [] call.m = "writeBlock" /\ call.offset + cs < BlockLen ->
            /\ call' = [call EXCEPT !.id = nCmd + 1, !.offset = @ + cs, !.addr = @ + cs,
                                    !.ids = @ \cup {nCmd + 1}]
            /\ SendCommand(nCmd + 1, CMD.WRITE, call.addr + cs, ChunkSize(call.offset + cs))
            /\ UNCHANGED log
       [] OTHER ->
            Finish("ok", Decode(r)) /\ UNCHANGED <<nCmd, responseCallback, timeout, armed, cmdState, sent, ipc>>
  /\ UNCHANGED <<responseBuffer, listening, destroyed, cmdResp, tx, rx, devStatus, devData>>

(***************************************************************************)
(* Main process handles 'serial:write': port.write on success; when the    *)
(* port is closed or the write fails it returns {success: false}, which    *)
(* resolves writePort, so nothing rejects; only an IPC failure rejects it  *)
(* and runs .catch(reject), leaving responseCallback and the timer set.    *)
(***************************************************************************)
IpcWrite ==
  /\ ~Ready
  /\ ipc # <<>>
  /\ LET p == Head(ipc) IN
     \/ /\ tx' = Append(tx, p)
        /\ UNCHANGED <<cmdState, cmdResp>>
     \/ /\ Lossy
        /\ UNCHANGED <<tx, cmdState, cmdResp>>
     \/ /\ WriteRejects
        /\ Settle(p.id, "rejected", NoResp)
        /\ UNCHANGED tx
  /\ ipc' = Tail(ipc)
  /\ UNCHANGED <<protoVars, nCmd, sent, rx, devStatus, devData, call, log>>

(* The device reads one request and answers it with some status, or not at all. *)
DeviceAnswer ==
  /\ ~Ready
  /\ tx # <<>>
  /\ LET p == Head(tx) IN
     \/ \E s \in {RESP.OK, RESP.ERROR, RESP.BUSY}, d \in DataBytes :
          /\ rx' = rx \o Reply(p, s, d)
          /\ devStatus' = [devStatus EXCEPT ![p.id] = s]
          /\ devData' = [devData EXCEPT ![p.id] =
                           IF s = RESP.OK /\ p.cmd \in {CMD.INFO, CMD.VERIFY} THEN d ELSE NoAnswer]
     \/ /\ Lossy
        /\ UNCHANGED <<rx, devStatus, devData>>
  /\ tx' = Tail(tx)
  /\ UNCHANGED <<protoVars, cmdState, cmdResp, nCmd, sent, ipc, call, log>>

(* Where the serial driver may end a 'data' event: anywhere, or between replies. *)
Cuts == {k \in 1..Len(rx) : SplitChunks \/ k = Len(rx) \/ rx[k + 1].id # rx[k].id}

\* Mutant: handleData resolves but leaves the consumed bytes in the buffer.
HandleDataKeepBuffer(chunk) ==
  LET buf == responseBuffer \o chunk IN
  IF responseCallback # NONE /\ Len(buf) >= 2
    THEN /\ armed' = armed \ {timeout}
         /\ Settle(responseCallback, "resolved",
                   [cmd |-> buf[1], status |-> buf[2], data |-> SubSeq(buf, 3, Len(buf))])
         /\ responseCallback' = NONE
         /\ responseBuffer' = buf
    ELSE /\ responseBuffer' = buf
         /\ UNCHANGED <<armed, cmdState, cmdResp, responseCallback>>

(***************************************************************************)
(* handleData(data): append the chunk; if a callback is waiting and two    *)
(* bytes are buffered, clear the timer, resolve with [cmd, status, ...],   *)
(* drop the callback and empty the buffer.  After destroy() the listener   *)
(* is gone and the chunk is lost.                                          *)
(***************************************************************************)
HandleData(chunk) ==
  LET buf == responseBuffer \o chunk IN
  IF responseCallback # NONE /\ Len(buf) >= 2
    THEN /\ armed' = armed \ {timeout}
         /\ Settle(responseCallback, "resolved",
                   [cmd |-> buf[1], status |-> buf[2], data |-> SubSeq(buf, 3, Len(buf))])
         /\ responseCallback' = NONE
         /\ responseBuffer' = <<>>
    ELSE /\ responseBuffer' = buf
         /\ UNCHANGED <<armed, cmdState, cmdResp, responseCallback>>

Deliver ==
  /\ ~Ready
  /\ \E k \in Cuts :
       /\ rx' = SubSeq(rx, k + 1, Len(rx))
       /\ IF listening
            THEN HandleData(SubSeq(rx, 1, k))
            ELSE UNCHANGED <<responseBuffer, armed, cmdState, cmdResp, responseCallback>>
  /\ UNCHANGED <<timeout, listening, destroyed, nCmd, sent, ipc, tx, devStatus, devData, call, log>>

(* A reply to t is still on its way: in the IPC queue, on the line, or being answered. *)
ReplyComing(t) ==
  \/ \E i \in 1..Len(ipc) : ipc[i].id = t
  \/ \E i \in 1..Len(tx) : tx[i].id = t
  \/ \E i \in 1..Len(rx) : rx[i].id = t

(* The setTimeout callback of command t: drop the callback, reject with 'Command timeout'. *)
TimerFires(t) ==
  /\ ~Ready
  /\ t \in armed
  /\ LateReplies \/ ~ReplyComing(t)
  /\ armed' = armed \ {t}
  /\ responseCallback' = NONE
  /\ Settle(t, "rejected", NoResp)
  /\ UNCHANGED <<responseBuffer, timeout, listening, destroyed, nCmd, sent, envVars, call, log>>

(* destroy(): clear this.timeout and remove every 'serial:data' listener. *)
Destroy ==
  /\ CanDestroy
  /\ ~Ready
  /\ ~destroyed
  /\ armed' = IF timeout # NONE THEN armed \ {timeout} ELSE armed
  /\ listening' = FALSE
  /\ destroyed' = TRUE
  /\ UNCHANGED <<responseBuffer, responseCallback, timeout, cmdState, cmdResp, nCmd, sent,
                 envVars, call, log>>

(***************************************************************************)
(* Another caller of the same object calls getDeviceInfo, eraseFlash,     *)
(* verifyBlock or resetDevice without awaiting the owner's operation: its *)
(* sendCommand overwrites responseCallback and this.timeout, and the      *)
(* owner's timer stays armed. Its continuation only returns to that      *)
(* caller and changes nothing of the object.                              *)
(***************************************************************************)
\* The command ids the owner's writeBlock still needs: MaxCmds bounds both.
Reserved == IF call.m = "writeBlock" THEN NumChunks - Cardinality(call.ids) ELSE 0

SecondCaller ==
  /\ Overlapping
  /\ ~Ready
  /\ ~destroyed
  /\ nCmd + 1 + Reserved <= MaxCmds
  /\ \E m \in Methods \ {"writeBlock"} :
       SendCommand(nCmd + 1, FirstCmd[m], BlockAddr, BlockLen)
  /\ UNCHANGED <<responseBuffer, listening, destroyed, cmdResp, tx, rx, devStatus,
                 devData, call, log>>

(* destroy() of an older FlashProtocol in the same window: the preload's  *)
(* removeSerialDataListener removes every 'serial:data' listener, this    *)
(* one's included; its timer and callback are untouched.                  *)
OtherInstanceDestroyed ==
  /\ SharedWindow
  /\ ~Ready
  /\ listening
  /\ listening' = FALSE
  /\ UNCHANGED <<responseBuffer, responseCallback, timeout, armed, destroyed, cmdState,
                 cmdResp, nCmd, sent, envVars, call, log>>

(* Nothing is in flight and no timer is armed: the owner has made all its  *)
(* calls, or destroyed the session, or a call waits on a promise nothing   *)
(* will ever settle.  The program really stops here.                       *)
Quiescent ==
  /\ ~Ready
  /\ ipc = <<>> /\ tx = <<>> /\ rx = <<>>
  /\ armed = {}
  /\ call = Idle /\ ~destroyed => \A m \in Methods : nCmd + CmdsOf(m) > MaxCmds
  /\ UNCHANGED vars

Next ==
  \/ \E m \in Methods : Invoke(m)
  \/ Continue
  \/ IpcWrite
  \/ DeviceAnswer
  \/ Deliver
  \/ \E t \in Ids : TimerFires(t)
  \/ Destroy
  \/ SecondCaller
  \/ OtherInstanceDestroyed
  \/ Quiescent

(* The event loop runs every ready timer, IPC reply, serial event and microtask. *)
Fairness ==
  /\ WF_vars(Continue)
  /\ WF_vars(IpcWrite)
  /\ WF_vars(DeviceAnswer)
  /\ WF_vars(Deliver)
  /\ \A t \in Ids : WF_vars(TimerFires(t))

Spec == Init /\ [][Next]_vars /\ Fairness

-----------------------------------------------------------------------------
(***************************************************************************)
(* Properties.                                                             *)
(***************************************************************************)

\* Reference definition of the tiling writeBlock promises: consecutive
\* chunks of at most MaxChunkSize bytes covering [a, a + n).
RECURSIVE Tiles(_, _)
Tiles(a, n) ==
  IF n = 0 THEN <<>>
  ELSE LET c == IF n < MaxChunkSize THEN n ELSE MaxChunkSize
       IN <<[addr |-> Be32(a), size |-> c]>> \o Tiles(a + c, n - c)

\* The WRITE packets of the command ids S, in the order they were sent.
WritesOf(S) ==
  LET w == SelectSeq(sent, LAMBDA p : p.id \in S)
  IN [j \in 1..Len(w) |-> [addr |-> w[j].addr, size |-> w[j].size]]

\* writeBlock's loop (offset and address advanced by each chunk, the last
\* chunk cut to what is left): the WRITEs of every writeBlock call, finished
\* or in progress, are a prefix of the tiling of the block, and a call that
\* returned normally sent all of it.
WritesTile ==
  /\ \A k \in 1..Len(log) :
       log[k].m = "writeBlock" =>
         LET w == WritesOf(log[k].ids) IN
         /\ w = SubSeq(Tiles(BlockAddr, BlockLen), 1, Len(w))
         /\ log[k].result = "ok" => w = Tiles(BlockAddr, BlockLen)
  /\ call.m = "writeBlock" =>
       LET w == WritesOf(call.ids) IN w = SubSeq(Tiles(BlockAddr, BlockLen), 1, Len(w))

\* The response matching of handleData, sendCommand's timer and the methods'
\* status checks: an operation that returned normally had every one of its
\* commands answered OK by the device, and returned the data the device sent;
\* an operation that threw on a status had its last command answered with
\* that error by the device; one that was rejected ('Command timeout') had
\* its last command left unanswered.
OutcomeFaithful ==
  \A k \in 1..Len(log) :
    LET e == log[k]
        last == CHOOSE i \in e.ids : \A j \in e.ids : j <= i IN
    /\ e.result = "ok" =>
         /\ \A i \in e.ids : devStatus[i] = RESP.OK
         /\ e.m \in {"getDeviceInfo", "verifyBlock"} => e.value = devData[last]
    /\ e.result = "failed" => devStatus[last] \in {RESP.ERROR, RESP.BUSY}
    /\ e.result = "rejected" => devStatus[last] = NoAnswer

\* sendCommand's [cmd, data.length, ...data] framing: the length byte of
\* every request sent equals the length of its payload.
FrameLengthValid ==
  \A i \in 1..Len(sent) : sent[i].lenByte = sent[i].payload

\* The refinement mapping: the abstract call is the method and its command
\* ids, the session is open while the serial-data listener is registered;
\* the command counter, the device's answers and the log map to themselves.
Session == INSTANCE FlashSession
             WITH call <- [m |-> call.m, ids |-> call.ids],
                  open <- ~destroyed,
                  ChunksPerBlock <- NumChunks

\* The whole session (handleData's response matching, sendCommand's timer,
\* the methods' status checks and writeBlock's loop) implements FlashSession:
\* every step is a step of the abstract session or leaves it unchanged, so
\* each operation ends once, atomically, with a result the device's answers
\* justify, and writeBlock moves on only after an accepted chunk.
SessionSpec == Session!Spec

\* sendCommand's timer: every operation the owner calls eventually returns
\* or throws, whatever the transport and the device do.
MethodsReturn ==
  \A m \in Methods : (call.m = m) ~> (call.m = "idle")

=============================================================================
