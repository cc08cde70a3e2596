---------------------------- MODULE FlashSession ----------------------------
(***************************************************************************)
(* What a FlashProtocol session promises its owner (spec.md 4.2, 5): one   *)
(* operation at a time; each of its commands is answered, or not, by the  *)
(* device; the operation ends in one step with a result those answers     *)
(* justify. writeBlock issues its next chunk only after the device        *)
(* accepted the previous one, and returns normally only after every chunk *)
(* was accepted. The commands are numbered 1, 2, ... in the order they are *)
(* issued.                                                                 *)
(***************************************************************************)
EXTENDS Integers, Sequences, FiniteSets

CONSTANTS
  MaxCmds,        \* bound on the number of commands
  ChunksPerBlock, \* commands a writeBlock call needs
  DataBytes       \* values the data of an INFO or VERIFY answer can take

OK == 0
ERROR == 255
BUSY == 254
NoAnswer == -1

Ids == 1..MaxCmds
Methods == {"getDeviceInfo", "eraseFlash", "writeBlock", "verifyBlock", "resetDevice"}
CmdsOf(m) == IF m = "writeBlock" THEN ChunksPerBlock ELSE 1

VARIABLES
  call,       \* [m, ids]: the operation in progress and its commands
  nCmd,       \* commands issued so far
  devStatus,  \* the status the device answered to each command
  devData,    \* the data it answered with
  open,       \* the session has not been destroyed
  log         \* operations that ended, with their results

vars == <<call, nCmd, devStatus, devData, open, log>>

Idle == [m |-> "idle", ids |-> {}]
Last(ids) == CHOOSE i \in ids : \A j \in ids : j <= i

Init ==
  /\ call = Idle
  /\ nCmd = 0
  /\ devStatus = [i \in Ids |-> NoAnswer]
  /\ devData = [i \in Ids |-> NoAnswer]
  /\ open = TRUE
  /\ log = <<>>

\* The owner starts an operation; its first command is issued.
Begin(m) ==
  /\ call = Idle
  /\ open
  /\ nCmd + CmdsOf(m) <= MaxCmds
  /\ call' = [m |-> m, ids |-> {nCmd + 1}]
  /\ nCmd' = nCmd + 1
  /\ UNCHANGED <<devStatus, devData, open, log>>

\* writeBlock issues its next chunk once the device accepted the last one.
NextChunk ==
  /\ call.m = "writeBlock"
  /\ Cardinality(call.ids) < ChunksPerBlock
  /\ devStatus[Last(call.ids)] = OK
  /\ call' = [call EXCEPT !.ids = @ \cup {nCmd + 1}]
  /\ nCmd' = nCmd + 1
  /\ UNCHANGED <<devStatus, devData, open, log>>

\* The device answers an issued command, once.
Answer(i, s, d) ==
  /\ i <= nCmd
  /\ devStatus[i] = NoAnswer
  /\ devStatus' = [devStatus EXCEPT ![i] = s]
  /\ devData' = [devData EXCEPT ![i] = d]
  /\ UNCHANGED <<call, nCmd, open, log>>

\* The operation ends: normally once every command it needs was accepted,
\* returning the last answer's data for INFO and VERIFY; with an error when
\* the device refused the last command; rejected when it never answered.
Complete(result) ==
  LET last == Last(call.ids)
      value == IF result = "ok" /\ call.m \in {"getDeviceInfo", "verifyBlock"}
                 THEN devData[last] ELSE 0
  IN
  /\ call # Idle
  /\ \/ result = "ok" /\ Cardinality(call.ids) = CmdsOf(call.m)
                      /\ \A i \in call.ids : devStatus[i] = OK
     \/ result = "failed" /\ devStatus[last] \in {ERROR, BUSY}
     \/ result = "rejected" /\ devStatus[last] = NoAnswer
  /\ log' = Append(log, [m |-> call.m, result |-> result, ids |-> call.ids,
                         value |-> value])
  /\ call' = Idle
  /\ UNCHANGED <<nCmd, devStatus, devData, open>>

\* destroy()
Close ==
  /\ open
  /\ open' = FALSE
  /\ UNCHANGED <<call, nCmd, devStatus, devData, log>>

Next ==
  \/ \E m \in Methods : Begin(m)
  \/ NextChunk
  \/ \E i \in Ids, s \in {OK, ERROR, BUSY}, d \in DataBytes \cup {NoAnswer} :
       Answer(i, s, d)
  \/ \E r \in {"ok", "failed", "rejected"} : Complete(r)
  \/ Close

Spec == Init /\ [][Next]_vars

=============================================================================
