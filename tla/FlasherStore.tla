---------------------------- MODULE FlasherStore ----------------------------
(***************************************************************************)
(* The flasher's renderer store (flasher/src/stores/flasher.js): the       *)
(* firmware size, the flashing flag, bytesWritten, the speed estimate and  *)
(* the start time, and the log. Flashes are numbered by the startFlashing  *)
(* call that began them; startTime holds that number (0 is null), and the  *)
(* speed is kept as whether it is non-zero and the flash whose progress it *)
(* was measured in (0: with startTime null). Date.now() enters only        *)
(* through whether time has passed since the start. The file and port      *)
(* objects, the port list and config, and the log text are left out.      *)
(***************************************************************************)
EXTENDS Naturals

CONSTANTS
  Sizes,        \* fileInfo.size values setFileInfo is called with
  MaxFlashes,   \* bound on startFlashing calls
  MaxLogs       \* bound on the log's length (the code has none)

VARIABLES
  fileSize,     \* fileInfo.size
  portOpen,
  flashing,
  bytesWritten,
  speedSet,     \* speed.value !== 0
  speedFlash,   \* the flash whose startTime the speed was measured from
  startTime,    \* the flash startFlashing began last, or 0 (null)
  nFlash,       \* startFlashing calls
  logs          \* log length

fvars == <<fileSize, portOpen, flashing, bytesWritten, speedSet, speedFlash,
           startTime, nFlash, logs>>

FInit ==
  /\ fileSize = 0 /\ portOpen = FALSE /\ flashing = FALSE
  /\ bytesWritten = 0 /\ speedSet = FALSE /\ speedFlash = 0
  /\ startTime = 0 /\ nFlash = 0 /\ logs = 0

\* addLog(message, type)
AddLog ==
  /\ logs < MaxLogs
  /\ logs' = logs + 1
  /\ UNCHANGED <<fileSize, portOpen, flashing, bytesWritten, speedSet,
                 speedFlash, startTime, nFlash>>

\* clearLogs()
ClearLogs ==
  /\ logs' = 0
  /\ UNCHANGED <<fileSize, portOpen, flashing, bytesWritten, speedSet,
                 speedFlash, startTime, nFlash>>

\* setFileInfo(info) with a size, and setPortOpen(isOpen).
SetFileInfo(size) ==
  /\ fileSize' = size
  /\ UNCHANGED <<portOpen, flashing, bytesWritten, speedSet, speedFlash,
                 startTime, nFlash, logs>>

SetPortOpen(b) ==
  /\ portOpen' = b
  /\ UNCHANGED <<fileSize, flashing, bytesWritten, speedSet, speedFlash,
                 startTime, nFlash, logs>>

\* startFlashing(): flashing, progress and bytesWritten reset, startTime
\* now, one log line. The speed is left as it was.
StartFlashing ==
  /\ nFlash < MaxFlashes /\ logs < MaxLogs
  /\ flashing' = TRUE
  /\ bytesWritten' = 0
  /\ nFlash' = nFlash + 1
  /\ startTime' = nFlash + 1
  /\ logs' = logs + 1
  /\ UNCHANGED <<fileSize, portOpen, speedSet, speedFlash>>

\* updateProgress(bytes): bytesWritten set and the speed measured from
\* startTime; 0 when no time has passed, and with startTime null the
\* elapsed time is the whole epoch.
UpdateProgress(bytes, elapsed) ==
  /\ bytesWritten' = bytes
  /\ speedSet' = (elapsed /\ bytes > 0)
  /\ speedFlash' = startTime
  /\ UNCHANGED <<fileSize, portOpen, flashing, startTime, nFlash, logs>>

\* stopFlashing(success): flashing cleared, one log line.
StopFlashing ==
  /\ logs < MaxLogs
  /\ flashing' = FALSE
  /\ logs' = logs + 1
  /\ UNCHANGED <<fileSize, portOpen, bytesWritten, speedSet, speedFlash,
                 startTime, nFlash>>

\* reset(): the file, the flashing state, the speed and startTime cleared.
Reset ==
  /\ fileSize' = 0
  /\ flashing' = FALSE
  /\ bytesWritten' = 0
  /\ speedSet' = FALSE
  /\ startTime' = 0
  /\ UNCHANGED <<portOpen, speedFlash, nFlash, logs>>

FNext ==
  \/ AddLog
  \/ ClearLogs
  \/ \E s \in Sizes : SetFileInfo(s)
  \/ \E b \in BOOLEAN : SetPortOpen(b)
  \/ StartFlashing
  \/ \E s \in Sizes, e \in BOOLEAN : UpdateProgress(s, e)
  \/ StopFlashing
  \/ Reset

FTypeOK ==
  /\ fileSize \in Sizes \cup {0} /\ bytesWritten \in Sizes \cup {0}
  /\ {portOpen, flashing, speedSet} \subseteq BOOLEAN
  /\ speedFlash \in 0..MaxFlashes /\ startTime \in 0..MaxFlashes
  /\ nFlash \in 0..MaxFlashes /\ logs \in 0..MaxLogs

(* While a flash runs, the remaining time the view shows (remainingTime, *)
(* which divides by the speed when it is not 0) is estimated from that   *)
(* flash's own progress: startFlashing would have to clear the speed a   *)
(* previous flash measured.                                              *)
RemainingTimeOfThisFlash ==
  flashing /\ speedSet => speedFlash = startTime

=============================================================================
