--------------------------- MODULE SimulatorStore ---------------------------
(***************************************************************************)
(* The simulator's renderer store (simulator/src/stores/simulator.js): the *)
(* QEMU and protocol connection flags, the simulated I/O arrays, and the   *)
(* two bounded logs (QEMU output and data log), kept as their lengths.     *)
(* The arrays are 0-based in the code and sequences here: pin i is element *)
(* i + 1. Their lengths (32, 32, 16 and 8 in the code) are constants. An   *)
(* analog value is a number or NaN, the value every arithmetic on a        *)
(* non-number gives. Configs, the active tab and the view mode are         *)
(* whole-value setters of display data and left out.                       *)
(***************************************************************************)
EXTENDS Integers, Sequences

CONSTANTS
  DigitalPins,    \* digitalInputs.length and digitalOutputs.length
  AnalogChannels, \* analogInputs.length and analogOutputs.length
  AnalogValues,   \* values the analog setters are called with
  MaxLogSize,     \* maxLogSize
  NaN             \* the number NaN

AnalogMax == 4095

VARIABLES
  qemuRunning, modbusConnected, opcuaConnected,
  digitalInputs, digitalOutputs, analogInputs, analogOutputs,
  qemuOutput,     \* length of the QEMU output log
  dataLog         \* length of the data log

svars == <<qemuRunning, modbusConnected, opcuaConnected, digitalInputs,
           digitalOutputs, analogInputs, analogOutputs, qemuOutput, dataLog>>

SInit ==
  /\ qemuRunning = FALSE /\ modbusConnected = FALSE /\ opcuaConnected = FALSE
  /\ digitalInputs = [i \in 1..DigitalPins |-> FALSE]
  /\ digitalOutputs = [i \in 1..DigitalPins |-> FALSE]
  /\ analogInputs = [i \in 1..AnalogChannels |-> 0]
  /\ analogOutputs = [i \in 1..AnalogChannels |-> 0]
  /\ qemuOutput = 0 /\ dataLog = 0

\* Math.max(0, Math.min(4095, v)): NaN stays NaN.
Clamped(v) ==
  IF v = NaN THEN NaN
  ELSE IF v < 0 THEN 0 ELSE IF v > AnalogMax THEN AnalogMax ELSE v

\* arr[i] = v on a JS array, for 0 <= i <= arr.length: the index just
\* past the end lengthens it.
SetAt(arr, i, v) ==
  IF i < Len(arr) THEN [arr EXCEPT ![i + 1] = v] ELSE Append(arr, v)

\* The index check the I/O setters make before writing.
InRange(i, arr) == i >= 0 /\ i < Len(arr)

\* setQEMURunning, setModbusConnected and setOpcuaConnected.
SetFlags(q, m, o) ==
  /\ qemuRunning' = q /\ modbusConnected' = m /\ opcuaConnected' = o
  /\ UNCHANGED <<digitalInputs, digitalOutputs, analogInputs, analogOutputs,
                 qemuOutput, dataLog>>

\* addQEMUOutput and addDataLog: push, then shift when past maxLogSize.
LogAdded(n) == IF n + 1 > MaxLogSize THEN n ELSE n + 1

AddQEMUOutput ==
  /\ qemuOutput' = LogAdded(qemuOutput)
  /\ UNCHANGED <<qemuRunning, modbusConnected, opcuaConnected, digitalInputs,
                 digitalOutputs, analogInputs, analogOutputs, dataLog>>

AddDataLog ==
  /\ dataLog' = LogAdded(dataLog)
  /\ UNCHANGED <<qemuRunning, modbusConnected, opcuaConnected, digitalInputs,
                 digitalOutputs, analogInputs, analogOutputs, qemuOutput>>

\* clearQEMUOutput() and clearDataLog()
ClearSimLogs(qemu) ==
  /\ qemuOutput' = IF qemu THEN 0 ELSE qemuOutput
  /\ dataLog' = IF qemu THEN dataLog ELSE 0
  /\ UNCHANGED <<qemuRunning, modbusConnected, opcuaConnected, digitalInputs,
                 digitalOutputs, analogInputs, analogOutputs>>

\* setDigitalInput(pin, value), setDigitalOutput(pin, value) and
\* toggleDigitalInput(pin): nothing for a pin out of range.
SetDigital(pin, value, out, toggle) ==
  LET arr == IF out THEN digitalOutputs ELSE digitalInputs
      new == IF ~InRange(pin, arr) THEN arr
             ELSE SetAt(arr, pin, IF toggle THEN ~arr[pin + 1] ELSE value)
  IN
  /\ ~(out /\ toggle)
  /\ digitalOutputs' = IF out THEN new ELSE digitalOutputs
  /\ digitalInputs' = IF out THEN digitalInputs ELSE new
  /\ UNCHANGED <<qemuRunning, modbusConnected, opcuaConnected, analogInputs,
                 analogOutputs, qemuOutput, dataLog>>

\* A setAnalogInput that stores the value unclamped.
SetAnalogInputUnclamped(ch, v) ==
  /\ analogInputs' = IF InRange(ch, analogInputs)
                     THEN SetAt(analogInputs, ch, v) ELSE analogInputs
  /\ UNCHANGED <<qemuRunning, modbusConnected, opcuaConnected, digitalInputs,
                 digitalOutputs, analogOutputs, qemuOutput, dataLog>>

\* setAnalogInput(channel, value): clamped to 0..4095.
SetAnalogInput(ch, v) ==
  /\ analogInputs' = IF InRange(ch, analogInputs)
                     THEN SetAt(analogInputs, ch, Clamped(v)) ELSE analogInputs
  /\ UNCHANGED <<qemuRunning, modbusConnected, opcuaConnected, digitalInputs,
                 digitalOutputs, analogOutputs, qemuOutput, dataLog>>

\* setAnalogOutput(channel, value): clamped to 0..4095.
SetAnalogOutput(ch, v) ==
  /\ analogOutputs' = IF InRange(ch, analogOutputs)
                      THEN SetAt(analogOutputs, ch, Clamped(v)) ELSE analogOutputs
  /\ UNCHANGED <<qemuRunning, modbusConnected, opcuaConnected, digitalInputs,
                 digitalOutputs, analogInputs, qemuOutput, dataLog>>

\* Pins and channels one past each end, to reach the index checks.
SimPins == -1..DigitalPins
SimChannels == -1..AnalogChannels

SNext ==
  \/ \E q, m, o \in BOOLEAN : SetFlags(q, m, o)
  \/ AddQEMUOutput
  \/ AddDataLog
  \/ \E q \in BOOLEAN : ClearSimLogs(q)
  \/ \E pin \in SimPins, v, out, t \in BOOLEAN : SetDigital(pin, v, out, t)
  \/ \E ch \in SimChannels, v \in AnalogValues :
        SetAnalogInput(ch, v) \/ SetAnalogOutput(ch, v)

STypeOK ==
  /\ {qemuRunning, modbusConnected, opcuaConnected} \subseteq BOOLEAN
  /\ \A arr \in {digitalInputs, digitalOutputs} : arr \in Seq(BOOLEAN)
  /\ \A arr \in {analogInputs, analogOutputs} :
        arr \in Seq(AnalogValues \cup (0..AnalogMax))
  /\ qemuOutput \in Nat /\ dataLog \in Nat

(* The I/O arrays keep the sizes the board has and hold values the board *)
(* can: every pin and channel index check in the setters keeps a write   *)
(* inside the array, and every analog value stays within the 12-bit      *)
(* range 0..4095 that the clamp promises, whatever the callers pass.     *)
IOInRange ==
  /\ Len(digitalInputs) = DigitalPins /\ Len(digitalOutputs) = DigitalPins
  /\ Len(analogInputs) = AnalogChannels /\ Len(analogOutputs) = AnalogChannels
  /\ \A i \in 1..AnalogChannels :
        \A v \in {analogInputs[i], analogOutputs[i]} :
           v # NaN /\ v \in 0..AnalogMax

=============================================================================
