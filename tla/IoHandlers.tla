----------------------------- MODULE IoHandlers -----------------------------
(***************************************************************************)
(* The simulator's I/O handlers in the main process                        *)
(* (simulator/electron/ipc/io.js): the output arrays of ioState and the    *)
(* 'io:digital-set' and 'io:analog-set' handlers, with the 'io:change'     *)
(* event each sends. The get handlers change nothing; the input arrays     *)
(* change only in simulateInputChange, which nothing calls. Array lengths  *)
(* are constants, pin i is element i + 1, and a value is an integer or NaN *)
(* (Math.round leaves integers alone and NaN as NaN).                      *)
(***************************************************************************)
EXTENDS Integers, Sequences

CONSTANTS
  OutPins,      \* ioState.digitalOutputs.length
  OutChannels,  \* ioState.analogOutputs.length
  SetValues,    \* values io:analog-set is called with
  NotANumber    \* NaN

VARIABLES
  ioDigitalOut, ioAnalogOut,
  ioChange      \* the last io:change event: [type, index, value]

NoChange == [type |-> "none", index |-> 0, value |-> 0]   \* none sent yet

iovars == <<ioDigitalOut, ioAnalogOut, ioChange>>

IoInit ==
  /\ ioDigitalOut = [i \in 1..OutPins |-> FALSE]
  /\ ioAnalogOut = [i \in 1..OutChannels |-> 0]
  /\ ioChange = NoChange

\* Math.max(0, Math.min(4095, Math.round(value)))
ClampedRound(v) ==
  IF v = NotANumber THEN NotANumber
  ELSE IF v < 0 THEN 0 ELSE IF v > 4095 THEN 4095 ELSE v

\* io:digital-set { pin, value }: rejects a pin out of range, else stores
\* Boolean(value) and sends io:change with it.
DigitalSet(pin, value) ==
  /\ pin >= 0 /\ pin < Len(ioDigitalOut)
  /\ ioDigitalOut' = [ioDigitalOut EXCEPT ![pin + 1] = value]
  /\ ioChange' = [type |-> "digital-output", index |-> pin, value |-> value]
  /\ UNCHANGED ioAnalogOut

\* io:analog-set { channel, value }: rejects a channel out of range, else
\* stores the rounded, clamped value and sends io:change with it.
AnalogSet(ch, value) ==
  /\ ch >= 0 /\ ch < Len(ioAnalogOut)
  /\ ioAnalogOut' = [ioAnalogOut EXCEPT ![ch + 1] = ClampedRound(value)]
  /\ ioChange' = [type |-> "analog-output", index |-> ch,
                  value |-> ClampedRound(value)]
  /\ UNCHANGED ioDigitalOut

IoNext ==
  \/ \E pin \in -1..OutPins, v \in BOOLEAN : DigitalSet(pin, v)
  \/ \E ch \in -1..OutChannels, v \in SetValues : AnalogSet(ch, v)

IoTypeOK ==
  /\ ioDigitalOut \in [1..OutPins -> BOOLEAN]
  /\ ioAnalogOut \in [1..OutChannels -> SetValues \cup (0..4095)]

(* What io:analog-set stores and reports to the renderer is a 12-bit     *)
(* value: after any sequence of set calls, whatever values the renderer  *)
(* passes, every analog output is in 0..4095.                           *)
IoStateInRange ==
  \A i \in 1..OutChannels :
     ioAnalogOut[i] # NotANumber /\ ioAnalogOut[i] \in 0..4095

=============================================================================
