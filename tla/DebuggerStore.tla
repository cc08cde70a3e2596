--------------------------- MODULE DebuggerStore ---------------------------
(***************************************************************************)
(* The debugger's renderer store (debugger/src/stores/debugger.js): the    *)
(* GDB state it mirrors, the breakpoint and watch lists, and the two       *)
(* bounded logs (GDB output and serial data). A log is kept as its length; *)
(* maxOutputSize is the constant MaxOutputSize. Date.now(), which names a  *)
(* watch expression, is the variable now, in milliseconds, advanced by     *)
(* Tick. Variables, call stack, registers, serial config and the panels    *)
(* are whole-value setters of display data and left out.                  *)
(***************************************************************************)
EXTENDS Naturals, Sequences, SequencesExt, FiniteSets

CONSTANTS
  MaxOutputSize,  \* maxOutputSize
  MaxWatches,     \* bound on addWatchExpression calls
  MaxTime,        \* bound on the clock
  BpIds,          \* breakpoint ids the main process hands out
  MaxBreakpoints, \* bound on the breakpoint list's length
  SameMsAdds      \* two addWatchExpression calls may fall in one millisecond

\* A field of setGDBState's argument: {} when the argument leaves it out
\* (undefined), {v} when it gives v.
Field == {{}, {TRUE}, {FALSE}}

VARIABLES
  gdbRunning, gdbConnected, gdbPaused,
  gdbOutput,      \* length of the GDB output log
  serialData,     \* length of the serial data log
  breakpoints,    \* sequence of [id, enabled]
  watches,        \* sequence of [id, value]: value 0 is null
  now,            \* Date.now()
  nWatch          \* addWatchExpression calls

dvars == <<gdbRunning, gdbConnected, gdbPaused, gdbOutput, serialData,
           breakpoints, watches, now, nWatch>>

DInit ==
  /\ gdbRunning = FALSE /\ gdbConnected = FALSE /\ gdbPaused = TRUE
  /\ gdbOutput = 0 /\ serialData = 0
  /\ breakpoints = <<>>
  /\ watches = <<>>
  /\ now = 1
  /\ nWatch = 0

Keep(f, old) == IF f = {} THEN old ELSE CHOOSE v \in f : TRUE   \* state.x ?? x.value

\* setGDBState(state): each field the argument has replaces the store's.
SetGDBState(r, c, p) ==
  /\ gdbRunning' = Keep(r, gdbRunning)
  /\ gdbConnected' = Keep(c, gdbConnected)
  /\ gdbPaused' = Keep(p, gdbPaused)
  /\ UNCHANGED <<gdbOutput, serialData, breakpoints, watches, now, nWatch>>

\* Push one entry onto a log of length n, then drop the oldest when the
\* log is longer than maxOutputSize.
Pushed(n) == IF n + 1 > MaxOutputSize THEN n ELSE n + 1

\* addGDBOutput(output)
AddGDBOutput ==
  /\ gdbOutput' = Pushed(gdbOutput)
  /\ UNCHANGED <<gdbRunning, gdbConnected, gdbPaused, serialData,
                 breakpoints, watches, now, nWatch>>

\* addSerialData(data)
AddSerialData ==
  /\ serialData' = Pushed(serialData)
  /\ UNCHANGED <<gdbRunning, gdbConnected, gdbPaused, gdbOutput,
                 breakpoints, watches, now, nWatch>>

\* clearGDBOutput() and clearSerialData()
ClearOutputs(gdb) ==
  /\ gdbOutput' = IF gdb THEN 0 ELSE gdbOutput
  /\ serialData' = IF gdb THEN serialData ELSE 0
  /\ UNCHANGED <<gdbRunning, gdbConnected, gdbPaused, breakpoints, watches,
                 now, nWatch>>

\* setBreakpoints(bps): the list breakpoint:list returned, in id order.
SetBreakpoints(ids) ==
  /\ breakpoints' = [i \in 1..Cardinality(ids) |->
                       [id |-> SetToSortSeq(ids, <)[i], enabled |-> TRUE]]
  /\ UNCHANGED <<gdbRunning, gdbConnected, gdbPaused, gdbOutput, serialData,
                 watches, now, nWatch>>

\* addBreakpoint(bp): pushed, whether or not a breakpoint has its id.
AddBreakpoint(id) ==
  /\ Len(breakpoints) < MaxBreakpoints
  /\ breakpoints' = Append(breakpoints, [id |-> id, enabled |-> TRUE])
  /\ UNCHANGED <<gdbRunning, gdbConnected, gdbPaused, gdbOutput, serialData,
                 watches, now, nWatch>>

\* The index of the first element of s with this id (findIndex), or 0.
FirstWith(s, id) ==
  IF \E i \in DOMAIN s : s[i].id = id
  THEN CHOOSE i \in DOMAIN s : s[i].id = id /\ \A j \in 1..(i - 1) : s[j].id # id
  ELSE 0

\* removeBreakpoint(id) and toggleBreakpoint(id): the first one with it.
RemoveBreakpoint(id) ==
  /\ FirstWith(breakpoints, id) # 0
  /\ breakpoints' = RemoveAt(breakpoints, FirstWith(breakpoints, id))
  /\ UNCHANGED <<gdbRunning, gdbConnected, gdbPaused, gdbOutput, serialData,
                 watches, now, nWatch>>

ToggleBreakpoint(id) ==
  /\ FirstWith(breakpoints, id) # 0
  /\ breakpoints' = [breakpoints EXCEPT ![FirstWith(breakpoints, id)].enabled = ~@]
  /\ UNCHANGED <<gdbRunning, gdbConnected, gdbPaused, gdbOutput, serialData,
                 watches, now, nWatch>>

\* addWatchExpression(expr): id Date.now(), value null. Without SameMsAdds
\* the user adds at most one expression per millisecond.
AddWatchExpression ==
  /\ nWatch < MaxWatches
  /\ SameMsAdds \/ \A i \in DOMAIN watches : watches[i].id < now
  /\ watches' = Append(watches, [id |-> now, value |-> 0])
  /\ nWatch' = nWatch + 1
  /\ UNCHANGED <<gdbRunning, gdbConnected, gdbPaused, gdbOutput, serialData,
                 breakpoints, now>>

\* removeWatchExpression(id) and updateWatchValue(id, value): the first
\* watch with this id.
RemoveWatchExpression(id) ==
  /\ FirstWith(watches, id) # 0
  /\ watches' = RemoveAt(watches, FirstWith(watches, id))
  /\ UNCHANGED <<gdbRunning, gdbConnected, gdbPaused, gdbOutput, serialData,
                 breakpoints, now, nWatch>>

UpdateWatchValue(id) ==
  /\ FirstWith(watches, id) # 0
  /\ watches' = [watches EXCEPT ![FirstWith(watches, id)].value = 1]
  /\ UNCHANGED <<gdbRunning, gdbConnected, gdbPaused, gdbOutput, serialData,
                 breakpoints, now, nWatch>>

\* The clock advances.
Tick ==
  /\ now < MaxTime
  /\ now' = now + 1
  /\ UNCHANGED <<gdbRunning, gdbConnected, gdbPaused, gdbOutput, serialData,
                 breakpoints, watches, nWatch>>

DNext ==
  \/ \E r, c, p \in Field : SetGDBState(r, c, p)
  \/ AddGDBOutput
  \/ AddSerialData
  \/ \E gdb \in BOOLEAN : ClearOutputs(gdb)
  \/ \E ids \in SUBSET BpIds : SetBreakpoints(ids)
  \/ \E id \in BpIds : AddBreakpoint(id) \/ RemoveBreakpoint(id)
                       \/ ToggleBreakpoint(id)
  \/ AddWatchExpression
  \/ \E id \in 1..MaxTime : RemoveWatchExpression(id) \/ UpdateWatchValue(id)
  \/ Tick

DTypeOK ==
  /\ {gdbRunning, gdbConnected, gdbPaused} \subseteq BOOLEAN
  /\ gdbOutput \in Nat /\ serialData \in Nat
  /\ breakpoints \in Seq([id : BpIds, enabled : BOOLEAN])
  /\ Len(breakpoints) <= MaxBreakpoints
  /\ watches \in Seq([id : 1..MaxTime, value : {0, 1}])
  /\ now \in 1..MaxTime /\ nWatch \in 0..MaxWatches

(* No two watch expressions have the same id, so removeWatchExpression   *)
(* and updateWatchValue, which act on the first watch with the id they   *)
(* get, reach every watch. addWatchExpression takes Date.now() as the id. *)
WatchIdsUnique ==
  \A i, j \in DOMAIN watches : i # j => watches[i].id # watches[j].id

=============================================================================
