-------------------------- MODULE BreakpointTable --------------------------
(***************************************************************************)
(* The debugger's breakpoint table in the main process                     *)
(* (debugger/electron/ipc/breakpoint.js): the Map from id to breakpoint,   *)
(* the id counter, and the 'breakpoint:add', ':remove' and ':enable'       *)
(* handlers. A breakpoint is kept as [loc, enabled]: its file, line and    *)
(* condition are one location from a small set, and its hitCount, which no *)
(* handler changes, is left out. 'breakpoint:list' only reads the Map.     *)
(***************************************************************************)
EXTENDS Naturals, TLC

CONSTANTS
  Locations,  \* file:line places a breakpoint can be set at
  MaxBpAdds   \* bound on breakpoint:add calls

VARIABLES
  bpTable,            \* the Map: id -> [loc, enabled]
  breakpointIdCounter

bvars == <<bpTable, breakpointIdCounter>>

BInit ==
  /\ bpTable = <<>>
  /\ breakpointIdCounter = 1

\* breakpoint:add bp: the id breakpointIdCounter++, stored enabled.
BpAdd(loc) ==
  /\ breakpointIdCounter <= MaxBpAdds
  /\ bpTable' = (breakpointIdCounter :> [loc |-> loc, enabled |-> TRUE]) @@ bpTable
  /\ breakpointIdCounter' = breakpointIdCounter + 1

\* breakpoint:remove id: deletes it, or returns 'Breakpoint not found'
\* and changes nothing.
BpRemove(id) ==
  \/ /\ id \in DOMAIN bpTable
     /\ bpTable' = [i \in DOMAIN bpTable \ {id} |-> bpTable[i]]
     /\ UNCHANGED breakpointIdCounter
  \/ /\ id \notin DOMAIN bpTable
     /\ UNCHANGED bvars

\* breakpoint:enable { id, enabled }: 'Breakpoint not found' unless the
\* Map has it.
BpEnable(id, enabled) ==
  /\ id \in DOMAIN bpTable
  /\ bpTable' = [bpTable EXCEPT ![id].enabled = enabled]
  /\ UNCHANGED breakpointIdCounter

BNext ==
  \/ \E loc \in Locations : BpAdd(loc)
  \/ \E id \in 1..MaxBpAdds : BpRemove(id) \/ \E e \in BOOLEAN : BpEnable(id, e)

BTypeOK ==
  /\ DOMAIN bpTable \subseteq 1..MaxBpAdds
  /\ \A id \in DOMAIN bpTable : bpTable[id] \in [loc : Locations, enabled : BOOLEAN]
  /\ breakpointIdCounter \in 1..(MaxBpAdds + 1)

=============================================================================
