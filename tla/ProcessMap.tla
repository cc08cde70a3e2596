----------------------------- MODULE ProcessMap -----------------------------
(***************************************************************************)
(* The ST IDE's child processes (ide/electron/ipc/process.js): the Map     *)
(* processes from pid to process, the 'process:spawn' and 'process:kill'   *)
(* handlers, and the 'exit' and 'error' listeners that process:spawn       *)
(* attaches. Processes are numbered 1, 2, ... in the order they are        *)
(* spawned, and a running process's pid is its number; a spawn that fails  *)
(* gives a process whose pid is undefined (0 here), which emits 'error'    *)
(* later and never 'exit'. Output forwarding sends events and changes no  *)
(* state.                                                                  *)
(***************************************************************************)
EXTENDS Naturals, TLC

CONSTANTS
  MaxProcSpawns,  \* bound on process:spawn calls
  SpawnCanFail    \* spawn() may fail (no pid, an 'error' event follows)

Undefined == 0
ProcNums == 1..MaxProcSpawns

VARIABLES
  processes,  \* the Map: pid (or Undefined) -> process number
  pState,     \* pState[p]: "none", "running", "failing" or "gone"
  pKilled,    \* process:kill called proc.kill() on p
  nProc       \* processes spawned

mvars == <<processes, pState, pKilled, nProc>>

MInit ==
  /\ processes = <<>>
  /\ pState = [p \in ProcNums |-> "none"]
  /\ pKilled = [p \in ProcNums |-> FALSE]
  /\ nProc = 0

Deleted(key) == [k \in DOMAIN processes \ {key} |-> processes[k]]

\* process:spawn: spawns, stores the process under proc.pid (undefined
\* when spawn failed) and replies success with that pid.
ProcSpawn ==
  LET p == nProc + 1 IN
  /\ nProc < MaxProcSpawns
  /\ \E ok \in IF SpawnCanFail THEN BOOLEAN ELSE {TRUE} :
        LET pid == IF ok THEN p ELSE Undefined IN
        /\ processes' = (pid :> p) @@ processes
        /\ pState' = [pState EXCEPT ![p] = IF ok THEN "running" ELSE "failing"]
  /\ nProc' = p
  /\ UNCHANGED pKilled

\* An 'exit' listener that sends process:exit but keeps the Map entry.
ProcExitKeepEntry(p) ==
  /\ pState[p] = "running"
  /\ pState' = [pState EXCEPT ![p] = "gone"]
  /\ UNCHANGED <<processes, pKilled, nProc>>

\* Process p exits (by itself, or on the SIGTERM of process:kill) and its
\* 'exit' listener sends process:exit and deletes its pid from the Map.
ProcExit(p) ==
  /\ pState[p] = "running"
  /\ pState' = [pState EXCEPT ![p] = "gone"]
  /\ processes' = Deleted(p)
  /\ UNCHANGED <<pKilled, nProc>>

\* The 'error' listener of a process whose spawn failed: it sends
\* process:error and deletes the key undefined.
ProcError(p) ==
  /\ pState[p] = "failing"
  /\ pState' = [pState EXCEPT ![p] = "gone"]
  /\ processes' = Deleted(Undefined)
  /\ UNCHANGED <<pKilled, nProc>>

\* process:kill pid: the process the Map has under pid is sent SIGTERM
\* and its entry deleted at once; 'Process not found' otherwise.
ProcKill(pid) ==
  \/ /\ pid \in DOMAIN processes
     /\ pKilled' = [pKilled EXCEPT ![processes[pid]] = TRUE]
     /\ processes' = Deleted(pid)
     /\ UNCHANGED <<pState, nProc>>
  \/ /\ pid \notin DOMAIN processes
     /\ UNCHANGED mvars

MNext ==
  \/ ProcSpawn
  \/ \E p \in ProcNums : ProcExit(p) \/ ProcError(p)
  \/ \E pid \in ProcNums \cup {Undefined} : ProcKill(pid)

MTypeOK ==
  /\ DOMAIN processes \subseteq ProcNums \cup {Undefined}
  /\ \A k \in DOMAIN processes : processes[k] \in ProcNums
  /\ pState \in [ProcNums -> {"none", "running", "failing", "gone"}]
  /\ pKilled \in [ProcNums -> BOOLEAN]
  /\ nProc \in 0..MaxProcSpawns

(* The Map is the set of live processes nobody killed: a process that    *)
(* runs and was not killed is in it under its own pid, so process:kill   *)
(* reaches it, and every entry is a process that still runs or whose     *)
(* failed spawn has not yet reported its error, so process:kill never     *)
(* signals a process that is gone. It is about the exit and error        *)
(* listeners racing process:kill and the spawns that share the key       *)
(* undefined.                                                            *)
ProcessMapFaithful ==
  /\ \A p \in ProcNums :
        pState[p] = "running" /\ ~pKilled[p] =>
           p \in DOMAIN processes /\ processes[p] = p
  /\ \A k \in DOMAIN processes : pState[processes[k]] \in {"running", "failing"}

=============================================================================
