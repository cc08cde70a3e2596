---------------------------- MODULE QemuLauncher ----------------------------
(***************************************************************************)
(* The simulator's QEMU launcher (simulator/electron/ipc/qemu.js): the     *)
(* module-level handle qemuProcess and the status record qemuStatus, the   *)
(* 'qemu:start' and 'qemu:stop' handlers, and the 'exit' listener that     *)
(* qemu:start attaches to every process it spawns. Processes are numbered  *)
(* 1, 2, ... in the order they are spawned; 0 stands for null. A process   *)
(* ends on the SIGTERM of qemu:stop or by itself (the guest powers off or  *)
(* QEMU fails); its 'exit' listener then runs on whatever the module       *)
(* variables hold at that time.                                            *)
(***************************************************************************)
EXTENDS Naturals

CONSTANTS
  MaxQemus,  \* bound on the processes spawned
  QemuOverlap,    \* a stopped process may still be alive when the next one starts
  QemuSpawnFails  \* spawn() may fail (qemu-system-aarch64 missing): no pid, no 'exit'

QProcs == 1..MaxQemus

VARIABLES
  qemuProcess,  \* the handle: the process qemu:start spawned last, or 0
  qemuStatus,   \* [running, pid]
  qAlive,       \* qAlive[p]: process p has not exited
  qTerm,        \* qTerm[p]: qemu:stop sent process p SIGTERM
  qSpawned      \* processes spawned so far

qvars == <<qemuProcess, qemuStatus, qAlive, qTerm, qSpawned>>

QInit ==
  /\ qemuProcess = 0
  /\ qemuStatus = [running |-> FALSE, pid |-> 0]
  /\ qAlive = [p \in QProcs |-> FALSE]
  /\ qTerm = [p \in QProcs |-> FALSE]
  /\ qSpawned = 0

\* qemu:start. With a handle set it returns 'QEMU already running'.
\* Otherwise it spawns a process, stores it in the handle and the status,
\* and attaches the listeners. Without QemuOverlap the user starts again only
\* after the previous process has exited. A spawn that fails still returns a
\* ChildProcess, with pid undefined (0), stored in the handle; its 'error'
\* event has no listener and it never emits 'exit'.
QemuStart ==
  LET p == qSpawned + 1 IN
  /\ qemuProcess = 0
  /\ qSpawned < MaxQemus
  /\ QemuOverlap \/ \A q \in QProcs : ~qAlive[q]
  /\ qemuProcess' = p
  /\ \E ok \in IF QemuSpawnFails THEN BOOLEAN ELSE {TRUE} :
       /\ qemuStatus' = [running |-> TRUE, pid |-> IF ok THEN p ELSE 0]
       /\ qAlive' = [qAlive EXCEPT ![p] = ok]
  /\ qSpawned' = p
  /\ UNCHANGED qTerm

\* A qemu:stop that leaves qemuStatus.running set.
QemuStopKeepStatus ==
  /\ qemuProcess # 0
  /\ qTerm' = [qTerm EXCEPT ![qemuProcess] = TRUE]
  /\ qemuProcess' = 0
  /\ UNCHANGED <<qemuStatus, qAlive, qSpawned>>

\* qemu:stop: SIGTERM to the handle's process, then the handle and the
\* status are cleared at once, before the process has exited.
QemuStop ==
  /\ qemuProcess # 0
  /\ qTerm' = [qTerm EXCEPT ![qemuProcess] = TRUE]
  /\ qemuProcess' = 0
  /\ qemuStatus' = [qemuStatus EXCEPT !.running = FALSE]
  /\ UNCHANGED <<qAlive, qSpawned>>

\* Process p exits and its 'exit' listener runs: it clears the status and
\* the handle that the module holds now, whichever process that is.
QemuExit(p) ==
  /\ qAlive[p]
  /\ qAlive' = [qAlive EXCEPT ![p] = FALSE]
  /\ qemuStatus' = [qemuStatus EXCEPT !.running = FALSE]
  /\ qemuProcess' = 0
  /\ UNCHANGED <<qTerm, qSpawned>>

QNext ==
  \/ QemuStart
  \/ QemuStop
  \/ \E p \in QProcs : QemuExit(p)

QSpec == QInit /\ [][QNext]_qvars

QTypeOK ==
  /\ qemuProcess \in QProcs \cup {0}
  /\ qemuStatus \in [running : BOOLEAN, pid : QProcs \cup {0}]
  /\ qAlive \in [QProcs -> BOOLEAN] /\ qTerm \in [QProcs -> BOOLEAN]
  /\ qSpawned \in 0..MaxQemus

(* A QEMU process that nobody asked to stop is the one the handle holds, *)
(* so qemu:stop can still reach it and qemu:start still refuses a second *)
(* instance. It is about the 'exit' listener of qemu.js, which clears the *)
(* handle without checking that it still names the exiting process.      *)
QemuNoOrphan ==
  \A p \in QProcs : qAlive[p] /\ ~qTerm[p] => qemuProcess = p

(* What qemu:status returns is true: a status that says running names, by *)
(* its pid, the live process the handle holds. It is about qemu:start,    *)
(* which sets the status before it knows that the spawn succeeded, and    *)
(* about qemu:stop and the 'exit' listener, which must both clear it.     *)
QemuStatusFaithful ==
  qemuStatus.running =>
    qemuStatus.pid # 0 /\ qemuStatus.pid = qemuProcess /\ qAlive[qemuProcess]

=============================================================================
