----------------------------- MODULE GdbSession -----------------------------
(***************************************************************************)
(* The debugger's GDB driver (debugger/electron/ipc/gdb.js) and the GDB    *)
(* processes it talks to over the MI interpreter. The driver keeps the     *)
(* handle gdbProcess and the record gdbState; every spawned process gets a *)
(* stdout listener (parseGDBOutput) and an 'exit' listener, which write    *)
(* the module-level gdbState and gdbProcess whichever process they belong  *)
(* to. Commands travel through the process's stdin, MI records back       *)
(* through its stdout, each as a FIFO. An MI record is abstracted to the   *)
(* prefix parseGDBOutput tests: "stopped" for *stopped, "running" for    *)
(* *running, "connected" for ^connected, "error" and "done" for ^error *)
(* and ^done.                                                             *)
(*                                                                         *)
(* The GDB side (reading a command, the target stopping, SIGINT, SIGTERM)  *)
(* is the environment: what GDB does with each command the driver sends.   *)
(***************************************************************************)
EXTENDS Naturals, Sequences

CONSTANTS
  MaxSpawns,      \* bound on the GDB processes spawned
  MaxCmds,        \* bound on the commands the handlers send
  Overlap,        \* a stopped GDB may still exit or print after the next start
  RemoteRefused,  \* 'target remote' may fail
  SplitLines,     \* a stdout chunk may end inside an MI record's prefix
  StartModes      \* values of "config.target is set" gdb:start is called with

GProcs == 1..MaxSpawns
Records == {"stopped", "running", "connected", "error", "done"}
Targets == {"none", "stopped", "running"}

VARIABLES
  gdbProcess,  \* the handle: the GDB process gdb:start spawned last, or 0
  gdbState,    \* [running, connected, paused] as the driver reports it
  gAlive,      \* gAlive[p]: process p has not exited
  gTerm,       \* gTerm[p]: gdb:stop sent p SIGTERM
  gIntr,       \* gIntr[p]: gdb:pause sent p a SIGINT it has not handled
  target,      \* target[p]: p's inferior: none, stopped or running
  stdin,       \* stdin[p]: commands written to p and not yet read
  stdout,      \* stdout[p]: MI records p printed and not yet parsed
  gSpawned,    \* processes spawned so far
  nCmd         \* commands the handlers sent so far

gvars == <<gdbProcess, gdbState, gAlive, gTerm, gIntr, target, stdin, stdout,
           gSpawned, nCmd>>

GInit ==
  /\ gdbProcess = 0
  /\ gdbState = [running |-> FALSE, connected |-> FALSE, paused |-> FALSE]
  /\ gAlive = [p \in GProcs |-> FALSE]
  /\ gTerm = [p \in GProcs |-> FALSE]
  /\ gIntr = [p \in GProcs |-> FALSE]
  /\ target = [p \in GProcs |-> "none"]
  /\ stdin = [p \in GProcs |-> <<>>]
  /\ stdout = [p \in GProcs |-> <<>>]
  /\ gSpawned = 0
  /\ nCmd = 0

----------------------------------------------------------------------------
(* The driver's handlers. *)

\* sendGDBCommand(cmd): rejects without a handle, else writes cmd to the
\* handle's stdin and resolves at once.
SendGDBCommand(c) ==
  IF gdbProcess = 0 THEN stdin
  ELSE [stdin EXCEPT ![gdbProcess] = Append(@, c)]

\* A gdb:start whose new gdbState record leaves out the connected field.
GdbStartNoConnected(withTarget) ==
  LET p == gSpawned + 1 IN
  /\ gdbProcess = 0
  /\ gSpawned < MaxSpawns
  /\ Overlap \/ \A q \in GProcs : ~gAlive[q] /\ stdout[q] = <<>>
  /\ gdbProcess' = p
  /\ gSpawned' = p
  /\ gAlive' = [gAlive EXCEPT ![p] = TRUE]
  /\ gdbState' = [running |-> TRUE, paused |-> TRUE]
  /\ stdin' = IF withTarget THEN [stdin EXCEPT ![p] = <<"target">>] ELSE stdin
  /\ UNCHANGED <<gTerm, gIntr, target, stdout, nCmd>>

\* gdb:start. With a handle set it returns 'GDB already running'. It spawns
\* GDB, resets gdbState, and with config.target writes 'target remote' and,
\* once that write resolved, sets connected: no stdout or exit callback
\* runs between the two, as the await only yields to microtasks.
GdbStart(withTarget) ==
  LET p == gSpawned + 1 IN
  /\ gdbProcess = 0
  /\ gSpawned < MaxSpawns
  /\ Overlap \/ \A q \in GProcs : ~gAlive[q] /\ stdout[q] = <<>>
  /\ gdbProcess' = p
  /\ gSpawned' = p
  /\ gAlive' = [gAlive EXCEPT ![p] = TRUE]
  /\ gdbState' = [running |-> TRUE, connected |-> withTarget, paused |-> TRUE]
  /\ stdin' = IF withTarget THEN [stdin EXCEPT ![p] = <<"target">>] ELSE stdin
  /\ UNCHANGED <<gTerm, gIntr, target, stdout, nCmd>>

\* gdb:stop: SIGTERM, then the handle is cleared and running reset at once.
GdbStop ==
  /\ gdbProcess # 0
  /\ gTerm' = [gTerm EXCEPT ![gdbProcess] = TRUE]
  /\ gdbProcess' = 0
  /\ gdbState' = [gdbState EXCEPT !.running = FALSE]
  /\ UNCHANGED <<gAlive, gIntr, target, stdin, stdout, gSpawned, nCmd>>

\* gdb:continue: paused is cleared before the command is even sent, and
\* stays cleared when sendGDBCommand rejects for want of a handle.
GdbContinue ==
  /\ nCmd < MaxCmds
  /\ gdbState' = [gdbState EXCEPT !.paused = FALSE]
  /\ stdin' = SendGDBCommand("continue")
  /\ nCmd' = nCmd + 1
  /\ UNCHANGED <<gdbProcess, gAlive, gTerm, gIntr, target, stdout, gSpawned>>

\* gdb:step, gdb:step-over, gdb:step-out ("step"), and gdb:command,
\* gdb:variables, gdb:callstack, gdb:registers, gdb:evaluate ("query"):
\* only sendGDBCommand, which needs a handle.
GdbCommand(c) ==
  /\ gdbProcess # 0
  /\ nCmd < MaxCmds
  /\ stdin' = SendGDBCommand(c)
  /\ nCmd' = nCmd + 1
  /\ UNCHANGED <<gdbProcess, gdbState, gAlive, gTerm, gIntr, target, stdout,
                 gSpawned>>

\* gdb:pause: SIGINT to the handle's process and paused set at once,
\* before GDB reported that the target stopped.
GdbPause ==
  /\ gdbProcess # 0
  /\ gIntr' = [gIntr EXCEPT ![gdbProcess] = TRUE]
  /\ gdbState' = [gdbState EXCEPT !.paused = TRUE]
  /\ UNCHANGED <<gdbProcess, gAlive, gTerm, target, stdin, stdout, gSpawned,
                 nCmd>>

\* A parser that misses *stopped records.
ParseRecordNoStopped(st, r) ==
  CASE r = "running"   -> [st EXCEPT !.paused = FALSE]
    [] r = "connected" -> [st EXCEPT !.connected = TRUE]
    [] OTHER           -> st

\* What one MI record does to gdbState in parseGDBOutput.
ParseRecord(st, r) ==
  CASE r = "stopped"   -> [st EXCEPT !.paused = TRUE]
    [] r = "running"   -> [st EXCEPT !.paused = FALSE]
    [] r = "connected" -> [st EXCEPT !.connected = TRUE]
    [] OTHER           -> st

\* p's stdout listener parses the next record into the module's gdbState,
\* whether or not p is still the handle's process or alive. A record whose
\* prefix a chunk boundary cuts matches none of the startsWith tests.
OnStdout(p) ==
  /\ stdout[p] # <<>>
  /\ \E whole \in IF SplitLines THEN BOOLEAN ELSE {TRUE} :
       gdbState' = IF whole THEN ParseRecord(gdbState, Head(stdout[p]))
                   ELSE gdbState
  /\ stdout' = [stdout EXCEPT ![p] = Tail(@)]
  /\ UNCHANGED <<gdbProcess, gAlive, gTerm, gIntr, target, stdin, gSpawned,
                 nCmd>>

\* p exits on its SIGTERM and its 'exit' listener clears running and the
\* handle the module holds now.
OnExit(p) ==
  /\ gAlive[p]
  /\ gTerm[p]
  /\ gAlive' = [gAlive EXCEPT ![p] = FALSE]
  /\ gdbState' = [gdbState EXCEPT !.running = FALSE]
  /\ gdbProcess' = 0
  /\ UNCHANGED <<gTerm, gIntr, target, stdin, stdout, gSpawned, nCmd>>

----------------------------------------------------------------------------
(* The GDB processes. *)

Emit(p, rs) == [stdout EXCEPT ![p] = @ \o rs]

\* GDB reads the next command: 'target remote' attaches a stopped target
\* (^connected) or fails (^error); -exec-continue and the step commands
\* need a stopped target; the other commands just answer.
GdbReads(p) ==
  LET c == Head(stdin[p])
      stopped == target[p] = "stopped"
  IN
  /\ gAlive[p]
  /\ stdin[p] # <<>>
  /\ stdin' = [stdin EXCEPT ![p] = Tail(@)]
  /\ \/ c = "target" /\ \E ok \in IF RemoteRefused THEN BOOLEAN ELSE {TRUE} :
          /\ target' = IF ok THEN [target EXCEPT ![p] = "stopped"] ELSE target
          /\ stdout' = Emit(p, <<IF ok THEN "connected" ELSE "error">>)
     \/ c = "continue" /\ stopped /\ target' = [target EXCEPT ![p] = "running"]
                       /\ stdout' = Emit(p, <<"running">>)
     \/ c = "step" /\ stopped /\ stdout' = Emit(p, <<"running", "stopped">>)
                   /\ UNCHANGED target
     \/ c \in {"continue", "step"} /\ ~stopped /\ stdout' = Emit(p, <<"error">>)
                                   /\ UNCHANGED target
     \/ c = "query" /\ stdout' = Emit(p, <<"done">>) /\ UNCHANGED target
  /\ UNCHANGED <<gdbProcess, gdbState, gAlive, gTerm, gIntr, gSpawned, nCmd>>

\* The running target stops (a breakpoint, a fault, the program's end).
TargetStops(p) ==
  /\ gAlive[p]
  /\ target[p] = "running"
  /\ target' = [target EXCEPT ![p] = "stopped"]
  /\ stdout' = Emit(p, <<"stopped">>)
  /\ UNCHANGED <<gdbProcess, gdbState, gAlive, gTerm, gIntr, stdin, gSpawned,
                 nCmd>>

\* GDB handles a SIGINT: it interrupts a running target, else ignores it.
GdbInterrupted(p) ==
  /\ gAlive[p]
  /\ gIntr[p]
  /\ gIntr' = [gIntr EXCEPT ![p] = FALSE]
  /\ IF target[p] = "running"
       THEN /\ target' = [target EXCEPT ![p] = "stopped"]
            /\ stdout' = Emit(p, <<"stopped">>)
       ELSE UNCHANGED <<target, stdout>>
  /\ UNCHANGED <<gdbProcess, gdbState, gAlive, gTerm, stdin, gSpawned, nCmd>>

GNext ==
  \/ \E m \in StartModes : GdbStart(m)
  \/ GdbStop
  \/ GdbContinue
  \/ \E c \in {"step", "query"} : GdbCommand(c)
  \/ GdbPause
  \/ \E p \in GProcs : OnStdout(p) \/ OnExit(p) \/ GdbReads(p)
                       \/ TargetStops(p) \/ GdbInterrupted(p)

GSpec == GInit /\ [][GNext]_gvars

----------------------------------------------------------------------------
GTypeOK ==
  /\ gdbProcess \in GProcs \cup {0}
  /\ gdbState \in [running : BOOLEAN, connected : BOOLEAN, paused : BOOLEAN]
  /\ target \in [GProcs -> Targets]
  /\ stdin \in [GProcs -> Seq({"target", "continue", "step", "query"})]
  /\ stdout \in [GProcs -> Seq(Records)]
  /\ gSpawned \in 0..MaxSpawns /\ nCmd \in 0..MaxCmds

(* A GDB process that nobody asked to stop is the one the handle holds. *)
(* It is about the 'exit' listener of gdb.js, which clears the handle    *)
(* without checking that it still names the exiting process.             *)
GdbNoOrphan ==
  \A p \in GProcs : gAlive[p] /\ ~gTerm[p] => gdbProcess = p

(* Once the current GDB has read every command, handled every SIGINT and *)
(* had all its output parsed, gdbState says what GDB knows: connected    *)
(* exactly when a target is attached, paused exactly when the target is  *)
(* not running. The UI's canContinue and canPause are computed from      *)
(* these two fields (debugger store), so a state that stays wrong leaves *)
(* the user without the button that would fix it.                       *)
GdbStateFaithful ==
  LET p == gdbProcess IN
  p # 0 /\ stdin[p] = <<>> /\ stdout[p] = <<>> /\ ~gIntr[p] =>
     /\ gdbState.connected = (target[p] # "none")
     /\ gdbState.paused = (target[p] # "running")

=============================================================================
