---------------------------- MODULE MCLaunchers ----------------------------
(***************************************************************************)
(* The main-process resources, checked in one run: the simulator's QEMU  *)
(* launcher, the debugger's GDB driver, the ST IDE's child-process Map,   *)
(* the flasher's and the debugger's serial ports, the simulator's Modbus  *)
(* and OPC UA clients, and the ST IDE's project and file handlers on the  *)
(* disk. QEMU and GDB are checked as one interleaved system, each step    *)
(* leaving the other's variables alone, because both keep a module-level  *)
(* process handle that the 'exit' listener of any process they spawned    *)
(* clears. The others belong to other applications or share no state:    *)
(* the variable focus, chosen in Init, says which part a behaviour steps, *)
(* so the run explores each part once instead of once per state of the    *)
(* others; every property is about one of them.                           *)
(***************************************************************************)
EXTENDS QemuLauncher, GdbSession, ProcessMap, FlasherSerial, DebuggerSerial,
        ProtocolClients, IdeFiles

VARIABLE focus

vars == <<qvars, gvars, mvars, fsvars, dsvars, pcvars, ifvars, focus>>

Focuses == {"launchers", "processes", "flasherSerial", "debuggerSerial",
            "protocol", "ideFiles"}

\* Two project.json texts of different lengths, as JSON.stringify gives for
\* two configs, and one source text for file:save.
MCConfigs == {<<"c", "c", "c">>, <<"d", "d">>}
MCTexts == {<<"t">>}

Init ==
  /\ QInit /\ GInit /\ MInit /\ FSInit /\ DSInit /\ PCInit /\ IFInit
  /\ focus \in Focuses

Next ==
  \/ focus = "launchers" /\ QNext
     /\ UNCHANGED <<gvars, mvars, fsvars, dsvars, pcvars, ifvars, focus>>
  \/ focus = "launchers" /\ GNext
     /\ UNCHANGED <<qvars, mvars, fsvars, dsvars, pcvars, ifvars, focus>>
  \/ focus = "processes" /\ MNext
     /\ UNCHANGED <<qvars, gvars, fsvars, dsvars, pcvars, ifvars, focus>>
  \/ focus = "flasherSerial" /\ FSNext
     /\ UNCHANGED <<qvars, gvars, mvars, dsvars, pcvars, ifvars, focus>>
  \/ focus = "debuggerSerial" /\ DSNext
     /\ UNCHANGED <<qvars, gvars, mvars, fsvars, pcvars, ifvars, focus>>
  \/ focus = "protocol" /\ PCNext
     /\ UNCHANGED <<qvars, gvars, mvars, fsvars, dsvars, ifvars, focus>>
  \/ focus = "ideFiles" /\ IFNext
     /\ UNCHANGED <<qvars, gvars, mvars, fsvars, dsvars, pcvars, focus>>

Spec == Init /\ [][Next]_vars

TypeOK == QTypeOK /\ GTypeOK /\ MTypeOK /\ FSTypeOK /\ DSTypeOK /\ PCTypeOK /\ IFTypeOK

(* No process either launcher spawned runs on unreachable by its handle  *)
(* unless it was told to stop: the 'exit' listeners of qemu.js and       *)
(* gdb.js clear the handle whichever process exits.                      *)
NoOrphan == QemuNoOrphan /\ GdbNoOrphan

(* What the main process believes agrees with the resources it created:  *)
(* no live process escapes its handle unless it was told to stop, QEMU's  *)
(* status says running only for the live process it names, once GDB's    *)
(* pipes are drained gdbState says what GDB knows, every open serial port *)
(* is the one its module holds, and once the protocol handlers replied    *)
(* their connected flags say what the clients are (NoOrphan,              *)
(* QemuStatusFaithful, GdbStateFaithful, FlasherPortOwned,                *)
(* MonitorPortOwned, ModbusFlagFaithful and OpcuaFlagFaithful), and a    *)
(* project the IDE created stays openable (ProjectOpenable). It is about  *)
(* the handlers and listeners of qemu.js, gdb.js, both serial.js,         *)
(* protocol.js and the IDE's project.js and file.js as a whole.           *)
LaunchersFaithful ==
  /\ NoOrphan /\ QemuStatusFaithful /\ GdbStateFaithful
  /\ FlasherPortOwned /\ MonitorPortOwned
  /\ ModbusFlagFaithful /\ OpcuaFlagFaithful /\ ProjectOpenable

=============================================================================
