------------------------------ MODULE MCStores ------------------------------
(***************************************************************************)
(* The renderer stores of the tools, checked in one run: the SoftPLC IDE's *)
(* editor tabs (EditorStore), PLC connection (PlcStore) and project        *)
(* (ProjectStore), the ST IDE's store (IdeStore), the debugger's           *)
(* (DebuggerStore), the simulator's (SimulatorStore) and the flasher's     *)
(* (FlasherStore); with them two tables the main processes keep, the       *)
(* simulator's I/O outputs (IoHandlers) and the debugger's breakpoints     *)
(* (BreakpointTable). A step is one method or handler, or one resumption   *)
(* after an await, and leaves the other components alone. They share no   *)
(* state and every property is about one of them, so a behaviour that     *)
(* steps one component only reaches every state of it that the            *)
(* interleaved product reaches: the variable focus, chosen in Init, names  *)
(* the component a behaviour steps, and the run explores the components    *)
(* one after the other instead of their product.                          *)
(***************************************************************************)
EXTENDS EditorStore, PlcStore, ProjectStore, IdeStore, DebuggerStore,
        SimulatorStore, FlasherStore, IoHandlers, BreakpointTable

MCPous == {"main", "fb1"}

\* Analog values below, inside and above 0..4095, and the same with NaN.
MCAnalogValues == {-1, 100, 5000}
MCAnalogValuesNaN == MCAnalogValues \cup {NaN}

VARIABLE focus

vars == <<evars, pvars, jvars, ivars, dvars, svars, fvars, iovars, bvars, focus>>

Stores == {"editor", "plc", "project", "ide", "debugger", "simulator",
           "flasher", "io", "breakpoints"}

Init ==
  /\ EInit /\ PInit /\ JInit /\ IInit /\ DInit /\ SInit /\ FInit
  /\ IoInit /\ BInit
  /\ focus \in Stores

Next ==
  \/ focus = "editor" /\ ENext /\ UNCHANGED <<pvars, jvars, ivars, dvars, svars, fvars, iovars, bvars, focus>>
  \/ focus = "plc" /\ PNext /\ UNCHANGED <<evars, jvars, ivars, dvars, svars, fvars, iovars, bvars, focus>>
  \/ focus = "project" /\ JNext /\ UNCHANGED <<evars, pvars, ivars, dvars, svars, fvars, iovars, bvars, focus>>
  \/ focus = "ide" /\ INext /\ UNCHANGED <<evars, pvars, jvars, dvars, svars, fvars, iovars, bvars, focus>>
  \/ focus = "debugger" /\ DNext /\ UNCHANGED <<evars, pvars, jvars, ivars, svars, fvars, iovars, bvars, focus>>
  \/ focus = "simulator" /\ SNext /\ UNCHANGED <<evars, pvars, jvars, ivars, dvars, fvars, iovars, bvars, focus>>
  \/ focus = "io" /\ IoNext /\ UNCHANGED <<evars, pvars, jvars, ivars, dvars, svars, fvars, bvars, focus>>
  \/ focus = "breakpoints" /\ BNext /\ UNCHANGED <<evars, pvars, jvars, ivars, dvars, svars, fvars, iovars, focus>>
  \/ focus = "flasher" /\ FNext /\ UNCHANGED <<evars, pvars, jvars, ivars, dvars, svars, iovars, bvars, focus>>

Spec == Init /\ [][Next]_vars

TypeOK == ETypeOK /\ PTypeOK /\ JTypeOK /\ ITypeOK /\ DTypeOK /\ STypeOK /\ FTypeOK
          /\ IoTypeOK /\ BTypeOK

=============================================================================
