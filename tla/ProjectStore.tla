---------------------------- MODULE ProjectStore ----------------------------
(***************************************************************************)
(* The SoftPLC IDE's project store (softplc-ide/src/stores/project.ts):    *)
(* the current project, its POUs, global variables and data types, the     *)
(* isModified flag and the compile state. A project is numbered by the     *)
(* createProject call that made it (0 is null); a POU by the uuidv4 call   *)
(* that named it; a POU's contents by a revision that updatePOU changes.   *)
(* compile() is split at its one-second await. Bodies, names, templates    *)
(* and the compile warnings are text and left out.                        *)
(***************************************************************************)
EXTENDS Naturals, Functions, TLC

CONSTANTS
  MaxProjects,    \* bound on createProject calls
  MaxPous,        \* bound on the POU ids handed out
  MaxItems,       \* bound on global variables and data types per project
  MaxCompiles     \* bound on compile() calls awaiting at once

NoResult == <<>>   \* compileResult null

VARIABLES
  currentProject, \* the project's number, or 0
  pous,           \* POU id -> revision, for the POUs of the project
  globals,        \* global variables of resources[0]
  dataTypes,      \* custom data types
  nPou,           \* POU ids handed out
  nProject,       \* projects created
  isModified,
  saved,          \* the project as createProject or saveProject left it
  isCompiling,
  compileResult,  \* NoResult, or <<the POUs the last compile checked>>
  compilesPending \* compile() calls waiting on their timer

jvars == <<currentProject, pous, globals, dataTypes, nPou, nProject,
           isModified, saved, isCompiling, compileResult, compilesPending>>

Contents == [project |-> currentProject, pous |-> pous, globals |-> globals,
             dataTypes |-> dataTypes]

JInit ==
  /\ currentProject = 0
  /\ pous = <<>>
  /\ globals = 0
  /\ dataTypes = 0
  /\ nPou = 0
  /\ nProject = 0
  /\ isModified = FALSE
  /\ saved = [project |-> 0, pous |-> <<>>, globals |-> 0, dataTypes |-> 0]
  /\ isCompiling = FALSE
  /\ compileResult = NoResult
  /\ compilesPending = 0

\* createProject(name): a new project with one program, Main, linked to
\* the task of its one resource; it replaces the current one unmodified.
\* compileResult is left as it was.
CreateProject ==
  /\ nProject < MaxProjects
  /\ nPou < MaxPous
  /\ currentProject' = nProject + 1
  /\ nProject' = nProject + 1
  /\ pous' = (nPou + 1 :> 0)
  /\ nPou' = nPou + 1
  /\ globals' = 0
  /\ dataTypes' = 0
  /\ isModified' = FALSE
  /\ saved' = [project |-> nProject + 1, pous |-> (nPou + 1 :> 0),
               globals |-> 0, dataTypes |-> 0]
  /\ UNCHANGED <<isCompiling, compileResult, compilesPending>>

\* saveProject(): with a project, isModified cleared.
SaveProject ==
  /\ currentProject # 0
  /\ isModified' = FALSE
  /\ saved' = Contents
  /\ UNCHANGED <<currentProject, pous, globals, dataTypes, nPou, nProject,
                 isCompiling, compileResult, compilesPending>>

\* A deletePOU that does not set isModified.
DeletePOUUnflagged(id) ==
  /\ currentProject # 0
  /\ id \in DOMAIN pous
  /\ pous' = [i \in DOMAIN pous \ {id} |-> pous[i]]
  /\ UNCHANGED <<currentProject, globals, dataTypes, nPou, nProject,
                 isModified, saved, isCompiling, compileResult,
                 compilesPending>>

\* addPOU(name, type, language): a fresh id, pushed onto the project's
\* POUs through currentProject.value?., and isModified set even when
\* there is no project.
AddPOU ==
  /\ nPou < MaxPous
  /\ nPou' = nPou + 1
  /\ pous' = IF currentProject # 0 THEN pous @@ (nPou + 1 :> 0) ELSE pous
  /\ isModified' = TRUE
  /\ UNCHANGED <<currentProject, globals, dataTypes, nProject, saved,
                 isCompiling, compileResult, compilesPending>>

\* deletePOU(id): removes a POU of the project.
DeletePOU(id) ==
  /\ currentProject # 0
  /\ id \in DOMAIN pous
  /\ pous' = [i \in DOMAIN pous \ {id} |-> pous[i]]
  /\ isModified' = TRUE
  /\ UNCHANGED <<currentProject, globals, dataTypes, nPou, nProject, saved,
                 isCompiling, compileResult, compilesPending>>

\* updatePOU(id, updates): Object.assign on a POU getPOU finds.
UpdatePOU(id) ==
  /\ id \in DOMAIN pous
  /\ pous' = [pous EXCEPT ![id] = 1 - @]
  /\ isModified' = TRUE
  /\ UNCHANGED <<currentProject, globals, dataTypes, nPou, nProject, saved,
                 isCompiling, compileResult, compilesPending>>

\* addGlobalVariable(variable): pushed onto resources[0] and isModified
\* set, only with a project (which always has a resource).
AddGlobalVariable ==
  /\ currentProject # 0
  /\ globals < MaxItems
  /\ globals' = globals + 1
  /\ isModified' = TRUE
  /\ UNCHANGED <<currentProject, pous, dataTypes, nPou, nProject, saved,
                 isCompiling, compileResult, compilesPending>>

\* addDataType(dataType): pushed through currentProject.value?., and
\* isModified set in any case.
AddDataType ==
  /\ dataTypes < MaxItems
  /\ dataTypes' = IF currentProject # 0 THEN dataTypes + 1 ELSE dataTypes
  /\ isModified' = TRUE
  /\ UNCHANGED <<currentProject, pous, globals, nPou, nProject, saved,
                 isCompiling, compileResult, compilesPending>>

\* compile(), up to its await: with a project, isCompiling set and the
\* previous result dropped.
CompileStart ==
  /\ currentProject # 0
  /\ compilesPending < MaxCompiles
  /\ isCompiling' = TRUE
  /\ compileResult' = NoResult
  /\ compilesPending' = compilesPending + 1
  /\ UNCHANGED <<currentProject, pous, globals, dataTypes, nPou, nProject,
                 isModified, saved>>

\* compile() after its timer: the POUs of the project current now are
\* checked, the result stored, and finally isCompiling cleared.
CompileEnd ==
  /\ compilesPending > 0
  /\ compileResult' = <<DOMAIN pous>>
  /\ isCompiling' = FALSE
  /\ compilesPending' = compilesPending - 1
  /\ UNCHANGED <<currentProject, pous, globals, dataTypes, nPou, nProject,
                 isModified, saved>>

JNext ==
  \/ CreateProject
  \/ SaveProject
  \/ AddPOU
  \/ \E id \in 1..MaxPous : DeletePOU(id) \/ UpdatePOU(id)
  \/ AddGlobalVariable
  \/ AddDataType
  \/ CompileStart
  \/ CompileEnd

JTypeOK ==
  /\ currentProject \in 0..MaxProjects
  /\ DOMAIN pous \subseteq 1..MaxPous /\ \A i \in DOMAIN pous : pous[i] \in {0, 1}
  /\ globals \in 0..MaxItems /\ dataTypes \in 0..MaxItems
  /\ compileResult \in {NoResult} \cup {<<S>> : S \in SUBSET (1..MaxPous)}
  /\ compilesPending \in 0..MaxCompiles

(* A project with isModified false is the project as it was last saved or *)
(* created: every method that changes the POUs, their contents, the       *)
(* global variables or the data types must set isModified, and only      *)
(* saveProject and createProject may clear it.                           *)
UnsavedChangesFlagged ==
  ~isModified => Contents = saved

(* isCompiling, which a view reads to show a build in progress, is true   *)
(* exactly while a compile() awaits its timer: compile() sets it before   *)
(* its await and its finally clears it after, so two compile() calls     *)
(* that overlap (the store has no guard against it) leave it false while *)
(* the second still runs.                                                *)
CompilingFaithful ==
  isCompiling <=> compilesPending > 0

=============================================================================
