------------------------------ MODULE IdeStore ------------------------------
(***************************************************************************)
(* The ST IDE's renderer store (ide/src/stores/ide.js): the project, the   *)
(* open files in order and the active file, and the build state. A file is *)
(* known by its path; the store keeps the file objects, and finds them by  *)
(* path everywhere, so a record [path, modified] stands for one. The file  *)
(* contents, the editor's content and language, the build messages' text  *)
(* and the panel layout are display data and left out.                    *)
(***************************************************************************)
EXTENDS Naturals, Sequences, SequencesExt

CONSTANTS
  Paths,            \* paths of the files the IDE can open
  MaxBuildOutput,   \* bound on the build output lines kept (the code has none)
  StrayActiveFile   \* setActiveFile may be called with a file that is not open

NoFile == "null"      \* activeFile null
NoBuild == {}         \* buildSuccess null; a result r is {r}

VARIABLES
  hasProject,   \* project.value !== null
  openFiles,    \* sequence of [path, modified]
  activeFile,   \* the active file's path, or NoFile
  building,
  buildSuccess, \* NoBuild, {TRUE} or {FALSE}
  buildOutput   \* number of build output lines

ivars == <<hasProject, openFiles, activeFile, building, buildSuccess,
           buildOutput>>

OpenPaths == {openFiles[i].path : i \in DOMAIN openFiles}
PathIndex(p) == CHOOSE i \in DOMAIN openFiles : openFiles[i].path = p

IInit ==
  /\ hasProject = FALSE
  /\ openFiles = <<>>
  /\ activeFile = NoFile
  /\ building = FALSE
  /\ buildSuccess = NoBuild
  /\ buildOutput = 0

\* setProject(proj), with a project object or null.
SetProject(p) ==
  /\ hasProject' = p
  /\ UNCHANGED <<openFiles, activeFile, building, buildSuccess, buildOutput>>

\* closeProject(): the project, its files and every open file dropped.
CloseProject ==
  /\ hasProject' = FALSE
  /\ openFiles' = <<>>
  /\ activeFile' = NoFile
  /\ UNCHANGED <<building, buildSuccess, buildOutput>>

\* openFile(file): activates the open file with this path, or pushes the
\* file and activates it.
OpenFile(p) ==
  /\ openFiles' = IF p \in OpenPaths THEN openFiles
                  ELSE Append(openFiles, [path |-> p, modified |-> FALSE])
  /\ activeFile' = p
  /\ UNCHANGED <<hasProject, building, buildSuccess, buildOutput>>

\* A closeFile that does not move activeFile off the file it closes.
CloseFileKeepActive(p) ==
  /\ p \in OpenPaths
  /\ openFiles' = RemoveAt(openFiles, PathIndex(p))
  /\ UNCHANGED <<hasProject, activeFile, building, buildSuccess, buildOutput>>

\* closeFile(filePath): with the file open, splices it out; when it was
\* the active one, openFiles[index] || openFiles[index - 1] || null.
CloseFile(p) ==
  LET i == PathIndex(p)
      rest == RemoveAt(openFiles, i)
  IN
  /\ p \in OpenPaths
  /\ openFiles' = rest
  /\ activeFile' = IF activeFile # p THEN activeFile
                   ELSE IF i <= Len(rest) THEN rest[i].path
                   ELSE IF i > 1 THEN rest[i - 1].path
                   ELSE NoFile
  /\ UNCHANGED <<hasProject, building, buildSuccess, buildOutput>>

\* setActiveFile(file): any file, open or not.
SetActiveFile(p) ==
  /\ StrayActiveFile \/ p \in OpenPaths
  /\ activeFile' = p
  /\ UNCHANGED <<hasProject, openFiles, building, buildSuccess, buildOutput>>

\* updateFileContent(filePath, content) and markFileSaved(filePath): the
\* file with this path, if one is open, marked modified or saved.
SetFileModified(p, m) ==
  /\ p \in OpenPaths
  /\ openFiles' = [openFiles EXCEPT ![PathIndex(p)].modified = m]
  /\ UNCHANGED <<hasProject, activeFile, building, buildSuccess, buildOutput>>

\* addBuildOutput(message, type): one line more, never trimmed.
AddBuildOutput ==
  /\ buildOutput < MaxBuildOutput
  /\ buildOutput' = buildOutput + 1
  /\ UNCHANGED <<hasProject, openFiles, activeFile, building, buildSuccess>>

\* clearBuildOutput()
ClearBuildOutput ==
  /\ buildOutput' = 0
  /\ UNCHANGED <<hasProject, openFiles, activeFile, building, buildSuccess>>

\* startBuilding() and stopBuilding(success): each logs one line.
StartBuilding ==
  /\ buildOutput < MaxBuildOutput
  /\ building' = TRUE
  /\ buildSuccess' = NoBuild
  /\ buildOutput' = buildOutput + 1
  /\ UNCHANGED <<hasProject, openFiles, activeFile>>

StopBuilding(success) ==
  /\ buildOutput < MaxBuildOutput
  /\ building' = FALSE
  /\ buildSuccess' = {success}
  /\ buildOutput' = buildOutput + 1
  /\ UNCHANGED <<hasProject, openFiles, activeFile>>

INext ==
  \/ \E b \in BOOLEAN : SetProject(b) \/ StopBuilding(b)
  \/ CloseProject
  \/ \E p \in Paths : OpenFile(p) \/ CloseFile(p) \/ SetActiveFile(p)
  \/ \E p \in Paths, m \in BOOLEAN : SetFileModified(p, m)
  \/ AddBuildOutput
  \/ ClearBuildOutput
  \/ StartBuilding

ITypeOK ==
  /\ hasProject \in BOOLEAN
  /\ openFiles \in Seq([path : Paths, modified : BOOLEAN])
  /\ activeFile \in Paths \cup {NoFile}
  /\ building \in BOOLEAN
  /\ buildSuccess \in {NoBuild, {TRUE}, {FALSE}}
  /\ buildOutput \in 0..MaxBuildOutput

(* The editor shows the active file, and it is one of the open files; no *)
(* file is active only when none is open. closeFile's choice of the next *)
(* file (the one now at the closed index, else the one before it) has to *)
(* keep this, after any sequence of opens, closes and activations.       *)
ActiveFileOpen ==
  IF openFiles = <<>> THEN activeFile = NoFile ELSE activeFile \in OpenPaths

=============================================================================
