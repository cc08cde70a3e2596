------------------------------ MODULE IdeFiles ------------------------------
(***************************************************************************)
(* The ST IDE's project and file handlers in the main process              *)
(* (ide/electron/ipc/project.js and file.js) that change the disk:         *)
(* project:create, project:save, file:save, file:create and file:delete,   *)
(* against a disk of one project directory P. Each handler is the list of  *)
(* fs.promises calls it awaits, one step per call, and handlers overlap at *)
(* those awaits. fs.writeFile opens its file with O_TRUNC and then writes, *)
(* so it is two steps; a write reaches the file that open created or       *)
(* truncated (an inode, numbered by gen), which an unlink in between takes *)
(* off the path. The write goes to offset 0 of writeFile's own descriptor: *)
(* it overwrites the file's first bytes and leaves any longer tail, which *)
(* another writer that opened the same inode may have put there. File      *)
(* contents are sequences of characters. The main process may die at any  *)
(* time; the disk stays.                                                   *)
(***************************************************************************)
EXTENDS Naturals, Sequences, TLC

CONSTANTS
  Configs,     \* the texts JSON.stringify gives of the renderer's configs
  Texts,       \* the contents the renderer passes to file:save, as sequences
  UserFiles,   \* the source files the file handlers are called on, under P/src
  MaxCalls,    \* bound on handler calls
  FsFails,     \* an fs call may fail (EACCES, ENOSPC, EIO)
  AppCrashes   \* the main process may die while handlers are in flight

Root == "P"
Json == "P/project.json"
Main == "P/src/main.st"
Empty == <<>>              \* what a truncated file holds; JSON.parse('') throws
MainProgram == <<"P", "M">> \* main.st's 'PROGRAM Main ... END_PROGRAM' text

Parent(f) == IF f = Json THEN Root ELSE "P/src"

Op(kind, path, val) == [op |-> kind, path |-> path, val |-> val]

\* The fs calls each handler awaits, in order.
ProjectCreateOps(cfg) ==
  <<Op("mkdir", Root, Empty), Op("mkdir", "P/src", Empty),
    Op("mkdir", "P/build", Empty), Op("mkdir", "P/lib", Empty),
    Op("open", Json, Empty), Op("write", Json, cfg),
    Op("open", Main, Empty), Op("write", Main, MainProgram)>>
WriteFileOps(f, v) == <<Op("open", f, Empty), Op("write", f, v)>>

VARIABLES
  dirs,      \* the directories of P that exist
  files,     \* path -> [gen, val]: the files that exist and what they hold
  nGen,      \* files created so far
  calls,     \* call id -> [h, ops, pc, gen]: the handlers awaiting an fs call
  nCalls,    \* handler calls so far
  created    \* some project:create has returned success

ifvars == <<dirs, files, nGen, calls, nCalls, created>>

IFInit ==
  /\ dirs = {}
  /\ files = <<>>
  /\ nGen = 0
  /\ calls = <<>>
  /\ nCalls = 0
  /\ created = FALSE

Start(h, ops) ==
  /\ nCalls < MaxCalls
  /\ nCalls' = nCalls + 1
  /\ calls' = (nCalls + 1 :> [h |-> h, ops |-> ops, pc |-> 1, gen |-> 0]) @@ calls
  /\ UNCHANGED <<dirs, files, nGen, created>>

\* The IPC calls: project:create(P, config), project:save(P, config),
\* file:save(f, content), file:create(f, '') and file:delete(f).
ProjectCreate(cfg) == Start("project:create", ProjectCreateOps(cfg))
ProjectSave(cfg) == Start("project:save", WriteFileOps(Json, cfg))
FileSave(f, v) == Start("file:save", WriteFileOps(f, v))
FileCreate(f) == Start("file:create", WriteFileOps(f, Empty))
FileDelete(f) == Start("file:delete", <<Op("unlink", f, Empty)>>)

Drop(id) == [c \in DOMAIN calls \ {id} |-> calls[c]]

\* The handler returns: {success: true} after its last call, or the catch
\* block's {success: false, error}. project:create's success is recorded.
Return(id, ok) ==
  /\ calls' = Drop(id)
  /\ created' = (created \/ (ok /\ calls[id].h = "project:create"))

\* What a file holding old holds after write(fd, v, position 0): v over its
\* first Len(v) characters, then the rest of old.
WrittenAtZero(old, v) == v \o SubSeq(old, Len(v) + 1, Len(old))

\* The next awaited fs call of handler id settles. A failing call throws
\* into the handler's catch. mkdir is recursive, so it also makes P and
\* never fails on a directory that exists; open creates the file when it is
\* missing (ENOENT when its directory is) and truncates it otherwise; write
\* lands at offset 0 of the inode open gave; unlink fails on a missing file.
FsCallSettles(id) ==
  LET c == calls[id]
      o == c.ops[c.pc]
      last == c.pc = Len(c.ops)
      Advance(g) == IF last THEN Return(id, TRUE)
                    ELSE /\ calls' = [calls EXCEPT ![id].pc = @ + 1, ![id].gen = g]
                         /\ UNCHANGED created
  IN
  /\ UNCHANGED nCalls
  /\ \/ /\ FsFails
        /\ Return(id, FALSE)
        /\ UNCHANGED <<dirs, files, nGen>>
     \/ /\ o.op = "mkdir"
        /\ dirs' = dirs \cup {o.path, Root}
        /\ Advance(0)
        /\ UNCHANGED <<files, nGen>>
     \/ /\ o.op = "open" /\ Parent(o.path) \notin dirs
        /\ Return(id, FALSE)
        /\ UNCHANGED <<dirs, files, nGen>>
     \/ /\ o.op = "open" /\ Parent(o.path) \in dirs /\ o.path \in DOMAIN files
        /\ files' = [files EXCEPT ![o.path].val = Empty]
        /\ Advance(files[o.path].gen)
        /\ UNCHANGED <<dirs, nGen>>
     \/ /\ o.op = "open" /\ Parent(o.path) \in dirs /\ o.path \notin DOMAIN files
        /\ nGen' = nGen + 1
        /\ files' = (o.path :> [gen |-> nGen + 1, val |-> Empty]) @@ files
        /\ Advance(nGen + 1)
        /\ UNCHANGED dirs
     \/ /\ o.op = "write"
        /\ files' = IF o.path \in DOMAIN files /\ files[o.path].gen = c.gen
                      THEN [files EXCEPT ![o.path].val = WrittenAtZero(@, o.val)]
                      ELSE files
        /\ Advance(c.gen)
        /\ UNCHANGED <<dirs, nGen>>
     \/ /\ o.op = "unlink"
        /\ o.path \in DOMAIN files
        /\ files' = [f \in DOMAIN files \ {o.path} |-> files[f]]
        /\ Advance(0)
        /\ UNCHANGED <<dirs, nGen>>
     \/ /\ o.op = "unlink" /\ o.path \notin DOMAIN files
        /\ Return(id, FALSE)
        /\ UNCHANGED <<dirs, files, nGen>>

\* The main process dies: every handler in flight is gone, the disk stays.
MainProcessDies ==
  /\ AppCrashes
  /\ calls # <<>>
  /\ calls' = <<>>
  /\ UNCHANGED <<dirs, files, nGen, nCalls, created>>

IFNext ==
  \/ \E cfg \in Configs : ProjectCreate(cfg) \/ ProjectSave(cfg)
  \/ \E f \in UserFiles : FileCreate(f) \/ FileDelete(f) \/ \E v \in Texts : FileSave(f, v)
  \/ \E id \in DOMAIN calls : FsCallSettles(id)
  \/ MainProcessDies

IFTypeOK ==
  /\ dirs \subseteq {Root, "P/src", "P/build", "P/lib"}
  /\ DOMAIN files \subseteq {Json} \cup UserFiles
  /\ \A f \in DOMAIN files : files[f].gen \in 1..nGen
  /\ DOMAIN calls \subseteq 1..nCalls /\ nCalls \in 0..MaxCalls
  /\ created \in BOOLEAN

\* Some handler has opened project.json and not yet written it.
JsonBeingWritten ==
  \E id \in DOMAIN calls :
    LET c == calls[id] IN c.ops[c.pc] = Op("write", Json, c.ops[c.pc].val)

(* A project that project:create reported created stays one project:open *)
(* can open: whenever no writeFile of project.json is between its open    *)
(* and its write, the file exists and holds a whole config. It is about   *)
(* the order of project:create's awaits and about writeFile truncating    *)
(* before it writes, under overlapping calls, failed fs calls and a main  *)
(* process that dies.                                                     *)
ProjectOpenable ==
  created /\ ~JsonBeingWritten => Json \in DOMAIN files /\ files[Json].val \in Configs

=============================================================================
