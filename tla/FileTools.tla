----------------------------- MODULE FileTools -----------------------------
(***************************************************************************)
(* The tools of the agent that change a workspace: filesystem.write        *)
(* (write, patch, mkdir, move) and filesystem.delete.  Several calls are   *)
(* in progress at once; a call is the sequence of its awaits, and between  *)
(* two of them the other calls run.  An await may fail for a reason of the *)
(* file system's own, and the agent may crash, which leaves the workspace  *)
(* as it is.                                                               *)
(*                                                                         *)
(* The content of a file is the sequence of the blocks written to it, each *)
(* named for the file that brought it.  Permissions, symbolic links and    *)
(* the policy of the workspace are left out: every request is permitted.   *)
(***************************************************************************)
EXTENDS WorkspaceTree, FiniteSets, Naturals

CONSTANTS
    Calls,          \* the calls; a call writes at most one file, which has
                    \* the name of the call
    Files,          \* the files that are there at the start
    Names,          \* what the names in a path are; a temporary file has the
                    \* name of its call
    InitialTree,    \* the workspace at the start
    Requests,       \* what a call may ask for
    MaxFailures     \* how often an await fails or the agent crashes

\* What the schemas of the two tools accept; the resolver of paths refuses to
\* delete the root.
PossibleRequests ==
    [kind : {"write"}, path : Seq(Names), overwrite : BOOLEAN, parents : BOOLEAN]
        \cup [kind : {"patch"}, path : Seq(Names)]
        \cup [kind : {"mkdir"}, path : Seq(Names), recursive : BOOLEAN]
        \cup [kind : {"move"}, path : Seq(Names), to : Seq(Names), overwrite : BOOLEAN]
        \cup [kind : {"delete"}, path : Seq(Names) \ {<<>>}, recursive : BOOLEAN]

ASSUME FileToolsAssumption ==
    /\ Calls \cap Files = {} /\ Calls \cap Names = {}
    /\ {Dir, Absent} \cap (Calls \cup Files) = {}
    /\ Dir # Absent
    /\ IsWorkspace(InitialTree, Seq(Names), Files)
    /\ Requests \subseteq PossibleRequests
    /\ MaxFailures \in Nat

VARIABLES
    tree,       \* what exists in the workspace
    data,       \* the blocks in each file
    want,       \* the content each file is to have when it is complete
    call,       \* each call: its request, where it is, what it has seen
    stranded,   \* the calls whose temporary file nobody removes any more
    failures

fileVars == <<tree, data, want, stranded>>
toolVars == <<tree, data, want, stranded, call, failures>>

Idle == [pc |-> "idle"]
Running(c) == call[c].pc \notin {"idle", "done", "dead"}

Request(c) == call[c].req
Path(c) == Request(c).path
Here(c) == At(tree, Path(c))

Replacing(c) == \/ Request(c).kind = "patch"
                \/ Request(c).kind = "write" /\ Request(c).overwrite

\* atomicReplace writes next to the file, under a name of the call's own.
TemporaryPath(c) == Append(Front(Path(c)), c)
OutputPath(c) == IF Replacing(c) THEN TemporaryPath(c) ELSE Path(c)

IsTemporary(path) == path # <<>> /\ Last(path) \in Calls

ToolsInit ==
    /\ tree = InitialTree
    /\ data = [f \in Calls \cup Files |-> IF f \in Files THEN <<f, f>> ELSE <<>>]
    /\ want = data
    /\ call = [c \in Calls |-> Idle]
    /\ stranded = {}
    /\ failures = 0
-----------------------------------------------------------------------------
Goto(c, pc) == call' = [call EXCEPT ![c].pc = pc]
End(c, out) ==
    call' = [call EXCEPT ![c] = [req |-> Request(c), pc |-> "done", out |-> out,
                                 existed |-> FALSE, file |-> Absent]]

\* A mutant: atomicReplace without its finally.
FailsUncleaned(c) ==
    /\ IF call[c].pc = "cleanup"
       THEN End(c, call[c].out) /\ stranded' = stranded \cup {c}
       ELSE End(c, "error") /\ UNCHANGED stranded
    /\ UNCHANGED <<tree, data, want>>

\* The await at which call c is throws.  atomicReplace removes its temporary
\* file first, and swallows a failure to remove it.
Fails(c) ==
    /\ CASE Replacing(c) /\ call[c].pc \in {"open", "fill", "rename"} ->
                /\ call' = [call EXCEPT ![c].pc = "cleanup", ![c].out = "error"]
                /\ UNCHANGED stranded
         [] call[c].pc = "cleanup" ->
                /\ End(c, call[c].out)
                /\ stranded' = stranded \cup {c}
         [] OTHER -> End(c, "error") /\ UNCHANGED stranded
    /\ UNCHANGED <<tree, data, want>>

\* The handler of filesystem.write looks at its signal on entry and never
\* again; that of filesystem.delete does not look.
Refuse(c, r) ==
    /\ call[c] = Idle /\ r.kind # "delete"
    /\ call' = [call EXCEPT ![c] = [req |-> r, pc |-> "done", out |-> "error",
                                    existed |-> FALSE, file |-> Absent]]
    /\ UNCHANGED fileVars

Begin(c, r) ==
    /\ call[c] = Idle
    /\ call' = [call EXCEPT ![c] = [req |-> r, pc |-> "resolve", out |-> "none",
                                    existed |-> FALSE, file |-> Absent]]
    /\ UNCHANGED fileVars

\* What a write does when its checks have passed.
Prepared(c) == IF Request(c).parents THEN "parents" ELSE "open"

\* Where each tool goes when it takes its path to exist, or not to ...
ResolvedToWrite(c, exists) ==
    IF ~exists THEN Prepared(c)
    ELSE IF Request(c).overwrite THEN "lstat" ELSE "error"

ResolvedToMakeDirectory(exists) == IF exists THEN "lstat" ELSE "mkdir"

ResolvedToDelete(exists) == IF exists THEN "lstat" ELSE "error"

\* ... and, some time later, what is there.
LstatToWrite(c) == IF IsFile(tree, Path(c)) THEN Prepared(c) ELSE "error"

LstatToPatch(c) == IF IsFile(tree, Path(c)) THEN "openToRead" ELSE "error"

LstatToMakeDirectory(c) == IF Here(c) = Dir THEN "ok" ELSE "error"

LstatToMove(c) == IF Here(c) = Absent THEN "error" ELSE "resolveTo"

LstatToDelete(c) ==
    CASE Here(c) = Absent -> "error"
      [] Here(c) = Dir /\ ~Request(c).recursive -> "readdir"
      [] OTHER -> "rm"

\* Call c goes on at pc, or ends.
Proceeds(c, pc) ==
    /\ IF pc \in {"ok", "error"} THEN End(c, pc) ELSE Goto(c, pc)
    /\ UNCHANGED fileVars

Resolves(c, exists) ==
    Proceeds(c, CASE Request(c).kind = "write"  -> ResolvedToWrite(c, exists)
                  [] Request(c).kind = "mkdir"  -> ResolvedToMakeDirectory(exists)
                  [] Request(c).kind = "delete" -> ResolvedToDelete(exists)
                  [] OTHER -> "lstat")

ResolvePath(c) ==
    /\ call[c].pc = "resolve"
    /\ Resolves(c, Here(c) # Absent)

Lstat(c) ==
    /\ call[c].pc = "lstat"
    /\ Proceeds(c, CASE Request(c).kind = "write"  -> LstatToWrite(c)
                      [] Request(c).kind = "patch"  -> LstatToPatch(c)
                      [] Request(c).kind = "mkdir"  -> LstatToMakeDirectory(c)
                      [] Request(c).kind = "move"   -> LstatToMove(c)
                      [] Request(c).kind = "delete" -> LstatToDelete(c))
-----------------------------------------------------------------------------
(***************************************************************************)
(* write and patch: the new content goes to a new file, which takes the    *)
(* place of the old one when it is complete; a write without overwrite     *)
(* fills its file in place.                                                *)
(***************************************************************************)
MakeParents(c) ==
    /\ call[c].pc = "parents"
    /\ IF CanMakeAll(tree, Front(Path(c)))
       THEN /\ tree' = WithAll(tree, Front(Path(c)))
            /\ Goto(c, "open")
            /\ UNCHANGED <<data, want, stranded>>
       ELSE Fails(c)

\* patch: readFile opens the file that is there and reads it; the count of
\* oldText in what it read is right or it is not.
OpenToRead(c) ==
    /\ call[c].pc = "openToRead"
    /\ IF IsFile(tree, Path(c))
       THEN /\ call' = [call EXCEPT ![c].pc = "read", ![c].file = Here(c)]
            /\ UNCHANGED fileVars
       ELSE Fails(c)

ReadContent(c) ==
    /\ call[c].pc = "read"
    /\ \/ Goto(c, "open") /\ want' = [want EXCEPT ![c] = data[call[c].file]]
       \/ End(c, "error") /\ UNCHANGED want
    /\ UNCHANGED <<tree, data, stranded>>

\* writeFile opens its file with the flag "wx" and writes it block by block.
OpenOutput(c) ==
    /\ call[c].pc = "open"
    /\ IF CanCreate(tree, OutputPath(c))
       THEN /\ tree' = With(tree, OutputPath(c), c)
            /\ want' = [want EXCEPT ![c] = Append(@, c)]
            /\ Goto(c, "fill")
            /\ UNCHANGED <<data, stranded>>
       ELSE Fails(c)

\* A mutant: the first block is taken for the whole.
FillOneBlock(c) ==
    /\ call[c].pc = "fill"
    /\ data' = [data EXCEPT ![c] = SubSeq(want[c], 1, 1)]
    /\ IF Replacing(c) THEN Goto(c, "rename") ELSE End(c, "ok")
    /\ UNCHANGED <<tree, want, stranded>>

Fill(c) ==
    /\ call[c].pc = "fill"
    /\ data' = [data EXCEPT ![c] = SubSeq(want[c], 1, Len(@) + 1)]
    /\ IF data'[c] # want[c] THEN UNCHANGED call
       ELSE IF Replacing(c) THEN Goto(c, "rename")
       ELSE End(c, "ok")
    /\ UNCHANGED <<tree, want, stranded>>

Replace(c) ==
    /\ call[c].pc = "rename"
    /\ IF CanRename(tree, TemporaryPath(c), Path(c))
       THEN /\ tree' = Renamed(tree, TemporaryPath(c), Path(c))
            /\ call' = [call EXCEPT ![c].pc = "cleanup", ![c].out = "ok"]
            /\ UNCHANGED <<data, want, stranded>>
       ELSE Fails(c)

\* The finally of atomicReplace: rm with force, whatever happened before.
RemoveTemporary(c) ==
    /\ call[c].pc = "cleanup"
    /\ tree' = Without(tree, TemporaryPath(c))
    /\ End(c, call[c].out)
    /\ UNCHANGED <<data, want, stranded>>
-----------------------------------------------------------------------------
MakeDirectory(c) ==
    /\ call[c].pc = "mkdir"
    /\ IF IF Request(c).recursive THEN CanMakeAll(tree, Path(c))
                                  ELSE CanCreate(tree, Path(c))
       THEN /\ tree' = WithAll(tree, Path(c))
            /\ End(c, "ok")
            /\ UNCHANGED <<data, want, stranded>>
       ELSE Fails(c)

\* move looks at the destination, and renames over whatever is there by then.
ResolvesTo(c, existed) ==
    /\ IF existed /\ ~Request(c).overwrite
       THEN End(c, "error")
       ELSE call' = [call EXCEPT ![c].pc = "move", ![c].existed = existed]
    /\ UNCHANGED fileVars

ResolveDestination(c) ==
    /\ call[c].pc = "resolveTo"
    /\ ResolvesTo(c, At(tree, Request(c).to) # Absent)

Move(c) ==
    /\ call[c].pc = "move"
    /\ IF CanRename(tree, Path(c), Request(c).to)
       THEN /\ tree' = Renamed(tree, Path(c), Request(c).to)
            /\ stranded' = stranded \cup
                   {Last(p) : p \in {q \in Below(tree, Path(c)) : IsTemporary(q)}}
            /\ End(c, "ok")
            /\ UNCHANGED <<data, want>>
       ELSE Fails(c)
-----------------------------------------------------------------------------
(***************************************************************************)
(* filesystem.delete                                                       *)
(***************************************************************************)
ReadDirectory(c) ==
    /\ call[c].pc = "readdir"
    /\ IF CanRemoveDirectory(tree, Path(c))
       THEN Goto(c, "rmdir") /\ UNCHANGED fileVars
       ELSE Fails(c)

Removed(path) ==
    /\ tree' = Without(tree, path)
    /\ UNCHANGED <<data, want, stranded>>

\* A mutant: rm with recursive also for the directory that was empty.
RemoveDirectoryWhole(c) ==
    /\ call[c].pc = "rmdir"
    /\ Goto(c, "rmtree")
    /\ UNCHANGED fileVars

RemoveDirectory(c) ==
    /\ call[c].pc = "rmdir"
    /\ IF CanRemoveDirectory(tree, Path(c))
       THEN Removed(Path(c)) /\ End(c, "ok")
       ELSE Fails(c)

RemovePath(c) ==
    /\ call[c].pc = "rm"
    /\ CASE IsFile(tree, Path(c)) -> Removed(Path(c)) /\ End(c, "ok")
         [] Here(c) = Dir /\ Request(c).recursive ->
                Goto(c, "rmtree") /\ UNCHANGED fileVars
         [] OTHER -> Fails(c)

\* rm with recursive removes one entry after another, the directory last,
\* and gives up when another call keeps it from finishing.
RemoveTree(c) ==
    /\ call[c].pc = "rmtree"
    /\ \/ \E p \in Below(tree, Path(c)) \cup ({Path(c)} \cap DOMAIN tree) :
              /\ Below(tree, p) = {}
              /\ Removed(p)
              /\ IF p = Path(c) THEN End(c, "ok") ELSE UNCHANGED call
       \/ /\ Here(c) = Absent
          /\ End(c, "ok")
          /\ UNCHANGED fileVars
       \/ Fails(c)
-----------------------------------------------------------------------------
Step(c) ==
    \/ ResolvePath(c) \/ Lstat(c)
    \/ MakeParents(c) \/ OpenToRead(c) \/ ReadContent(c)
    \/ OpenOutput(c) \/ Fill(c) \/ Replace(c) \/ RemoveTemporary(c)
    \/ MakeDirectory(c) \/ ResolveDestination(c) \/ Move(c)
    \/ ReadDirectory(c) \/ RemoveDirectory(c) \/ RemovePath(c) \/ RemoveTree(c)

\* The resolver takes any error of realpath for a path that is not there; it
\* gives up only when no directory above it can be resolved either.
Overlooks(c) ==
    \/ call[c].pc = "resolve" /\ Path(c) # <<>> /\ Resolves(c, FALSE)
    \/ call[c].pc = "resolveTo" /\ Request(c).to # <<>> /\ ResolvesTo(c, FALSE)

Fault(c) ==
    /\ Running(c) /\ failures < MaxFailures
    /\ Fails(c) \/ Overlooks(c)
    /\ failures' = failures + 1

\* The process ends; the calls that have not begun are another one's.
ToolsCrash ==
    /\ failures < MaxFailures
    /\ failures' = failures + 1
    /\ call' = [c \in Calls |->
                   IF Running(c) THEN [call[c] EXCEPT !.pc = "dead"] ELSE call[c]]
    /\ UNCHANGED <<tree, data, want, stranded>>

ToolsNext ==
    \/ \E c \in Calls :
          /\ Step(c) \/ \E r \in Requests : Begin(c, r) \/ Refuse(c, r)
          /\ UNCHANGED failures
    \/ \E c \in Calls : Fault(c)
-----------------------------------------------------------------------------
\* The states of the workspace and of the calls.
Paths == {p \in Seq(Names \cup Calls) : \A n \in 1 .. Len(p) - 1 : p[n] \in Names}

CallPcs == {"resolve", "lstat", "parents", "openToRead", "read", "open", "fill",
            "rename", "cleanup", "mkdir", "resolveTo", "move", "readdir", "rmdir",
            "rm", "rmtree", "done", "dead"}

ToolTypes ==
    /\ IsWorkspace(tree, Paths, Calls \cup Files)
    /\ data \in [Calls \cup Files -> Seq(Calls \cup Files)]
    /\ want \in [Calls \cup Files -> Seq(Calls \cup Files)]
    /\ call \in [Calls -> {Idle} \cup
                     [req : Requests, pc : CallPcs, out : {"none", "ok", "error"},
                      existed : BOOLEAN, file : Calls \cup Files \cup {Absent}]]
    /\ stranded \subseteq Calls /\ failures \in 0 .. MaxFailures

\* The awaits of each tool.
Phases(c) ==
    CASE Request(c).kind = "write"  -> {"parents", "open", "fill", "rename", "cleanup"}
      [] Request(c).kind = "patch"  -> {"openToRead", "read", "open", "fill", "rename",
                                        "cleanup"}
      [] Request(c).kind = "mkdir"  -> {"mkdir"}
      [] Request(c).kind = "move"   -> {"resolveTo", "move"}
      [] Request(c).kind = "delete" -> {"readdir", "rmdir", "rm", "rmtree"}

\* What a call at an await has found out before.
CallsAgree ==
    \A c \in Calls : call[c] # Idle =>
       LET pc == call[c].pc IN
       /\ pc \in Phases(c) \cup {"resolve", "lstat", "done", "dead"}
       /\ pc \in {"rename", "cleanup"} => Replacing(c)
       /\ pc \in {"parents", "read", "open", "fill", "rename", "cleanup"} => Path(c) # <<>>
       /\ pc = "rmtree" => Request(c).recursive
       /\ pc = "move" => Request(c).overwrite \/ ~call[c].existed
       /\ pc = "read" => call[c].file # Absent

\* The calls that may have opened their file; it is given its content before.
Opened(c) == call[c].pc \in {"fill", "rename", "cleanup", "done", "dead"}

\* A file holds a beginning of its content, all of it when it is renamed.
ContentsAgree ==
    /\ \A f \in Calls \cup Files : IsPrefix(data[f], want[f])
    /\ \A f \in Files : data[f] = want[f]
    /\ \A c \in Calls : /\ ~Opened(c) => data[c] = <<>>
                        /\ call[c].pc = "fill" => data[c] # want[c]
                        /\ call[c].pc = "rename" => data[c] = want[c]

\* A temporary path has the file of its call, at its place unless it was left
\* behind; the file of an overwrite or a patch is elsewhere only when it is
\* whole and was put there.
PlacesAgree ==
    \A p \in DOMAIN tree :
       /\ tree[p] \in Calls => Opened(tree[p])
       /\ IsTemporary(p) =>
             /\ tree[p] = Last(p) /\ Replacing(Last(p))
             /\ \/ /\ call[Last(p)].pc \in {"fill", "rename", "cleanup", "dead"}
                   /\ p = TemporaryPath(Last(p))
                \/ Last(p) \in stranded
       /\ ~IsTemporary(p) /\ tree[p] \in Calls /\ Replacing(tree[p]) =>
             /\ data[tree[p]] = want[tree[p]] /\ call[tree[p]].out = "ok"
             /\ call[tree[p]].pc \in {"cleanup", "done", "dead"}

\* A temporary file is there only while its call is running or when the agent
\* died, unless its directory was moved under it or its removal failed.
NoTemporaryLeft ==
    \A p \in DOMAIN tree :
       IsTemporary(p) =>
           \/ call[Last(p)].pc \in {"fill", "rename", "cleanup", "dead"}
           \/ Last(p) \in stranded

\* overwrite and patch replace a file as a whole or not at all, across failures
\* and crashes.  A file with less than its content is where a reader finds it
\* only when a write without overwrite is filling it, failed or died there; and
\* an overwrite or a patch that answers with an error has not put its content in
\* place, so that it may be tried again.
ReplaceIsAtomic ==
    \A p \in DOMAIN tree :
       LET f == tree[p] IN
       f # Dir /\ ~IsTemporary(p) =>
           /\ data[f] # want[f] => f \in Calls /\ ~Replacing(f)
           /\ f \in Calls /\ Replacing(f) /\ call[f].pc = "done" =>
                  call[f].out = "ok"

\* What call c was asked to take away from a path.
AskedFor(c, p) ==
    LET r == Request(c) IN
    CASE r.kind = "delete" ->
            p = r.path \/ (r.recursive /\ IsPrefix(r.path, p))
      [] r.kind = "move" -> IsPrefix(r.path, p) \/ (p = r.to /\ r.overwrite)
      [] OTHER -> p = r.path /\ Replacing(c)

\* Call c is about to rename to path p without having been asked to overwrite,
\* its look at p having found nothing.
MovesUnasked(c, p) ==
    /\ call[c].pc = "move" /\ Request(c).to = p
    /\ ~Request(c).overwrite /\ ~call[c].existed

\* This step takes the file at path p away.
Takes(p) == tree[p] # Dir /\ ~IsTemporary(p) /\ At(tree', p) # tree[p]

\* This step is one of call c.
IsStepOf(c) == Running(c) /\ (call'[c] # call[c] \/ call[c].pc = "rmtree")

\* docs/tools/filesystem-write.md: no action silently overwrites what the caller
\* did not clearly ask for.  A move without overwrite does, when a file appears
\* at its destination after it looked, or was there and realpath failed on it.
NothingIsTakenUnasked ==
    [][\A p \in DOMAIN tree :
          Takes(p) => \E c \in Calls : IsStepOf(c) /\ AskedFor(c, p)]_toolVars

\* A move is the only call that does: a write without overwrite and a mkdir
\* replace nothing, also when they take a path that is there for absent, and a
\* delete that is not recursive takes the one path it names also when something
\* appears in the directory after it was found empty.
OnlyMovesTakeUnasked ==
    [][\A p \in DOMAIN tree :
          Takes(p) => \E c \in Calls :
              IsStepOf(c) /\ (AskedFor(c, p) \/ MovesUnasked(c, p))]_toolVars
=============================================================================
