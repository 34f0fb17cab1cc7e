----------------------------- MODULE FileReads -----------------------------
(***************************************************************************)
(* The tool of the agent that reads a workspace, filesystem.read (read,    *)
(* list, stat, search), next to the calls that change it: a reader walks   *)
(* the tree breadth first, a directory or a file at an await, while the    *)
(* calls of FileTools move, replace and delete what it walks.              *)
(***************************************************************************)
EXTENDS FileTools

CONSTANTS
    Readers,        \* the calls of filesystem.read
    ReadRequests,   \* what a reader may ask for
    MaxFiles,       \* MAX_SEARCH_FILES
    MaxFileSize,    \* MAX_SEARCH_FILE_SIZE
    MaxChecked,     \* how much of a buffer isBinaryBuffer looks at, 8192 bytes
    MaxBytes        \* MAX_SEARCH_TOTAL_BYTES

\* What the schema of filesystem.read accepts; a query is a block to look for.
PossibleReads ==
    [kind : {"read"}, path : Seq(Names), limit : Nat]
        \cup [kind : {"stat"}, path : Seq(Names)]
        \cup [kind : {"list"}, path : Seq(Names), depth : Nat, limit : Nat]
        \cup [kind : {"search"}, path : Seq(Names), query : Calls \cup Files, limit : Nat]

ASSUME FileReadsAssumption ==
    /\ 0 \notin Calls \cup Files
    /\ ReadRequests \subseteq PossibleReads
    /\ MaxFiles \in Nat /\ MaxFileSize \in Nat /\ MaxBytes \in Nat
    /\ MaxChecked \in Nat

VARIABLES
    reader,     \* each reader: its request, where it is, what it found
    stayed      \* the part of the tree that has been there, unchanged and
                \* readable, since the reader began

readVars == <<reader, stayed>>
vars == <<toolVars, readVars>>

Reading(r) == reader[r].pc \notin {"idle", "done", "dead"}

Begun(q) == [req |-> q, pc |-> "resolve", out |-> "none", aborted |-> FALSE,
             at |-> <<>>, size |-> 0, file |-> Absent, got |-> <<>>,
             queue |-> <<>>, found |-> {}, entries |-> {}, truncated |-> FALSE,
             files |-> 0, bytes |-> 0]

Whole(file) == data[file] = want[file]

Init ==
    /\ ToolsInit
    /\ reader = [r \in Readers |-> Idle]
    /\ stayed = [r \in Readers |-> << >>]

BeginRead(r, q) ==
    /\ reader[r] = Idle
    /\ reader' = [reader EXCEPT ![r] = Begun(q)]
    /\ stayed' = [stayed EXCEPT ![r] =
           [p \in {p \in DOMAIN tree : tree[p] # Dir => Whole(tree[p])} |-> tree[p]]]

\* The client cancels the call; only list and search look at the signal.
Abort(r) ==
    /\ Reading(r) /\ ~reader[r].aborted
    /\ reader[r].req.kind \in {"list", "search"}
    /\ reader' = [reader EXCEPT ![r].aborted = TRUE]
    /\ UNCHANGED stayed
-----------------------------------------------------------------------------
\* A reader that has the new state s, without what it no longer needs.
Becomes(r, s) == reader' = [reader EXCEPT ![r] = s]

Finish(r, s, out) ==
    Becomes(r, [s EXCEPT !.pc = "done", !.out = out, !.at = <<>>, !.size = 0,
                         !.queue = <<>>, !.found = {}, !.files = 0, !.bytes = 0])

\* The rest of the walk: the entries found, then the directories queued.
\* The loop ends before it looks at the signal.
Proceed(r, s) ==
    IF s.truncated \/ (s.found = {} /\ s.queue = <<>>)
    THEN Finish(r, s, "ok")
    ELSE Becomes(r, [s EXCEPT !.pc = IF s.found = {} THEN "scan" ELSE "entries"])

\* A mutant: searchFile says stop where it should say go on.
ReadFailsStops(r) ==
    IF reader[r].pc = "scan"
    THEN Proceed(r, [reader[r] EXCEPT !.queue = Tail(@)])
    ELSE IF reader[r].req.kind = "search" /\ reader[r].pc \notin {"resolve", "lstat"}
    THEN Finish(r, reader[r], "ok")
    ELSE Finish(r, reader[r], "error")

\* The await at which reader r is throws: searchFile and the walk pass over
\* what they cannot read, a read and the checks before it give up.
ReadFails(r) ==
    IF reader[r].pc = "scan"
    THEN Proceed(r, [reader[r] EXCEPT !.queue = Tail(@)])
    ELSE IF reader[r].req.kind = "search" /\ reader[r].pc \notin {"resolve", "lstat"}
    THEN Proceed(r, reader[r])
    ELSE Finish(r, reader[r], "error")

ResolveRead(r) ==
    /\ reader[r].pc = "resolve"
    /\ IF At(tree, reader[r].req.path) = Absent
       THEN ReadFails(r)
       ELSE Becomes(r, [reader[r] EXCEPT !.pc = "lstat"])

Smaller(m, n) == IF m < n THEN m ELSE n

\* What the reader does with what is at its path, by what it was asked for.
LstatToRead(r, s, what) ==
    IF what = Dir THEN ReadFails(r)
    ELSE IF data[what] = <<>> THEN Finish(r, s, "ok")
    ELSE Becomes(r, [s EXCEPT !.pc = "open",
                              !.size = Smaller(s.req.limit, Len(data[what]))])

LstatToList(r, s, what) ==
    IF what = Dir THEN Becomes(r, [s EXCEPT !.pc = "scan", !.queue = <<s.at>>])
                  ELSE ReadFails(r)

LstatToSearch(r, s, what) ==
    IF what = Dir THEN Becomes(r, [s EXCEPT !.pc = "scan", !.queue = <<s.at>>])
                  ELSE Becomes(r, [s EXCEPT !.pc = "file"])

LstatRead(r) ==
    /\ reader[r].pc = "lstat"
    /\ LET q    == reader[r].req
           what == At(tree, q.path)
           s    == [reader[r] EXCEPT !.at = q.path]
       IN  IF what = Absent THEN ReadFails(r) ELSE
           CASE q.kind = "read"   -> LstatToRead(r, s, what)
             [] q.kind = "list"   -> LstatToList(r, s, what)
             [] q.kind = "search" -> LstatToSearch(r, s, what)
             [] q.kind = "stat"   -> Finish(r, s, "ok")

\* The next directory: a look at the signal, then readdir.
Scan(r) ==
    /\ reader[r].pc = "scan"
    /\ LET s == reader[r]
           directory == Head(s.queue)
       IN  IF s.aborted THEN Finish(r, s, "error")
           ELSE IF At(tree, directory) # Dir THEN ReadFails(r)
           ELSE Proceed(r, [s EXCEPT
                    !.at = directory, !.queue = Tail(s.queue),
                    !.found = {[path |-> p, isDirectory |-> tree[p] = Dir] :
                               p \in Children(tree, directory)}])

Queued(s, e) == [s EXCEPT !.queue = Append(@, e.path)]

\* list: an entry is an answer, and a directory is queued above the depth.
ListEntry(r, s, e) ==
    LET listed == s.entries \cup {e.path}
        next   == [s EXCEPT !.entries = listed,
                            !.truncated = Cardinality(listed) >= s.req.limit]
    IN  IF e.isDirectory /\ Len(e.path) - Len(s.req.path) < s.req.depth
        THEN Proceed(r, Queued(next, e))
        ELSE Proceed(r, next)

\* search: a directory is queued, a file is searched.
SearchEntry(r, s, e) ==
    IF e.isDirectory THEN Proceed(r, Queued(s, e))
    ELSE Becomes(r, [s EXCEPT !.pc = "file", !.at = e.path])

\* The next entry of the directory, of the type it had for readdir.
Entry(r) ==
    /\ reader[r].pc = "entries"
    /\ \E e \in reader[r].found :
          LET s == [reader[r] EXCEPT !.found = @ \ {e}]
          IN  IF s.aborted THEN Finish(r, s, "error")
              ELSE IF s.req.kind = "list" THEN ListEntry(r, s, e)
              ELSE SearchEntry(r, s, e)

\* searchFile: the limits, and stat for the size.
SearchFile(r) ==
    /\ reader[r].pc = "file"
    /\ LET s == [reader[r] EXCEPT !.files = @ + 1]
           what == At(tree, s.at)
           size == Len(data[what])
       IN  IF s.aborted THEN Finish(r, s, "error")
           ELSE IF s.files > MaxFiles
           THEN Proceed(r, [s EXCEPT !.truncated = TRUE])
           ELSE IF what \in {Dir, Absent} \/ size > MaxFileSize
           THEN Proceed(r, s)
           ELSE IF s.bytes + size > MaxBytes
           THEN Proceed(r, [s EXCEPT !.truncated = TRUE])
           ELSE Becomes(r, [s EXCEPT !.pc = "open", !.size = size,
                                     !.bytes = @ + size])

OpenFile(r) ==
    /\ reader[r].pc = "open"
    /\ IF IsFile(tree, reader[r].at)
       THEN Becomes(r, [reader[r] EXCEPT !.pc = "read",
                                         !.file = At(tree, reader[r].at)])
       ELSE ReadFails(r)

\* A buffer of the size that stat gave, with zeros where the file is shorter
\* by now.
Buffer(r) ==
    [n \in 1 .. reader[r].size |->
        IF n <= Len(data[reader[r].file]) THEN data[reader[r].file][n] ELSE 0]

\* A mutant: zeros pass for text.
IsBinaryNever(buffer) == FALSE

\* A buffer with a zero near its beginning passes for binary.
IsBinaryBuffer(buffer) == \E n \in DOMAIN buffer : n <= MaxChecked /\ buffer[n] = 0

ReadFile(r) ==
    /\ reader[r].pc = "read"
    /\ LET s == reader[r]
           hits == s.entries \cup {s.at}
       IN  IF IsBinaryBuffer(Buffer(r)) THEN ReadFails(r)
           ELSE IF s.req.kind = "read"
           THEN Finish(r, [s EXCEPT !.got = Buffer(r)], "ok")
           ELSE IF \E n \in 1 .. s.size : Buffer(r)[n] = s.req.query
           THEN Proceed(r, [s EXCEPT !.entries = hits,
                                !.truncated = Cardinality(hits) >= s.req.limit])
           ELSE Proceed(r, s)
-----------------------------------------------------------------------------
ReadStep(r) ==
    /\ \/ ResolveRead(r) \/ LstatRead(r) \/ Scan(r) \/ Entry(r)
       \/ SearchFile(r) \/ OpenFile(r) \/ ReadFile(r)
    /\ UNCHANGED stayed

\* What a reader could not read is not there for it.
ReadFault(r) ==
    /\ Reading(r) /\ failures < MaxFailures
    /\ reader[r].pc # "entries"
    /\ ReadFails(r)
    /\ failures' = failures + 1
    /\ LET lost == IF reader[r].pc = "scan" THEN Head(reader[r].queue)
                                            ELSE reader[r].at
       IN  stayed' = [stayed EXCEPT ![r] =
               [p \in {p \in DOMAIN @ : ~IsPrefix(lost, p)} |-> @[p]]]

\* What is still there of what was there when the readers began.
Watch ==
    stayed' = [r \in Readers |->
        IF Reading(r)
        THEN [p \in {p \in DOMAIN stayed[r] : At(tree', p) = stayed[r][p]} |->
                 stayed[r][p]]
        ELSE stayed[r]]

Crash ==
    /\ ToolsCrash
    /\ reader' = [r \in Readers |->
           IF Reading(r) THEN [reader[r] EXCEPT !.pc = "dead"] ELSE reader[r]]
    /\ UNCHANGED stayed

Next ==
    \/ ToolsNext /\ Watch /\ UNCHANGED reader
    \/ \E r \in Readers :
          \/ /\ ReadStep(r) \/ Abort(r) \/ \E q \in ReadRequests : BeginRead(r, q)
             /\ UNCHANGED toolVars
          \/ /\ ReadFault(r)
             /\ UNCHANGED <<fileVars, call>>
    \/ Crash

Spec == Init /\ [][Next]_vars
-----------------------------------------------------------------------------
ReadPcs == {"resolve", "lstat", "scan", "entries", "file", "open", "read", "done",
            "dead"}

ReadTypes ==
    /\ reader \in [Readers -> {Idle} \cup
          [req : ReadRequests, pc : ReadPcs, out : {"none", "ok", "error"},
           aborted : BOOLEAN, at : Paths, size : Nat,
           file : Calls \cup Files \cup {Absent}, got : Seq(Calls \cup Files \cup {0}),
           queue : Seq(Paths), found : SUBSET [path : Paths, isDirectory : BOOLEAN],
           entries : SUBSET Paths, truncated : BOOLEAN, files : Nat, bytes : Nat]]
    /\ stayed = [r \in Readers |-> stayed[r]]
    /\ \A r \in Readers :
          /\ stayed[r] \in [DOMAIN stayed[r] -> {Dir} \cup Calls \cup Files]
          /\ DOMAIN stayed[r] \subseteq Paths

Walking(r) == /\ reader[r].pc \in {"scan", "entries", "file", "open", "read"}
              /\ reader[r].req.kind \in {"list", "search"}

\* The content of a file is settled once it was opened to be written.
Settled(f) == f \in Files \/ (f \in Calls /\ Opened(f))

\* What a reader at an await has found out before; what it noted of an entry or
\* of a file still holds when that has stayed.
ReadersAgree ==
    \A r \in Readers : reader[r] # Idle =>
       LET s == reader[r]
           kept == stayed[r]
       IN
       /\ s.pc \in {"scan", "entries"} => s.req.kind \in {"list", "search"}
       /\ s.pc = "file" => s.req.kind = "search"
       /\ s.pc \in {"open", "read"} => s.req.kind \in {"read", "search"}
       /\ s.pc = "scan" => s.queue # <<>>
       /\ s.pc \in {"resolve", "lstat", "scan"} => s.found = {}
       /\ s.pc = "entries" => s.found # {}
       /\ Reading(r) => ~s.truncated
       /\ s.pc \in {"open", "read"} /\ s.req.kind = "read" => s.at = s.req.path
       /\ s.pc = "read" => Settled(s.file)
       /\ s.got # <<>> => s.pc = "done" /\ Settled(s.file)
       /\ \A e \in s.found :
             e.path \in DOMAIN kept => e.isDirectory = (kept[e.path] = Dir)
       /\ s.pc \in {"open", "read"} /\ s.at \in DOMAIN kept /\ kept[s.at] # Dir =>
             LET size == Len(want[kept[s.at]])
             IN  s.size = IF s.req.kind = "read" THEN Smaller(s.req.limit, size) ELSE size
       /\ s.pc = "read" /\ s.at \in DOMAIN kept => s.file = kept[s.at]

\* What has stayed is there, and a file among it is whole.
StayedIsThere ==
    \A r \in Readers : \A p \in DOMAIN stayed[r] :
       LET f == stayed[r][p] IN
       /\ Reading(r) => At(tree, p) = f
       /\ f # Dir => Settled(f) /\ Whole(f)

\* What reader r has to find of what has stayed.
Wanted(r) ==
    LET q == reader[r].req
        there == {p \in DOMAIN stayed[r] : IsPrefix(q.path, p)}
        files == {p \in there : stayed[r][p] # Dir}
    IN  IF q.kind = "list"
        THEN {p \in there : Len(p) - Len(q.path) \in 1 .. q.depth}
        ELSE {p \in files : /\ Len(want[stayed[r][p]]) <= MaxFileSize
                            /\ Contains(want[stayed[r][p]], q.query)}

\* Path p is still to come: below a directory in the queue, among the entries or
\* below one of them, or the file at hand.
Waits(r, p) ==
    \/ \E n \in DOMAIN reader[r].queue : IsStrictPrefix(reader[r].queue[n], p)
    \/ \E e \in reader[r].found :
          e.path = p \/ (e.isDirectory /\ IsStrictPrefix(e.path, p))
    \/ reader[r].pc \in {"file", "open", "read"} /\ reader[r].at = p

\* A walk loses nothing of what stays.
WalksAreComplete ==
    \A r \in Readers : Walking(r) =>
       \A p \in Wanted(r) : p \in reader[r].entries \/ Waits(r, p)

\* The workspace stays a tree with the root a directory, every path has a
\* directory above it, no file is at two paths and no file holds more than it is
\* to have; no temporary file is left behind, and a walk goes on only with what
\* it has found and loses nothing of what stays.
Inv ==
    /\ ToolTypes /\ CallsAgree /\ ContentsAgree /\ PlacesAgree
    /\ ReadTypes /\ ReadersAgree /\ StayedIsThere /\ WalksAreComplete
    /\ NoTemporaryLeft

\* What did not change while a reader ran is in its answer: a list or a
\* search that does not say it was truncated names every path (every file
\* with the text, up to the size that is searched) that was there from its
\* beginning to its end, and a read returns the whole of such a file, up to
\* its limit, whatever the other calls moved, replaced or removed next to it.
WhatStaysIsFound ==
    \A r \in Readers :
       reader[r].pc = "done" /\ reader[r].out = "ok" /\ ~reader[r].truncated =>
       LET q == reader[r].req
           files == {p \in DOMAIN stayed[r] : stayed[r][p] # Dir}
       IN  /\ q.kind \in {"list", "search"} => Wanted(r) \subseteq reader[r].entries
           /\ q.kind = "read" /\ q.path \in files =>
                 LET all == want[stayed[r][q.path]]
                 IN  reader[r].got = SubSeq(all, 1, Smaller(q.limit, Len(all)))

\* A read returns the beginning of one version of the file and never a mixture
\* of two, also when the file is replaced between the lstat that gave its size
\* and the open.  When the new file is the shorter one, the zeros after its end
\* are returned with it, but none among the first MaxChecked bytes.
ReadIsOneVersion ==
    \A r \in Readers :
       reader[r].pc = "done" /\ reader[r].got # <<>> =>
          LET got == reader[r].got IN
          \E k \in 0 .. Len(got) :
             /\ IsPrefix(SubSeq(got, 1, k), want[reader[r].file])
             /\ \A n \in k + 1 .. Len(got) : got[n] = 0 /\ n > MaxChecked
=============================================================================
