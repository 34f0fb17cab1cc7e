--------------------------- MODULE WorkspaceTree ---------------------------
(***************************************************************************)
(* The part of a file system that the file tools of the agent see: a       *)
(* workspace is a function from the paths that exist to what is there.  A  *)
(* path is the sequence of the names below the workspace root, which is    *)
(* the empty sequence; what is there is Dir or the identity of a file.     *)
(*                                                                         *)
(* The operators say when the calls of node:fs succeed and what the tree   *)
(* is then.  A call that does not succeed changes nothing.                 *)
(***************************************************************************)
EXTENDS Sequences, SequencesExt

CONSTANTS Dir, Absent

\* lstat, without the detail: what is at a path.
At(tree, path) == IF path \in DOMAIN tree THEN tree[path] ELSE Absent

IsFile(tree, path) == At(tree, path) \notin {Dir, Absent}

Below(tree, path) == {p \in DOMAIN tree : IsStrictPrefix(path, p)}

\* A tree of the paths given: the root is a directory, everything else is in
\* one, and no file is at two paths.
IsWorkspace(tree, paths, files) ==
    /\ tree \in [DOMAIN tree -> {Dir} \cup files]
    /\ DOMAIN tree \subseteq paths
    /\ At(tree, <<>>) = Dir
    /\ \A p \in DOMAIN tree : \A n \in 0 .. Len(p) - 1 : At(tree, SubSeq(p, 1, n)) = Dir
    /\ \A p, q \in DOMAIN tree : tree[p] = tree[q] /\ p # q => tree[p] = Dir

Children(tree, path) == {p \in Below(tree, path) : Len(p) = Len(path) + 1}

\* open with the flag "wx": the parent is a directory and nothing is there.
CanCreate(tree, path) ==
    /\ At(tree, Front(path)) = Dir
    /\ At(tree, path) = Absent

With(tree, path, what) ==
    [p \in DOMAIN tree \cup {path} |-> IF p = path THEN what ELSE tree[p]]

\* mkdir with recursive: every prefix that exists is a directory.
CanMakeAll(tree, path) ==
    \A n \in 0 .. Len(path) : At(tree, SubSeq(path, 1, n)) \in {Dir, Absent}

WithAll(tree, path) ==
    [p \in DOMAIN tree \cup {SubSeq(path, 1, n) : n \in 0 .. Len(path)} |->
        IF p \in DOMAIN tree THEN tree[p] ELSE Dir]

\* rmdir takes an empty directory, and rm without recursive takes a file.
CanRemoveDirectory(tree, path) ==
    At(tree, path) = Dir /\ Below(tree, path) = {}

Without(tree, path) == [p \in DOMAIN tree \ {path} |-> tree[p]]

\* rename: a file takes the place of nothing or of a file, a directory the
\* place of nothing or of an empty directory, and never of a part of itself.
CanRename(tree, from, to) ==
    /\ At(tree, from) # Absent
    /\ At(tree, Front(to)) = Dir
    /\ \/ to = from
       \/ /\ ~IsPrefix(from, to)
          /\ \/ At(tree, to) = Absent
             \/ IsFile(tree, from) /\ IsFile(tree, to)
             \/ At(tree, from) = Dir /\ CanRemoveDirectory(tree, to)

Renamed(tree, from, to) ==
    LET Moved(p) == to \o SubSeq(p, Len(from) + 1, Len(p))
        carried == {p \in DOMAIN tree : IsPrefix(from, p)}
        kept    == (DOMAIN tree \ carried) \ {to}
    IN  [q \in kept \cup {Moved(p) : p \in carried} |->
            IF q \in kept THEN tree[q]
            ELSE tree[from \o SubSeq(q, Len(to) + 1, Len(q))]]
=============================================================================
