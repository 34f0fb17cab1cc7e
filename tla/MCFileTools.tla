---------------------------- MODULE MCFileTools ----------------------------
(***************************************************************************)
(* A workspace with a file in a directory and an empty directory, two      *)
(* calls that change it and one that reads it.                             *)
(***************************************************************************)
EXTENDS FileReads, TLC

CONSTANTS f1, n1, n2, d1, d2

MCInitialTree ==
    <<>> :> Dir @@ <<d1>> :> Dir @@ <<d1, n1>> :> f1 @@ <<d2>> :> Dir

Old == <<d1, n1>>
New == <<d2, n2>>

Write(p, overwrite, parents) ==
    [kind |-> "write", path |-> p, overwrite |-> overwrite, parents |-> parents]
Patch(p) == [kind |-> "patch", path |-> p]
MakeDir(p, recursive) ==
    [kind |-> "mkdir", path |-> p, recursive |-> recursive]
MoveTo(p, q, overwrite) ==
    [kind |-> "move", path |-> p, to |-> q, overwrite |-> overwrite]
Delete(p, recursive) ==
    [kind |-> "delete", path |-> p, recursive |-> recursive]

MCRequests ==
    {Write(Old, TRUE, FALSE), Write(New, FALSE, TRUE),
     Patch(Old), MakeDir(New, FALSE),
     MoveTo(Old, New, FALSE), MoveTo(New, Old, TRUE), MoveTo(<<d1>>, <<d2>>, TRUE),
     Delete(<<d1>>, TRUE), Delete(<<d2>>, FALSE), Delete(Old, FALSE)}

MCReadRequests ==
    {[kind |-> "read", path |-> Old, limit |-> 2],
     [kind |-> "stat", path |-> Old],
     [kind |-> "list", path |-> <<>>, depth |-> 2, limit |-> 5],
     [kind |-> "search", path |-> <<>>, query |-> f1, limit |-> 2],
     [kind |-> "search", path |-> Old, query |-> f1, limit |-> 1]}

Symmetry == Permutations(Calls)
=============================================================================
