SPECIFICATION Spec
CONSTANTS
    Dir = Dir
    Absent = Absent
    f1 = f1
    n1 = n1
    n2 = n2
    d1 = d1
    d2 = d2
    Calls = {c1, c2}
    Files = {f1}
    Names = {n1, n2, d1, d2}
    Readers = {r}
    InitialTree <- MCInitialTree
    Requests <- MCRequests
    ReadRequests <- MCReadRequests
    MaxFiles = 2
    MaxFileSize = 2
    MaxChecked = 1
    MaxBytes = 2
    MaxFailures = 0
SYMMETRY Symmetry
PROPERTIES
    NothingIsTakenUnasked
CHECK_DEADLOCK FALSE
