------------------------------- MODULE ShellExec -------------------------------
(***************************************************************************)
(* runProcess of the shell.exec tool (shell-exec.ts): one call that spawns *)
(* a child in a process group of its own, captures its output up to a      *)
(* budget, and terminates the group on a timeout, an abort or too much     *)
(* output.  This is the POSIX path.                                        *)
(*                                                                         *)
(* The operating system's side is external: processes fork, leave the      *)
(* group (setsid), close their end of the pipe, write and exit whenever    *)
(* they like.  Output is counted in units; stdout and stderr share one     *)
(* budget and are one pipe here.                                           *)
(***************************************************************************)
EXTENDS Integers, FiniteSets

CONSTANTS
    Leader,       \* the spawned child, the leader of its group
    Descendants,  \* processes the child's tree may fork
    Detachers,    \* the descendants that may leave the group
    MaxOutput,    \* maxOutputBytes, in units
    MaxWritten    \* bound: the units the processes write

ASSUME Parameters ==
    /\ Leader \notin Descendants /\ Detachers \subseteq Descendants
    /\ MaxOutput \in Nat \ {0} /\ MaxWritten \in Nat

VARIABLES
    live,         \* running processes of the child's tree
    born,         \* processes that were started
    group,        \* processes in the child's process group
    holders,      \* processes that inherited the pipe and have not closed it
    written,      \* units written to the pipe
    unread,       \* units written and not yet read by the runtime
    captured,     \* capturedBytes
    truncated,
    exitSeen,     \* child.exitCode or child.signalCode is set
    reason,       \* terminationReason
    termination,  \* terminationPromise: "none", "grace", "done"
    timer,        \* "unset", "armed", "fired", "cleared"
    aborted,      \* signal.aborted
    command,      \* "before", "running", "closing", "done"
    outcome       \* what the handler answers

processes == <<live, born, group, holders>>
output    == <<written, unread, captured, truncated>>
control   == <<exitSeen, reason, termination, timer, aborted, command, outcome>>
execVars  == <<processes, output, control>>

Processes == {Leader} \cup Descendants
Reasons   == {"none", "timeout", "output", "cancelled"}
Outcomes  == {"none", "ok", "TIMEOUT", "PROCESS_FAILED"}

ExecInit ==
    /\ live = {} /\ born = {} /\ group = {} /\ holders = {}
    /\ written = 0 /\ unread = 0 /\ captured = 0 /\ truncated = FALSE
    /\ exitSeen = FALSE /\ reason = "none" /\ termination = "none"
    /\ timer = "unset" /\ aborted = FALSE
    /\ command = "before" /\ outcome = "none"

-----------------------------------------------------------------------------
(* Runtime. *)

\* SIGTERM for the child's group: each member dies or handles the signal.
SignalGroup == \E dead \in SUBSET (live \cap group) : live' = live \ dead

\* requestTermination: the first reason is kept, and the tree is terminated
\* unless the child is known to have exited or a termination is under way.
RequestTermination(r) ==
    /\ reason' = IF reason = "none" THEN r ELSE reason
    /\ IF command = "running" /\ ~exitSeen /\ termination = "none"
       THEN termination' = "grace" /\ SignalGroup
       ELSE UNCHANGED <<termination, live>>

\* The call starts: an aborted signal and a spawn that throws are answered at
\* once; otherwise the child runs, or its spawn fails and an "error" is due.
Start ==
    /\ command = "before"
    /\ \/ /\ command' = "done" /\ outcome' = "PROCESS_FAILED"
          /\ UNCHANGED <<processes, timer>>
       \/ /\ ~aborted
          /\ \E started \in SUBSET {Leader} :
                /\ live' = started /\ born' = started
                /\ group' = started /\ holders' = started
          /\ command' = "running" /\ timer' = "armed"
          /\ UNCHANGED outcome
    /\ UNCHANGED <<output, exitSeen, reason, termination, aborted>>

\* The "error" event of a spawn that failed; it sets the exit code as well.
SpawnError ==
    /\ command = "running" /\ Leader \notin born
    /\ command' = "done" /\ outcome' = "PROCESS_FAILED"
    /\ timer' = "cleared" /\ exitSeen' = TRUE
    /\ UNCHANGED <<processes, output, reason, termination, aborted>>

\* The abort signal: before the spawn, or through the listener.
OnAbort ==
    /\ ~aborted /\ aborted' = TRUE
    /\ IF command \in {"running", "closing"}
       THEN RequestTermination("cancelled")
       ELSE UNCHANGED <<reason, termination, live>>
    /\ UNCHANGED <<born, group, holders, output, exitSeen, timer, command, outcome>>

TimerFires ==
    /\ timer = "armed" /\ timer' = "fired"
    /\ RequestTermination("timeout")
    /\ UNCHANGED <<born, group, holders, output, exitSeen, aborted, command,
                   outcome>>

\* appendOutput: after the first chunk that does not fit, chunks are dropped.
AppendOutput(n) ==
    \/ truncated /\ UNCHANGED <<captured, truncated, reason, termination, live>>
    \/ /\ ~truncated /\ n > MaxOutput - captured
       /\ captured' = MaxOutput /\ truncated' = TRUE
       /\ RequestTermination("output")
    \/ /\ ~truncated /\ n <= MaxOutput - captured
       /\ captured' = captured + n
       /\ UNCHANGED <<truncated, reason, termination, live>>

\* A "data" event with n units.
Read(n) ==
    /\ command = "running" /\ n <= unread /\ unread' = unread - n
    /\ AppendOutput(n)
    /\ UNCHANGED <<born, group, holders, written, exitSeen, timer, aborted,
                   command, outcome>>

\* Mutant: the grace period ends without the second signal.
GraceEndsWithoutKill ==
    /\ termination = "grace" /\ termination' = "done"
    /\ UNCHANGED <<processes, output, exitSeen, reason, timer, aborted, command,
                   outcome>>

\* terminatePosixProcessTree after its grace period: SIGKILL for the group.
GraceEnds ==
    /\ termination = "grace" /\ termination' = "done"
    /\ live' = live \ group
    /\ UNCHANGED <<born, group, holders, output, exitSeen, reason, timer,
                   aborted, command, outcome>>

\* The runtime learns that the child exited.
SeeExit ==
    /\ command = "running" /\ Leader \in born \ live /\ ~exitSeen
    /\ exitSeen' = TRUE
    /\ UNCHANGED <<processes, output, reason, termination, timer, aborted,
                   command, outcome>>

\* The handler's answer for a result.
Answer ==
    outcome' = CASE reason = "timeout" -> "TIMEOUT"
                 [] reason = "cancelled" -> "PROCESS_FAILED"
                 [] OTHER -> "ok"

\* Mutant: the result is taken at the child's exit, not at the pipe's end.
PipeEndedOrExit == exitSeen

\* Every holder of the pipe's write end is gone and everything was read.
PipeEnded == live \cap holders = {} /\ unread = 0

\* Mutant: the close handler does not await the termination.
CloseAtOnce ==
    /\ command = "running" /\ exitSeen /\ PipeEnded
    /\ command' = "done" /\ timer' = "cleared" /\ Answer
    /\ UNCHANGED <<processes, output, exitSeen, reason, termination, aborted>>

\* The "close" event: the call is settled unless a termination is under way.
CloseEvent ==
    /\ command = "running" /\ exitSeen /\ PipeEnded
    /\ IF termination = "grace"
       THEN command' = "closing" /\ UNCHANGED <<timer, outcome>>
       ELSE command' = "done" /\ timer' = "cleared" /\ Answer
    /\ UNCHANGED <<processes, output, exitSeen, reason, termination, aborted>>

\* The close handler goes on after the termination.
Settle ==
    /\ command = "closing" /\ termination = "done"
    /\ command' = "done" /\ timer' = "cleared" /\ Answer
    /\ UNCHANGED <<processes, output, exitSeen, reason, termination, aborted>>

-----------------------------------------------------------------------------
(* The processes. *)

Fork(p, d) ==
    /\ p \in live /\ d \notin born
    /\ born' = born \cup {d} /\ live' = live \cup {d}
    /\ group' = IF p \in group THEN group \cup {d} ELSE group
    /\ holders' = IF p \in holders THEN holders \cup {d} ELSE holders
    /\ UNCHANGED <<output, control>>

LeaveGroup(d) ==
    /\ d \in live \cap group /\ group' = group \ {d}
    /\ UNCHANGED <<live, born, holders, output, control>>

ClosePipe(p) ==
    /\ p \in live \cap holders /\ holders' = holders \ {p}
    /\ UNCHANGED <<live, born, group, output, control>>

ProcessWrites(p, n) ==
    /\ p \in live \cap holders /\ written + n <= MaxWritten
    /\ written' = written + n /\ unread' = unread + n
    /\ UNCHANGED <<processes, captured, truncated, control>>

ProcessExits(p) ==
    /\ p \in live /\ live' = live \ {p}
    /\ UNCHANGED <<born, group, holders, output, control>>

-----------------------------------------------------------------------------
RuntimeNext ==
    \/ Start \/ SpawnError \/ TimerFires \/ GraceEnds \/ SeeExit
    \/ CloseEvent \/ Settle
    \/ \E n \in 1..MaxWritten : Read(n)

ProcessNext ==
    \/ \E p \in Processes, d \in Descendants : Fork(p, d)
    \/ \E d \in Detachers : LeaveGroup(d)
    \/ \E p \in Processes : ClosePipe(p) \/ ProcessExits(p)
    \/ \E p \in Processes, n \in 1..MaxWritten : ProcessWrites(p, n)

ExecNext == RuntimeNext \/ OnAbort \/ ProcessNext

ExecSpec == ExecInit /\ [][ExecNext]_execVars

\* The event loop runs what is due; processes promise nothing.
ExecFairSpec == ExecSpec /\ WF_execVars(RuntimeNext)

-----------------------------------------------------------------------------
\* Types of the variables; the captured output stays within maxOutputBytes.
TypeOK ==
    /\ live \subseteq born /\ born \subseteq Processes
    /\ group \subseteq born /\ holders \subseteq born
    /\ written \in Nat /\ unread \in 0..written
    /\ captured \in 0..MaxOutput /\ truncated \in BOOLEAN
    /\ exitSeen \in BOOLEAN /\ reason \in Reasons
    /\ termination \in {"none", "grace", "done"}
    /\ timer \in {"unset", "armed", "fired", "cleared"}
    /\ aborted \in BOOLEAN
    /\ command \in {"before", "running", "closing", "done"}
    /\ outcome \in Outcomes

\* What IInv needs of the output: what was read is captured up to the budget.
CaptureIsExact ==
    LET seen == written - unread
    IN IF seen > MaxOutput THEN captured = MaxOutput /\ truncated
                           ELSE captured = seen /\ ~truncated

\* What IInv needs of the termination and of an answer.
KilledIsDead == termination = "done" => live \cap group = {}

UnspawnedIsEmpty == Leader \notin born => born = {} /\ written = 0

NothingBefore ==
    command = "before" => Leader \notin born /\ termination = "none"

AnsweredAtEnd ==
    /\ command = "done" /\ termination = "grace" => Leader \notin born
    /\ command = "closing" => PipeEnded
    /\ outcome = "ok" => PipeEnded /\ command = "done"

\* What every event of runProcess keeps.
IInv == /\ TypeOK /\ CaptureIsExact /\ KilledIsDead /\ UnspawnedIsEmpty
        /\ NothingBefore /\ AnsweredAtEnd

\* runProcess resolves at "close", not at "exit": a successful answer holds all
\* that the child and its descendants wrote, or the first maxOutputBytes of it,
\* and is marked truncated exactly when something was dropped, whatever the
\* sizes of the chunks and whoever held the pipe last.
OutputIsExact ==
    outcome = "ok" =>
        IF written > MaxOutput THEN captured = MaxOutput /\ truncated
                               ELSE captured = written /\ ~truncated

\* The close handler awaits terminationPromise: when a call that terminated its
\* process tree has answered, no process of the child's group is running, also
\* one that ignores SIGTERM, closed the pipe and outlived the child.
NoSurvivors ==
    command = "done" /\ termination # "none" => live \cap group = {}

\* SIGTERM, the grace period and SIGKILL: a call that started a termination
\* answers, unless a process that left the group keeps the pipe open.
TerminationReturns ==
    termination = "grace" ~>
        (command = "done" \/ (live \cap holders) \ group # {})

\* docs/tools/shell-exec.md:66 promises an error TIMEOUT and a terminated process
\* tree: a call whose timeout fired answers.  The code does not keep it: a timeout
\* that fires after the child has exited terminates nothing, and the call waits
\* for whoever still holds the pipe.
TimeoutReturns == timer = "fired" ~> command = "done"
=============================================================================
