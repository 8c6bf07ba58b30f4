---------------------------- MODULE LocalCommands ----------------------------
(***************************************************************************)
(* OperatorJobManager: at most one fixed command, its child process, its   *)
(* timeout and its cancellation.                                           *)
(***************************************************************************)
EXTENDS Integers

CONSTANT MaxCommands    \* bound: commands started

VARIABLES
    job,        \* the newest _Job: status, process, stop_reason
    child,      \* the process: none, alive, signalled, or its exit code 0 or 1
    runner,     \* where _run is
    cancelling, \* a cancel() awaits _terminate and _run
    commands    \* commands started so far

commandVars == <<job, child, runner, cancelling, commands>>

NoJob == [status |-> "none", process |-> FALSE, reason |-> "none"]
Exited == {"succeeded", "failed"}

CommandsInit ==
    /\ job = NoJob /\ child = "none" /\ runner = "idle" /\ cancelling = FALSE /\ commands = 0

Busy == job.status = "running"

StartJob ==
    /\ ~Busy /\ commands < MaxCommands
    /\ job' = [NoJob EXCEPT !.status = "running"]
    /\ child' = "none" /\ runner' = "spawning" /\ commands' = commands + 1
    /\ UNCHANGED cancelling

Spawn ==
    /\ runner = "spawning"
    /\ \/ job' = [job EXCEPT !.process = TRUE] /\ child' = "alive" /\ runner' = "waiting"
       \/ job' = [job EXCEPT !.status = "failed"] /\ runner' = "idle" /\ UNCHANGED child
    /\ UNCHANGED <<cancelling, commands>>

ChildExits ==
    /\ child \in {"alive", "signalled"}
    /\ child' \in Exited
    /\ UNCHANGED <<job, runner, cancelling, commands>>

\* _terminate signals the process group, once or, after five seconds, for good.
Signalled == IF child = "alive" THEN "signalled" ELSE child

TimesOut ==
    /\ runner = "waiting" /\ child \notin Exited
    /\ job' = [job EXCEPT !.reason = "timed_out"]
    /\ child' = Signalled /\ runner' = "terminating"
    /\ UNCHANGED <<cancelling, commands>>

\* Mutant: the timeout signals the process group and waits for nothing.
ReapsAtOnce ==
    /\ runner \in {"waiting", "terminating"} /\ (child \in Exited \/ runner = "terminating")
    /\ runner' = "draining"
    /\ UNCHANGED <<job, child, cancelling, commands>>

\* The process is gone; what it wrote is still read.
Reaps ==
    /\ runner \in {"waiting", "terminating"} /\ child \in Exited
    /\ runner' = "draining"
    /\ UNCHANGED <<job, child, cancelling, commands>>

Settles ==
    /\ runner = "draining"
    /\ job' = [job EXCEPT !.status = IF job.reason # "none" THEN job.reason ELSE child]
    /\ runner' = "idle"
    /\ UNCHANGED <<child, cancelling, commands>>

\* cancel() of a command whose process does not exist yet returns and does nothing.
Cancel ==
    /\ Busy /\ job.process /\ ~cancelling
    /\ job' = [job EXCEPT !.reason = "cancelled"]
    /\ child' = Signalled /\ cancelling' = TRUE
    /\ UNCHANGED <<runner, commands>>

CancelReturns ==
    /\ cancelling /\ runner = "idle"
    /\ cancelling' = FALSE
    /\ UNCHANGED <<job, child, runner, commands>>

CommandsStep == Spawn \/ TimesOut \/ Reaps \/ Settles \/ CancelReturns
CommandsNext == CommandsStep \/ ChildExits \/ Cancel

\* A command that has ended, by itself, by its timeout or cancelled, has no process left
\* that could still write: _run waits for the group it signalled.
EndedCommandIsGone ==
    job.status \notin {"none", "running"} => child \in {"none"} \cup Exited
=============================================================================
