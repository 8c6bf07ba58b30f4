---------------------------- MODULE RuntimeReset ----------------------------
(***************************************************************************)
(* WipeService of the local operator over RuntimeGate and LocalCommands:   *)
(* preview, start, the reset itself, recovery, the audit file, shutdown    *)
(* and crashes.  An action is the code between two awaits; the docker      *)
(* command it awaits takes effect in it, or it fails, and what a failed or *)
(* abandoned command did is open.                                          *)
(***************************************************************************)
EXTENDS RuntimeGate, LocalCommands

CONSTANTS
    MaxFaults,  \* bound: failing commands, reloads, crashes and shutdowns
    MaxResets   \* bound: resets started

Lease == [n : Nat, for : Nat]

ASSUME ResetAssumption ==
    /\ {MaxInstance, MaxRows, MaxCommands, MaxFaults, MaxResets} \subseteq Nat
    /\ None \notin Lease

VARIABLES
    op,         \* the operator process: up, closing or down
    mem,        \* _preview, _lease, _lease_instance, _stopped_app and the status of _result
    flock,      \* this process holds the operation lock
    call,       \* the request that holds self.lock, and its inspection so far
    task,       \* _execute: where it is, its inspection so far, its target
    audit,      \* the audit file
    faults, resets

operator == <<op, mem, flock, call, task, audit>>
vars == <<gateVars, commandVars, operator, faults, resets>>

NoCall == [kind |-> "none", step |-> 0, rows |-> 0]
NoTask == [at |-> "idle", step |-> 0, rows |-> 0, target |-> None]
Blank == [preview |-> None, lease |-> None, instance |-> None, stopped |-> FALSE, status |-> "idle"]
Recorded(m) == [status |-> m.status, lease |-> m.lease, instance |-> m.instance]

\* A lease is a fresh UUID.  Its second part is no datum of the code: the worker the
\* confirmed preview saw, for which the lease is meant.
NewLease == [n |-> resets, for |-> task.target.instance]

Init ==
    /\ GateInit /\ CommandsInit
    /\ op = "up" /\ mem = Blank /\ flock = FALSE /\ call = NoCall /\ task = NoTask
    /\ audit = Recorded(Blank) /\ faults = 0 /\ resets = 0

Fault == faults < MaxFaults /\ faults' = faults + 1
NoFault == UNCHANGED faults

-----------------------------------------------------------------------------
(* inspect(): the rows are counted first, the job table is read next and the gate last. *)

GateAllows ==
    IF app.running
    THEN /\ app.active = 0
         /\ app.lease # None => mem.lease # None
         /\ mem.lease # None => app.lease # None /\ app.instance = mem.instance
    ELSE mem.stopped

Passes(step) ==
    /\ data.up
    /\ step = 0 => ~Busy
    /\ step = 1 => ~data.working
    /\ step = 2 => GateAllows

Looked(x) == [x EXCEPT !.step = @ + 1, !.rows = IF x.step = 0 THEN data.rows ELSE @]
Target(x) == [rows |-> x.rows, instance |-> IF app.running THEN app.instance ELSE mem.instance]

-----------------------------------------------------------------------------
(* The requests of the operator's routes; each holds self.lock from here to its answer. *)

Free == op = "up" /\ call.kind = "none"
Answer == call' = NoCall

BeginPreview ==
    /\ Free /\ task.at = "idle" /\ mem.lease = None
    /\ call' = [NoCall EXCEPT !.kind = "preview"]
    /\ UNCHANGED <<gateVars, commandVars, op, mem, flock, task, audit, faults, resets>>

\* The token is the issued one and has not expired; expiry is a request nobody answers.
BeginStart ==
    /\ Free /\ mem.preview # None /\ ~flock /\ resets < MaxResets
    /\ flock' = TRUE
    /\ call' = [NoCall EXCEPT !.kind = "start"]
    /\ UNCHANGED <<gateVars, commandVars, op, mem, task, audit, faults, resets>>

BeginRecover ==
    /\ Free /\ task.at = "idle" /\ mem.lease # None /\ ~flock
    /\ flock' = TRUE
    /\ call' = [NoCall EXCEPT !.kind = "recover"]
    /\ UNCHANGED <<gateVars, commandVars, op, mem, task, audit, faults, resets>>

\* Mutant: a command is started without the lock of the reset.
CommandUnlocked ==
    /\ op = "up" /\ mem.status # "running" /\ StartJob
    /\ UNCHANGED <<gateVars, operator, faults, resets>>

StartCommand ==
    /\ Free /\ mem.status # "running" /\ StartJob
    /\ UNCHANGED <<gateVars, operator, faults, resets>>

Inspecting == call.kind \in {"preview", "start"}

CallLooks ==
    /\ Inspecting /\ call.step < 2 /\ Passes(call.step)
    /\ call' = Looked(call)
    /\ UNCHANGED <<gateVars, commandVars, op, mem, flock, task, audit, faults, resets>>

\* A refused or failing inspection; the token stays valid.
CallFails ==
    /\ Inspecting
    /\ \/ ~Passes(call.step) /\ NoFault
       \/ Fault
    /\ flock' = FALSE /\ Answer
    /\ UNCHANGED <<gateVars, commandVars, op, mem, task, audit, resets>>

PreviewIssued ==
    /\ call.kind = "preview" /\ call.step = 2 /\ Passes(2)
    /\ mem' = [mem EXCEPT !.preview = Target(call)]
    /\ Answer
    /\ UNCHANGED <<gateVars, commandVars, op, flock, task, audit, faults, resets>>

\* Mutant: a changed target leaves without the operation lock.
KeepsTheLock ==
    /\ call.kind = "start" /\ call.step = 2 /\ Passes(2) /\ Target(call) # mem.preview
    /\ mem' = [mem EXCEPT !.preview = None]
    /\ Answer
    /\ UNCHANGED <<gateVars, commandVars, op, flock, task, audit, faults, resets>>

StartRefused ==
    /\ call.kind = "start" /\ call.step = 2 /\ Passes(2) /\ Target(call) # mem.preview
    /\ mem' = [mem EXCEPT !.preview = None]
    /\ flock' = FALSE /\ Answer
    /\ UNCHANGED <<gateVars, commandVars, op, task, audit, faults, resets>>

Started ==
    /\ call.kind = "start" /\ call.step = 2 /\ Passes(2) /\ Target(call) = mem.preview
    /\ Answer
    /\ LET m == [mem EXCEPT !.preview = None, !.status = "running"] IN
       \/ /\ mem' = m /\ audit' = Recorded(m) /\ NoFault
          /\ task' = [NoTask EXCEPT !.at = "preparing", !.target = Target(call)]
          /\ resets' = resets + 1
          /\ UNCHANGED flock
       \/ /\ Fault      \* the audit cannot be written
          /\ mem' = [m EXCEPT !.status = "failed"] /\ flock' = FALSE
          /\ UNCHANGED <<audit, task, resets>>
    /\ UNCHANGED <<gateVars, commandVars, op>>

Forgotten(m) == [m EXCEPT !.lease = None, !.instance = None]

\* Mutant: recovery forgets without asking the gate.
RecoverTrustsNobody ==
    /\ call.kind = "recover" /\ call.step = 0
    /\ call' = [call EXCEPT !.step = 2]
    /\ UNCHANGED <<gateVars, commandVars, op, mem, flock, task, audit, faults, resets>>

\* recover() asks the gate who it is; another worker, or none, holds nothing of ours.
RecoverLooks ==
    /\ call.kind = "recover" /\ call.step = 0
    /\ call' = [call EXCEPT !.step = IF app.running /\ app.instance = mem.instance THEN 1 ELSE 2]
    /\ UNCHANGED <<gateVars, commandVars, op, mem, flock, task, audit, faults, resets>>

RecoverReleases ==
    /\ call.kind = "recover" /\ call.step = 1 /\ Releases(mem.lease)
    /\ app' = [app EXCEPT !.lease = None]
    /\ call' = [call EXCEPT !.step = 2]
    /\ UNCHANGED <<requests, data, commandVars, op, mem, flock, task, audit, faults, resets>>

RecoverForgets ==
    /\ call.kind = "recover" /\ call.step = 2
    /\ mem' = Forgotten(mem) /\ audit' = Recorded(Forgotten(mem))
    /\ flock' = FALSE /\ Answer
    /\ UNCHANGED <<gateVars, commandVars, op, task, faults, resets>>

RecoverFails ==
    /\ call.kind = "recover" /\ call.step < 2
    /\ \/ call.step = 1 /\ ~Releases(mem.lease) /\ NoFault
       \/ Fault
    /\ flock' = FALSE /\ Answer
    /\ UNCHANGED <<gateVars, commandVars, op, mem, task, audit, resets>>

Calls == \/ CallLooks \/ CallFails \/ PreviewIssued \/ StartRefused \/ Started
         \/ RecoverLooks \/ RecoverReleases \/ RecoverForgets \/ RecoverFails

-----------------------------------------------------------------------------
(* _execute.  Ends is its finally clause once no hold is left to release. *)

At(step) == task.at = step
Goes(next) == task' = [task EXCEPT !.at = next, !.step = 0, !.rows = 0]

Ends(m) ==
    LET n == [m EXCEPT !.stopped = FALSE, !.instance = IF m.lease = None THEN None ELSE @]
    IN /\ mem' = n /\ audit' = Recorded(m) /\ flock' = FALSE /\ task' = NoTask

Unwinds(m) ==
    IF m.lease = None
    THEN Ends(m)
    ELSE mem' = m /\ Goes("releasing") /\ UNCHANGED <<flock, audit>>

Fails == Unwinds([mem EXCEPT !.status = "failed"])

\* Mutant: the lease is recorded with the next stage only.
RecordsLate ==
    /\ At("preparing")
    /\ mem' = [mem EXCEPT !.lease = NewLease, !.instance = task.target.instance]
    /\ Goes("holding")
    /\ UNCHANGED <<gateVars, commandVars, op, flock, call, audit, faults, resets>>

\* The import check passed: the lease is recorded before the gate is asked.
Prepares ==
    /\ At("preparing")
    /\ LET m == [mem EXCEPT !.lease = NewLease, !.instance = task.target.instance] IN
       mem' = m /\ audit' = Recorded(m)
    /\ Goes("holding")
    /\ UNCHANGED <<gateVars, commandVars, op, flock, call, faults, resets>>

\* The worker that answers may not be the one that was confirmed.
Holds ==
    /\ At("holding")
    /\ IF Grants(mem.lease)
       THEN /\ app' = [app EXCEPT !.lease = mem.lease]
            /\ IF app.instance = task.target.instance
               THEN Goes("confirming") /\ UNCHANGED <<mem, flock, audit>>
               ELSE Fails
       ELSE Fails /\ UNCHANGED app
    /\ UNCHANGED <<requests, data, commandVars, op, call, faults, resets>>

TaskLooks ==
    /\ task.at \in {"confirming", "checking", "recreated", "finishing"}
    /\ task.step < 2 /\ Passes(task.step)
    /\ task' = Looked(task)
    /\ UNCHANGED <<gateVars, commandVars, op, mem, flock, call, audit, faults, resets>>

\* Mutant: the inspections under the hold and after the stop are not compared.
TrustsThePreview == At("finishing") => task.rows = 0

\* What the third reading of an inspection decides, by the place it is made in.
Verdict ==
    /\ At("confirming") \/ At("checking") => Target(task) = task.target
    /\ At("finishing") => task.rows = 0

Successor == [confirming |-> "stopping", checking |-> "removing", recreated |-> "restarting"]

TaskDecides ==
    /\ task.at \in {"confirming", "checking", "recreated", "finishing"}
    /\ task.step = 2 /\ Passes(2) /\ Verdict
    /\ IF At("finishing")
       THEN Ends([mem EXCEPT !.status = "succeeded"])
       ELSE Goes(Successor[task.at]) /\ audit' = Recorded(mem) /\ UNCHANGED <<mem, flock>>
    /\ UNCHANGED <<gateVars, commandVars, op, call, faults, resets>>

TaskRefuses ==
    /\ task.at \in {"confirming", "checking", "recreated", "finishing"}
    /\ \/ ~Passes(task.step)
       \/ task.step = 2 /\ ~Verdict
    /\ Fails
    /\ UNCHANGED <<gateVars, commandVars, op, call, faults, resets>>

Stops ==
    /\ At("stopping")
    /\ app' = Stopped(app) /\ requests' = Quiet
    /\ mem' = [mem EXCEPT !.lease = None, !.stopped = TRUE]
    /\ Goes("checking")
    /\ UNCHANGED <<data, commandVars, op, flock, call, audit, faults, resets>>

Removes ==
    /\ At("removing")
    /\ data' = [data EXCEPT !.up = FALSE, !.rows = 0, !.working = FALSE]
    /\ Goes("clearing")
    /\ UNCHANGED <<app, requests, commandVars, op, mem, flock, call, audit, faults, resets>>

\* The files go one by one, then the empty database is started.
Clears ==
    /\ At("clearing")
    /\ data' = [data EXCEPT !.up = TRUE]
    /\ Goes("recreated")
    /\ UNCHANGED <<app, requests, commandVars, op, mem, flock, call, audit, faults, resets>>

Restarts ==
    /\ At("restarting")
    /\ app' = Fresh(app)
    /\ mem' = [mem EXCEPT !.stopped = FALSE, !.instance = None]
    /\ Goes("finishing")
    /\ UNCHANGED <<requests, data, commandVars, op, flock, call, audit, faults, resets>>

\* The release at the end of a failed reset; when it fails the lease is kept and recorded.
GivesBack ==
    /\ At("releasing")
    /\ IF Releases(mem.lease)
       THEN app' = [app EXCEPT !.lease = None] /\ Ends(Forgotten(mem))
       ELSE Ends(mem) /\ UNCHANGED app
    /\ UNCHANGED <<requests, data, commandVars, op, call, faults, resets>>

\* What a command that failed, or was abandoned, may have done by the time it was given up.
Partial ==
    \/ UNCHANGED gateVars
    \/ /\ At("holding") /\ Grants(mem.lease)
       /\ app' = [app EXCEPT !.lease = mem.lease] /\ UNCHANGED <<requests, data>>
    \/ /\ At("stopping")
       /\ app' = Stopped(app) /\ requests' = Quiet /\ UNCHANGED data
    \/ /\ At("removing")
       /\ data' \in {[data EXCEPT !.up = FALSE],
                      [data EXCEPT !.up = FALSE, !.rows = 0, !.working = FALSE]}
       /\ UNCHANGED <<app, requests>>
    \/ /\ At("clearing")
       /\ data' = [data EXCEPT !.up = TRUE] /\ UNCHANGED <<app, requests>>
    \/ /\ At("restarting")
       /\ app' = Fresh(app) /\ UNCHANGED <<requests, data>>
    \/ /\ At("releasing") /\ Releases(mem.lease)
       /\ app' = [app EXCEPT !.lease = None] /\ UNCHANGED <<requests, data>>

CommandFails ==
    /\ task.at # "idle" /\ Fault /\ Partial
    /\ IF At("releasing") THEN Ends(mem) ELSE Fails
    /\ UNCHANGED <<commandVars, op, call, resets>>

TaskStep == \/ Prepares \/ Holds \/ TaskLooks \/ TaskDecides \/ TaskRefuses \/ Stops \/ Removes
            \/ Clears \/ Restarts \/ GivesBack

-----------------------------------------------------------------------------
(* Shutdown, crash and restart of the operator, and the operator's user. *)

\* The lifespan ends between requests.  close() cancels the task, which still releases
\* its hold; a cancellation during that release escapes and close() records it.
Close ==
    /\ Free /\ Fault
    /\ op' = "closing"
    /\ IF task.at = "idle"
       THEN UNCHANGED <<gateVars, mem, flock, task, audit>>
       ELSE /\ Partial
            /\ LET m == [mem EXCEPT !.status = "interrupted"] IN
               IF At("releasing")
               THEN mem' = m /\ audit' = Recorded(m) /\ flock' = FALSE /\ task' = NoTask
               ELSE Unwinds(m)
    /\ UNCHANGED <<commandVars, call, resets>>

\* The manager's close() comes second and does not see a process that is being created.
CloseCommands ==
    /\ op = "closing" /\ task.at = "idle" /\ Cancel
    /\ UNCHANGED <<gateVars, operator, faults, resets>>

Gone == /\ op' = "down" /\ mem' = Blank /\ flock' = FALSE /\ call' = NoCall /\ task' = NoTask
        /\ job' = NoJob /\ child' = "none" /\ runner' = "idle" /\ cancelling' = FALSE
        /\ UNCHANGED <<audit, commands, resets>>

Exits ==
    /\ op = "closing" /\ task.at = "idle" /\ ~cancelling /\ ~(Busy /\ job.process)
    /\ Gone /\ NoFault /\ UNCHANGED gateVars

\* What a dying operator was waiting for may or may not have happened.
Crash ==
    /\ op # "down" /\ Fault /\ Gone /\ Partial

\* __init__ restores the hold and reports a running reset as interrupted.
Restart ==
    /\ op = "down"
    /\ op' = "up"
    /\ mem' = [Blank EXCEPT !.lease = audit.lease,
                            !.instance = IF audit.lease = None THEN None ELSE audit.instance,
                            !.status = IF audit.status = "running" THEN "interrupted"
                                       ELSE audit.status]
    /\ UNCHANGED <<gateVars, commandVars, flock, call, task, audit, faults, resets>>

ReloadWorker ==
    /\ Fault /\ Reload
    /\ UNCHANGED <<commandVars, operator, resets>>

\* The user restores stopped services; nobody does while a reset runs.
RestoreServices ==
    /\ task.at = "idle" /\ (~app.running \/ ~data.up) /\ app.instance < MaxInstance
    /\ app' = IF app.running THEN app ELSE Fresh(app)
    /\ data' = [data EXCEPT !.up = TRUE]
    /\ UNCHANGED <<requests, commandVars, operator, faults, resets>>

Application == GateNext /\ UNCHANGED <<commandVars, operator, faults, resets>>
Commands == CommandsNext /\ op # "down" /\ UNCHANGED <<gateVars, operator, faults, resets>>

Next ==
    \/ BeginPreview \/ BeginStart \/ BeginRecover \/ StartCommand \/ Calls
    \/ TaskStep \/ CommandFails
    \/ Close \/ CloseCommands \/ Exits \/ Crash \/ Restart
    \/ ReloadWorker \/ RestoreServices \/ Application \/ Commands

Spec == Init /\ [][Next]_vars

\* Both processes get their turns, a started child that was signalled dies, and the user
\* of an operator that is down or keeps a hold starts it again and asks for recovery.
Fairness ==
    /\ WF_vars(Calls) /\ WF_vars(TaskStep)
    /\ WF_vars(CommandsStep /\ Commands) /\ WF_vars(child = "signalled" /\ Commands)
    /\ WF_vars(CloseCommands) /\ WF_vars(Exits)
    /\ WF_vars(Restart) /\ WF_vars(BeginRecover)

FairSpec == Spec /\ Fairness

-----------------------------------------------------------------------------
(* Properties. *)

App == [running : BOOLEAN, instance : Nat, lease : Lease \cup {None}, active : Int]
Data == [up : BOOLEAN, rows : Nat, working : BOOLEAN]
Command == [status : {"none", "running", "timed_out", "cancelled"} \cup Exited, process : BOOLEAN,
            reason : {"none", "timed_out", "cancelled"}]
Seen == [rows : Nat, instance : Nat \cup {None}]
Status == {"idle", "running", "succeeded", "failed", "interrupted"}
Memory == [preview : Seen \cup {None}, lease : Lease \cup {None}, instance : Nat \cup {None},
           stopped : BOOLEAN, status : Status]
Audit == [status : Status, lease : Lease \cup {None}, instance : Nat \cup {None}]
Call == [kind : {"none", "preview", "start", "recover"}, step : 0 .. 2, rows : Nat]
Stage == {"idle", "preparing", "holding", "confirming", "stopping", "checking", "removing",
          "clearing", "recreated", "restarting", "finishing", "releasing"}
Task == [at : Stage, step : 0 .. 2, rows : Nat, target : Seen \cup {None}]

\* Every variable has its type.
TypeOK ==
    /\ app \in App /\ requests \in [Request -> {"none", "handled", "streamed"}] /\ data \in Data
    /\ job \in Command /\ child \in {"none", "alive", "signalled"} \cup Exited
    /\ runner \in {"idle", "spawning", "waiting", "terminating", "draining"}
    /\ cancelling \in BOOLEAN /\ commands \in Nat
    /\ op \in {"up", "closing", "down"} /\ mem \in Memory /\ flock \in BOOLEAN
    /\ call \in Call /\ task \in Task /\ audit \in Audit
    /\ faults \in Nat /\ resets \in Nat

\* The volume goes only while the application is stopped, no request and no job is under
\* way, and exactly the rows of the confirmed preview are in it: the hold, the stop and the
\* inspections after each of them leave no worker, old or reloaded, that wrote unnoticed.
OnlyConfirmedIsDeleted ==
    [][At("removing") /\ data'.rows # data.rows =>
          /\ ~app.running /\ requests = Quiet /\ ~data.working
          /\ data.rows = task.target.rows]_vars

\* The reset stops the worker it confirmed only when that serves nothing: a response is
\* never cut, not even one whose headers are long out and whose stream still runs.
StopCutsNoRequest ==
    [][At("stopping") /\ app.running /\ ~app'.running /\ app.instance = task.target.instance
          => requests = Quiet]_vars

\* The gate of the confirmed worker is never held by a lease that the audit does not
\* record with that worker, so an operator that dies at any point can be restarted and
\* will find what it has to release.
ConfirmedHoldIsRecorded ==
    app.lease # None /\ app.lease.for = app.instance =>
        audit.lease = app.lease /\ audit.instance = app.instance

\* A reset never runs beside a command of the same operator: a command cannot slip in
\* between the inspection that found none and the first deletion.
CommandsExcludeReset == task.at \notin {"idle", "releasing"} => ~Busy

\* The operation lock is held for the work that took it, and no way out of a request or a
\* reset keeps it: a later reset or recovery would be refused for ever.
LockIsHeldForWork ==
    flock <=> call.kind \in {"start", "recover"} \/ task.at # "idle"

\* A hold on the confirmed worker ends, whatever failed or died: admission reopens.
AdmissionReopens ==
    (app.lease # None /\ app.lease.for = app.instance) ~> app.lease = None

\* The same of every worker: also of one that was reloaded between the inspection and the
\* hold, and took the lease in the place of the confirmed one.
EveryHoldEnds == app.lease # None ~> app.lease = None
=============================================================================
