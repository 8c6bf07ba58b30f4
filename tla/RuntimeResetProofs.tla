------------------------ MODULE RuntimeResetProofs --------------------------
(***************************************************************************)
(* Theorems about RuntimeReset, for every set of requests and any number   *)
(* of rows, commands, reloads, faults and resets: the types, the exclusion *)
(* of commands and resets, the lock, the recorded hold, and what the       *)
(* removal of the volume and the stop of the worker may rely on.  IInv     *)
(* joins what no single property carries: the count of the gate, who holds *)
(* the lease, and what each stage of a reset has established.              *)
(***************************************************************************)
EXTENDS RuntimeReset, FiniteSetTheorems, TLAPS

Active(q) == {r \in Request : q[r] # "none"}

\* active_requests counts the requests of the running worker; a stopped one has none.
GateInv ==
    /\ IsFiniteSet(Active(requests)) /\ app.active = Cardinality(Active(requests))
    /\ ~app.running => requests = Quiet /\ app.lease = None

\* A request to the operator and a reset exclude each other, through lock and task.
CallInv ==
    /\ LockIsHeldForWork
    /\ call.kind # "none" => op = "up" /\ task.at = "idle"
    /\ op = "down" => task.at = "idle" /\ ~Busy
    /\ mem.stopped => mem.lease = None
    /\ mem.stopped => task.at \in {"checking", "removing", "clearing", "recreated", "restarting"}
    /\ call.kind \in {"preview", "start"} \/ mem.preview # None \/ task.at = "preparing" =>
           mem.lease = None
    /\ mem.preview # None => task.at = "idle"

\* The child of a command that has ended is gone.
CommandInv ==
    /\ EndedCommandIsGone
    /\ Busy <=> runner # "idle"
    /\ runner = "spawning" => child = "none"
    /\ runner = "draining" => child \in Exited

\* No command has started since the inspection of start() found none.
ExclusionInv ==
    /\ call.kind = "start" /\ call.step > 0 => ~Busy
    /\ task.at \notin {"idle", "releasing"} => ~Busy /\ mem.status = "running"

Held == app.lease # None /\ app.lease.for = app.instance

\* Who holds the confirmed worker is known to the operator while it runs, and to its audit.
HoldInv ==
    /\ ConfirmedHoldIsRecorded
    /\ Held /\ op # "down" => mem.lease = app.lease /\ mem.instance = app.instance
    /\ op # "down" /\ mem.lease # None =>
           audit.lease = mem.lease /\ audit.instance = mem.instance
    /\ audit.lease # None => audit.lease.for = audit.instance
    /\ mem.lease # None => mem.lease.for = mem.instance
    /\ task.at \in {"holding", "confirming", "stopping", "releasing"} => mem.lease # None
    /\ task.at = "holding" => mem.instance = task.target.instance
    /\ call.kind = "recover" /\ call.step = 2 => ~Held

\* What the stages of a reset may rely on.
StageInv ==
    /\ task.at # "idle" => /\ task.target \in [rows : Nat, instance : Nat]
                           /\ task.target.instance <= app.instance
    /\ task.at \in {"checking", "removing", "clearing", "recreated", "restarting", "finishing"} =>
           mem.lease = None
    /\ At("stopping") /\ app.running /\ app.instance = task.target.instance =>
           app.lease # None /\ app.active = 0
    /\ task.at \in {"checking", "removing", "clearing", "recreated", "restarting"} => ~app.running
    /\ At("checking") /\ task.step > 0 => task.rows = data.rows
    /\ At("checking") /\ task.step > 1 => ~data.working
    /\ At("removing") => ~data.working /\ data.rows = task.target.rows

IInv == TypeOK /\ GateInv /\ CallInv /\ CommandInv /\ ExclusionInv /\ HoldInv /\ StageInv

-----------------------------------------------------------------------------
(* Every action keeps the invariant. *)

LEMMA NoneActive == IsFiniteSet(Active(Quiet)) /\ Cardinality(Active(Quiet)) = 0
  <1>1. Active(Quiet) = {} BY DEF Active, Quiet
  <1> QED BY <1>1, FS_EmptySet


LEMMA BeginPreviewInv == ASSUME IInv, BeginPreview PROVE IInv'
  <1> USE ResetAssumption
  <1>0. TypeOK BY DEF IInv
  <1>1. call' = [kind |-> "preview", step |-> 0, rows |-> 0]
    BY <1>0, Zenon DEF TypeOK, Call, BeginPreview, Free, NoCall
  <1>2. op = "up" /\ call.kind = "none" /\ task.at = "idle" /\ mem.lease = None /\ UNCHANGED <<app,
      requests, data, job, child, runner, cancelling, commands, op, mem, flock, task, audit, faults,
      resets>>
    BY <1>0 DEF BeginPreview, Free, NoCall, vars, gateVars, commandVars, operator
  <1>3. call' \in Call BY <1>0, <1>1, <1>2 DEF IInv, TypeOK, Call, Data
  <1>4. TypeOK' BY <1>0, <1>1, <1>3, <1>2 DEF IInv, TypeOK
  <1>5. GateInv' BY <1>0, <1>2 DEF IInv, GateInv, App
  <1>6. CallInv' BY <1>0, <1>1, <1>2 DEF IInv, CallInv, LockIsHeldForWork, Busy, App, Memory, Call,
      Task
  <1>7. CommandInv' BY <1>0, <1>2 DEF IInv, CommandInv, EndedCommandIsGone, Busy, Exited, Command
  <1>8. ExclusionInv' BY <1>0, <1>1, <1>2 DEF IInv, ExclusionInv, CallInv, Busy, Memory, Call, Task,
      Command
  <1>9. HoldInv' BY <1>0, <1>1, <1>2 DEF IInv, HoldInv, TypeOK, ConfirmedHoldIsRecorded, Held,
      CallInv, GateInv, App, Memory, Audit, Call, Task, Lease
  <1>10. StageInv' BY <1>0, <1>2 DEF IInv, StageInv, TypeOK, At, CallInv, GateInv, HoldInv, Held,
      App, Data, Memory, Call, Task
  <1> QED BY <1>4, <1>5, <1>6, <1>7, <1>8, <1>9, <1>10 DEF IInv

LEMMA BeginStartInv == ASSUME IInv, BeginStart PROVE IInv'
  <1> USE ResetAssumption
  <1>0. TypeOK BY DEF IInv
  <1>1. call' = [kind |-> "start", step |-> 0, rows |-> 0]
    BY <1>0, Zenon DEF TypeOK, Call, BeginStart, Free, NoCall
  <1>2. op = "up" /\ call.kind = "none" /\ mem.preview # None /\ ~flock /\ flock' = TRUE /\
      UNCHANGED <<app, requests, data, job, child, runner, cancelling, commands, op, mem, task,
      audit, faults, resets>>
    BY <1>0 DEF BeginStart, Free, NoCall, vars, gateVars, commandVars, operator
  <1>3. call' \in Call BY <1>0, <1>1, <1>2 DEF IInv, TypeOK, Call, Data
  <1>4. TypeOK' BY <1>0, <1>1, <1>3, <1>2 DEF IInv, TypeOK
  <1>5. GateInv' BY <1>0, <1>2 DEF IInv, GateInv, App
  <1>6. CallInv' BY <1>0, <1>1, <1>2 DEF IInv, CallInv, LockIsHeldForWork, Busy, App, Memory, Call,
      Task
  <1>7. CommandInv' BY <1>0, <1>2 DEF IInv, CommandInv, EndedCommandIsGone, Busy, Exited, Command
  <1>8. ExclusionInv' BY <1>0, <1>1, <1>2 DEF IInv, ExclusionInv, CallInv, Busy, Memory, Call, Task,
      Command
  <1>9. HoldInv' BY <1>0, <1>1, <1>2 DEF IInv, HoldInv, TypeOK, ConfirmedHoldIsRecorded, Held,
      CallInv, GateInv, App, Memory, Audit, Call, Task, Lease
  <1>10. StageInv' BY <1>0, <1>2 DEF IInv, StageInv, TypeOK, At, CallInv, GateInv, HoldInv, Held,
      App, Data, Memory, Call, Task
  <1> QED BY <1>4, <1>5, <1>6, <1>7, <1>8, <1>9, <1>10 DEF IInv

LEMMA BeginRecoverInv == ASSUME IInv, BeginRecover PROVE IInv'
  <1> USE ResetAssumption
  <1>0. TypeOK BY DEF IInv
  <1>1. call' = [kind |-> "recover", step |-> 0, rows |-> 0]
    BY <1>0, Zenon DEF TypeOK, Call, BeginRecover, Free, NoCall
  <1>2. op = "up" /\ call.kind = "none" /\ task.at = "idle" /\ mem.lease # None /\ ~flock /\ flock'
      = TRUE /\ UNCHANGED <<app, requests, data, job, child, runner, cancelling, commands, op, mem,
      task, audit, faults, resets>>
    BY <1>0 DEF BeginRecover, Free, NoCall, vars, gateVars, commandVars, operator
  <1>3. call' \in Call BY <1>0, <1>1, <1>2 DEF IInv, TypeOK, Call, Data
  <1>4. TypeOK' BY <1>0, <1>1, <1>3, <1>2 DEF IInv, TypeOK
  <1>5. GateInv' BY <1>0, <1>2 DEF IInv, GateInv, App
  <1>6. CallInv' BY <1>0, <1>1, <1>2 DEF IInv, CallInv, LockIsHeldForWork, Busy, App, Memory, Call,
      Task
  <1>7. CommandInv' BY <1>0, <1>2 DEF IInv, CommandInv, EndedCommandIsGone, Busy, Exited, Command
  <1>8. ExclusionInv' BY <1>0, <1>1, <1>2 DEF IInv, ExclusionInv, CallInv, Busy, Memory, Call, Task,
      Command
  <1>9. HoldInv' BY <1>0, <1>1, <1>2 DEF IInv, HoldInv, TypeOK, ConfirmedHoldIsRecorded, Held,
      CallInv, GateInv, App, Memory, Audit, Call, Task, Lease
  <1>10. StageInv' BY <1>0, <1>2 DEF IInv, StageInv, TypeOK, At, CallInv, GateInv, HoldInv, Held,
      App, Data, Memory, Call, Task
  <1> QED BY <1>4, <1>5, <1>6, <1>7, <1>8, <1>9, <1>10 DEF IInv

LEMMA StartCommandInv == ASSUME IInv, StartCommand PROVE IInv'
  <1> USE ResetAssumption
  <1>0. TypeOK BY DEF IInv
  <1>1. job' = [status |-> "running", process |-> FALSE, reason |-> "none"]
    BY <1>0, Zenon DEF TypeOK, Command, StartCommand, Free, StartJob, NoJob, Busy
  <1>2. op = "up" /\ call.kind = "none" /\ mem.status # "running" /\ ~Busy /\ child' = "none" /\
      runner' = "spawning" /\ commands' = commands + 1 /\ UNCHANGED <<app, requests, data,
      cancelling, op, mem, flock, call, task, audit, faults, resets>>
    BY <1>0 DEF StartCommand, Free, StartJob, NoJob, Busy, vars, gateVars, commandVars, operator
  <1>3. job' \in Command BY <1>0, <1>1, <1>2 DEF IInv, TypeOK, Command, Exited
  <1>4. TypeOK' BY <1>0, <1>1, <1>3, <1>2 DEF IInv, TypeOK
  <1>5. GateInv' BY <1>0, <1>2 DEF IInv, GateInv, App
  <1>6. CallInv' BY <1>0, <1>1, <1>2 DEF IInv, CallInv, LockIsHeldForWork, Busy, App, Memory, Call,
      Task
  <1>7. CommandInv' BY <1>0, <1>1, <1>2 DEF IInv, CommandInv, EndedCommandIsGone, Busy, Exited,
      Command
  <1>8. ExclusionInv' BY <1>0, <1>1, <1>2 DEF IInv, ExclusionInv, CallInv, Busy, Memory, Call, Task,
      Command
  <1>9. HoldInv' BY <1>0, <1>2 DEF IInv, HoldInv, TypeOK, ConfirmedHoldIsRecorded, Held, CallInv,
      GateInv, App, Memory, Audit, Call, Task, Lease
  <1>10. StageInv' BY <1>0, <1>2 DEF IInv, StageInv, TypeOK, At, CallInv, GateInv, HoldInv, Held,
      App, Data, Memory, Call, Task
  <1> QED BY <1>4, <1>5, <1>6, <1>7, <1>8, <1>9, <1>10 DEF IInv

LEMMA CallLooksInv == ASSUME IInv, CallLooks PROVE IInv'
  <1> USE ResetAssumption
  <1>0. TypeOK BY DEF IInv
  <1>1. call' = [kind |-> call.kind, step |-> call.step + 1, rows |-> IF call.step = 0 THEN
      data.rows ELSE call.rows]
    BY <1>0, Zenon DEF TypeOK, Call, CallLooks, Inspecting, Looked, Passes, Busy
  <1>2. call.kind \in {"preview", "start"} /\ call.step < 2 /\ (call.step = 0 => ~Busy) /\ UNCHANGED
      <<app, requests, data, job, child, runner, cancelling, commands, op, mem, flock, task, audit,
      faults, resets>>
    BY <1>0 DEF CallLooks, Inspecting, Looked, Passes, Busy, vars, gateVars, commandVars, operator
  <1>3. call' \in Call BY <1>0, <1>1, <1>2 DEF IInv, TypeOK, Call, Data
  <1>4. TypeOK' BY <1>0, <1>1, <1>3, <1>2 DEF IInv, TypeOK
  <1>5. GateInv' BY <1>0, <1>2 DEF IInv, GateInv, App
  <1>6. CallInv' BY <1>0, <1>1, <1>2 DEF IInv, CallInv, LockIsHeldForWork, Busy, App, Memory, Call,
      Task
  <1>7. CommandInv' BY <1>0, <1>2 DEF IInv, CommandInv, EndedCommandIsGone, Busy, Exited, Command
  <1>8. ExclusionInv' BY <1>0, <1>1, <1>2 DEF IInv, ExclusionInv, CallInv, Busy, Memory, Call, Task,
      Command, TypeOK
  <1>9. HoldInv' BY <1>0, <1>1, <1>2 DEF IInv, HoldInv, TypeOK, ConfirmedHoldIsRecorded, Held,
      CallInv, GateInv, App, Memory, Audit, Call, Task, Lease
  <1>10. StageInv' BY <1>0, <1>2 DEF IInv, StageInv, TypeOK, At, CallInv, GateInv, HoldInv, Held,
      App, Data, Memory, Call, Task
  <1> QED BY <1>4, <1>5, <1>6, <1>7, <1>8, <1>9, <1>10 DEF IInv

LEMMA CallFailsInv == ASSUME IInv, CallFails PROVE IInv'
  <1> USE ResetAssumption
  <1>0. TypeOK BY DEF IInv
  <1>1. call' = [kind |-> "none", step |-> 0, rows |-> 0]
    BY <1>0, Zenon DEF TypeOK, Call, CallFails, Inspecting, Fault, NoFault, Answer, NoCall
  <1>2. call.kind \in {"preview", "start"} /\ faults' \in Nat /\ flock' = FALSE /\ UNCHANGED <<app,
      requests, data, job, child, runner, cancelling, commands, op, mem, task, audit, resets>>
    BY <1>0 DEF TypeOK, CallFails, Inspecting, Fault, NoFault, Answer, NoCall, vars, gateVars,
        commandVars, operator
  <1>3. call' \in Call BY <1>0, <1>1, <1>2 DEF IInv, TypeOK, Call, Data
  <1>4. TypeOK' BY <1>0, <1>1, <1>3, <1>2 DEF IInv, TypeOK
  <1>5. GateInv' BY <1>0, <1>2 DEF IInv, GateInv, App
  <1>6. CallInv' BY <1>0, <1>1, <1>2 DEF IInv, CallInv, LockIsHeldForWork, Busy, App, Memory, Call,
      Task
  <1>7. CommandInv' BY <1>0, <1>2 DEF IInv, CommandInv, EndedCommandIsGone, Busy, Exited, Command
  <1>8. ExclusionInv' BY <1>0, <1>1, <1>2 DEF IInv, ExclusionInv, CallInv, Busy, Memory, Call, Task,
      Command
  <1>9. HoldInv' BY <1>0, <1>1, <1>2 DEF IInv, HoldInv, TypeOK, ConfirmedHoldIsRecorded, Held,
      CallInv, GateInv, App, Memory, Audit, Call, Task, Lease
  <1>10. StageInv' BY <1>0, <1>2 DEF IInv, StageInv, TypeOK, At, CallInv, GateInv, HoldInv, Held,
      App, Data, Memory, Call, Task
  <1> QED BY <1>4, <1>5, <1>6, <1>7, <1>8, <1>9, <1>10 DEF IInv

LEMMA PreviewIssuedInv == ASSUME IInv, PreviewIssued PROVE IInv'
  <1> USE ResetAssumption
  <1>0. TypeOK BY DEF IInv
  <1>1. mem' = [preview |-> Target(call), lease |-> mem.lease, instance |-> mem.instance, stopped
      |-> mem.stopped, status |-> mem.status]
    BY <1>0, Zenon DEF TypeOK, Memory, PreviewIssued, Target, Answer, NoCall, Passes, GateAllows
  <1>2. call' = [kind |-> "none", step |-> 0, rows |-> 0]
    BY <1>0, Zenon DEF TypeOK, Call, PreviewIssued, Target, Answer, NoCall, Passes, GateAllows
  <1>3. call.kind = "preview" /\ UNCHANGED <<app, requests, data, job, child, runner, cancelling,
      commands, op, flock, task, audit, faults, resets>>
    BY <1>0 DEF PreviewIssued, Target, Answer, NoCall, Passes, GateAllows, vars, gateVars,
        commandVars, operator
  <1>4. mem' \in Memory BY <1>0, <1>1, <1>2, <1>3 DEF IInv, TypeOK, Memory, Seen, Status, Lease,
      Target, App, Call
  <1>5. call' \in Call BY <1>0, <1>1, <1>2, <1>3, <1>4 DEF IInv, TypeOK, Call, Data, Target, App,
      Call
  <1>6. TypeOK' BY <1>0, <1>1, <1>2, <1>4, <1>5, <1>3 DEF IInv, TypeOK
  <1>7. GateInv' BY <1>0, <1>3 DEF IInv, GateInv, App
  <1>8. CallInv' BY <1>0, <1>1, <1>2, <1>3 DEF IInv, CallInv, LockIsHeldForWork, Busy, App, Memory,
      Call, Task
  <1>9. CommandInv' BY <1>0, <1>3 DEF IInv, CommandInv, EndedCommandIsGone, Busy, Exited, Command
  <1>10. ExclusionInv' BY <1>0, <1>1, <1>2, <1>3 DEF IInv, ExclusionInv, CallInv, Busy, Memory,
      Call, Task, Command
  <1>11. HoldInv' BY <1>0, <1>1, <1>2, <1>3 DEF IInv, HoldInv, TypeOK, ConfirmedHoldIsRecorded,
      Held, CallInv, GateInv, App, Memory, Audit, Call, Task, Lease
  <1>12. StageInv' BY <1>0, <1>1, <1>3 DEF IInv, StageInv, TypeOK, At, CallInv, GateInv, HoldInv,
      Held, App, Data, Memory, Call, Task
  <1> QED BY <1>6, <1>7, <1>8, <1>9, <1>10, <1>11, <1>12 DEF IInv

LEMMA StartRefusedInv == ASSUME IInv, StartRefused PROVE IInv'
  <1> USE ResetAssumption
  <1>0. TypeOK BY DEF IInv
  <1>1. mem' = [preview |-> None, lease |-> mem.lease, instance |-> mem.instance, stopped |->
      mem.stopped, status |-> mem.status]
    BY <1>0, Zenon DEF TypeOK, Memory, StartRefused, Answer, NoCall
  <1>2. call' = [kind |-> "none", step |-> 0, rows |-> 0]
    BY <1>0, Zenon DEF TypeOK, Call, StartRefused, Answer, NoCall
  <1>3. call.kind = "start" /\ flock' = FALSE /\ UNCHANGED <<app, requests, data, job, child,
      runner, cancelling, commands, op, task, audit, faults, resets>>
    BY <1>0 DEF StartRefused, Answer, NoCall, vars, gateVars, commandVars, operator
  <1>4. mem' \in Memory BY <1>0, <1>1, <1>2, <1>3 DEF IInv, TypeOK, Memory, Seen, Status, Lease
  <1>5. call' \in Call BY <1>0, <1>1, <1>2, <1>3, <1>4 DEF IInv, TypeOK, Call, Data
  <1>6. TypeOK' BY <1>0, <1>1, <1>2, <1>4, <1>5, <1>3 DEF IInv, TypeOK
  <1>7. GateInv' BY <1>0, <1>3 DEF IInv, GateInv, App
  <1>8. CallInv' BY <1>0, <1>1, <1>2, <1>3 DEF IInv, CallInv, LockIsHeldForWork, Busy, App, Memory,
      Call, Task
  <1>9. CommandInv' BY <1>0, <1>3 DEF IInv, CommandInv, EndedCommandIsGone, Busy, Exited, Command
  <1>10. ExclusionInv' BY <1>0, <1>1, <1>2, <1>3 DEF IInv, ExclusionInv, CallInv, Busy, Memory,
      Call, Task, Command
  <1>11. HoldInv' BY <1>0, <1>1, <1>2, <1>3 DEF IInv, HoldInv, TypeOK, ConfirmedHoldIsRecorded,
      Held, CallInv, GateInv, App, Memory, Audit, Call, Task, Lease
  <1>12. StageInv' BY <1>0, <1>1, <1>3 DEF IInv, StageInv, TypeOK, At, CallInv, GateInv, HoldInv,
      Held, App, Data, Memory, Call, Task
  <1> QED BY <1>6, <1>7, <1>8, <1>9, <1>10, <1>11, <1>12 DEF IInv

LEMMA RecoverLooksInv == ASSUME IInv, RecoverLooks PROVE IInv'
  <1> USE ResetAssumption
  <1>0. TypeOK BY DEF IInv
  <1>1. call' = [kind |-> call.kind, step |-> IF app.running /\ app.instance = mem.instance THEN 1
      ELSE 2, rows |-> call.rows]
    BY <1>0, Zenon DEF TypeOK, Call, RecoverLooks
  <1>2. call.kind = "recover" /\ call.step = 0 /\ UNCHANGED <<app, requests, data, job, child,
      runner, cancelling, commands, op, mem, flock, task, audit, faults, resets>>
    BY <1>0 DEF RecoverLooks, vars, gateVars, commandVars, operator
  <1>3. call' \in Call BY <1>0, <1>1, <1>2 DEF IInv, TypeOK, Call, Data
  <1>4. TypeOK' BY <1>0, <1>1, <1>3, <1>2 DEF IInv, TypeOK
  <1>5. GateInv' BY <1>0, <1>2 DEF IInv, GateInv, App
  <1>6. CallInv' BY <1>0, <1>1, <1>2 DEF IInv, CallInv, LockIsHeldForWork, Busy, App, Memory, Call,
      Task
  <1>7. CommandInv' BY <1>0, <1>2 DEF IInv, CommandInv, EndedCommandIsGone, Busy, Exited, Command
  <1>8. ExclusionInv' BY <1>0, <1>1, <1>2 DEF IInv, ExclusionInv, CallInv, Busy, Memory, Call, Task,
      Command
  <1>9. HoldInv' BY <1>0, <1>1, <1>2 DEF IInv, HoldInv, TypeOK, ConfirmedHoldIsRecorded, Held,
      CallInv, GateInv, App, Memory, Audit, Call, Task, Lease
  <1>10. StageInv' BY <1>0, <1>2 DEF IInv, StageInv, TypeOK, At, CallInv, GateInv, HoldInv, Held,
      App, Data, Memory, Call, Task
  <1> QED BY <1>4, <1>5, <1>6, <1>7, <1>8, <1>9, <1>10 DEF IInv

LEMMA RecoverReleasesInv == ASSUME IInv, RecoverReleases PROVE IInv'
  <1> USE ResetAssumption
  <1>0. TypeOK BY DEF IInv
  <1>1. app' = [running |-> app.running, instance |-> app.instance, lease |-> None, active |->
      app.active]
    BY <1>0, Zenon DEF TypeOK, App, RecoverReleases, Releases
  <1>2. call' = [kind |-> call.kind, step |-> 2, rows |-> call.rows]
    BY <1>0, Zenon DEF TypeOK, Call, RecoverReleases, Releases
  <1>3. call.kind = "recover" /\ app.running /\ UNCHANGED <<requests, data, job, child, runner,
      cancelling, commands, op, mem, flock, task, audit, faults, resets>>
    BY <1>0 DEF RecoverReleases, Releases, vars, gateVars, commandVars, operator
  <1>4. app' \in App BY <1>0, <1>1, <1>2, <1>3 DEF IInv, TypeOK, App, Lease
  <1>5. call' \in Call BY <1>0, <1>1, <1>2, <1>3, <1>4 DEF IInv, TypeOK, Call, Data
  <1>6. TypeOK' BY <1>0, <1>1, <1>2, <1>4, <1>5, <1>3 DEF IInv, TypeOK
  <1>7. GateInv' BY <1>0, <1>1, <1>3 DEF IInv, GateInv, App
  <1>8. CallInv' BY <1>0, <1>2, <1>3 DEF IInv, CallInv, LockIsHeldForWork, Busy, App, Memory, Call,
      Task
  <1>9. CommandInv' BY <1>0, <1>3 DEF IInv, CommandInv, EndedCommandIsGone, Busy, Exited, Command
  <1>10. ExclusionInv' BY <1>0, <1>2, <1>3 DEF IInv, ExclusionInv, CallInv, Busy, Memory, Call,
      Task, Command
  <1>11. HoldInv' BY <1>0, <1>1, <1>2, <1>3 DEF IInv, HoldInv, TypeOK, ConfirmedHoldIsRecorded,
      Held, CallInv, GateInv, App, Memory, Audit, Call, Task, Lease
  <1>12. StageInv' BY <1>0, <1>1, <1>3 DEF IInv, StageInv, TypeOK, At, CallInv, GateInv, HoldInv,
      Held, App, Data, Memory, Call, Task
  <1> QED BY <1>6, <1>7, <1>8, <1>9, <1>10, <1>11, <1>12 DEF IInv

LEMMA RecoverForgetsInv == ASSUME IInv, RecoverForgets PROVE IInv'
  <1> USE ResetAssumption
  <1>0. TypeOK BY DEF IInv
  <1>1. mem' = [preview |-> mem.preview, lease |-> None, instance |-> None, stopped |-> mem.stopped,
      status |-> mem.status]
    BY <1>0, Zenon DEF TypeOK, Memory, RecoverForgets, Forgotten, Recorded, Answer, NoCall
  <1>2. audit' = [status |-> mem'.status, lease |-> mem'.lease, instance |-> mem'.instance]
    BY DEF RecoverForgets, Forgotten, Recorded, Answer, NoCall
  <1>3. call' = [kind |-> "none", step |-> 0, rows |-> 0]
    BY <1>0, Zenon DEF TypeOK, Call, RecoverForgets, Forgotten, Recorded, Answer, NoCall
  <1>4. call.kind = "recover" /\ call.step = 2 /\ flock' = FALSE /\ UNCHANGED <<app, requests, data,
      job, child, runner, cancelling, commands, op, task, faults, resets>>
    BY <1>0 DEF RecoverForgets, Forgotten, Recorded, Answer, NoCall, vars, gateVars, commandVars,
        operator
  <1>5. mem' \in Memory BY <1>0, <1>1, <1>2, <1>3, <1>4 DEF IInv, TypeOK, Memory, Seen, Status,
      Lease
  <1>6. audit' \in Audit BY <1>0, <1>1, <1>2, <1>3, <1>4, <1>5 DEF IInv, TypeOK, Audit, Memory,
      Status, Lease
  <1>7. call' \in Call BY <1>0, <1>1, <1>2, <1>3, <1>4, <1>5, <1>6 DEF IInv, TypeOK, Call, Data
  <1>8. TypeOK' BY <1>0, <1>1, <1>2, <1>3, <1>5, <1>6, <1>7, <1>4 DEF IInv, TypeOK
  <1>9. GateInv' BY <1>0, <1>4 DEF IInv, GateInv, App
  <1>10. CallInv' BY <1>0, <1>1, <1>3, <1>4 DEF IInv, CallInv, LockIsHeldForWork, Busy, App, Memory,
      Call, Task
  <1>11. CommandInv' BY <1>0, <1>4 DEF IInv, CommandInv, EndedCommandIsGone, Busy, Exited, Command
  <1>12. ExclusionInv' BY <1>0, <1>1, <1>3, <1>4 DEF IInv, ExclusionInv, CallInv, Busy, Memory,
      Call, Task, Command
  <1>13. HoldInv' BY <1>0, <1>1, <1>2, <1>3, <1>4 DEF IInv, HoldInv, TypeOK,
      ConfirmedHoldIsRecorded, Held, CallInv, GateInv, App, Memory, Audit, Call, Task, Lease
  <1>14. StageInv' BY <1>0, <1>1, <1>4 DEF IInv, StageInv, TypeOK, At, CallInv, GateInv, HoldInv,
      Held, App, Data, Memory, Call, Task
  <1> QED BY <1>8, <1>9, <1>10, <1>11, <1>12, <1>13, <1>14 DEF IInv

LEMMA RecoverFailsInv == ASSUME IInv, RecoverFails PROVE IInv'
  <1> USE ResetAssumption
  <1>0. TypeOK BY DEF IInv
  <1>1. call' = [kind |-> "none", step |-> 0, rows |-> 0]
    BY <1>0, Zenon DEF TypeOK, Call, RecoverFails, Fault, NoFault, Answer, NoCall
  <1>2. call.kind = "recover" /\ faults' \in Nat /\ flock' = FALSE /\ UNCHANGED <<app, requests,
      data, job, child, runner, cancelling, commands, op, mem, task, audit, resets>>
    BY <1>0 DEF TypeOK, RecoverFails, Fault, NoFault, Answer, NoCall, vars, gateVars, commandVars,
        operator
  <1>3. call' \in Call BY <1>0, <1>1, <1>2 DEF IInv, TypeOK, Call, Data
  <1>4. TypeOK' BY <1>0, <1>1, <1>3, <1>2 DEF IInv, TypeOK
  <1>5. GateInv' BY <1>0, <1>2 DEF IInv, GateInv, App
  <1>6. CallInv' BY <1>0, <1>1, <1>2 DEF IInv, CallInv, LockIsHeldForWork, Busy, App, Memory, Call,
      Task
  <1>7. CommandInv' BY <1>0, <1>2 DEF IInv, CommandInv, EndedCommandIsGone, Busy, Exited, Command
  <1>8. ExclusionInv' BY <1>0, <1>1, <1>2 DEF IInv, ExclusionInv, CallInv, Busy, Memory, Call, Task,
      Command
  <1>9. HoldInv' BY <1>0, <1>1, <1>2 DEF IInv, HoldInv, TypeOK, ConfirmedHoldIsRecorded, Held,
      CallInv, GateInv, App, Memory, Audit, Call, Task, Lease
  <1>10. StageInv' BY <1>0, <1>2 DEF IInv, StageInv, TypeOK, At, CallInv, GateInv, HoldInv, Held,
      App, Data, Memory, Call, Task
  <1> QED BY <1>4, <1>5, <1>6, <1>7, <1>8, <1>9, <1>10 DEF IInv

LEMMA PreparesInv == ASSUME IInv, Prepares PROVE IInv'
  <1> USE ResetAssumption
  <1>0. TypeOK BY DEF IInv
  <1>1. mem' = [preview |-> mem.preview, lease |-> NewLease, instance |-> task.target.instance,
      stopped |-> mem.stopped, status |-> mem.status]
    BY <1>0, Zenon DEF TypeOK, Memory, Prepares, At, Goes, NewLease, Recorded
  <1>2. audit' = [status |-> mem'.status, lease |-> mem'.lease, instance |-> mem'.instance]
    BY DEF Prepares, At, Goes, NewLease, Recorded
  <1>3. task' = [at |-> "holding", step |-> 0, rows |-> 0, target |-> task.target]
    BY <1>0, Zenon DEF TypeOK, Task, Prepares, At, Goes, NewLease, Recorded
  <1>4. task.at = "preparing" /\ UNCHANGED <<app, requests, data, job, child, runner, cancelling,
      commands, op, flock, call, faults, resets>>
    BY <1>0 DEF Prepares, At, Goes, NewLease, Recorded, vars, gateVars, commandVars, operator
  <1>5. mem' \in Memory BY <1>0, <1>1, <1>2, <1>3, <1>4 DEF IInv, TypeOK, Memory, Seen, Status,
      Lease, NewLease, StageInv
  <1>6. audit' \in Audit BY <1>0, <1>1, <1>2, <1>3, <1>4, <1>5 DEF IInv, TypeOK, Audit, Memory,
      Status, Lease, NewLease, StageInv
  <1>7. task' \in Task BY <1>0, <1>1, <1>2, <1>3, <1>4, <1>5, <1>6 DEF IInv, TypeOK, Task, Stage,
      Seen, Data, NewLease, StageInv
  <1>8. TypeOK' BY <1>0, <1>1, <1>2, <1>3, <1>5, <1>6, <1>7, <1>4 DEF IInv, TypeOK
  <1>9. GateInv' BY <1>0, <1>4 DEF IInv, GateInv, App
  <1>10. CallInv' BY <1>0, <1>1, <1>3, <1>4 DEF IInv, CallInv, LockIsHeldForWork, Busy, App, Memory,
      Call, Task
  <1>11. CommandInv' BY <1>0, <1>4 DEF IInv, CommandInv, EndedCommandIsGone, Busy, Exited, Command
  <1>12. ExclusionInv' BY <1>0, <1>1, <1>3, <1>4 DEF IInv, ExclusionInv, CallInv, Busy, Memory,
      Call, Task, Command
  <1>13. HoldInv' BY <1>0, <1>1, <1>2, <1>3, <1>4 DEF IInv, HoldInv, TypeOK,
      ConfirmedHoldIsRecorded, Held, CallInv, GateInv, App, Memory, Audit, Call, Task, Lease,
      StageInv, NewLease
  <1>14. StageInv' BY <1>0, <1>1, <1>3, <1>4 DEF IInv, StageInv, TypeOK, At, CallInv, GateInv,
      HoldInv, Held, App, Data, Memory, Call, Task
  <1> QED BY <1>8, <1>9, <1>10, <1>11, <1>12, <1>13, <1>14 DEF IInv

LEMMA TaskLooksInv == ASSUME IInv, TaskLooks PROVE IInv'
  <1> USE ResetAssumption
  <1>0. TypeOK BY DEF IInv
  <1>1. task' = [at |-> task.at, step |-> task.step + 1, rows |-> IF task.step = 0 THEN data.rows
      ELSE task.rows, target |-> task.target]
    BY <1>0, Zenon DEF TypeOK, Task, TaskLooks, Looked, Passes
  <1>2. task.at \in {"confirming", "checking", "recreated", "finishing"} /\ task.step < 2 /\
      (task.step = 1 => ~data.working) /\ UNCHANGED <<app, requests, data, job, child, runner,
      cancelling, commands, op, mem, flock, call, audit, faults, resets>>
    BY <1>0 DEF TaskLooks, Looked, Passes, vars, gateVars, commandVars, operator
  <1>3. task' \in Task BY <1>0, <1>1, <1>2 DEF IInv, TypeOK, Task, Stage, Seen, Data
  <1>4. TypeOK' BY <1>0, <1>1, <1>3, <1>2 DEF IInv, TypeOK
  <1>5. GateInv' BY <1>0, <1>2 DEF IInv, GateInv, App
  <1>6. CallInv' BY <1>0, <1>1, <1>2 DEF IInv, CallInv, LockIsHeldForWork, Busy, App, Memory, Call,
      Task
  <1>7. CommandInv' BY <1>0, <1>2 DEF IInv, CommandInv, EndedCommandIsGone, Busy, Exited, Command
  <1>8. ExclusionInv' BY <1>0, <1>1, <1>2 DEF IInv, ExclusionInv, CallInv, Busy, Memory, Call, Task,
      Command
  <1>9. HoldInv' BY <1>0, <1>1, <1>2 DEF IInv, HoldInv, TypeOK, ConfirmedHoldIsRecorded, Held,
      CallInv, GateInv, App, Memory, Audit, Call, Task, Lease
  <1>10. StageInv' BY <1>0, <1>1, <1>2 DEF IInv, StageInv, TypeOK, At, CallInv, GateInv, HoldInv,
      Held, App, Data, Memory, Call, Task
  <1> QED BY <1>4, <1>5, <1>6, <1>7, <1>8, <1>9, <1>10 DEF IInv

LEMMA StopsInv == ASSUME IInv, Stops PROVE IInv'
  <1> USE ResetAssumption
  <1>0. TypeOK BY DEF IInv
  <1>1. app' = [running |-> FALSE, instance |-> app.instance, lease |-> None, active |-> 0]
    BY <1>0, Zenon DEF TypeOK, App, Stops, At, Goes, Stopped
  <1>2. mem' = [preview |-> mem.preview, lease |-> None, instance |-> mem.instance, stopped |->
      TRUE, status |-> mem.status]
    BY <1>0, Zenon DEF TypeOK, Memory, Stops, At, Goes, Stopped
  <1>3. task' = [at |-> "checking", step |-> 0, rows |-> 0, target |-> task.target]
    BY <1>0, Zenon DEF TypeOK, Task, Stops, At, Goes, Stopped
  <1>4. task.at = "stopping" /\ requests' = Quiet /\ UNCHANGED <<data, job, child, runner,
      cancelling, commands, op, flock, call, audit, faults, resets>>
    BY <1>0 DEF Stops, At, Goes, Stopped, vars, gateVars, commandVars, operator
  <1>5. app' \in App BY <1>0, <1>1, <1>2, <1>3, <1>4 DEF IInv, TypeOK, App, Lease
  <1>6. mem' \in Memory BY <1>0, <1>1, <1>2, <1>3, <1>4, <1>5 DEF IInv, TypeOK, Memory, Seen,
      Status, Lease
  <1>7. task' \in Task BY <1>0, <1>1, <1>2, <1>3, <1>4, <1>5, <1>6 DEF IInv, TypeOK, Task, Stage,
      Seen, Data
  <1>8. TypeOK' BY <1>0, <1>1, <1>2, <1>3, <1>5, <1>6, <1>7, <1>4 DEF IInv, TypeOK, Quiet
  <1>9. GateInv' BY <1>0, <1>1, <1>4, NoneActive DEF IInv, GateInv, App
  <1>10. CallInv' BY <1>0, <1>2, <1>3, <1>4 DEF IInv, CallInv, LockIsHeldForWork, Busy, App, Memory,
      Call, Task
  <1>11. CommandInv' BY <1>0, <1>4 DEF IInv, CommandInv, EndedCommandIsGone, Busy, Exited, Command
  <1>12. ExclusionInv' BY <1>0, <1>2, <1>3, <1>4 DEF IInv, ExclusionInv, CallInv, Busy, Memory,
      Call, Task, Command
  <1>13. HoldInv' BY <1>0, <1>1, <1>2, <1>3, <1>4 DEF IInv, HoldInv, TypeOK,
      ConfirmedHoldIsRecorded, Held, CallInv, GateInv, App, Memory, Audit, Call, Task, Lease
  <1>14. StageInv' BY <1>0, <1>1, <1>2, <1>3, <1>4 DEF IInv, StageInv, TypeOK, At, CallInv, GateInv,
      HoldInv, Held, App, Data, Memory, Call, Task
  <1> QED BY <1>8, <1>9, <1>10, <1>11, <1>12, <1>13, <1>14 DEF IInv

LEMMA RemovesInv == ASSUME IInv, Removes PROVE IInv'
  <1> USE ResetAssumption
  <1>0. TypeOK BY DEF IInv
  <1>1. data' = [up |-> FALSE, rows |-> 0, working |-> FALSE]
    BY <1>0, Zenon DEF TypeOK, Data, Removes, At, Goes
  <1>2. task' = [at |-> "clearing", step |-> 0, rows |-> 0, target |-> task.target]
    BY <1>0, Zenon DEF TypeOK, Task, Removes, At, Goes
  <1>3. task.at = "removing" /\ UNCHANGED <<app, requests, job, child, runner, cancelling, commands,
      op, mem, flock, call, audit, faults, resets>>
    BY <1>0 DEF Removes, At, Goes, vars, gateVars, commandVars, operator
  <1>4. data' \in Data BY <1>0, <1>1, <1>2, <1>3 DEF IInv, TypeOK, Data
  <1>5. task' \in Task BY <1>0, <1>1, <1>2, <1>3, <1>4 DEF IInv, TypeOK, Task, Stage, Seen, Data
  <1>6. TypeOK' BY <1>0, <1>1, <1>2, <1>4, <1>5, <1>3 DEF IInv, TypeOK
  <1>7. GateInv' BY <1>0, <1>3 DEF IInv, GateInv, App
  <1>8. CallInv' BY <1>0, <1>2, <1>3 DEF IInv, CallInv, LockIsHeldForWork, Busy, App, Memory, Call,
      Task
  <1>9. CommandInv' BY <1>0, <1>3 DEF IInv, CommandInv, EndedCommandIsGone, Busy, Exited, Command
  <1>10. ExclusionInv' BY <1>0, <1>2, <1>3 DEF IInv, ExclusionInv, CallInv, Busy, Memory, Call,
      Task, Command
  <1>11. HoldInv' BY <1>0, <1>2, <1>3 DEF IInv, HoldInv, TypeOK, ConfirmedHoldIsRecorded, Held,
      CallInv, GateInv, App, Memory, Audit, Call, Task, Lease
  <1>12. StageInv' BY <1>0, <1>1, <1>2, <1>3 DEF IInv, StageInv, TypeOK, At, CallInv, GateInv,
      HoldInv, Held, App, Data, Memory, Call, Task
  <1> QED BY <1>6, <1>7, <1>8, <1>9, <1>10, <1>11, <1>12 DEF IInv

LEMMA ClearsInv == ASSUME IInv, Clears PROVE IInv'
  <1> USE ResetAssumption
  <1>0. TypeOK BY DEF IInv
  <1>1. data' = [up |-> TRUE, rows |-> data.rows, working |-> data.working]
    BY <1>0, Zenon DEF TypeOK, Data, Clears, At, Goes
  <1>2. task' = [at |-> "recreated", step |-> 0, rows |-> 0, target |-> task.target]
    BY <1>0, Zenon DEF TypeOK, Task, Clears, At, Goes
  <1>3. task.at = "clearing" /\ UNCHANGED <<app, requests, job, child, runner, cancelling, commands,
      op, mem, flock, call, audit, faults, resets>>
    BY <1>0 DEF Clears, At, Goes, vars, gateVars, commandVars, operator
  <1>4. data' \in Data BY <1>0, <1>1, <1>2, <1>3 DEF IInv, TypeOK, Data
  <1>5. task' \in Task BY <1>0, <1>1, <1>2, <1>3, <1>4 DEF IInv, TypeOK, Task, Stage, Seen, Data
  <1>6. TypeOK' BY <1>0, <1>1, <1>2, <1>4, <1>5, <1>3 DEF IInv, TypeOK
  <1>7. GateInv' BY <1>0, <1>3 DEF IInv, GateInv, App
  <1>8. CallInv' BY <1>0, <1>2, <1>3 DEF IInv, CallInv, LockIsHeldForWork, Busy, App, Memory, Call,
      Task
  <1>9. CommandInv' BY <1>0, <1>3 DEF IInv, CommandInv, EndedCommandIsGone, Busy, Exited, Command
  <1>10. ExclusionInv' BY <1>0, <1>2, <1>3 DEF IInv, ExclusionInv, CallInv, Busy, Memory, Call,
      Task, Command
  <1>11. HoldInv' BY <1>0, <1>2, <1>3 DEF IInv, HoldInv, TypeOK, ConfirmedHoldIsRecorded, Held,
      CallInv, GateInv, App, Memory, Audit, Call, Task, Lease
  <1>12. StageInv' BY <1>0, <1>1, <1>2, <1>3 DEF IInv, StageInv, TypeOK, At, CallInv, GateInv,
      HoldInv, Held, App, Data, Memory, Call, Task
  <1> QED BY <1>6, <1>7, <1>8, <1>9, <1>10, <1>11, <1>12 DEF IInv

LEMMA RestartsInv == ASSUME IInv, Restarts PROVE IInv'
  <1> USE ResetAssumption
  <1>0. TypeOK BY DEF IInv
  <1>1. app' = [running |-> TRUE, instance |-> app.instance + 1, lease |-> None, active |-> 0]
    BY <1>0, Zenon DEF TypeOK, App, Restarts, At, Goes, Fresh
  <1>2. mem' = [preview |-> mem.preview, lease |-> mem.lease, instance |-> None, stopped |-> FALSE,
      status |-> mem.status]
    BY <1>0, Zenon DEF TypeOK, Memory, Restarts, At, Goes, Fresh
  <1>3. task' = [at |-> "finishing", step |-> 0, rows |-> 0, target |-> task.target]
    BY <1>0, Zenon DEF TypeOK, Task, Restarts, At, Goes, Fresh
  <1>4. task.at = "restarting" /\ requests = Quiet /\ UNCHANGED <<requests, data, job, child,
      runner, cancelling, commands, op, flock, call, audit, faults, resets>>
    BY <1>0 DEF IInv, GateInv, StageInv, At, Restarts, Goes, Fresh, vars, gateVars, commandVars,
        operator
  <1>5. app' \in App BY <1>0, <1>1, <1>2, <1>3, <1>4 DEF IInv, TypeOK, App, Lease
  <1>6. mem' \in Memory BY <1>0, <1>1, <1>2, <1>3, <1>4, <1>5 DEF IInv, TypeOK, Memory, Seen,
      Status, Lease
  <1>7. task' \in Task BY <1>0, <1>1, <1>2, <1>3, <1>4, <1>5, <1>6 DEF IInv, TypeOK, Task, Stage,
      Seen, Data
  <1>8. TypeOK' BY <1>0, <1>1, <1>2, <1>3, <1>5, <1>6, <1>7, <1>4 DEF IInv, TypeOK
  <1>9. GateInv' BY <1>0, <1>1, <1>4, NoneActive DEF IInv, GateInv, App
  <1>10. CallInv' BY <1>0, <1>2, <1>3, <1>4 DEF IInv, CallInv, LockIsHeldForWork, Busy, App, Memory,
      Call, Task
  <1>11. CommandInv' BY <1>0, <1>4 DEF IInv, CommandInv, EndedCommandIsGone, Busy, Exited, Command
  <1>12. ExclusionInv' BY <1>0, <1>2, <1>3, <1>4 DEF IInv, ExclusionInv, CallInv, Busy, Memory,
      Call, Task, Command
  <1>13. HoldInv' BY <1>0, <1>1, <1>2, <1>3, <1>4 DEF IInv, HoldInv, TypeOK,
      ConfirmedHoldIsRecorded, Held, CallInv, GateInv, App, Memory, Audit, Call, Task, Lease,
      StageInv
  <1>14. StageInv' BY <1>0, <1>1, <1>2, <1>3, <1>4 DEF IInv, StageInv, TypeOK, At, CallInv, GateInv,
      HoldInv, Held, App, Data, Memory, Call, Task
  <1> QED BY <1>8, <1>9, <1>10, <1>11, <1>12, <1>13, <1>14 DEF IInv

LEMMA CloseCommandsInv == ASSUME IInv, CloseCommands PROVE IInv'
  <1> USE ResetAssumption
  <1>0. TypeOK BY DEF IInv
  <1>1. job' = [status |-> job.status, process |-> job.process, reason |-> "cancelled"]
    BY <1>0, Zenon DEF TypeOK, Command, CloseCommands, Cancel, Signalled, Busy, At
  <1>2. Busy /\ child' = (IF child = "alive" THEN "signalled" ELSE child) /\ cancelling' = TRUE /\
      UNCHANGED <<app, requests, data, runner, commands, op, mem, flock, call, task, audit, faults,
      resets>>
    BY <1>0 DEF CloseCommands, Cancel, Signalled, Busy, At, vars, gateVars, commandVars, operator
  <1>3. job' \in Command BY <1>0, <1>1, <1>2 DEF IInv, TypeOK, Command, Exited
  <1>4. TypeOK' BY <1>0, <1>1, <1>3, <1>2 DEF IInv, TypeOK
  <1>5. GateInv' BY <1>0, <1>2 DEF IInv, GateInv, App
  <1>6. CallInv' BY <1>0, <1>1, <1>2 DEF IInv, CallInv, LockIsHeldForWork, Busy, App, Memory, Call,
      Task
  <1>7. CommandInv' BY <1>0, <1>1, <1>2 DEF IInv, CommandInv, EndedCommandIsGone, Busy, Exited,
      Command
  <1>8. ExclusionInv' BY <1>0, <1>1, <1>2 DEF IInv, ExclusionInv, CallInv, Busy, Memory, Call, Task,
      Command
  <1>9. HoldInv' BY <1>0, <1>2 DEF IInv, HoldInv, TypeOK, ConfirmedHoldIsRecorded, Held, CallInv,
      GateInv, App, Memory, Audit, Call, Task, Lease
  <1>10. StageInv' BY <1>0, <1>2 DEF IInv, StageInv, TypeOK, At, CallInv, GateInv, HoldInv, Held,
      App, Data, Memory, Call, Task
  <1> QED BY <1>4, <1>5, <1>6, <1>7, <1>8, <1>9, <1>10 DEF IInv

LEMMA RestartInv == ASSUME IInv, Restart PROVE IInv'
  <1> USE ResetAssumption
  <1>0. TypeOK BY DEF IInv
  <1>1. mem' = [preview |-> None, lease |-> audit.lease, instance |-> IF audit.lease = None THEN
      None ELSE audit.instance, stopped |-> FALSE, status |-> IF audit.status = "running" THEN
      "interrupted" ELSE audit.status]
    BY <1>0, Zenon DEF TypeOK, Memory, Restart, Blank
  <1>2. op = "down" /\ op' = "up" /\ UNCHANGED <<app, requests, data, job, child, runner,
      cancelling, commands, flock, call, task, audit, faults, resets>>
    BY <1>0 DEF Restart, Blank, vars, gateVars, commandVars, operator
  <1>3. mem' \in Memory BY <1>0, <1>1, <1>2 DEF IInv, TypeOK, Memory, Seen, Status, Lease, Audit
  <1>4. TypeOK' BY <1>0, <1>1, <1>3, <1>2 DEF IInv, TypeOK
  <1>5. GateInv' BY <1>0, <1>2 DEF IInv, GateInv, App
  <1>6. CallInv' BY <1>0, <1>1, <1>2 DEF IInv, CallInv, LockIsHeldForWork, Busy, App, Memory, Call,
      Task
  <1>7. CommandInv' BY <1>0, <1>2 DEF IInv, CommandInv, EndedCommandIsGone, Busy, Exited, Command
  <1>8. ExclusionInv' BY <1>0, <1>1, <1>2 DEF IInv, ExclusionInv, CallInv, Busy, Memory, Call, Task,
      Command
  <1>9. HoldInv' BY <1>0, <1>1, <1>2 DEF IInv, HoldInv, TypeOK, ConfirmedHoldIsRecorded, Held,
      CallInv, GateInv, App, Memory, Audit, Call, Task, Lease
  <1>10. StageInv' BY <1>0, <1>1, <1>2 DEF IInv, StageInv, TypeOK, At, CallInv, GateInv, HoldInv,
      Held, App, Data, Memory, Call, Task
  <1> QED BY <1>4, <1>5, <1>6, <1>7, <1>8, <1>9, <1>10 DEF IInv

LEMMA ReloadWorkerInv == ASSUME IInv, ReloadWorker PROVE IInv'
  <1> USE ResetAssumption
  <1>0. TypeOK BY DEF IInv
  <1>1. app' = [running |-> TRUE, instance |-> app.instance + 1, lease |-> None, active |-> 0]
    BY <1>0, Zenon DEF TypeOK, App, ReloadWorker, Fault, Reload, Fresh
  <1>2. app.running /\ faults' \in Nat /\ requests' = Quiet /\ UNCHANGED <<data, job, child, runner,
      cancelling, commands, op, mem, flock, call, task, audit, resets>>
    BY <1>0 DEF TypeOK, ReloadWorker, Fault, Reload, Fresh, vars, gateVars, commandVars, operator
  <1>3. app' \in App BY <1>0, <1>1, <1>2 DEF IInv, TypeOK, App, Lease
  <1>4. TypeOK' BY <1>0, <1>1, <1>3, <1>2 DEF IInv, TypeOK, Quiet
  <1>5. GateInv' BY <1>0, <1>1, <1>2, NoneActive DEF IInv, GateInv, App
  <1>6. CallInv' BY <1>0, <1>2 DEF IInv, CallInv, LockIsHeldForWork, Busy, App, Memory, Call, Task
  <1>7. CommandInv' BY <1>0, <1>2 DEF IInv, CommandInv, EndedCommandIsGone, Busy, Exited, Command
  <1>8. ExclusionInv' BY <1>0, <1>2 DEF IInv, ExclusionInv, CallInv, Busy, Memory, Call, Task,
      Command
  <1>9. HoldInv' BY <1>0, <1>1, <1>2 DEF IInv, HoldInv, TypeOK, ConfirmedHoldIsRecorded, Held,
      CallInv, GateInv, App, Memory, Audit, Call, Task, Lease
  <1>10. StageInv' BY <1>0, <1>1, <1>2 DEF IInv, StageInv, TypeOK, At, CallInv, GateInv, HoldInv,
      Held, App, Data, Memory, Call, Task
  <1> QED BY <1>4, <1>5, <1>6, <1>7, <1>8, <1>9, <1>10 DEF IInv

LEMMA RestoreServicesInv == ASSUME IInv, RestoreServices PROVE IInv'
  <1> USE ResetAssumption
  <1>0. TypeOK BY DEF IInv
  <1>1. app' = [running |-> TRUE, instance |-> IF app.running THEN app.instance ELSE app.instance +
      1, lease |-> IF app.running THEN app.lease ELSE None, active |-> IF app.running THEN
      app.active ELSE 0]
    BY <1>0, Zenon DEF TypeOK, App, RestoreServices, Fresh
  <1>2. data' = [up |-> TRUE, rows |-> data.rows, working |-> data.working]
    BY <1>0, Zenon DEF TypeOK, Data, RestoreServices, Fresh
  <1>3. task.at = "idle" /\ (~app.running => requests = Quiet) /\ UNCHANGED <<requests, job, child,
      runner, cancelling, commands, op, mem, flock, call, task, audit, faults, resets>>
    BY <1>0 DEF IInv, GateInv, RestoreServices, Fresh, vars, gateVars, commandVars, operator
  <1>4. app' \in App BY <1>0, <1>1, <1>2, <1>3 DEF IInv, TypeOK, App, Lease
  <1>5. data' \in Data BY <1>0, <1>1, <1>2, <1>3, <1>4 DEF IInv, TypeOK, Data
  <1>6. TypeOK' BY <1>0, <1>1, <1>2, <1>4, <1>5, <1>3 DEF IInv, TypeOK
  <1>7. GateInv' BY <1>0, <1>1, <1>3, NoneActive DEF IInv, GateInv, App
  <1>8. CallInv' BY <1>0, <1>3 DEF IInv, CallInv, LockIsHeldForWork, Busy, App, Memory, Call, Task
  <1>9. CommandInv' BY <1>0, <1>3 DEF IInv, CommandInv, EndedCommandIsGone, Busy, Exited, Command
  <1>10. ExclusionInv' BY <1>0, <1>3 DEF IInv, ExclusionInv, CallInv, Busy, Memory, Call, Task,
      Command
  <1>11. HoldInv' BY <1>0, <1>1, <1>3 DEF IInv, HoldInv, TypeOK, ConfirmedHoldIsRecorded, Held,
      CallInv, GateInv, App, Memory, Audit, Call, Task, Lease
  <1>12. StageInv' BY <1>0, <1>1, <1>2, <1>3 DEF IInv, StageInv, TypeOK, At, CallInv, GateInv,
      HoldInv, Held, App, Data, Memory, Call, Task
  <1> QED BY <1>6, <1>7, <1>8, <1>9, <1>10, <1>11, <1>12 DEF IInv

LEMMA TimesOutInv == ASSUME IInv, op # "down", UNCHANGED <<gateVars, operator, faults, resets>>,
    TimesOut PROVE IInv'
  <1> USE ResetAssumption
  <1>0. TypeOK BY DEF IInv
  <1>1. job' = [status |-> job.status, process |-> job.process, reason |-> "timed_out"]
    BY <1>0, Zenon DEF TypeOK, Command, TimesOut, Signalled, Exited
  <1>2. runner = "waiting" /\ child' = (IF child = "alive" THEN "signalled" ELSE child) /\ runner' =
      "terminating" /\ UNCHANGED <<app, requests, data, cancelling, commands, op, mem, flock, call,
      task, audit, faults, resets>>
    BY <1>0 DEF TimesOut, Signalled, Exited, vars, gateVars, commandVars, operator
  <1>3. job' \in Command BY <1>0, <1>1, <1>2 DEF IInv, TypeOK, Command, Exited
  <1>4. TypeOK' BY <1>0, <1>1, <1>3, <1>2 DEF IInv, TypeOK
  <1>5. GateInv' BY <1>0, <1>2 DEF IInv, GateInv, App
  <1>6. CallInv' BY <1>0, <1>1, <1>2 DEF IInv, CallInv, LockIsHeldForWork, Busy, App, Memory, Call,
      Task
  <1>7. CommandInv' BY <1>0, <1>1, <1>2 DEF IInv, CommandInv, EndedCommandIsGone, Busy, Exited,
      Command
  <1>8. ExclusionInv' BY <1>0, <1>1, <1>2 DEF IInv, ExclusionInv, CallInv, Busy, Memory, Call, Task,
      Command
  <1>9. HoldInv' BY <1>0, <1>2 DEF IInv, HoldInv, TypeOK, ConfirmedHoldIsRecorded, Held, CallInv,
      GateInv, App, Memory, Audit, Call, Task, Lease
  <1>10. StageInv' BY <1>0, <1>2 DEF IInv, StageInv, TypeOK, At, CallInv, GateInv, HoldInv, Held,
      App, Data, Memory, Call, Task
  <1> QED BY <1>4, <1>5, <1>6, <1>7, <1>8, <1>9, <1>10 DEF IInv

LEMMA ReapsInv == ASSUME IInv, op # "down", UNCHANGED <<gateVars, operator, faults, resets>>, Reaps
    PROVE IInv'
  <1> USE ResetAssumption
  <1>0. TypeOK BY DEF IInv
  <1>1. runner # "idle" /\ child \in Exited /\ runner' = "draining" /\ UNCHANGED <<app, requests,
      data, job, child, cancelling, commands, op, mem, flock, call, task, audit, faults, resets>>
    BY <1>0 DEF Reaps, Exited, vars, gateVars, commandVars, operator
  <1>2. TypeOK' BY <1>0, <1>1 DEF IInv, TypeOK
  <1>3. GateInv' BY <1>0, <1>1 DEF IInv, GateInv, App
  <1>4. CallInv' BY <1>0, <1>1 DEF IInv, CallInv, LockIsHeldForWork, Busy, App, Memory, Call, Task
  <1>5. CommandInv' BY <1>0, <1>1 DEF IInv, CommandInv, EndedCommandIsGone, Busy, Exited, Command
  <1>6. ExclusionInv' BY <1>0, <1>1 DEF IInv, ExclusionInv, CallInv, Busy, Memory, Call, Task,
      Command
  <1>7. HoldInv' BY <1>0, <1>1 DEF IInv, HoldInv, TypeOK, ConfirmedHoldIsRecorded, Held, CallInv,
      GateInv, App, Memory, Audit, Call, Task, Lease
  <1>8. StageInv' BY <1>0, <1>1 DEF IInv, StageInv, TypeOK, At, CallInv, GateInv, HoldInv, Held,
      App, Data, Memory, Call, Task
  <1> QED BY <1>2, <1>3, <1>4, <1>5, <1>6, <1>7, <1>8 DEF IInv

LEMMA ChildExitsInv == ASSUME IInv, op # "down", UNCHANGED <<gateVars, operator, faults, resets>>,
    ChildExits PROVE IInv'
  <1> USE ResetAssumption
  <1>0. TypeOK BY DEF IInv
  <1>1. child \in {"alive", "signalled"} /\ child' \in Exited /\ UNCHANGED <<app, requests, data,
      job, runner, cancelling, commands, op, mem, flock, call, task, audit, faults, resets>>
    BY <1>0 DEF ChildExits, Exited, vars, gateVars, commandVars, operator
  <1>2. TypeOK' BY <1>0, <1>1 DEF IInv, TypeOK
  <1>3. GateInv' BY <1>0, <1>1 DEF IInv, GateInv, App
  <1>4. CallInv' BY <1>0, <1>1 DEF IInv, CallInv, LockIsHeldForWork, Busy, App, Memory, Call, Task
  <1>5. CommandInv' BY <1>0, <1>1 DEF IInv, CommandInv, EndedCommandIsGone, Busy, Exited, Command
  <1>6. ExclusionInv' BY <1>0, <1>1 DEF IInv, ExclusionInv, CallInv, Busy, Memory, Call, Task,
      Command
  <1>7. HoldInv' BY <1>0, <1>1 DEF IInv, HoldInv, TypeOK, ConfirmedHoldIsRecorded, Held, CallInv,
      GateInv, App, Memory, Audit, Call, Task, Lease
  <1>8. StageInv' BY <1>0, <1>1 DEF IInv, StageInv, TypeOK, At, CallInv, GateInv, HoldInv, Held,
      App, Data, Memory, Call, Task
  <1> QED BY <1>2, <1>3, <1>4, <1>5, <1>6, <1>7, <1>8 DEF IInv

LEMMA SettlesInv == ASSUME IInv, op # "down", UNCHANGED <<gateVars, operator, faults, resets>>,
    Settles PROVE IInv'
  <1> USE ResetAssumption
  <1>0. TypeOK BY DEF IInv
  <1>1. job' = [status |-> IF job.reason # "none" THEN job.reason ELSE child, process |->
      job.process, reason |-> job.reason]
    BY <1>0, Zenon DEF TypeOK, Command, Settles, Exited
  <1>2. runner = "draining" /\ runner' = "idle" /\ UNCHANGED <<app, requests, data, child,
      cancelling, commands, op, mem, flock, call, task, audit, faults, resets>>
    BY <1>0 DEF Settles, Exited, vars, gateVars, commandVars, operator
  <1>3. job' \in Command BY <1>0, <1>1, <1>2 DEF IInv, TypeOK, Command, Exited, CommandInv
  <1>4. TypeOK' BY <1>0, <1>1, <1>3, <1>2 DEF IInv, TypeOK
  <1>5. GateInv' BY <1>0, <1>2 DEF IInv, GateInv, App
  <1>6. CallInv' BY <1>0, <1>1, <1>2 DEF IInv, CallInv, LockIsHeldForWork, Busy, App, Memory, Call,
      Task
  <1>7. CommandInv' BY <1>0, <1>1, <1>2 DEF IInv, CommandInv, EndedCommandIsGone, Busy, Exited,
      Command, TypeOK
  <1>8. ExclusionInv' BY <1>0, <1>1, <1>2 DEF IInv, ExclusionInv, CallInv, Busy, Memory, Call, Task,
      Command, TypeOK, Exited, CommandInv
  <1>9. HoldInv' BY <1>0, <1>2 DEF IInv, HoldInv, TypeOK, ConfirmedHoldIsRecorded, Held, CallInv,
      GateInv, App, Memory, Audit, Call, Task, Lease
  <1>10. StageInv' BY <1>0, <1>2 DEF IInv, StageInv, TypeOK, At, CallInv, GateInv, HoldInv, Held,
      App, Data, Memory, Call, Task
  <1> QED BY <1>4, <1>5, <1>6, <1>7, <1>8, <1>9, <1>10 DEF IInv

LEMMA CancelInv == ASSUME IInv, op # "down", UNCHANGED <<gateVars, operator, faults, resets>>,
    Cancel PROVE IInv'
  <1> USE ResetAssumption
  <1>0. TypeOK BY DEF IInv
  <1>1. job' = [status |-> job.status, process |-> job.process, reason |-> "cancelled"]
    BY <1>0, Zenon DEF TypeOK, Command, Cancel, Signalled, Busy
  <1>2. Busy /\ child' = (IF child = "alive" THEN "signalled" ELSE child) /\ cancelling' = TRUE /\
      UNCHANGED <<app, requests, data, runner, commands, op, mem, flock, call, task, audit, faults,
      resets>>
    BY <1>0 DEF Cancel, Signalled, Busy, vars, gateVars, commandVars, operator
  <1>3. job' \in Command BY <1>0, <1>1, <1>2 DEF IInv, TypeOK, Command, Exited
  <1>4. TypeOK' BY <1>0, <1>1, <1>3, <1>2 DEF IInv, TypeOK
  <1>5. GateInv' BY <1>0, <1>2 DEF IInv, GateInv, App
  <1>6. CallInv' BY <1>0, <1>1, <1>2 DEF IInv, CallInv, LockIsHeldForWork, Busy, App, Memory, Call,
      Task
  <1>7. CommandInv' BY <1>0, <1>1, <1>2 DEF IInv, CommandInv, EndedCommandIsGone, Busy, Exited,
      Command
  <1>8. ExclusionInv' BY <1>0, <1>1, <1>2 DEF IInv, ExclusionInv, CallInv, Busy, Memory, Call, Task,
      Command
  <1>9. HoldInv' BY <1>0, <1>2 DEF IInv, HoldInv, TypeOK, ConfirmedHoldIsRecorded, Held, CallInv,
      GateInv, App, Memory, Audit, Call, Task, Lease
  <1>10. StageInv' BY <1>0, <1>2 DEF IInv, StageInv, TypeOK, At, CallInv, GateInv, HoldInv, Held,
      App, Data, Memory, Call, Task
  <1> QED BY <1>4, <1>5, <1>6, <1>7, <1>8, <1>9, <1>10 DEF IInv

LEMMA CancelReturnsInv == ASSUME IInv, op # "down", UNCHANGED <<gateVars, operator, faults,
    resets>>, CancelReturns PROVE IInv'
  <1> USE ResetAssumption
  <1>0. TypeOK BY DEF IInv
  <1>1. cancelling' = FALSE /\ UNCHANGED <<app, requests, data, job, child, runner, commands, op,
      mem, flock, call, task, audit, faults, resets>>
    BY <1>0 DEF CancelReturns, vars, gateVars, commandVars, operator
  <1>2. TypeOK' BY <1>0, <1>1 DEF IInv, TypeOK
  <1>3. GateInv' BY <1>0, <1>1 DEF IInv, GateInv, App
  <1>4. CallInv' BY <1>0, <1>1 DEF IInv, CallInv, LockIsHeldForWork, Busy, App, Memory, Call, Task
  <1>5. CommandInv' BY <1>0, <1>1 DEF IInv, CommandInv, EndedCommandIsGone, Busy, Exited, Command
  <1>6. ExclusionInv' BY <1>0, <1>1 DEF IInv, ExclusionInv, CallInv, Busy, Memory, Call, Task,
      Command
  <1>7. HoldInv' BY <1>0, <1>1 DEF IInv, HoldInv, TypeOK, ConfirmedHoldIsRecorded, Held, CallInv,
      GateInv, App, Memory, Audit, Call, Task, Lease
  <1>8. StageInv' BY <1>0, <1>1 DEF IInv, StageInv, TypeOK, At, CallInv, GateInv, HoldInv, Held,
      App, Data, Memory, Call, Task
  <1> QED BY <1>2, <1>3, <1>4, <1>5, <1>6, <1>7, <1>8 DEF IInv

LEMMA StartedInv == ASSUME IInv, Started PROVE IInv'
  <1> USE ResetAssumption
  <1>0. TypeOK BY DEF IInv
  <1> DEFINE m == [mem EXCEPT !.preview = None, !.status = "running"]
  <1>1. call' = [kind |-> "none", step |-> 0, rows |-> 0]
        /\ UNCHANGED <<app, requests, data, job, child, runner, cancelling, commands, op>>
    BY DEF Started, Answer, NoCall, gateVars, commandVars
  <1>2. call.kind = "start" /\ call.step = 2 /\ data.up /\ GateAllows
    BY DEF Started, Passes
  <1>3. app.running /\ mem.lease = None /\ task.at = "idle" /\ flock /\ ~Busy /\ ~mem.stopped
        /\ op = "up" /\ app.lease = None
    BY <1>0, <1>2 DEF IInv, TypeOK, CallInv, ExclusionInv, LockIsHeldForWork, GateAllows, Call
  <1>4. Target(call) \in [rows : Nat, instance : Nat] /\ Target(call).instance = app.instance
    BY <1>0, <1>3 DEF TypeOK, Target, App, Call
  <1>5. CASE /\ mem' = m /\ audit' = Recorded(m) /\ NoFault
             /\ task' = [NoTask EXCEPT !.at = "preparing", !.target = Target(call)]
             /\ resets' = resets + 1 /\ UNCHANGED flock
    <2>1. mem' = [preview |-> None, lease |-> mem.lease, instance |-> mem.instance,
                  stopped |-> mem.stopped, status |-> "running"]
      BY <1>0, <1>5, Zenon DEF TypeOK, Memory
    <2> HIDE DEF m
    <2>2. audit' = [status |-> mem'.status, lease |-> mem'.lease, instance |-> mem'.instance]
      BY <1>5 DEF Recorded
    <2>3. mem' \in Memory BY <1>0, <2>1 DEF TypeOK, Memory, Status
    <2>4. audit' \in Audit BY <2>3, <2>2 DEF Memory, Audit
    <2>a. NoTask \in Task BY DEF NoTask, Task, Stage
    <2>b. task' = [at |-> "preparing", step |-> NoTask.step, rows |-> NoTask.rows,
                   target |-> Target(call)]
      BY <1>5, <2>a, Zenon DEF Task
    <2>5. task' \in Task /\ task'.at = "preparing" /\ task'.target = Target(call)
      BY <1>4, <2>a, <2>b DEF Task, Stage, Seen
    <2>6. call' \in Call BY <1>1 DEF Call
    <2>7. TypeOK' BY <1>0, <1>1, <1>5, <2>3, <2>4, <2>5, <2>6 DEF TypeOK, NoFault
    <2>8. GateInv' BY <1>1 DEF IInv, GateInv
    <2>9. CallInv' BY <1>1, <1>3, <1>5, <2>1, <2>5 DEF IInv, CallInv, LockIsHeldForWork, Busy
    <2>10. CommandInv' BY <1>1 DEF IInv, CommandInv, EndedCommandIsGone, Busy
    <2>11. ExclusionInv' BY <1>1, <1>3, <1>5, <2>1, <2>5 DEF ExclusionInv, Busy
    <2>12. HoldInv' BY <1>1, <1>3, <1>5, <2>1, <2>2, <2>5
        DEF IInv, HoldInv, ConfirmedHoldIsRecorded, Held
    <2>13. StageInv' BY <1>0, <1>1, <1>3, <1>4, <1>5, <2>1, <2>5 DEF TypeOK, App, StageInv, At
    <2> QED BY <2>7, <2>8, <2>9, <2>10, <2>11, <2>12, <2>13 DEF IInv
  <1>6. CASE /\ mem' = [m EXCEPT !.status = "failed"] /\ flock' = FALSE /\ Fault
             /\ UNCHANGED <<audit, task, resets>>
    <2>1. mem' = [preview |-> None, lease |-> mem.lease, instance |-> mem.instance,
                  stopped |-> mem.stopped, status |-> "failed"]
      BY <1>0, <1>6, Zenon DEF TypeOK, Memory
    <2> HIDE DEF m
    <2>3. mem' \in Memory BY <1>0, <2>1 DEF TypeOK, Memory, Status
    <2>6. call' \in Call BY <1>1 DEF Call
    <2>4. faults' \in Nat BY <1>0, <1>6 DEF TypeOK, Fault
    <2>5. flock' = FALSE /\ UNCHANGED <<audit, task, resets>> BY <1>6
    <2>7. TypeOK' BY <1>0, <1>1, <2>3, <2>4, <2>5, <2>6 DEF TypeOK
    <2>8. GateInv' BY <1>1 DEF IInv, GateInv
    <2>9. CallInv' BY <1>1, <1>3, <1>6, <2>1 DEF IInv, CallInv, LockIsHeldForWork, Busy
    <2>10. CommandInv' BY <1>1 DEF IInv, CommandInv, EndedCommandIsGone, Busy
    <2>11. ExclusionInv' BY <1>1, <1>3, <1>6, <2>1 DEF ExclusionInv, Busy
    <2>12. HoldInv' BY <1>1, <1>3, <1>6, <2>1 DEF IInv, HoldInv, ConfirmedHoldIsRecorded, Held
    <2>13. StageInv' BY <1>1, <1>3, <1>6, <2>1 DEF IInv, CallInv, StageInv, At
    <2> QED BY <2>7, <2>8, <2>9, <2>10, <2>11, <2>12, <2>13 DEF IInv
  <1> QED BY <1>5, <1>6 DEF Started

\* Whatever a command that was given up has done, the application is in order, and only a
\* reset that is taking its hold may have taken it.
LEMMA PartialEffect ==
    ASSUME IInv, Partial \/ UNCHANGED gateVars
    PROVE  /\ app' \in App /\ data' \in Data
           /\ requests' \in [Request -> {"none", "handled", "streamed"}]
           /\ GateInv'
           /\ app.instance <= app'.instance
           /\ Held' => \/ Held /\ app'.lease = app.lease /\ app'.instance = app.instance
                       \/ task.at = "holding" /\ app'.lease = mem.lease
                             /\ app'.instance = app.instance
  <1> USE ResetAssumption
  <1>0. TypeOK /\ app \in App /\ data \in Data BY DEF IInv, TypeOK
  <1>1. CASE UNCHANGED gateVars
    BY <1>0, <1>1 DEF TypeOK, IInv, gateVars, GateInv, Held, App
  <1>2. CASE /\ At("holding") /\ app' = [app EXCEPT !.lease = mem.lease]
             /\ Grants(mem.lease) /\ UNCHANGED <<requests, data>>
    <2>1. app' = [running |-> app.running, instance |-> app.instance, lease |-> mem.lease,
                  active |-> app.active]
      BY <1>0, <1>2, Zenon DEF App
    <2>2. app.running BY <1>2 DEF Grants
    <2> QED BY <1>0, <1>2, <2>1, <2>2 DEF TypeOK, App, Memory, IInv, GateInv, At, Held
  <1>3. CASE app' = Stopped(app) /\ requests' = Quiet /\ UNCHANGED data
    <2>1. app' = [running |-> FALSE, instance |-> app.instance, lease |-> None, active |-> 0]
      BY <1>0, <1>3, Zenon DEF App, Stopped
    <2>2. app' \in App BY <1>0, <2>1 DEF App
    <2>3. GateInv' BY <1>3, <2>1, NoneActive DEF GateInv
    <2> QED BY <1>0, <1>3, <2>1, <2>2, <2>3 DEF TypeOK, App, Quiet, Held
  <1>4. CASE /\ \/ data' = [data EXCEPT !.up = FALSE]
                \/ data' = [data EXCEPT !.up = FALSE, !.rows = 0, !.working = FALSE]
                \/ data' = [data EXCEPT !.up = TRUE]
             /\ UNCHANGED <<app, requests>>
    <2>1. \E u, w \in BOOLEAN, n \in Nat : data' = [up |-> u, rows |-> n, working |-> w]
      <3>1. CASE data' = [data EXCEPT !.up = FALSE]
        <4>1. data' = [up |-> FALSE, rows |-> data.rows, working |-> data.working]
          BY <1>0, <3>1, Zenon DEF Data
        <4> QED BY <1>0, <4>1 DEF Data
      <3>2. CASE data' = [data EXCEPT !.up = FALSE, !.rows = 0, !.working = FALSE]
        <4>1. data' = [up |-> FALSE, rows |-> 0, working |-> FALSE]
          BY <1>0, <3>2 DEF Data
        <4> QED BY <4>1
      <3>3. CASE data' = [data EXCEPT !.up = TRUE]
        <4>1. data' = [up |-> TRUE, rows |-> data.rows, working |-> data.working]
          BY <1>0, <3>3, Zenon DEF Data
        <4> QED BY <1>0, <4>1 DEF Data
      <3> QED BY <1>4, <3>1, <3>2, <3>3
    <2>2. data' \in Data BY <2>1 DEF Data
    <2> QED BY <1>0, <1>4, <2>2 DEF TypeOK, App, IInv, GateInv, Held
  <1>5. CASE At("restarting") /\ app' = Fresh(app) /\ UNCHANGED <<requests, data>>
    <2>1. requests = Quiet BY <1>5 DEF IInv, StageInv, GateInv, At
    <2>2. app' \in App /\ app.instance <= app'.instance /\ ~Held'
      BY <1>0, <1>5 DEF App, Fresh, Held
    <2>3. GateInv' BY <1>5, <2>1, NoneActive DEF GateInv, Fresh
    <2> QED BY <1>0, <1>5, <2>2, <2>3 DEF TypeOK
  <1>6. CASE app' = [app EXCEPT !.lease = None] /\ UNCHANGED <<requests, data>>
    <2>1. app' = [running |-> app.running, instance |-> app.instance, lease |-> None,
                  active |-> app.active]
      BY <1>0, <1>6, Zenon DEF App
    <2> QED BY <1>0, <1>6, <2>1 DEF TypeOK, App, IInv, GateInv, Held
  <1> QED BY <1>1, <1>2, <1>3, <1>4, <1>5, <1>6 DEF Partial

\* A reset that is over records what it leaves.
LEMMA Ending ==
    ASSUME NEW m \in Memory, Ends(m)
    PROVE  /\ mem'.preview = m.preview /\ mem'.lease = m.lease /\ mem'.stopped = FALSE
           /\ mem'.instance = (IF m.lease = None THEN None ELSE m.instance)
           /\ mem' \in Memory /\ audit' \in Audit /\ task' \in Task
           /\ audit'.lease = m.lease /\ audit'.instance = m.instance
           /\ task'.at = "idle" /\ flock' = FALSE
  <1>1. mem' = [preview |-> m.preview, lease |-> m.lease,
                instance |-> IF m.lease = None THEN None ELSE m.instance,
                stopped |-> FALSE, status |-> m.status]
    BY Zenon DEF Ends, Memory
  <1>2. mem' \in Memory BY <1>1 DEF Memory
  <1>3. audit' = [status |-> m.status, lease |-> m.lease, instance |-> m.instance]
        /\ task' = NoTask /\ flock' = FALSE
    BY DEF Ends, Recorded
  <1>4. audit' \in Audit BY <1>3 DEF Audit, Memory
  <1>5. task' \in Task /\ task'.at = "idle" BY <1>3 DEF NoTask, Task, Stage
  <1> QED BY <1>1, <1>2, <1>3, <1>4, <1>5

\* A reset that ends in the middle keeps the invariant, whatever became of its command.
LEMMA UnwindsInv ==
    ASSUME IInv, task.at \notin {"idle", "releasing"}, Partial \/ UNCHANGED gateVars,
           NEW s \in {"failed", "interrupted"}, Unwinds([mem EXCEPT !.status = s]),
           \/ UNCHANGED op
           \/ op = "up" /\ op' = "closing",
           UNCHANGED <<commandVars, call, resets>>, faults' \in Nat
    PROVE  IInv'
  <1> USE ResetAssumption
  <1>0. TypeOK BY DEF IInv
  <1> DEFINE m == [mem EXCEPT !.status = s]
  <1>1. m \in Memory /\ m.preview = mem.preview /\ m.lease = mem.lease /\ m.instance = mem.instance
        /\ m.status = s
    BY <1>0 DEF TypeOK, Memory, Status
  <1>2. /\ app' \in App /\ data' \in Data /\ GateInv' /\ app.instance <= app'.instance
        /\ requests' \in [Request -> {"none", "handled", "streamed"}]
        /\ Held' => \/ Held /\ app'.lease = app.lease /\ app'.instance = app.instance
                    \/ task.at = "holding" /\ app'.lease = mem.lease
                       /\ app'.instance = app.instance
    BY PartialEffect
  <1>3. /\ op # "down" /\ op' # "down" /\ mem.preview = None /\ call.kind = "none"
        /\ flock /\ UNCHANGED <<job, child, runner, cancelling, commands>>
    BY <1>0 DEF IInv, TypeOK, CallInv, LockIsHeldForWork, commandVars
  <1>4. CommandInv' BY <1>3 DEF IInv, CommandInv, EndedCommandIsGone, Busy
  <1>5. CASE mem.lease = None
    <2>1. Ends(m) BY <1>1, <1>5 DEF Unwinds
    <2> HIDE DEF m
    <2>2. /\ mem'.preview = None /\ mem'.lease = None /\ ~mem'.stopped /\ mem' \in Memory
          /\ audit'.lease = None /\ audit' \in Audit /\ task' \in Task
          /\ task'.at = "idle" /\ flock' = FALSE
      <3>1. /\ mem'.preview = m.preview /\ mem'.lease = m.lease /\ mem'.stopped = FALSE
            /\ mem' \in Memory /\ audit'.lease = m.lease /\ audit' \in Audit /\ task' \in Task
            /\ task'.at = "idle" /\ flock' = FALSE
        BY <1>1, <2>1, Ending
      <3> QED BY <1>1, <1>3, <1>5, <3>1
    <2>3. TypeOK' BY <1>0, <1>2, <1>3, <2>2 DEF TypeOK
    <2>4. CallInv' BY <1>3, <2>2 DEF CallInv, LockIsHeldForWork
    <2>5. ExclusionInv' BY <1>3, <2>2 DEF ExclusionInv
    <2>6. ~Held' BY <1>2, <1>3, <1>5 DEF IInv, HoldInv, Held
    <2>7. HoldInv' BY <1>3, <2>2, <2>6 DEF HoldInv, ConfirmedHoldIsRecorded, Held
    <2>8. StageInv' BY <2>2 DEF StageInv, At
    <2> QED BY <1>2, <1>4, <2>3, <2>4, <2>5, <2>7, <2>8 DEF IInv
  <1>6. CASE mem.lease # None
    <2>1. mem' = m /\ Goes("releasing") /\ UNCHANGED <<flock, audit>>
      BY <1>1, <1>6 DEF Unwinds
    <2>2. task' = [at |-> "releasing", step |-> 0, rows |-> 0, target |-> task.target]
      BY <1>0, <2>1, Zenon DEF TypeOK, Task, Goes
    <2>3. task' \in Task /\ task'.at = "releasing" /\ task'.target = task.target
      BY <1>0, <2>2 DEF TypeOK, Task, Stage
    <2>4. ~mem.stopped /\ m.stopped = mem.stopped BY <1>0, <1>6 DEF IInv, CallInv, TypeOK, Memory
    <2> HIDE DEF m
    <2>5. TypeOK' BY <1>0, <1>1, <1>2, <1>3, <2>1, <2>3 DEF TypeOK
    <2>6. CallInv' BY <1>1, <1>3, <2>1, <2>3, <2>4 DEF CallInv, LockIsHeldForWork
    <2>7. ExclusionInv' BY <1>3, <2>3 DEF ExclusionInv
    <2>8. HoldInv' BY <1>1, <1>2, <1>3, <1>6, <2>1, <2>3
        DEF IInv, HoldInv, ConfirmedHoldIsRecorded, Held
    <2>9. StageInv'
      <3>1. task.target \in [rows : Nat, instance : Nat] /\ task.target.instance <= app.instance
        BY DEF IInv, StageInv
      <3>2. task.target.instance <= app'.instance BY <1>0, <1>2, <3>1 DEF TypeOK, App
      <3> QED BY <2>3, <3>1, <3>2 DEF StageInv, At
    <2> QED BY <1>2, <1>4, <2>5, <2>6, <2>7, <2>8, <2>9 DEF IInv
  <1> QED BY <1>5, <1>6

LEMMA HoldsInv == ASSUME IInv, Holds PROVE IInv'
  <1> USE ResetAssumption
  <1>0. TypeOK BY DEF IInv
  <1>1. task.at = "holding" /\ UNCHANGED <<requests, data, commandVars, op, call, faults, resets>>
    BY DEF Holds, At
  <1>2. CASE ~Grants(mem.lease)
    <2>1. UNCHANGED app /\ Fails BY <1>2 DEF Holds
    <2> QED BY <1>0, <1>1, <2>1, UnwindsInv DEF Fails, TypeOK, gateVars
  <1>3. CASE Grants(mem.lease)
    <2>1. app' = [app EXCEPT !.lease = mem.lease] BY <1>3 DEF Holds
    <2>2. CASE app.instance # task.target.instance
      <3>1. Fails BY <1>3, <2>2 DEF Holds
      <3>2. Partial BY <1>1, <1>3, <2>1 DEF Partial, At
      <3> QED BY <1>0, <1>1, <3>1, <3>2, UnwindsInv DEF Fails, TypeOK
    <2>3. CASE app.instance = task.target.instance
      <3>1. Goes("confirming") /\ UNCHANGED <<mem, flock, audit>> BY <1>3, <2>3 DEF Holds
      <3>2. task' = [at |-> "confirming", step |-> 0, rows |-> 0, target |-> task.target]
        BY <1>0, <3>1, Zenon DEF TypeOK, Task, Goes
      <3>3. app' = [running |-> app.running, instance |-> app.instance, lease |-> mem.lease,
                    active |-> app.active]
        BY <1>0, <2>1, Zenon DEF TypeOK, App
      <3>4. app.running BY <1>3 DEF Grants
      <3>5. task' \in Task /\ app' \in App
        BY <1>0, <3>2, <3>3 DEF TypeOK, Task, Stage, App, Memory
      <3>6. TypeOK' BY <1>0, <1>1, <3>1, <3>5 DEF TypeOK, commandVars
      <3>7. GateInv' BY <1>1, <3>3, <3>4 DEF IInv, GateInv
      <3>8. CallInv' BY <1>1, <3>1, <3>2 DEF IInv, CallInv, LockIsHeldForWork, Busy, commandVars
      <3>9. CommandInv' BY <1>1 DEF IInv, CommandInv, EndedCommandIsGone, Busy, commandVars
      <3>10. ExclusionInv' BY <1>1, <3>1, <3>2 DEF IInv, ExclusionInv, Busy, commandVars
      <3>11. HoldInv'
        <4>1. /\ op # "down" /\ mem.lease # None /\ mem.instance = task.target.instance
              /\ call.kind = "none"
          BY <1>1 DEF IInv, HoldInv, CallInv
        <4> QED BY <1>1, <2>3, <3>1, <3>2, <3>3, <4>1
                DEF IInv, HoldInv, ConfirmedHoldIsRecorded, Held
      <3>12. StageInv' BY <1>1, <3>1, <3>2, <3>3 DEF IInv, StageInv, At
      <3> QED BY <3>6, <3>7, <3>8, <3>9, <3>10, <3>11, <3>12 DEF IInv
    <2> QED BY <2>2, <2>3
  <1> QED BY <1>2, <1>3

LEMMA TaskRefusesInv == ASSUME IInv, TaskRefuses PROVE IInv'
  <1>1. /\ task.at \in {"confirming", "checking", "recreated", "finishing"} /\ Fails
        /\ UNCHANGED <<gateVars, commandVars, op, call, faults, resets>>
    BY DEF TaskRefuses
  <1>2. faults' \in Nat BY <1>1 DEF IInv, TypeOK
  <1> QED BY <1>1, <1>2, UnwindsInv DEF Fails

\* The end of a reset whose hold was given back, or could not be.
LEMMA EndsInv ==
    ASSUME IInv, task.at \notin {"idle"}, ~mem.stopped, call.kind = "none",
           NEW m \in Memory, m.preview = None,
           \/ m.lease = mem.lease /\ m.instance = mem.instance
           \/ m.lease = None /\ ~Held',
           Ends(m), app' \in App, data' \in Data, GateInv',
           requests' \in [Request -> {"none", "handled", "streamed"}],
           Held' => Held /\ app'.lease = app.lease /\ app'.instance = app.instance,
           UNCHANGED <<commandVars, op, call, resets>>, faults' \in Nat
    PROVE  IInv'
  <1>0. TypeOK /\ op # "down" /\ call.kind = "none" BY DEF IInv, CallInv
  <1>1. UNCHANGED <<job, child, runner, cancelling, commands>> BY DEF commandVars
  <1>2. /\ mem'.preview = None /\ mem'.lease = m.lease /\ mem'.stopped = FALSE
        /\ mem'.instance = (IF m.lease = None THEN None ELSE m.instance)
        /\ mem' \in Memory /\ audit' \in Audit /\ task' \in Task
        /\ audit'.lease = m.lease /\ audit'.instance = m.instance
        /\ task'.at = "idle" /\ flock' = FALSE
    BY Ending
  <1>3. TypeOK' BY <1>0, <1>1, <1>2 DEF TypeOK
  <1>4. CallInv' BY <1>0, <1>2 DEF CallInv, LockIsHeldForWork
  <1>5. CommandInv' BY <1>1 DEF IInv, CommandInv, EndedCommandIsGone, Busy
  <1>6. ExclusionInv' BY <1>0, <1>2 DEF ExclusionInv
  <1>7. HoldInv' BY <1>0, <1>2 DEF IInv, HoldInv, ConfirmedHoldIsRecorded, Held
  <1>8. StageInv' BY <1>2 DEF StageInv, At
  <1> QED BY <1>3, <1>4, <1>5, <1>6, <1>7, <1>8 DEF IInv

LEMMA GivesBackInv == ASSUME IInv, GivesBack PROVE IInv'
  <1>0. TypeOK /\ task.at = "releasing" /\ mem \in Memory BY DEF IInv, TypeOK, GivesBack, At
  <1>1. /\ ~mem.stopped /\ call.kind = "none" /\ mem.preview = None /\ faults' \in Nat
        /\ UNCHANGED <<requests, data, commandVars, op, call, faults, resets>>
    BY <1>0 DEF IInv, CallInv, TypeOK, GivesBack
  <1>2. CASE Releases(mem.lease)
    <2>1. app' = [app EXCEPT !.lease = None] /\ Ends(Forgotten(mem)) BY <1>2 DEF GivesBack
    <2>2. app' = [running |-> app.running, instance |-> app.instance, lease |-> None,
                  active |-> app.active]
      BY <1>0, <2>1, Zenon DEF TypeOK, App
    <2> DEFINE m == Forgotten(mem)
    <2>a. ASSUME NEW x, x = m
          PROVE  x = [preview |-> mem.preview, lease |-> None, instance |-> None,
                      stopped |-> mem.stopped, status |-> mem.status]
      BY <1>0, <2>a, Zenon DEF Forgotten, Memory
    <2>4. Ends(m) BY <2>1
    <2> HIDE DEF m
    <2>3. m = [preview |-> mem.preview, lease |-> None, instance |-> None,
               stopped |-> mem.stopped, status |-> mem.status]
      BY <2>a
    <2>5. m \in Memory /\ m.preview = None /\ m.lease = None BY <1>0, <1>1, <2>3 DEF Memory
    <2>6. app' \in App /\ GateInv' /\ ~Held'
      BY <1>0, <1>1, <2>2 DEF IInv, TypeOK, App, GateInv, Held
    <2>7. data' \in Data /\ requests' \in [Request -> {"none", "handled", "streamed"}]
      BY <1>0, <1>1 DEF TypeOK
    <2> QED BY <1>0, <1>1, <2>4, <2>5, <2>6, <2>7, EndsInv
  <1>3. CASE ~Releases(mem.lease)
    <2>1. Ends(mem) /\ UNCHANGED app BY <1>3 DEF GivesBack
    <2>2. /\ app' \in App /\ data' \in Data /\ GateInv' /\ (Held' <=> Held)
          /\ requests' \in [Request -> {"none", "handled", "streamed"}]
      BY <1>0, <1>1, <2>1 DEF IInv, TypeOK, GateInv, Held
    <2> QED BY <1>0, <1>1, <2>1, <2>2, EndsInv DEF Held
  <1> QED BY <1>2, <1>3

LEMMA CommandFailsInv == ASSUME IInv, CommandFails PROVE IInv'
  <1> USE ResetAssumption
  <1>0. TypeOK BY DEF IInv
  <1>1. /\ task.at # "idle" /\ Partial /\ faults' \in Nat
        /\ UNCHANGED <<commandVars, op, call, resets>>
    BY <1>0 DEF CommandFails, Fault, TypeOK
  <1>2. CASE task.at = "releasing"
    <2>1. Ends(mem) BY <1>2 DEF CommandFails, At
    <2>2. /\ mem \in Memory /\ ~mem.stopped /\ call.kind = "none" /\ mem.preview = None
      BY <1>0, <1>1, <1>2 DEF IInv, CallInv, TypeOK
    <2>3. /\ app' \in App /\ data' \in Data /\ GateInv'
          /\ requests' \in [Request -> {"none", "handled", "streamed"}]
          /\ Held' => Held /\ app'.lease = app.lease /\ app'.instance = app.instance
      BY <1>1, <1>2, PartialEffect
    <2> QED BY <1>1, <2>1, <2>2, <2>3, EndsInv
  <1>3. CASE task.at # "releasing"
    <2>1. Fails BY <1>3 DEF CommandFails, At
    <2> QED BY <1>1, <1>3, <2>1, UnwindsInv DEF Fails
  <1> QED BY <1>2, <1>3

LEMMA CloseInv == ASSUME IInv, Close PROVE IInv'
  <1> USE ResetAssumption
  <1>0. TypeOK BY DEF IInv
  <1>1. /\ op = "up" /\ op' = "closing" /\ call.kind = "none" /\ faults' \in Nat
        /\ UNCHANGED <<commandVars, call, resets>>
    BY <1>0 DEF Close, Free, Fault, TypeOK
  <1>2. CommandInv' BY <1>1 DEF IInv, CommandInv, EndedCommandIsGone, Busy, commandVars
  <1>3. CASE task.at = "idle"
    <2>1. UNCHANGED <<gateVars, mem, flock, task, audit>> BY <1>3 DEF Close, At
    <2>2. TypeOK' BY <1>0, <1>1, <2>1 DEF TypeOK, gateVars, commandVars
    <2>3. GateInv' BY <2>1 DEF IInv, GateInv, gateVars
    <2>4. CallInv' BY <1>1, <2>1 DEF IInv, CallInv, LockIsHeldForWork, Busy, commandVars
    <2>5. ExclusionInv' BY <1>1, <2>1 DEF IInv, ExclusionInv, Busy, commandVars
    <2>6. HoldInv' BY <1>1, <2>1 DEF IInv, HoldInv, ConfirmedHoldIsRecorded, Held, gateVars
    <2>7. StageInv' BY <2>1 DEF IInv, StageInv, At, gateVars
    <2> QED BY <1>2, <2>2, <2>3, <2>4, <2>5, <2>6, <2>7 DEF IInv
  <1>4. CASE task.at \notin {"idle", "releasing"}
    <2>1. Partial /\ Unwinds([mem EXCEPT !.status = "interrupted"]) BY <1>4 DEF Close, At
    <2> QED BY <1>1, <1>4, <2>1, UnwindsInv
  <1>5. CASE task.at = "releasing"
    <2> DEFINE m == [mem EXCEPT !.status = "interrupted"]
    <2>1. /\ Partial /\ mem' = m /\ audit' = Recorded(m) /\ flock' = FALSE /\ task' = NoTask
      BY <1>5 DEF Close, At
    <2>2. m \in Memory /\ m.preview = mem.preview /\ m.lease = mem.lease
          /\ m.instance = mem.instance /\ m.stopped = mem.stopped
      BY <1>0 DEF TypeOK, Memory, Status
    <2> HIDE DEF m
    <2>3. /\ mem.preview = None /\ ~mem.stopped /\ mem.lease.for = mem.instance
      BY <1>5 DEF IInv, CallInv, HoldInv
    <2>4. audit' \in Audit /\ audit'.lease = m.lease /\ audit'.instance = m.instance
      BY <2>1, <2>2 DEF Recorded, Audit, Memory
    <2>5. task' \in Task /\ task'.at = "idle" BY <2>1 DEF NoTask, Task, Stage
    <2>6. /\ app' \in App /\ data' \in Data /\ GateInv'
          /\ requests' \in [Request -> {"none", "handled", "streamed"}]
          /\ Held' => Held /\ app'.lease = app.lease /\ app'.instance = app.instance
      BY <1>5, <2>1, PartialEffect
    <2>7. TypeOK' BY <1>0, <1>1, <2>1, <2>2, <2>4, <2>5, <2>6 DEF TypeOK, commandVars
    <2>8. CallInv' BY <1>1, <2>1, <2>2, <2>3, <2>5 DEF CallInv, LockIsHeldForWork
    <2>9. ExclusionInv' BY <1>1, <2>5 DEF ExclusionInv
    <2>10. HoldInv' BY <1>1, <2>1, <2>2, <2>3, <2>4, <2>5, <2>6
                    DEF IInv, HoldInv, ConfirmedHoldIsRecorded, Held
    <2>11. StageInv' BY <2>5 DEF StageInv, At
    <2> QED BY <1>2, <2>6, <2>7, <2>8, <2>9, <2>10, <2>11 DEF IInv
  <1> QED BY <1>3, <1>4, <1>5

\* A process that is gone leaves the audit, and the application as it may be.
LEMMA GoneInv ==
    ASSUME IInv, Gone, Partial \/ UNCHANGED gateVars, faults' \in Nat
    PROVE  IInv'
  <1>0. TypeOK BY DEF IInv
  <1>1. /\ op' = "down" /\ mem' = Blank /\ flock' = FALSE /\ call' = NoCall /\ task' = NoTask
        /\ job' = NoJob /\ child' = "none" /\ runner' = "idle" /\ cancelling' = FALSE
        /\ UNCHANGED <<audit, commands, resets>>
    BY DEF Gone
  <1>2. /\ app' \in App /\ data' \in Data /\ GateInv'
        /\ requests' \in [Request -> {"none", "handled", "streamed"}]
        /\ Held' => \/ Held /\ app'.lease = app.lease /\ app'.instance = app.instance
                    \/ task.at = "holding" /\ app'.lease = mem.lease
                       /\ app'.instance = app.instance
    BY PartialEffect
  <1>3. mem' \in Memory /\ mem'.lease = None /\ mem'.preview = None /\ ~mem'.stopped
    BY <1>1 DEF Blank, Memory, Status
  <1>4. call' \in Call /\ call'.kind = "none" BY <1>1 DEF NoCall, Call
  <1>5. task' \in Task /\ task'.at = "idle" BY <1>1 DEF NoTask, Task, Stage
  <1>6. job' \in Command /\ job'.status = "none" BY <1>1 DEF NoJob, Command
  <1>7. TypeOK' BY <1>0, <1>1, <1>2, <1>3, <1>4, <1>5, <1>6 DEF TypeOK
  <1>8. CallInv' BY <1>1, <1>3, <1>4, <1>5, <1>6 DEF CallInv, LockIsHeldForWork, Busy
  <1>9. CommandInv' BY <1>1, <1>6 DEF CommandInv, EndedCommandIsGone, Busy
  <1>10. ExclusionInv' BY <1>4, <1>5 DEF ExclusionInv
  <1>11. HoldInv'
    <2>1. task.at = "holding" =>
              op # "down" /\ mem.lease # None /\ mem.instance = task.target.instance
      BY DEF IInv, HoldInv, CallInv
    <2> QED BY <1>1, <1>2, <1>3, <1>4, <1>5, <2>1
            DEF IInv, HoldInv, ConfirmedHoldIsRecorded, Held
  <1>12. StageInv' BY <1>5, <1>3 DEF StageInv, At
  <1> QED BY <1>2, <1>7, <1>8, <1>9, <1>10, <1>11, <1>12 DEF IInv

LEMMA ExitsInv == ASSUME IInv, Exits PROVE IInv'
  <1>1. Gone /\ UNCHANGED gateVars /\ faults' \in Nat BY DEF Exits, NoFault, IInv, TypeOK
  <1> QED BY <1>1, GoneInv

LEMMA CrashInv == ASSUME IInv, Crash PROVE IInv'
  <1>1. Gone /\ Partial /\ faults' \in Nat
    BY ResetAssumption DEF Crash, Fault, IInv, TypeOK
  <1> QED BY <1>1, GoneInv

LEMMA TaskDecidesInv == ASSUME IInv, TaskDecides PROVE IInv'
  <1> USE ResetAssumption
  <1>0. TypeOK /\ mem \in Memory BY DEF IInv, TypeOK
  <1>1. /\ task.at \in {"confirming", "checking", "recreated", "finishing"}
        /\ task.step = 2 /\ GateAllows /\ Verdict
        /\ UNCHANGED <<gateVars, commandVars, op, call, faults, resets>>
    BY DEF TaskDecides, Passes
  <1>2. /\ UNCHANGED <<app, requests, data, job, child, runner, cancelling, commands>>
        /\ call.kind = "none" /\ op # "down" /\ mem.preview = None
    BY <1>1 DEF IInv, CallInv, gateVars, commandVars
  <1>3. CASE task.at = "finishing"
    <2> DEFINE m == [mem EXCEPT !.status = "succeeded"]
    <2>1. Ends(m) BY <1>3 DEF TaskDecides, At
    <2>2. m \in Memory /\ m.preview = mem.preview /\ m.lease = mem.lease
         /\ m.instance = mem.instance
      BY <1>0 DEF Memory, Status
    <2> HIDE DEF m
    <2>3. ~mem.stopped /\ task.at # "idle" BY <1>3 DEF IInv, CallInv
    <2>4. /\ app' \in App /\ data' \in Data /\ GateInv' /\ faults' \in Nat
          /\ requests' \in [Request -> {"none", "handled", "streamed"}]
          /\ Held' => Held /\ app'.lease = app.lease /\ app'.instance = app.instance
      BY <1>0, <1>1, <1>2 DEF IInv, TypeOK, GateInv, Held
    <2> QED BY <1>1, <1>2, <2>1, <2>2, <2>3, <2>4, EndsInv
  <1>4. CASE task.at # "finishing"
    <2>1. Goes(Successor[task.at]) /\ audit' = Recorded(mem) /\ UNCHANGED <<mem, flock>>
      BY <1>4 DEF TaskDecides, At
    <2> DEFINE next == Successor[task.at]
    <2>2. next = (CASE task.at = "confirming" -> "stopping" [] task.at = "checking" -> "removing"
                    [] OTHER -> "restarting")
      BY <1>1, <1>4 DEF Successor
    <2>3. task' = [at |-> next, step |-> 0, rows |-> 0, target |-> task.target]
      BY <1>0, <2>1, Zenon DEF TypeOK, Task, Goes
    <2> HIDE DEF next
    <2>4. task' \in Task /\ task'.at = next /\ task'.step = 0 /\ task'.target = task.target
          /\ next \in {"stopping", "removing", "restarting"}
      BY <1>0, <2>2, <2>3 DEF TypeOK, Task, Stage
    <2>5. audit' \in Audit /\ audit'.lease = mem.lease /\ audit'.instance = mem.instance
      BY <1>0, <2>1 DEF Recorded, Audit, Memory
    <2>6. TypeOK' BY <1>0, <1>1, <1>2, <2>1, <2>4, <2>5 DEF TypeOK
    <2>7. GateInv' BY <1>2 DEF IInv, GateInv
    <2>8. mem.stopped => task.at \in {"checking", "recreated"} BY <1>1 DEF IInv, CallInv
    <2>9. mem.stopped => next \in {"removing", "restarting"} BY <2>2, <2>8
    <2>10. CallInv' BY <1>1, <1>2, <2>1, <2>4, <2>9 DEF IInv, CallInv, LockIsHeldForWork
    <2>11. CommandInv' BY <1>2 DEF IInv, CommandInv, EndedCommandIsGone, Busy
    <2>12. ExclusionInv' BY <1>1, <1>2, <2>1, <2>4 DEF IInv, ExclusionInv, Busy
    <2>13. next = "stopping" => mem.lease # None
      BY <1>1, <1>4, <2>2 DEF IInv, HoldInv
    <2>14. HoldInv' BY <1>1, <1>2, <2>1, <2>4, <2>5, <2>13
                    DEF IInv, HoldInv, ConfirmedHoldIsRecorded, Held
    <2>15. StageInv'
      <3>1. /\ task.target \in [rows : Nat, instance : Nat]
            /\ task.target.instance <= app.instance
        BY <1>1 DEF IInv, StageInv
      <3>2. next \in {"removing", "restarting"} => mem.lease = None /\ ~app.running
        BY <1>1, <1>4, <2>2 DEF IInv, StageInv
      <3>3. next = "stopping" /\ app.running => app.lease # None /\ app.active = 0
        BY <1>1, <2>13 DEF GateAllows
      <3>4. next = "removing" => task.at = "checking" BY <1>1, <1>4, <2>2
      <3>5. next = "removing" => ~data.working /\ data.rows = task.target.rows
        <4>1. task.at = "checking" => task.rows = data.rows /\ ~data.working
          BY <1>1 DEF IInv, StageInv, At
        <4>2. task.at = "checking" => Target(task) = task.target BY <1>1 DEF Verdict, At
        <4>3. Target(task).rows = task.rows BY DEF Target
        <4> QED BY <3>4, <4>1, <4>2, <4>3
      <3> QED BY <1>2, <2>1, <2>4, <3>1, <3>2, <3>3, <3>5 DEF StageInv, At
    <2> QED BY <2>6, <2>7, <2>10, <2>11, <2>12, <2>14, <2>15 DEF IInv
  <1> QED BY <1>3, <1>4

-----------------------------------------------------------------------------
(* The application: only a running, unheld worker counts up, and no stage relies on it. *)

\* What a step of the application may do without a reset noticing.
LEMMA Applied ==
    ASSUME IInv, UNCHANGED <<commandVars, operator, faults, resets>>,
           app' \in App, data' \in Data, requests' \in [Request -> {"none", "handled", "streamed"}],
           GateInv', app.running, UNCHANGED <<app.running, app.instance, app.lease>>,
           app.lease # None => app'.active <= app.active
    PROVE  IInv'
  <1>0. TypeOK BY DEF IInv
  <1>1. UNCHANGED <<job, child, runner, cancelling, commands, op, mem, flock, call, task, audit>>
    BY DEF commandVars, operator
  <1>2. app'.running = app.running /\ app'.instance = app.instance /\ app'.lease = app.lease
    OBVIOUS
  <1>3. TypeOK' BY <1>0, <1>1 DEF TypeOK
  <1>4. CallInv' BY <1>1 DEF IInv, CallInv, LockIsHeldForWork, Busy
  <1>5. CommandInv' BY <1>1 DEF IInv, CommandInv, EndedCommandIsGone, Busy
  <1>6. ExclusionInv' BY <1>1 DEF IInv, ExclusionInv, Busy
  <1>7. HoldInv' BY <1>1, <1>2 DEF IInv, HoldInv, ConfirmedHoldIsRecorded, Held
  <1>8. StageInv'
    <2>1. /\ task.at \notin {"checking", "removing"}
      BY DEF IInv, StageInv
    <2>2. app.lease # None /\ app.active = 0 => app'.active = 0
      <3>1. app'.active \in Nat
        BY FS_CardinalityType DEF GateInv
      <3> QED BY <3>1
    <2> QED BY <1>1, <1>2, <2>1, <2>2 DEF IInv, StageInv, At
  <1> QED BY <1>3, <1>4, <1>5, <1>6, <1>7, <1>8 DEF IInv

\* Admission and end of a request change the count as the set of requests changes.
LEMMA OneRequestMore ==
    ASSUME IInv, NEW r \in Request, requests[r] = "none",
           requests' = [requests EXCEPT ![r] = "handled"]
    PROVE  IsFiniteSet(Active(requests')) /\ Cardinality(Active(requests')) = app.active + 1
  <1>1. Active(requests') = Active(requests) \cup {r} /\ r \notin Active(requests)
    BY DEF Active, IInv, TypeOK
  <1>2. IsFiniteSet(Active(requests)) /\ app.active = Cardinality(Active(requests))
    BY DEF IInv, GateInv
  <1>3. Cardinality(Active(requests) \cup {r}) = Cardinality(Active(requests)) + 1
    BY <1>1, <1>2, FS_AddElement
  <1>4. IsFiniteSet(Active(requests) \cup {r}) BY <1>2, FS_AddElement
  <1> QED BY <1>1, <1>2, <1>3, <1>4

LEMMA OneRequestLess ==
    ASSUME IInv, NEW r \in Request, requests[r] # "none",
           requests' = [requests EXCEPT ![r] = "none"]
    PROVE  IsFiniteSet(Active(requests')) /\ Cardinality(Active(requests')) = app.active - 1
  <1>1. Active(requests') = Active(requests) \ {r} /\ r \in Active(requests)
    BY DEF Active, IInv, TypeOK
  <1> QED BY <1>1, FS_RemoveElement DEF IInv, GateInv

LEMMA AdmitInv ==
    ASSUME IInv, NEW r \in Request, Admit(r), UNCHANGED <<commandVars, operator, faults, resets>>
    PROVE  IInv'
  <1>0. TypeOK BY DEF IInv
  <1>1. app' = [running |-> app.running, instance |-> app.instance, lease |-> app.lease,
                active |-> app.active + 1]
    BY <1>0, Zenon DEF Admit, TypeOK, App
  <1>2. /\ app.running /\ app.lease = None /\ requests[r] = "none" /\ UNCHANGED data
        /\ requests' = [requests EXCEPT ![r] = "handled"]
    BY DEF Admit
  <1>3. app' \in App /\ data' \in Data /\ requests' \in [Request -> {"none", "handled", "streamed"}]
    BY <1>0, <1>1, <1>2 DEF TypeOK, App
  <1>4. GateInv' BY <1>1, <1>2, OneRequestMore DEF GateInv
  <1> QED BY <1>1, <1>2, <1>3, <1>4, Applied

LEMMA RespondInv ==
    ASSUME IInv, NEW r \in Request, Respond(r), UNCHANGED <<commandVars, operator, faults, resets>>
    PROVE  IInv'
  <1>0. TypeOK BY DEF IInv
  <1>1. /\ requests[r] = "handled" /\ requests' = [requests EXCEPT ![r] = "streamed"]
        /\ UNCHANGED app
    BY DEF Respond
  <1>2. PICK w \in {data.working, TRUE} : data' = [data EXCEPT !.working = w] BY DEF Respond
  <1>3. /\ app' \in App /\ requests' \in [Request -> {"none", "handled", "streamed"}]
        /\ data' \in Data
    BY <1>0, <1>1, <1>2 DEF TypeOK, Data
  <1>4. app.running BY <1>0, <1>1 DEF IInv, GateInv, Quiet
  <1>5. Active(requests') = Active(requests) BY <1>0, <1>1 DEF Active, TypeOK
  <1>6. GateInv' BY <1>1, <1>4, <1>5 DEF IInv, GateInv
  <1>7. app'.active <= app.active BY <1>0, <1>1 DEF TypeOK, App
  <1> QED BY <1>1, <1>3, <1>4, <1>6, <1>7, Applied

LEMMA FinishInv ==
    ASSUME IInv, NEW r \in Request, Finish(r), UNCHANGED <<commandVars, operator, faults, resets>>
    PROVE  IInv'
  <1>0. TypeOK BY DEF IInv
  <1>1. app' = [running |-> app.running, instance |-> app.instance, lease |-> app.lease,
                active |-> app.active - 1]
    BY <1>0, Zenon DEF Finish, TypeOK, App
  <1>2. requests[r] # "none" /\ requests' = [requests EXCEPT ![r] = "none"] BY DEF Finish
  <1>3. PICK n \in Written : data' = [data EXCEPT !.rows = n] BY DEF Finish
  <1>4. n \in Nat BY <1>0 DEF Written, TypeOK, Data
  <1>5. app' \in App /\ data' \in Data /\ requests' \in [Request -> {"none", "handled", "streamed"}]
    BY <1>0, <1>1, <1>2, <1>3, <1>4 DEF TypeOK, App, Data
  <1>6. app.running BY <1>0, <1>2 DEF IInv, GateInv, Quiet
  <1>7. GateInv' BY <1>1, <1>2, <1>6, OneRequestLess DEF GateInv
  <1>8. app'.active <= app.active BY <1>0, <1>1 DEF TypeOK, App
  <1> QED BY <1>1, <1>5, <1>6, <1>7, <1>8, Applied

LEMMA JobEndsInv ==
    ASSUME IInv, JobEnds, UNCHANGED <<commandVars, operator, faults, resets>>
    PROVE  IInv'
  <1>0. TypeOK BY DEF IInv
  <1>1. app.running /\ UNCHANGED <<app, requests>> BY DEF JobEnds
  <1>2. PICK n \in Written : data' = [data EXCEPT !.rows = n, !.working = FALSE] BY DEF JobEnds
  <1>3. data' = [up |-> data.up, rows |-> n, working |-> FALSE]
    BY <1>0, <1>2, Zenon DEF TypeOK, Data
  <1>4. n \in Nat BY <1>0 DEF Written, TypeOK, Data
  <1>5. app' \in App /\ data' \in Data /\ requests' \in [Request -> {"none", "handled", "streamed"}]
    BY <1>0, <1>1, <1>3, <1>4 DEF TypeOK, Data
  <1>6. GateInv' BY <1>1 DEF IInv, GateInv
  <1>7. app'.active <= app.active BY <1>0, <1>1 DEF TypeOK, App
  <1> QED BY <1>1, <1>5, <1>6, <1>7, Applied

LEMMA SpawnInv ==
    ASSUME IInv, Spawn, op # "down", UNCHANGED <<gateVars, operator, faults, resets>>
    PROVE  IInv'
  <1>0. TypeOK BY DEF IInv
  <1>1. /\ runner = "spawning" /\ UNCHANGED <<cancelling, commands, app, requests, data, op, mem,
                                             flock, call, task, audit, faults, resets>>
    BY DEF Spawn, gateVars, operator
  <1>2. \/ job' = [job EXCEPT !.process = TRUE] /\ child' = "alive" /\ runner' = "waiting"
        \/ job' = [job EXCEPT !.status = "failed"] /\ runner' = "idle" /\ child' = child
    BY DEF Spawn
  <1>3. /\ job' \in Command
        /\ \/ job'.status = job.status /\ runner' = "waiting" /\ child' = "alive"
           \/ job'.status = "failed" /\ runner' = "idle" /\ child' = child
    BY <1>0, <1>2 DEF TypeOK, Command, Exited
  <1>4. TypeOK' BY <1>0, <1>1, <1>3 DEF TypeOK
  <1>5. GateInv' BY <1>1 DEF IInv, GateInv
  <1>6. CallInv' BY <1>1, <1>3 DEF IInv, CallInv, LockIsHeldForWork, Busy
  <1>7. CommandInv' BY <1>1, <1>3 DEF IInv, CommandInv, EndedCommandIsGone, Busy
  <1>8. ExclusionInv' BY <1>1, <1>3 DEF IInv, ExclusionInv, Busy
  <1>9. HoldInv' BY <1>1 DEF IInv, HoldInv, ConfirmedHoldIsRecorded, Held
  <1>10. StageInv' BY <1>1 DEF IInv, StageInv, At
  <1> QED BY <1>4, <1>5, <1>6, <1>7, <1>8, <1>9, <1>10 DEF IInv


-----------------------------------------------------------------------------
(* The initial state, every step, and the theorems. *)

LEMMA InitInv == Init => IInv
  <1> SUFFICES ASSUME Init PROVE IInv OBVIOUS
  <1> USE ResetAssumption
  <1>1. /\ app = [running |-> TRUE, instance |-> 1, lease |-> None, active |-> 0]
        /\ data = [up |-> TRUE, rows |-> 0, working |-> FALSE] /\ requests = Quiet
        /\ job = [status |-> "none", process |-> FALSE, reason |-> "none"]
        /\ child = "none" /\ runner = "idle" /\ cancelling = FALSE /\ commands = 0
        /\ op = "up" /\ flock = FALSE /\ faults = 0 /\ resets = 0
    BY DEF Init, GateInit, CommandsInit, NoJob
  <1>2. mem = [preview |-> None, lease |-> None, instance |-> None, stopped |-> FALSE,
               status |-> "idle"]
    BY DEF Init, Blank
  <1>3. /\ call = [kind |-> "none", step |-> 0, rows |-> 0]
        /\ task = [at |-> "idle", step |-> 0, rows |-> 0, target |-> None]
    BY DEF Init, NoCall, NoTask
  <1>4. audit = [status |-> "idle", lease |-> None, instance |-> None]
    BY <1>2 DEF Init, Recorded, Blank
  <1>5. app \in App /\ data \in Data /\ job \in Command
    BY <1>1 DEF App, Data, Command
  <1>6. mem \in Memory /\ audit \in Audit BY <1>2, <1>4 DEF Memory, Audit, Status
  <1>7. call \in Call /\ task \in Task BY <1>3 DEF Call, Task, Stage
  <1>8. requests \in [Request -> {"none", "handled", "streamed"}] BY <1>1 DEF Quiet
  <1>9. TypeOK BY <1>1, <1>5, <1>6, <1>7, <1>8 DEF TypeOK
  <1>10. GateInv BY <1>1, NoneActive DEF GateInv
  <1>11. CallInv BY <1>1, <1>2, <1>3 DEF CallInv, LockIsHeldForWork, Busy
  <1>12. CommandInv BY <1>1 DEF CommandInv, EndedCommandIsGone, Busy
  <1>13. ExclusionInv BY <1>1, <1>3 DEF ExclusionInv, Busy
  <1>14. HoldInv BY <1>1, <1>2, <1>3, <1>4 DEF HoldInv, ConfirmedHoldIsRecorded, Held
  <1>15. StageInv BY <1>1, <1>3 DEF StageInv, At
  <1> QED BY <1>9, <1>10, <1>11, <1>12, <1>13, <1>14, <1>15 DEF IInv

LEMMA StutterInv == ASSUME IInv, UNCHANGED vars PROVE IInv'
  <1>1. UNCHANGED <<app, requests, data, job, child, runner, cancelling, commands, op, mem, flock,
                    call, task, audit, faults, resets>>
    BY DEF vars, gateVars, commandVars, operator
  <1>2. TypeOK' BY <1>1 DEF IInv, TypeOK
  <1>3. GateInv' BY <1>1 DEF IInv, GateInv
  <1>4. CallInv' BY <1>1 DEF IInv, CallInv, LockIsHeldForWork, Busy
  <1>5. CommandInv' BY <1>1 DEF IInv, CommandInv, EndedCommandIsGone, Busy
  <1>6. ExclusionInv' BY <1>1 DEF IInv, ExclusionInv, Busy
  <1>7. HoldInv' BY <1>1 DEF IInv, HoldInv, ConfirmedHoldIsRecorded, Held
  <1>8. StageInv' BY <1>1 DEF IInv, StageInv, At
  <1> QED BY <1>2, <1>3, <1>4, <1>5, <1>6, <1>7, <1>8 DEF IInv

LEMMA CallsInv == ASSUME IInv, Calls PROVE IInv'
  <1>1. CASE CallLooks BY <1>1, CallLooksInv
  <1>2. CASE CallFails BY <1>2, CallFailsInv
  <1>3. CASE PreviewIssued BY <1>3, PreviewIssuedInv
  <1>4. CASE StartRefused BY <1>4, StartRefusedInv
  <1>5. CASE Started BY <1>5, StartedInv
  <1>6. CASE RecoverLooks BY <1>6, RecoverLooksInv
  <1>7. CASE RecoverReleases BY <1>7, RecoverReleasesInv
  <1>8. CASE RecoverForgets BY <1>8, RecoverForgetsInv
  <1>9. CASE RecoverFails BY <1>9, RecoverFailsInv
  <1> QED BY <1>1, <1>2, <1>3, <1>4, <1>5, <1>6, <1>7, <1>8, <1>9 DEF Calls

LEMMA TaskStepInv == ASSUME IInv, TaskStep PROVE IInv'
  <1>1. CASE Prepares BY <1>1, PreparesInv
  <1>2. CASE Holds BY <1>2, HoldsInv
  <1>3. CASE TaskLooks BY <1>3, TaskLooksInv
  <1>4. CASE TaskDecides BY <1>4, TaskDecidesInv
  <1>5. CASE TaskRefuses BY <1>5, TaskRefusesInv
  <1>6. CASE Stops BY <1>6, StopsInv
  <1>7. CASE Removes BY <1>7, RemovesInv
  <1>8. CASE Clears BY <1>8, ClearsInv
  <1>9. CASE Restarts BY <1>9, RestartsInv
  <1>10. CASE GivesBack BY <1>10, GivesBackInv
  <1> QED BY <1>1, <1>2, <1>3, <1>4, <1>5, <1>6, <1>7, <1>8, <1>9, <1>10 DEF TaskStep

LEMMA ApplicationInv == ASSUME IInv, Application PROVE IInv'
  <1>1. GateNext /\ UNCHANGED <<commandVars, operator, faults, resets>> BY DEF Application
  <1>2. CASE JobEnds BY <1>1, <1>2, JobEndsInv
  <1>3. CASE \E r \in Request : Admit(r) \/ Respond(r) \/ Finish(r)
    <2>1. PICK r \in Request : Admit(r) \/ Respond(r) \/ Finish(r) BY <1>3
    <2>2. CASE Admit(r) BY <1>1, <2>2, AdmitInv
    <2>3. CASE Respond(r) BY <1>1, <2>3, RespondInv
    <2>4. CASE Finish(r) BY <1>1, <2>4, FinishInv
    <2> QED BY <2>1, <2>2, <2>3, <2>4
  <1> QED BY <1>1, <1>2, <1>3 DEF GateNext

LEMMA CommandsInv == ASSUME IInv, Commands PROVE IInv'
  <1>1. CommandsNext /\ op # "down" /\ UNCHANGED <<gateVars, operator, faults, resets>>
    BY DEF Commands
  <1>2. CASE Spawn BY <1>1, <1>2, SpawnInv
  <1>3. CASE TimesOut BY <1>1, <1>3, TimesOutInv
  <1>4. CASE Reaps BY <1>1, <1>4, ReapsInv
  <1>5. CASE Settles BY <1>1, <1>5, SettlesInv
  <1>6. CASE CancelReturns BY <1>1, <1>6, CancelReturnsInv
  <1>7. CASE ChildExits BY <1>1, <1>7, ChildExitsInv
  <1>8. CASE Cancel BY <1>1, <1>8, CancelInv
  <1> QED BY <1>1, <1>2, <1>3, <1>4, <1>5, <1>6, <1>7, <1>8 DEF CommandsNext, CommandsStep

LEMMA NextInv == ASSUME IInv, [Next]_vars PROVE IInv'
  <1>1. CASE BeginPreview BY <1>1, BeginPreviewInv
  <1>2. CASE BeginStart BY <1>2, BeginStartInv
  <1>3. CASE BeginRecover BY <1>3, BeginRecoverInv
  <1>4. CASE StartCommand BY <1>4, StartCommandInv
  <1>5. CASE Calls BY <1>5, CallsInv
  <1>6. CASE TaskStep BY <1>6, TaskStepInv
  <1>7. CASE CommandFails BY <1>7, CommandFailsInv
  <1>8. CASE Close BY <1>8, CloseInv
  <1>9. CASE CloseCommands BY <1>9, CloseCommandsInv
  <1>10. CASE Exits BY <1>10, ExitsInv
  <1>11. CASE Crash BY <1>11, CrashInv
  <1>12. CASE Restart BY <1>12, RestartInv
  <1>13. CASE ReloadWorker BY <1>13, ReloadWorkerInv
  <1>14. CASE RestoreServices BY <1>14, RestoreServicesInv
  <1>15. CASE Application BY <1>15, ApplicationInv
  <1>16. CASE Commands BY <1>16, CommandsInv
  <1>17. CASE UNCHANGED vars BY <1>17, StutterInv
  <1> QED BY <1>1, <1>2, <1>3, <1>4, <1>5, <1>6, <1>7, <1>8, <1>9, <1>10, <1>11, <1>12, <1>13,
             <1>14, <1>15, <1>16, <1>17 DEF Next

\* The invariant of the whole module holds in every reachable state.
THEOREM ResetInvariant == Spec => []IInv
  <1>1. Init => IInv BY InitInv
  <1>2. IInv /\ [Next]_vars => IInv' BY NextInv
  <1> QED BY <1>1, <1>2, PTL DEF Spec

\* Operator, commands and gate keep the types of their variables.
THEOREM ResetTypes == Spec => []TypeOK
  <1>1. IInv => TypeOK BY DEF IInv
  <1> QED BY <1>1, ResetInvariant, PTL

\* The gate of the confirmed worker is never held by a lease the audit does not record, so
\* an operator that dies at any point finds what it has to release.
THEOREM ConfirmedHoldsAreRecorded == Spec => []ConfirmedHoldIsRecorded
  <1>1. IInv => ConfirmedHoldIsRecorded BY DEF IInv, HoldInv
  <1> QED BY <1>1, ResetInvariant, PTL

\* A reset never runs beside a command of the same operator.
THEOREM ResetsExcludeCommands == Spec => []CommandsExcludeReset
  <1>1. IInv => CommandsExcludeReset BY DEF IInv, ExclusionInv, CommandsExcludeReset
  <1> QED BY <1>1, ResetInvariant, PTL

\* The operation lock is held exactly for a start, a recovery or a reset that is under way.
THEOREM LockIsNeverKept == Spec => []LockIsHeldForWork
  <1>1. IInv => LockIsHeldForWork BY DEF IInv, CallInv
  <1> QED BY <1>1, ResetInvariant, PTL

\* A command that has ended leaves no process behind that could still write.
THEOREM EndedCommandsAreGone == Spec => []EndedCommandIsGone
  <1>1. IInv => EndedCommandIsGone BY DEF IInv, CommandInv
  <1> QED BY <1>1, ResetInvariant, PTL

\* The volume is removed only while nothing runs or is under way in the application and it
\* holds exactly the rows the user confirmed.
THEOREM DeletionIsConfirmed == Spec => OnlyConfirmedIsDeleted
  <1>1. IInv /\ At("removing") /\ data'.rows # data.rows =>
            /\ ~app.running /\ requests = Quiet /\ ~data.working
            /\ data.rows = task.target.rows
    BY DEF IInv, GateInv, StageInv, At
  <1> QED BY <1>1, ResetInvariant, PTL DEF OnlyConfirmedIsDeleted

\* The confirmed worker is stopped only when it serves nothing: no count, no request.
THEOREM NoRequestIsCut == Spec => StopCutsNoRequest
  <1>1. ASSUME IInv, At("stopping"), app.running, app.instance = task.target.instance
        PROVE  requests = Quiet
    <2>1. IsFiniteSet(Active(requests)) /\ Cardinality(Active(requests)) = 0
      BY <1>1 DEF IInv, GateInv, StageInv
    <2>2. Active(requests) = {} BY <2>1, FS_EmptySet
    <2>3. requests \in [Request -> {"none", "handled", "streamed"}] BY <1>1 DEF IInv, TypeOK
    <2> QED BY <2>2, <2>3 DEF Active, Quiet
  <1>2. IInv /\ At("stopping") /\ app.running /\ ~app'.running
            /\ app.instance = task.target.instance => requests = Quiet
    BY <1>1
  <1> QED BY <1>2, ResetInvariant, PTL DEF StopCutsNoRequest

=============================================================================
