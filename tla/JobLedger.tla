------------------------------ MODULE JobLedger ------------------------------
(***************************************************************************)
(* How the state of one domain's jobs reaches the shared ledger: the       *)
(* ProgressPersister (app/operator/jobs/execution.py) with its drain tasks *)
(* and retained final snapshots, the JobStore rows (.../jobs/store.py),    *)
(* history deletion (.../jobs/history.py), and the calls the corpus queue  *)
(* makes (app/corpus_admin/job_queue.py).                                  *)
(*                                                                         *)
(* A snapshot is a status and the list of charged batches, of which only   *)
(* the length counts here.  Writes are read when they begin, may fail      *)
(* before or after they took effect, and the process may stop at any       *)
(* moment.  Which job may execute is JobQueues' business: here the worker  *)
(* takes any queued job.                                                   *)
(***************************************************************************)
EXTENDS Naturals, Sequences

CONSTANTS
  Job,            \* job identities
  Worker,         \* the worker task of the domain
  Caller,         \* concurrent requests of the operator
  Backfill,       \* the jobs that may be cancelled while they run
  MaxUsage,       \* bound: batches a job is charged for
  MaxAttempts,    \* attempts of a final write (3 in the code)
  MaxFaults,      \* bound: failed ledger operations
  MaxCrashes,     \* bound: process restarts
  HistoryDeletes  \* whether the operator deletes history

ASSUME LedgerAssumption ==
  /\ Worker \notin Caller \cup Job /\ Caller \cap Job = {}
  /\ Backfill \subseteq Job
  /\ MaxUsage \in Nat /\ MaxFaults \in Nat /\ MaxCrashes \in Nat
  /\ MaxAttempts \in Nat \ {0}
  /\ HistoryDeletes \in BOOLEAN

VARIABLES
  row,      \* the ledger: a snapshot per job
  mem,      \* _jobs: a snapshot per job
  recovered,\* the domain is in _recovered_domains
  enabled,  \* _active: jobs whose progress is accepted
  task,     \* _tasks: the drain task of each job
  dirty,    \* _dirty
  final,    \* _pending: retained final snapshots
  flushers, \* procs waiting in flush() for the drain task of a job
  lockq,    \* FIFO of _write_lock; its head owns the lock or is about to
  inflight, \* the snapshot the owner of the lock is writing
  attempt,  \* the attempt of that write
  at,       \* where the worker and every caller is
  goal,     \* what its flush and write are for
  target,   \* the job it acts on
  todo,     \* what retry_pending has left to do for a caller
  request,  \* what a caller asked for: an operation and a job
  acked,    \* jobs whose cancellation was answered with success
  ended,    \* jobs whose row was terminal once (for the refinement)
  faults, crashes

persisterVars == <<enabled, task, dirty, final, flushers, lockq, inflight, attempt>>
procVars == <<at, goal, target, todo, request>>
boundVars == <<faults, crashes>>
vars == <<row, mem, recovered, persisterVars, procVars, acked, ended, boundVars>>

Proc == {Worker} \cup Caller
Terminal == {"finished", "cancelled", "interrupted"}
Unfinished == {"queued", "running"}
Snapshot(s, u) == [status |-> s, usage |-> u]
NoSnapshot == Snapshot("none", 0)
Request(op, j) == [op |-> op, job |-> j]
Known(j) == mem[j].status \notin {"none", "gone"}
HasRow(j) == row[j].status # "none"

Init ==
  /\ row = [j \in Job |-> NoSnapshot] /\ mem = [j \in Job |-> NoSnapshot]
  /\ recovered = FALSE /\ enabled = {} /\ dirty = {}
  /\ task = [j \in Job |-> "none"] /\ final = [j \in Job |-> NoSnapshot]
  /\ flushers = [j \in Job |-> <<>>] /\ lockq = <<>>
  /\ inflight = NoSnapshot /\ attempt = 1
  /\ at = [p \in Proc |-> "idle"] /\ goal = [p \in Proc |-> "none"]
  /\ target = [p \in Proc |-> Worker]
  /\ todo = [c \in Caller |-> {}] /\ request = [c \in Caller |-> Request("none", Worker)]
  /\ acked = {} /\ ended = {} /\ faults = 0 /\ crashes = 0
-----------------------------------------------------------------------------
(* ProgressPersister: progress. *)

\* The drain task of a job has work left.
Draining(j) == task[j] \in {"created", "busy"}

\* schedule(): one task per job, and one more write for what comes meanwhile.
Schedule(j) ==
  IF j \notin enabled THEN UNCHANGED <<dirty, task>>
  ELSE IF Draining(j) THEN dirty' = dirty \cup {j} /\ UNCHANGED task
  ELSE task' = [task EXCEPT ![j] = "created"] /\ UNCHANGED dirty

\* _drain() runs for the first time and asks for the write lock.
DrainStarts(j) ==
  /\ task[j] = "created"
  /\ task' = [task EXCEPT ![j] = "busy"]
  /\ dirty' = dirty \ {j}
  /\ lockq' = Append(lockq, j)
  /\ UNCHANGED <<row, mem, recovered, enabled, final, flushers, inflight, attempt,
                 procVars, acked, ended, boundVars>>

\* Where a flushed process goes: to the write lock, or on to forget the job.
AfterFlush(p, g) ==
  /\ at' = [at EXCEPT ![p] = IF g = "close" THEN "close" ELSE "lock"]
  /\ lockq' = IF g = "close" THEN lockq ELSE Append(lockq, p)

\* flush(): drop the pending re-write, wait for the write in flight.
Flush(p, j, g) ==
  /\ goal' = [goal EXCEPT ![p] = g] /\ target' = [target EXCEPT ![p] = j]
  /\ dirty' = dirty \ {j}
  /\ IF Draining(j)
     THEN /\ flushers' = [flushers EXCEPT ![j] = Append(@, p)]
          /\ at' = [at EXCEPT ![p] = "flush"]
          /\ UNCHANGED <<task, lockq>>
     ELSE /\ task' = [task EXCEPT ![j] = "none"]
          /\ AfterFlush(p, g)
          /\ UNCHANGED flushers

\* The waiters of a finished drain resume in order.
Flushed(p) ==
  LET j == target[p] IN
    /\ at[p] = "flush" /\ ~Draining(j) /\ p = Head(flushers[j])
    /\ flushers' = [flushers EXCEPT ![j] = Tail(@)]
    /\ task' = [task EXCEPT ![j] = "none"]
    /\ AfterFlush(p, goal[p])
    /\ UNCHANGED <<row, mem, recovered, enabled, dirty, final, inflight, attempt,
                   goal, target, todo, request, acked, ended, boundVars>>

-----------------------------------------------------------------------------
(* ProgressPersister: writes, under _write_lock. *)

Owner == Head(lockq)
JobOf(o) == IF o \in Job THEN o ELSE target[o]
ForFinal(o) == o \notin Job /\ goal[o] \in {"final", "retry"}

\* What a write would store, read when it begins: progress and usage take the
\* newest state in memory, final writes the retained snapshot.
SnapshotToWrite(o) ==
  IF ForFinal(o) THEN final[target[o]]
  ELSE IF Known(JobOf(o)) THEN mem[JobOf(o)] ELSE NoSnapshot

\* put() merges result_refs: an empty usage list leaves the stored one alone.
Merged(j, s) ==
  [row EXCEPT ![j] = Snapshot(s.status, IF s.usage = 0 THEN @.usage ELSE s.usage)]

Put(j, s) ==
  /\ row' = Merged(j, s)
  /\ ended' = IF s.status \in Terminal THEN ended \cup {j} ELSE ended

\* The drain task goes round again when newer progress came meanwhile.
ReleaseDrain(j) ==
  /\ IF j \in dirty
     THEN lockq' = Append(Tail(lockq), j) /\ UNCHANGED task
     ELSE lockq' = Tail(lockq) /\ task' = [task EXCEPT ![j] = "done"]
  /\ dirty' = dirty \ {j}
  /\ UNCHANGED <<at, final, acked>>

PlaceAfter(p, ok) ==
  CASE goal[p] = "usage" -> IF ok THEN "running" ELSE "ended"
    [] goal[p] = "retry" -> IF ok THEN "reconcile" ELSE "idle"
    [] goal[p] = "final" -> IF p = Worker THEN "closing" ELSE "idle"

\* Mutant of FinalSaved: a final write that failed is forgotten too.
FinalTried(p, ok) == ForFinal(p)

\* The retained snapshot has reached the ledger.
FinalSaved(p, ok) == ok /\ ForFinal(p)

\* A process leaves the lock: with a saved final snapshot, or raising.
ReleaseProc(p, ok) ==
  /\ lockq' = Tail(lockq)
  /\ at' = [at EXCEPT ![p] = PlaceAfter(p, ok)]
  /\ final' = IF FinalSaved(p, ok) THEN [final EXCEPT ![target[p]] = NoSnapshot]
              ELSE final
  /\ acked' = IF ok /\ goal[p] = "final" /\ p \in Caller THEN acked \cup {target[p]}
              ELSE acked
  /\ UNCHANGED <<task, dirty>>

Release(o, ok) ==
  /\ inflight' = NoSnapshot /\ attempt' = 1
  /\ IF o \in Job THEN ReleaseDrain(o) ELSE ReleaseProc(o, ok)

\* The owner of the lock reads what it has to write; there may be nothing.
BeginWrite ==
  /\ lockq # <<>> /\ inflight = NoSnapshot
  /\ IF SnapshotToWrite(Owner) = NoSnapshot
     THEN Release(Owner, TRUE)
     ELSE /\ inflight' = SnapshotToWrite(Owner)
          /\ UNCHANGED <<attempt, lockq, task, dirty, at, final, acked>>
  /\ UNCHANGED <<row, mem, recovered, enabled, flushers, goal, target, todo, request,
                 ended, boundVars>>

\* A process that a finished drain has woken resumes long before a database
\* round trip that started after that drain can end.
NoneWoken == \A j \in Job : flushers[j] # <<>> => Draining(j)

TriesAgain == ForFinal(Owner) /\ attempt < MaxAttempts

\* The write commits and its answer arrives, or put() finds no row to update.
EndWrite ==
  /\ inflight # NoSnapshot /\ NoneWoken
  /\ IF HasRow(JobOf(Owner))
     THEN Put(JobOf(Owner), inflight) /\ Release(Owner, TRUE)
     ELSE UNCHANGED <<row, ended>> /\ Release(Owner, FALSE)
  /\ UNCHANGED <<mem, recovered, enabled, flushers, goal, target, todo, request, boundVars>>

\* The database fails, before or after the commit took effect.  Final writes
\* try again with the lock held; everything else gives up.
FailWrite ==
  /\ inflight # NoSnapshot /\ NoneWoken /\ HasRow(JobOf(Owner))
  /\ faults < MaxFaults /\ faults' = faults + 1
  /\ \/ UNCHANGED <<row, ended>>
     \/ Put(JobOf(Owner), inflight)
  /\ IF TriesAgain
     THEN /\ attempt' = attempt + 1
          /\ UNCHANGED <<inflight, lockq, task, dirty, at, final, acked>>
     ELSE Release(Owner, FALSE)
  /\ UNCHANGED <<mem, recovered, enabled, flushers, goal, target, todo, request, crashes>>

\* write_final() up to its first wait: no more progress for this job, and its
\* last snapshot is retained until it is saved.
WriteFinal(p, j, s) ==
  /\ mem' = [mem EXCEPT ![j] = s]
  /\ enabled' = enabled \ {j}
  /\ final' = [final EXCEPT ![j] = s]
  /\ Flush(p, j, "final")

-----------------------------------------------------------------------------
(* The worker of the domain. *)

workerRest == <<row, recovered, inflight, attempt, todo, request, acked, ended, boundVars>>

\* _execute_job begins, or the job was cancelled in the queue.
StartJob(j) ==
  /\ at[Worker] = "idle" /\ mem[j].status \in {"queued", "cancelled"}
  /\ target' = [target EXCEPT ![Worker] = j]
  /\ IF mem[j].status = "queued"
     THEN /\ mem' = [mem EXCEPT ![j].status = "running"]
          /\ at' = [at EXCEPT ![Worker] = "running"]
          /\ Schedule(j)
     ELSE /\ at' = [at EXCEPT ![Worker] = "closing"]
          /\ UNCHANGED <<mem, dirty, task>>
  /\ UNCHANGED <<workerRest, enabled, final, flushers, lockq, goal>>

\* _publish raises once the job was cancelled; _waiting_message refreshes the
\* message of a queued job.
Publish(j) ==
  /\ \/ at[Worker] = "running" /\ target[Worker] = j
     \/ mem[j].status = "queued"
  /\ IF mem[j].status = "cancelled"
     THEN at' = [at EXCEPT ![Worker] = "ended"] /\ UNCHANGED <<dirty, task>>
     ELSE Schedule(j) /\ UNCHANGED at
  /\ UNCHANGED <<workerRest, mem, enabled, final, flushers, lockq, goal, target>>

\* _record_usage: the batch is charged in memory, then write_current().
RecordUsage ==
  LET j == target[Worker] IN
    /\ at[Worker] = "running" /\ mem[j].usage < MaxUsage
    /\ mem' = [mem EXCEPT ![j].usage = @ + 1]
    /\ Flush(Worker, j, "usage")
    /\ UNCHANGED <<workerRest, enabled, final>>

\* Mutant of Acknowledged: the ending of an operation always counts.
NeverAcknowledged(j) == FALSE

\* cancel() has made the status final.
Acknowledged(j) == mem[j].status = "cancelled"

\* The operation is over.  A cancelled job keeps the status cancel() gave it.
FinishJob ==
  LET j == target[Worker] IN
    /\ at[Worker] \in {"running", "ended"}
    /\ IF Acknowledged(j)
       THEN /\ at' = [at EXCEPT ![Worker] = "closing"]
            /\ UNCHANGED <<mem, enabled, final, dirty, task, flushers, lockq, goal, target>>
       ELSE WriteFinal(Worker, j, Snapshot("finished", mem[j].usage))
    /\ UNCHANGED workerRest

\* The finally block of _work: flush, then forget the job.
StartClose ==
  /\ at[Worker] = "closing"
  /\ Flush(Worker, target[Worker], "close")
  /\ UNCHANGED <<workerRest, mem, enabled, final>>

Close ==
  /\ at[Worker] = "close"
  /\ mem' = [mem EXCEPT ![target[Worker]] = Snapshot("gone", 0)]
  /\ at' = [at EXCEPT ![Worker] = "idle"]
  /\ UNCHANGED <<workerRest, enabled, final, dirty, task, flushers, lockq, goal, target>>

-----------------------------------------------------------------------------
(* The operator's requests: each begins with recover_jobs(). *)

callRest == <<enabled, task, dirty, final, flushers, lockq, inflight, attempt, goal, target>>

\* enqueue() runs under its lock, for a job that never existed.
MayCall(op, j) ==
  op = "enqueue" => /\ ~HasRow(j) /\ mem[j] = NoSnapshot /\ j \notin ended
                    /\ \A c \in Caller : request[c].op = "enqueue" => at[c] = "idle"

\* Mutant of Unsaved: retained snapshots of forgotten jobs are skipped.
UnsavedKnown == {i \in Job : final[i] # NoSnapshot /\ Known(i)}

\* The keys of _pending.
Unsaved == {i \in Job : final[i] # NoSnapshot}

\* retry_pending() takes its list of retained snapshots.
Call(c, op, j) ==
  /\ at[c] = "idle" /\ MayCall(op, j)
  /\ request' = [request EXCEPT ![c] = Request(op, j)]
  /\ todo' = [todo EXCEPT ![c] = Unsaved]
  /\ at' = [at EXCEPT ![c] = "reconcile"]
  /\ UNCHANGED <<row, mem, recovered, callRest, acked, ended, boundVars>>

RetryPending(c) ==
  /\ at[c] = "reconcile"
  /\ \E j \in todo[c] :
       /\ todo' = [todo EXCEPT ![c] = @ \ {j}]
       /\ Flush(c, j, "retry")
  /\ UNCHANGED <<row, mem, recovered, enabled, final, inflight, attempt, request,
                 acked, ended, boundVars>>

\* Mutant of LeftBehind: queued rows are taken for resumable.
LeftRunning == {j \in Job : row[j].status = "running"}

LeftBehind == {j \in Job : row[j].status \in Unfinished}

\* Mutant of Interrupted: result_refs are reset.
InterruptedAfresh(s) == Snapshot("interrupted", 0)

Interrupted(s) == Snapshot("interrupted", s.usage)

\* interrupt_incomplete()
InterruptIncomplete ==
  /\ row' = [j \in Job |-> IF j \in LeftBehind THEN Interrupted(row[j]) ELSE row[j]]
  /\ ended' = ended \cup LeftBehind

\* Mutant of MustRecover: every request recovers.
RecoverAlways == TRUE

\* The domain is not in _recovered_domains yet.
MustRecover == ~recovered

\* JobStore.recover(), once per process; a failure leaves it to the next call.
Recover(c) ==
  /\ at[c] = "reconcile" /\ todo[c] = {} /\ MustRecover
  /\ \/ /\ InterruptIncomplete
        /\ recovered' = TRUE
        /\ UNCHANGED <<at, faults>>
     \/ /\ faults < MaxFaults /\ faults' = faults + 1
        /\ (InterruptIncomplete \/ UNCHANGED <<row, ended>>)
        /\ at' = [at EXCEPT ![c] = "idle"]
        /\ UNCHANGED recovered
  /\ UNCHANGED <<mem, callRest, todo, request, acked, crashes>>

Reconciled(c) == at[c] = "reconcile" /\ todo[c] = {} /\ recovered

Cancellable(j) ==
  \/ mem[j].status = "queued"
  \/ mem[j].status = "running" /\ j \in Backfill

Cancel(c) ==
  LET j == request[c].job IN
    /\ Reconciled(c) /\ request[c].op = "cancel" /\ Cancellable(j)
    /\ WriteFinal(c, j, Snapshot("cancelled", mem[j].usage))
    /\ UNCHANGED <<row, recovered, inflight, attempt, todo, request, acked, ended, boundVars>>

\* Every other request: go on to insert a row, read history, or be refused.
Answer(c) ==
  /\ Reconciled(c)
  /\ request[c].op = "cancel" => ~Cancellable(request[c].job)
  /\ at' = [at EXCEPT ![c] = IF request[c].op = "enqueue" THEN "create" ELSE "idle"]
  /\ UNCHANGED <<row, mem, recovered, callRest, todo, request, acked, ended, boundVars>>

\* JobStore.create() and the registration that follows it.
Create(c) ==
  LET j == request[c].job IN
    /\ at[c] = "create"
    /\ at' = [at EXCEPT ![c] = "idle"]
    /\ \/ /\ row' = [row EXCEPT ![j] = Snapshot("queued", 0)]
          /\ mem' = [mem EXCEPT ![j] = Snapshot("queued", 0)]
          /\ enabled' = enabled \cup {j}
          /\ UNCHANGED faults
       \/ /\ faults < MaxFaults /\ faults' = faults + 1
          /\ row' \in {row, [row EXCEPT ![j] = Snapshot("queued", 0)]}
          /\ UNCHANGED <<mem, enabled>>
    /\ UNCHANGED <<recovered, task, dirty, final, flushers, lockq, inflight, attempt,
                   goal, target, todo, request, acked, ended, crashes>>

-----------------------------------------------------------------------------
(* Around the process. *)

\* JobHistoryService.apply("delete"); its route does not call recover_jobs().
DeleteHistory ==
  /\ HistoryDeletes
  /\ \E j \in Job : row[j].status \in Terminal
  /\ row' = [j \in Job |-> IF row[j].status \in Terminal THEN NoSnapshot ELSE row[j]]
  /\ UNCHANGED <<mem, recovered, persisterVars, procVars, acked, ended, boundVars>>

\* What the ledger may hold when the process dies: a write or an insert that
\* was under way took effect or not.
Survivors ==
  {row} \cup (IF inflight # NoSnapshot /\ HasRow(JobOf(Owner))
              THEN {Merged(JobOf(Owner), inflight)} ELSE {})
        \cup {[row EXCEPT ![request[c].job] = Snapshot("queued", 0)] :
                c \in {d \in Caller : at[d] = "create"}}

Crash ==
  /\ crashes < MaxCrashes /\ crashes' = crashes + 1
  /\ row' \in Survivors
  /\ ended' = ended \cup {j \in Job : row'[j].status \in Terminal}
  /\ mem' = [j \in Job |-> IF mem[j] = NoSnapshot THEN NoSnapshot ELSE Snapshot("gone", 0)]
  /\ recovered' = FALSE /\ enabled' = {} /\ dirty' = {}
  /\ task' = [j \in Job |-> "none"] /\ final' = [j \in Job |-> NoSnapshot]
  /\ flushers' = [j \in Job |-> <<>>] /\ lockq' = <<>>
  /\ inflight' = NoSnapshot /\ attempt' = 1
  /\ at' = [p \in Proc |-> "idle"] /\ goal' = [p \in Proc |-> "none"]
  /\ target' = [p \in Proc |-> Worker]
  /\ todo' = [c \in Caller |-> {}] /\ request' = [c \in Caller |-> Request("none", Worker)]
  /\ UNCHANGED <<acked, faults>>

Writes == BeginWrite \/ EndWrite \/ FailWrite
WorkerStep == (\E j \in Job : StartJob(j)) \/ RecordUsage \/ FinishJob \/ StartClose \/ Close
CallerStep(c) == RetryPending(c) \/ Recover(c) \/ Cancel(c) \/ Answer(c) \/ Create(c)

Next ==
  \/ \E j \in Job : DrainStarts(j) \/ Publish(j)
  \/ \E p \in Proc : Flushed(p)
  \/ Writes \/ WorkerStep
  \/ \E c \in Caller : CallerStep(c)
  \/ \E c \in Caller, op \in {"enqueue", "cancel", "list"}, j \in Job : Call(c, op, j)
  \/ DeleteHistory \/ Crash

\* Every ready task runs, database calls return, operations end, and the job
\* board asks for history again and again.
Fairness ==
  /\ \A j \in Job : WF_vars(DrainStarts(j))
  /\ \A p \in Proc : WF_vars(Flushed(p))
  /\ WF_vars(Writes)
  /\ WF_vars(FinishJob) /\ WF_vars((\E j \in Job : StartJob(j)) \/ StartClose \/ Close)
  /\ \A c \in Caller : WF_vars(CallerStep(c))
  /\ \A c \in Caller : WF_vars(\E j \in Job : Call(c, "list", j))

Spec == Init /\ [][Next]_vars
FairSpec == Spec /\ Fairness

-----------------------------------------------------------------------------
(* What the ledger promises. *)

Places == {"idle", "running", "ended", "flush", "lock", "closing", "close",
           "reconcile", "create"}
Snapshots == [status : {"none", "gone", "queued", "running"} \cup Terminal,
              usage : 0 .. MaxUsage]

\* Every variable has its type.
TypeOK ==
  /\ row \in [Job -> Snapshots] /\ mem \in [Job -> Snapshots]
  /\ final \in [Job -> Snapshots] /\ inflight \in Snapshots
  /\ recovered \in BOOLEAN
  /\ enabled \subseteq Job /\ dirty \subseteq Job /\ acked \subseteq Job /\ ended \subseteq Job
  /\ task \in [Job -> {"none", "created", "busy", "done"}]
  /\ flushers \in [Job -> Seq(Proc)] /\ lockq \in Seq(Proc \cup Job)
  /\ attempt \in 1 .. MaxAttempts
  /\ at \in [Proc -> Places]
  /\ goal \in [Proc -> {"none", "usage", "final", "retry", "close"}]
  /\ target \in [Proc -> Job \cup {Worker}]
  /\ todo \in [Caller -> SUBSET Job]
  /\ faults \in 0 .. MaxFaults /\ crashes \in 0 .. MaxCrashes

\* The rows go through the life cycle and nothing else: a late progress write,
\* a retried final write or a write of a dead process never revives, ends or
\* interrupts a row out of turn.
Lifecycle == INSTANCE JobLifecycle WITH ledger <- [j \in Job |-> row[j].status]
LifecycleSpec == Lifecycle!Spec

\* A cancellation answered with success is in the ledger and stays there,
\* across later writes and restarts, until history is deleted.
AckedCancelDurable == \A j \in acked : row[j].status \in {"cancelled", "none"}

\* A job the process has forgotten is not left queued or running: its row is
\* terminal, or its final snapshot is still retained.
NoForgottenRow ==
  \A j \in Job : recovered /\ mem[j].status = "gone" /\ row[j].status \in Unfinished
                 => final[j] # NoSnapshot

\* Charged batches disappear from a row only when a running job is cancelled:
\* progress, final and retried writes of any other job carry the newest list.
UsageKeptUnlessCancelled ==
  [][\A j \in Job : row'[j].status \in Unfinished \cup {"finished", "interrupted"}
                    => row'[j].usage >= row[j].usage]_vars

\* When the worker forgets a job, every batch it charged is in the row, or in
\* the snapshot still to be written there.
ChargesPersisted ==
  [][\A j \in Job : Known(j) /\ mem'[j].status = "gone" /\ crashes' = crashes
                   => mem[j].usage \in {row[j].usage, final[j].usage}]_vars

\* A retained final snapshot is saved in the end, once the database answers.
PendingReconciled == \A j \in Job : final[j] # NoSnapshot ~> final[j] = NoSnapshot

\* Every row of a registered job, and every row a dead process left behind,
\* reaches a terminal state, whatever failures and restarts happen.  (A row
\* whose insert was reported as failed waits for the next restart.)
RowsSettle ==
  \A j \in Job : row[j].status \in Unfinished /\ (mem[j] # NoSnapshot \/ ~recovered)
                 ~> row[j].status \in Terminal

=============================================================================
