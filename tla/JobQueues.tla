------------------------------ MODULE JobQueues ------------------------------
(***************************************************************************)
(* The two job domains of one process at work: the corpus queue            *)
(* (app/corpus_admin/job_queue.py) and the evaluation queue                *)
(* (app/evals/admin/service.py), each with its FIFO, its single worker     *)
(* task and its statuses in memory, sharing one JobExecutionCoordinator;   *)
(* corpus jobs that rewrite what search reads also pass CorpusAccess.      *)
(*                                                                         *)
(* A step is a stretch of code between two awaits that can really suspend. *)
(* Writing to the ledger only takes time here; what is written, and what   *)
(* happens when a write fails, is the subject of JobLedger.                *)
(***************************************************************************)
EXTENDS Integers, Sequences, FiniteSets

CONSTANTS
  CorpusJob, EvalJob, \* the jobs each domain may create
  NoJob,
  Search,             \* concurrent search requests
  MaxQueued,          \* MAX_QUEUED_JOBS and MAX_QUEUED_EVALUATIONS (8 in the code)
  CorpusKind,         \* the corpus command kinds that occur
  ClockStepsBack,     \* whether the wall clock may be set back between two jobs
  MaxTime             \* then, the largest timestamp it may show

Domain == {"corpus", "evaluation"}
Job == CorpusJob \cup EvalJob
JobsOf(d) == IF d = "corpus" THEN CorpusJob ELSE EvalJob
DomainOf(j) == IF j \in CorpusJob THEN "corpus" ELSE "evaluation"

SearchChangingKinds == {"ingest_manifest", "backfill_embeddings", "rebuild_bm25"}
EvalKind == {"quick", "matrix"}

ASSUME QueuesAssumption ==
  /\ Job \subseteq Nat /\ NoJob \notin Job
  /\ CorpusJob \cap EvalJob = {}
  /\ MaxQueued \in Nat \ {0}
  /\ CorpusKind \cap EvalKind = {}
  /\ ClockStepsBack \in BOOLEAN /\ MaxTime \in Nat

VARIABLES
  pending, active, kinds, waiting, notice, sleepers,        \* coordinator
  readers, writers, writerLock, drainers, cancelEvents,     \* corpus access
  created,   \* created_at
  clock,     \* latest reading of the wall clock
  kind,      \* command kind or evaluation mode of each job
  status,    \* status in _jobs; "absent" before and "gone" after its stay there
  admitting, \* the jobs of each domain between admission and registration
  queue,     \* asyncio.Queue of each domain
  pc,        \* where each worker task is
  cur        \* the job it took from its queue

Turns == INSTANCE JobExecutionCoordinator
Gate == INSTANCE CorpusAccess

turnVars == <<pending, active, kinds, waiting, notice, sleepers>>
accessVars == <<readers, writers, writerLock, drainers>>
jobVars == <<created, clock, kind, status, admitting, queue, cancelEvents>>
workerVars == <<pc, cur>>
vars == <<turnVars, accessVars, jobVars, workerVars>>

ChangesSearch(j) == kind[j] \in SearchChangingKinds

Init ==
  /\ Turns!Init /\ Gate!Init /\ cancelEvents = {}
  /\ created = [j \in Job |-> 0] /\ clock = 0
  /\ kind = [j \in Job |-> "none"]
  /\ status = [j \in Job |-> "absent"]
  /\ admitting = [d \in Domain |-> {}]
  /\ queue = [d \in Domain |-> <<>>]
  /\ pc = [d \in Domain |-> "idle"]
  /\ cur = [d \in Domain |-> NoJob]

-----------------------------------------------------------------------------
(* Admission: enqueue() holds _enqueue_lock while the row is inserted. *)

\* Readings of the wall clock.  Two jobs of one domain never share a
\* timestamp, a database insert lies between them; jobs of two domains may.
Readings(d) ==
  IF ClockStepsBack
  THEN {t \in 1 .. MaxTime : \A i \in JobsOf(d) : created[i] # t}
  ELSE {t \in {clock, clock + 1} : t > 0 /\ \A i \in JobsOf(d) : created[i] < t}

\* Mutant of Duplicate: only a running evaluation counts.
DuplicateOfRunning(k) ==
  /\ k = "quick"
  /\ \E i \in EvalJob : kind[i] = "quick" /\ status[i] = "running"

\* _enqueue refuses a quick evaluation equal to one that is queued or running;
\* the quick evaluations here all ask the same.
Duplicate(k) ==
  /\ k = "quick"
  /\ \E i \in EvalJob : kind[i] = "quick" /\ status[i] \in {"queued", "running"}

\* Mutant of MayAdmit: the checks run outside the enqueue lock.
MayAdmitUnlocked(d) == Len(queue[d]) < MaxQueued

\* _enqueue_lock is free and the queue is not full.
MayAdmit(d) == admitting[d] = {} /\ Len(queue[d]) < MaxQueued

\* Up to the awaited insert into the ledger: the checks, then created_at.
Admit(d, j, k) ==
  /\ j \in JobsOf(d) /\ status[j] = "absent" /\ kind[j] = "none"
  /\ k \in IF d = "corpus" THEN CorpusKind ELSE EvalKind
  /\ MayAdmit(d)
  /\ ~Duplicate(k)
  /\ \E t \in Readings(d) :
       /\ created' = [created EXCEPT ![j] = t]
       /\ clock' = t
  /\ kind' = [kind EXCEPT ![j] = k]
  /\ admitting' = [admitting EXCEPT ![d] = @ \cup {j}]
  /\ UNCHANGED <<status, queue, cancelEvents, turnVars, accessVars, workerVars>>

\* A domain without a worker, or whose worker is done, gets one.
StartWorker(d) == pc' = [pc EXCEPT ![d] = IF @ = "idle" THEN "take" ELSE @]

\* The row exists: register the ticket, queue the job, start a worker if the
\* last one has finished.
Enqueue(d, j) ==
  /\ j \in admitting[d]
  /\ admitting' = [admitting EXCEPT ![d] = @ \ {j}]
  /\ status' = [status EXCEPT ![j] = "queued"]
  /\ Turns!Register(j, d = "evaluation")
  /\ queue' = [queue EXCEPT ![d] = Append(@, j)]
  /\ StartWorker(d)
  /\ UNCHANGED <<created, clock, kind, cancelEvents, accessVars, cur>>

\* The insert failed: enqueue() raises and the process forgets the job.
AbortEnqueue(d, j) ==
  /\ j \in admitting[d]
  /\ admitting' = [admitting EXCEPT ![d] = @ \ {j}]
  /\ status' = [status EXCEPT ![j] = "gone"]
  /\ UNCHANGED <<created, clock, kind, queue, cancelEvents, turnVars, accessVars,
                 workerVars>>

-----------------------------------------------------------------------------
(* cancel(), after recover_jobs(), up to its final ledger write. *)

Cancellable(j) ==
  \/ status[j] = "queued"
  \/ status[j] = "running" /\ kind[j] = "backfill_embeddings"

\* Only corpus jobs have a cancel event.
SignalCancel(j) ==
  cancelEvents' = IF j \in CorpusJob THEN cancelEvents \cup {j} ELSE cancelEvents

Cancel(j) ==
  /\ Cancellable(j)
  /\ SignalCancel(j)
  /\ Turns!Cancel(j)
  /\ status' = [status EXCEPT ![j] = "cancelled"]
  /\ UNCHANGED <<created, clock, kind, admitting, queue, accessVars, workerVars>>

-----------------------------------------------------------------------------
(* The worker task of a domain. *)

Goto(d, place) == pc' = [pc EXCEPT ![d] = place]

\* turn() was entered: a job that changes search raises the barrier first.
BeginJob(d, j) ==
  /\ Turns!TakeTurn(j)
  /\ IF ChangesSearch(j)
     THEN Gate!BeginUpdate(j)
     ELSE UNCHANGED accessVars
  /\ IF ChangesSearch(j) /\ readers # {}
     THEN Goto(d, "draining") /\ UNCHANGED status
     ELSE Goto(d, "running") /\ status' = [status EXCEPT ![j] = "running"]

\* One evaluation of the loop in turn(), for the job in hand.
SeekTurn(d, j) ==
  \/ Turns!TurnLost(j) /\ Goto(d, "closing") /\ UNCHANGED <<accessVars, status>>
  \/ Turns!AwaitTurn(j) /\ Goto(d, "turn") /\ UNCHANGED <<accessVars, status>>
  \/ BeginJob(d, j)

\* _work takes the next job and skips it when it was cancelled meanwhile.
Take(d) ==
  /\ pc[d] = "take" /\ queue[d] # <<>>
  /\ LET j == Head(queue[d]) IN
       /\ queue' = [queue EXCEPT ![d] = Tail(@)]
       /\ cur' = [cur EXCEPT ![d] = j]
       /\ IF status[j] = "cancelled"
          THEN Goto(d, "closing") /\ UNCHANGED <<turnVars, accessVars, status>>
          ELSE SeekTurn(d, j)
  /\ UNCHANGED <<created, clock, kind, admitting, cancelEvents>>

\* The worker task ends with its queue.
Retire(d) ==
  /\ pc[d] = "take" /\ queue[d] = <<>>
  /\ Goto(d, "idle")
  /\ UNCHANGED <<turnVars, accessVars, jobVars, cur>>

\* Woken by notify_all.
RetryTurn(d) ==
  /\ pc[d] = "turn" /\ cur[d] \notin sleepers
  /\ SeekTurn(d, cur[d])
  /\ UNCHANGED <<created, clock, kind, admitting, queue, cancelEvents, cur>>

\* Woken in the drain: a cancelled job leaves through the gate and the turn,
\* and _abandon_job finds nothing left to record.
Drain(d) ==
  /\ pc[d] = "draining" /\ cur[d] \notin drainers
  /\ \/ /\ Gate!KeepDraining(cur[d])
        /\ UNCHANGED <<turnVars, status, pc>>
     \/ /\ Gate!StartWriting(cur[d])
        /\ status' = [status EXCEPT ![cur[d]] = "running"]
        /\ Goto(d, "running")
        /\ UNCHANGED turnVars
     \/ /\ cur[d] \in cancelEvents
        /\ Gate!EndUpdate(cur[d])
        /\ Turns!ReleaseTurn(cur[d])
        /\ Goto(d, "closing")
        /\ UNCHANGED status
  /\ UNCHANGED <<created, clock, kind, admitting, queue, cancelEvents, cur>>

\* Leaving _execute_guarded and turn() runs every finally block at once.
LeaveTurn(j) ==
  /\ Turns!ReleaseTurn(j)
  /\ IF ChangesSearch(j) THEN Gate!EndUpdate(j) ELSE UNCHANGED accessVars

\* Mutant of Acknowledged: the ending of an operation always counts.
NeverAcknowledged(j) == FALSE

\* cancel() has already answered for this job.
Acknowledged(j) == status[j] = "cancelled"

\* The operation returned or raised.  A status that cancel() made final stays.
Finish(d) ==
  /\ pc[d] = "running"
  /\ IF Acknowledged(cur[d])
     THEN LeaveTurn(cur[d]) /\ Goto(d, "closing") /\ UNCHANGED status
     ELSE /\ \E outcome \in {"succeeded", "failed"} :
               status' = [status EXCEPT ![cur[d]] = outcome]
          /\ Goto(d, "saving")
          /\ UNCHANGED <<turnVars, accessVars>>
  /\ UNCHANGED <<created, clock, kind, admitting, queue, cancelEvents, cur>>

\* write_final returned, or raised JobPersistenceError: both leave the turn.
Saved(d) ==
  /\ pc[d] = "saving"
  /\ LeaveTurn(cur[d])
  /\ Goto(d, "closing")
  /\ UNCHANGED <<jobVars, cur>>

\* The finally block of _work, after its flush.
Close(d) ==
  /\ pc[d] = "closing"
  /\ status' = [status EXCEPT ![cur[d]] = "gone"]
  /\ cancelEvents' = cancelEvents \ {cur[d]}
  /\ cur' = [cur EXCEPT ![d] = NoJob]
  /\ Goto(d, "take")
  /\ UNCHANGED <<created, clock, kind, admitting, queue, turnVars, accessVars>>

-----------------------------------------------------------------------------

Worker(d) == Take(d) \/ Retire(d) \/ RetryTurn(d) \/ Drain(d)
             \/ Finish(d) \/ Saved(d) \/ Close(d)

EnterSearch(s) == Gate!EnterSearch(s) /\ UNCHANGED <<turnVars, jobVars, workerVars>>
ExitSearch(s) == Gate!ExitSearch(s) /\ UNCHANGED <<turnVars, jobVars, workerVars>>
WakeOnCancel(j) == Gate!WakeOnCancel(j) /\ UNCHANGED <<turnVars, jobVars, workerVars>>

Next ==
  \/ \E d \in Domain, j \in Job, k \in CorpusKind \cup EvalKind : Admit(d, j, k)
  \/ \E d \in Domain, j \in Job : Enqueue(d, j) \/ AbortEnqueue(d, j)
  \/ \E j \in Job : Cancel(j) \/ WakeOnCancel(j)
  \/ \E d \in Domain : Worker(d)
  \/ \E s \in Search : EnterSearch(s) \/ ExitSearch(s)

\* The event loop runs every ready task, inserts and writes return, and operations
\* end.  Nobody has to submit, cancel or search.
Fairness ==
  /\ \A d \in Domain : WF_vars(Worker(d))
  /\ \A d \in Domain, j \in Job : WF_vars(Enqueue(d, j) \/ AbortEnqueue(d, j))
  /\ \A j \in Job : WF_vars(WakeOnCancel(j))

Spec == Init /\ [][Next]_vars

FairSpec == Spec /\ Fairness

\* What Fairness leaves open: a search may stay inside the gate for ever.
SearchesEnd == \A s \in Search : WF_vars(ExitSearch(s))

-----------------------------------------------------------------------------
(* What the queues promise. *)

Places == {"idle", "take", "turn", "draining", "running", "saving", "closing"}
Statuses == {"absent", "queued", "running", "succeeded", "failed", "cancelled", "gone"}

\* Every variable has its type.
TypeOK ==
  /\ Turns!TypeOK /\ Gate!TypeOK
  /\ cancelEvents \subseteq CorpusJob
  /\ created \in [Job -> Nat] /\ clock \in Nat
  /\ kind \in [Job -> CorpusKind \cup EvalKind \cup {"none"}]
  /\ status \in [Job -> Statuses]
  /\ admitting \in [Domain -> SUBSET Job]
  /\ queue \in [Domain -> Seq(Job)]
  /\ pc \in [Domain -> Places]
  /\ cur \in [Domain -> Job \cup {NoJob}]

Holding(d) == pc[d] \in {"draining", "running", "saving"}

\* The two workers are separate tasks, yet never two jobs between entering
\* turn() and leaving it: corpus and evaluation work is serialised.
OneJobExecutes == \A d, e \in Domain : Holding(d) /\ Holding(e) => d = e

\* While a job that rewrites chunks, vectors or BM25 statistics executes or
\* saves its result, no admitted search is still reading them.
WritersExcludeSearches ==
  \A d \in Domain :
    pc[d] \in {"running", "saving"} /\ ChangesSearch(cur[d]) => readers = {}

\* The barrier is up exactly while a search-changing job holds the turn: a
\* cancelled or failed job never leaves searches locked out.
BarrierMatchesTurn ==
  writers = {cur[d] : d \in {e \in Domain : Holding(e) /\ ChangesSearch(cur[e])}}

\* A cancellation the operator was told about is final: neither the worker
\* nor a late operation result revives or overwrites the job.
CancelledStaysCancelled ==
  [][\A j \in Job : status[j] = "cancelled" => status'[j] \in {"cancelled", "gone"}]_vars

\* put_nowait never finds the queue full: every admitted job still has a slot
\* when its insert returns, although other requests run during the insert.
AdmissionFits ==
  \A d \in Domain : Len(queue[d]) + Cardinality(admitting[d]) <= MaxQueued

\* Concurrent requests for the same quick evaluation leave at most one of
\* them queued or running.
NoDuplicateQuick ==
  \A i, j \in EvalJob :
    /\ kind[i] = "quick" /\ status[i] \in {"queued", "running"}
    /\ kind[j] = "quick" /\ status[j] \in {"queued", "running"}
    => i = j

KindsMatchTickets == Turns!KindsMatchTickets

\* Nobody sleeps through a wakeup.  A worker asleep in turn() has its ticket and somebody
\* ahead of it, a writer asleep in the drain has a search to wait for, whoever of
\* registrations, cancellations, endings and searches came in between.
NoLostTurn == Turns!NoLostWakeup
NoLostDrain == Gate!NoLostDrain
NoLostWakeup == NoLostTurn /\ NoLostDrain

\* A cancelled job is woken by the watcher and does not go back to sleep.
CancelEndsDrain ==
  \A j \in CorpusJob :
    (j \in cancelEvents /\ \E d \in Domain : pc[d] = "draining" /\ cur[d] = j)
      ~> status[j] = "gone"

\* Every queued job leaves the system: neither worker waits for ever on the turn, on the
\* gate or on the other worker, as long as the searches that are drained end.  A job
\* that was cancelled in the drain leaves although they do not.
EveryJobSettles ==
  /\ SearchesEnd => \A j \in Job : status[j] = "queued" ~> status[j] = "gone"
  /\ CancelEndsDrain

=============================================================================
