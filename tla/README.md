# TLA+ models of DocReview RAG

DocReview RAG answers questions about SEC and DART filings from a searchable corpus. Its Python
service (`app/`) is one asyncio process per deployment that serves searches and reviews while an
operator acquires filings, rebuilds the search index and evaluates retrieval. This directory holds
the specifications, model-checking configurations and proofs kept beside that code.

## 1. Inventory

| Component | State | Operations | Interacts with |
|---|---|---|---|
| Job execution coordinator (`operator/jobs/execution.py`) | tickets `_pending`, holder `_active`, `_kinds`, `_waiting` callbacks, one condition | `register`, `cancel`, `turn`, `busy`, `has_kind` | both job queues; callbacks into the evaluation queue |
| Corpus access gate (`operator/corpus_access.py`) | `_readers`, `_writers`, writer lock, one condition | `search`, `update`, cancel watcher | every search and review; corpus jobs that rewrite the index |
| Corpus job queue (`corpus_admin/job_queue.py`) | `_jobs`, FIFO of 8, worker task, cancel events, enqueue lock | `enqueue`, `retry`, `cancel`, worker | coordinator, gate, ledger, source deletion |
| Evaluation queue (`evals/admin/service.py`) | the same without cancel events | `enqueue` with deduplication, `retry`, `cancel` | coordinator, ledger |
| Progress persister and ledger (`operator/jobs/execution.py`, `store.py`) | drain tasks, dirty marks, retained final snapshots, write lock; rows in PostgreSQL | `schedule`, `flush`, `write_current`, `write_final`, `retry_pending`; `create`, `put`, `recover` | both queues; history |
| Job history (`operator/jobs/history.py`, `api/system/jobs.py`) | rows, backup files | archive, restore, delete | ledger |
| Source transactions (`ingestion/sources/storage.py`, `publication.py`) | source files, catalog, journal directory, file lock | `commit_sources`, `recover_transaction`, `publish` | acquisition, deletion, job input pinning |
| Source deletion (`ingestion/sources/deletion.py`) | single-use approvals with expiry | `preview`, `reserve`, `execute` | corpus queue, source transactions |
| Shared AI allowance (`release/ai_allowance.py`, `middleware.py`) | SQLite ledger of requests and cost, a salt per host | `admit`, `peek`, `reserve_amount` | every public request and provider call; all worker processes of a host |
| Runtime reset (`api/runtime_gate.py`, `operator/reset/`) | active request count, lease; reset audit file, preview, lock file | hold, release; preview, start, recover, close | Docker, database, request middleware |
| Local operator commands (`operator/local/processes.py`, `app.py`) | one child process, bounded history | start, cancel, close | operator UI; excluded by a running reset |
| Review workflow and budgets (`workflow/`, `observability/budget.py`) | `WorkflowState` of a run, tokens and cost used | `retrieve`, `grade`, `check`, `report` | providers, retrieval, stored runs |
| Review runtime and evidence (`api/review/runtime.py`, `evidence.py`) | candidate tokens (signed), routing cache | admission, search, selection, review, persistence | corpus gate, workflow, allowance |
| Review streaming (`api/review/streaming.py`) | one producer task and one queue per stream | events, disconnect, unwinding | review runtime |
| LLM providers (`llm/completion.py`, `llm/openai.py`, `llm/openai_limits.py`, `llm/local/`) | settings, usage of the call | `complete` with one repair, preflight, settings changes | allowance, workflow |
| Agent loop (`agent/loop.py`) | messages, steps, tokens of a tool loop | tool calls | providers, retrieval |
| Retrieval, query routing, ingestion parsing, evaluation scoring, web client, deployment | mostly none of their own | data processing, I/O | — |

**Hard behaviours.** Two worker tasks and any number of HTTP requests interleave at every `await`;
a cancellation may hit a job anywhere between its insert and its last write; a database write may
fail before or after it committed, and is read and committed at different moments; the process may
stop at any point and a new one finds only rows and files; the operator may delete history in
between; timestamps come from a wall clock, which may be set back. Several processes share the
allowance file. A review holds the corpus gate across paid calls, any of which may be refused,
repaired or denied after the one before was billed, and its client may leave at every await. The
operator of the local stack resets an application it reaches only through docker commands: a command
may have taken effect although it failed, the worker reloads itself when a file changes, and the
operator process may be stopped or die between any two steps.

**What makes the components correct.** *Queues:* one job executes at a time; no job is lost, run
twice or run after its cancellation was answered; every queued job leaves. *Gate:* nobody reads
while a writer writes, and the barrier never outlives its writer. *Coordinator:* no lost wakeup, no
missing entry, current messages. *Ledger:* rows only go through their life cycle, whatever fails;
an answered cancellation is durable; a charge is not lost; after a restart nothing stays running.
*Sources:* catalog and files are of one version after every crash. *Deletion:* only what was
previewed. *Allowance:* no window and no day exceeds its limit, and a refusal says truly when to come
back. *Reset:* only what was confirmed is deleted, no response is cut, nothing else runs meanwhile,
and a hold never stays behind. *Commands:* one at a time, and none outlives its end. *Review:* an
answer that claims support rests on evidence that was graded relevant and is still in the index;
every request sent is on record, within the limits. *Stream:* it tells the run that was stored, and
ends.
The hazards behind these are listed, line by line, in `PROJECT.json`.

## 2. Modules

* `JobExecutionCoordinator` — each operation of the coordinator as one critical section. Tickets
  are the set `pending`, ordered by `Before` (created_at, then identity). The loop in `turn()` has
  three outcomes: `TakeTurn`, `AwaitTurn`, `TurnLost`. `sleepers` are the workers inside
  `condition.wait()`; `notify_all` empties it.
* `CorpusAccess` — the gate. `readers` are the admitted searches, `writers` the jobs inside
  `update()`. `BeginUpdate` raises the barrier, `KeepDraining` and `StartWriting` are the two ways a
  woken writer goes on, `EndUpdate` is the `finally` block, `WakeOnCancel` the watcher task.
* `JobQueues` — composes the two with both job domains. `Admit` is `enqueue()` up to the awaited
  insert, `Enqueue`/`AbortEnqueue` what follows when the insert returns or raises; `Cancel` is
  `cancel()` up to its ledger write; `Take`, `RetryTurn`, `Drain`, `Finish`, `Saved`, `Close` and
  `Retire` are the worker between its suspension points. `pc[d]` names the await at which the
  worker of domain `d` is, `cur[d]` the job in its hands.
* `JobLedger` — how one domain's jobs reach the ledger: the persister's drain tasks, `flush`, the FIFO
  of the write lock, `write_current`, `write_final` with its attempts and retained snapshots,
  `recover_jobs()` at the head of every request, history deletion, and the crash of the process.
* `JobLifecycle` — the abstract promise about rows. `JobLedger` implements it
  (`Lifecycle == INSTANCE JobLifecycle WITH ledger <- ...`, checked as `LifecycleSpec`).
* `SourceTransaction` — the journalled publication of originals and their catalog. One holder of the
  file lock at a time (`flock` is trusted), so `step` and `at` name the file operation it does next;
  `goal` is where `recover_transaction()` returns to. `Begin` to `SyncCommitted` are
  `commit_sources()`, `CheckJournal` to `SyncRemoved` are `recover_transaction()`, one action per file
  operation; `Fault` is a raising operation with its handler, `Crash` the end of the process, `Outage` a power loss.
  `may` and `mayJournal` hold what could be found after one that leaves the directory: every value
  written since its last fsync. `dirs` are the existing directories, `lasting` those whose own entries
  are durable, and `lost` records that a power loss took a durable original, with a directory that was
  not, from a catalog that registers it.
* `AtomicSources` — the abstract promise about sources. `SourceTransaction` implements it: `Recovered` is
  what a recovery would make of the disk now, `Ends` the two contents of the open transaction.
* `SourceDeletion` — confirmed deletion on that contract: `transaction` holds the two ends of an
  unresolved commit and whose it is. `Preview`, `Confirm` (`reserve()` and the job), `Take` and `Delete`
  or `Refuse` (`execute()`) are the life of an approval; `Publish`, `Pin` (`record_selection()`), `Edit`
  (a hand), `EndCommit`, `BreakCommit`, `Recover` and `Restart` what may come between. `Digest` is
  what the confirmation compares.
* `AIAllowance` — the allowance file shared by the worker processes: rows of admitted requests and
  of reserved provider calls, and the salt that names clients. `Begin` takes SQLite's write lock and
  reads the clock and the rows; `CommitRate` (`_rate`: `admit` and `peek`), `CommitCost` (`_cost`) or
  `Unavailable` end the transaction; `Crash` rolls it back. `SetClock` is the wall clock.
* `EvidenceSelection` — the pure functions that turn ranked hits into evidence: text deduplication,
  the preferred share of a filing, the character budget, pinned and excluded chunks.
* `ReviewRun` — one client's requests: `Submit`, `Admit` (the public guard), `Enter` (the gate),
  routing, `SearchCandidates`, `Verify` and `LoadSelected` (the signed candidates are read again),
  the four nodes, the model calls between them (`Reserve`, `Respond`, with one repair), `Persist`,
  `Leave`, and the event stream with its disconnect. `at` names the await at which the request's task
  is, `run` is `WorkflowState`, `call` the model call under way. The corpus is rewritten around it
  (`BeginUpdate`, `EndUpdate`) under the contract that `CorpusAccess` and `JobQueues` establish.
* `RuntimeGate` — the development application as a reset meets it: worker, lease, active requests,
  data. `app.active` is what the middleware counts, `requests` where each request really is.
* `LocalCommands` — the one child process of the operator: `_run` from spawn to its end, timeout,
  `cancel()` and what it leaves undone while the process is being created.
* `RuntimeReset` — composes the two with `WipeService`: `Calls` are the requests of its routes while
  they hold `self.lock`, `TaskStep` the stages of `_execute` (`task.at` names the stage), `CommandFails`
  a docker command that fails, `Close`, `Crash` and `Restart` the life of the operator process.
* `JobQueuesProofs`, `JobLedgerProofs`, `SourceTransactionProofs`, `AIAllowanceProofs`, `ReviewRunProofs`,
  `RuntimeResetProofs`, `SourceDeletionProofs` — theorems with their proofs; `FoldInduction` — the lemmas
  about numbers, folds and sums that several of them cite.
* `MCJobQueues`, `MCJobLedger`, `MCSourceTransaction`, `MCSourceDeletion`, `MCAIAllowance`,
  `MCReviewRun`, `MCRuntimeReset` — constants for TLC.

**Steps.** asyncio suspends only at an `await` that really waits. No condition in this code is held
across such an await, so each `async with self._condition` block is atomic, and so is every stretch
between two suspensions; the models have one action per stretch. `FailWrite`, `Crash` and
`AbortEnqueue` are the environment's actions. Source publication runs in threads and in other
processes under the file lock, so there an action is one file operation.

**Abstractions.** A job's data is its kind, timestamp, status and (in the ledger) how many batches
it was charged for; stages, messages, progress counters and redaction are left out, the waiting
messages too. A snapshot with an empty usage list
leaves the stored list alone, as `put()` merges `result_refs`. `JobQueues` treats ledger writes as
time that passes; `JobLedger` treats the turn as given and lets the worker take any queued job.
`BeginWrite` may come later than the moment the lock is granted, which only adds behaviours.
`NoneWoken` states the one timing assumption: a coroutine that a finished drain task has woken
resumes before a database round trip that began after that drain can end. The cancellation of an
HTTP request in the middle of a final write is not modelled, nor are exceptions of a final write
other than transport errors and a missing row. Two jobs of one domain never share a timestamp: a
database insert lies between their clock readings; jobs of two domains may.

In `SourceTransaction` the bytes of an original are a version, the catalog is the version it
registers per path (selections and document metadata are left out), and a digest is the content
itself. The `*.after` copies and temporary files are left out: recovery never reads them. Preparing
a row is one step, because recovery looks at nothing before the record exists. The initial sources
agree; foreign changes, legacy paths, retained copies and the reset journal's guard are not
modelled. The fsync of a directory makes its entries durable, not the entry that names it: what
`mkdir(parents=True)` adds is never synced, so an `Outage` may take any set of the directories made
since the last one, with everything in them (`Torn`). All levels above a filing are one directory,
since the loss of any of them takes the file; a level that two filings share takes both, which is
one of the sets. The root, which holds the lock file, and the directories of earlier publications
are durable from the start: the file system has written them back meanwhile. File contents are
durable when renamed (`publish_bytes` syncs them).

In `SourceDeletion` a filing has one original at one fixed path (the archive of a DART filing moves with
it), a version is its bytes, and retained manifests are what they name and where; processing
selections and the length limits of a request are left out. The catalog's digest is then coarser than the
code's, which can only let more deletions through. A preview reads and issues in one step, and so do
`reserve()` and the insert of the job: a change in between is one right after. The clock is read
anew, and may be anywhere, at each step that asks it. Files are not edited by hand while a commit is
unresolved (recovery refuses them, as `SourceTransaction` shows). `applied` and the plan an approval
carries serve the property only.

In `AIAllowance` an address is a model value (which header names the client is left out) and a unit of
time is the resolution of a stamp. `history` keeps every row that was ever committed and `retryAt` what
a refused client was told; both serve the properties only. A refusal is remembered only when no row
of that client is stamped in the future: with the clock set back, `Retry-After` is computed from a
time nobody has reached.

In `ReviewRun` a chunk is its identity and the version read, a hit list is any ranking of them, and
what a model answers is any value the code accepts after its checks. Sizes and texts are functions of
the chunk. One token costs one unit; a prompt is any size up to `MaxPrompt`. Prompts, citation spans,
figures and report texts are left out: `Guarded` keeps which claim the guard may leave standing. The
client sends one request at a time; two requests share nothing but the allowance and the gate, and
readers do not exclude each other. Expiry and a foreign signature of a token are one event
(`TokenLapses`).

In `RuntimeReset` there is one operator process on a checkout. A docker command takes effect in the
action that awaits it, or it fails; `Partial` is what it may have done by then, so a command that
was abandoned takes effect at once or never, and a failed `docker volume rm` may have removed the
volume or not. Rows and files are a count, and a preview that names the same count of the same
worker is the confirmed one. An inspection is three readings at three moments. `Lease` carries the
worker it was meant for; the code's lease is a UUID without it, and no action decides on it. The
child of a command of an operator that died is not followed.

## 3. Runs

| Run | Checks | Bounds, and why they are enough |
|---|---|---|
| `job_queues` | mutual exclusion, search isolation, barrier, capacity, wakeups, deduplication, finality of cancellation; every queued job settles if searches end, a cancelled one leaves the drain even if they do not, so a barrier comes down | one corpus job of a kind that drains or of one that bypasses the gate, two evaluations (one may be the duplicate, and they exceed the queue), two searches; the clock may tie but not step back (with `MaxTime = 0` all jobs tie, the case in which identities decide) |
| `job_ledger` | durability of cancellation and usage; reconciliation and settling | one job, two concurrent requests (cancel against cancel, list or enqueue), two faults, one restart, two charges; faults and restarts are finite, then the database answers |
| `job_ledger_pair` | refinement of `JobLifecycle`, no forgotten row | two jobs compete for the write lock; faults, a restart and history deletion |
| `job_ledger_usage` | expected violation | no faults, no restarts |
| `source_transaction` | catalog never ahead of originals, evidence, atomicity, durability of answers | originals of two filings whose directories need not exist, one version besides "absent": publication, republication and deletion occur; two transactions (the second meets the remains of the first); one raising operation, one dead process and one power loss, in any combination and at any step; the two filings are symmetric |
| `source_live` | every pending publication is resolved | two of each failure between the prepared journal and its cleanup, all directories present: what this leaves out is described in section 4 |
| `source_new_directory` | expected violation | one failing `mkdir` |
| `source_deletion` | only what one preview showed disappears, once; past inputs stay | two filings and two versions, so that one is deleted beside the other and replaced by other bytes; two previews that overlap; a reading of the clock before or after the expiry; one filing per acquisition (a larger one is as good as several); one pinned selection, edit, broken commit or restart anywhere |
| `allowance` | request windows, daily cost, honest `Retry-After` | two processes with crashes, one address, a clock that may be set back by as much as the ledger's retention covers; limits of one per minute and two per day, so that each window fills and slides; an amount that is no whole number of units, and a limit below two of them once rounded |
| `review_run` | grounding, current evidence, selections, traced requests, budgets, stored denials | three chunks of two filings, two of one text; context that fits some pairs only; limits of three tokens, so that a repair or a second call may exceed each of them |
| `review_stream` | the stream tells the stored run, ends, and never blocks an update for ever | the same with two chunks and streamed requests |
| `reset` | exclusion, recorded holds, lock, confirmed deletion, no cut response, admission reopens | one reset, one request, one command, two faults of any kind at any step, two reloads or restarts of the worker, two rows (one for the preview, one for a change after it) |

`MaxFaults`, `MaxCrashes`, `MaxUsage`, `MaxTime`, `MaxRows`, `MaxInstance`, `MaxCommands`,
`MaxResets`, `MaxPrompt`, `MaxPreviews`, `MaxAcquired` and `MaxEvents` are bounds of the model, not
of the code; `MaxTransactions`, `MaxOutages`, `Faulty` and `Fragile` (where failures may hit)
likewise; `MaxQueued` (8 in the code), `MaxAttempts` (3), `MaxApprovals` (128), `Lifetime`, the
windows and all budgets are the code's, smaller in the runs so that the limits are reached. Deadlock
is checked in all of them: a search or a request can always come, a clock move, or the operator be
asked for a preview.

**Fairness.** Weak fairness of each worker, of an insert that was started and of the watcher: the
event loop runs every ready task, the database answers or raises, and operations have their own
timeouts. That searches end is a hypothesis of the first part of `EveryJobSettles` only (`SearchesEnd`); its second,
`CancelEndsDrain`, must hold although a review stays in the gate across its paid calls. In the ledger
also of the job board, which the operator's page polls. For sources: file operations end, and
acquisition is retried while a publication is pending, as the error message asks. In a review: the
awaits of a request's task end (each has a timeout), a connected client reads, and an update that
may run does. In a reset: the operator's requests, its task and its command runner get their turns,
a child that was signalled dies (the second signal is SIGKILL), a closing operator exits, and its
user starts it again and asks for recovery while a hold is retained, as the page tells them. Nobody
is assumed to submit, cancel, preview or search, and no strong fairness is needed: when an action of
a worker is enabled, only that worker disables it.

## 4. What disagrees with the code's own words

Two runs show a disagreement; each is a finding in `PROJECT.json` with the words it contradicts.

* **Lost charge on cancellation.** (`job_ledger_usage`) `cancel()` takes its snapshot before it waits;
  a batch charged during the wait is overwritten.
* **Rollback of a new filing.** (`source_new_directory`) Rolling back a file whose directory was never
  made raises in `_sync_directory`; no recovery gets past it.

Six more were found, and their runs are left out to keep the project small. Each can be seen again
with the change given here.

* **New directories and power loss.** `mkdir(parents=True)` makes up to three levels for a new filing
  (`storage.py:152`), and only the entries of the last are synced (157), never the ones that name it or
  the levels above. A power loss may keep the catalog and lose the original: a committed journal is then
  refused ("Committed source files changed", 101), and an answered publication may be gone, although
  `_sync_directory` is to "make rename ordering durable before advancing the transaction journal" (69).
  What the runs and the proofs say of sources therefore ends with such a loss (`lost`).
  (`source_transaction` with `MaxFaults = 0`, `MaxCrashes = 0` and `RenamesAreDurable` alone.)
* **A hold on a reloaded worker.** The lease is recorded with the confirmed worker before the gate is
  asked (`service.py:380`). If a reloaded worker grants it and the operator stops before it gives the
  lease back, `recover()` sees another worker (327), forgets the lease and leaves that worker closed,
  although the page promises to "release the retained reset hold" (289). No property of a run covers
  it: `AdmissionReopens` speaks of the confirmed worker. (`reset` with `Request = {}`, `MaxRows = 0`,
  `MaxCommands = 0` and the property `EveryHoldEnds` alone.)
* **Clock order.** Tickets are sorted by wall-clock time but queued in FIFO order. If the clock steps
  back between two enqueues of one domain, both workers stop, although the coordinator is to "serialize
  corpus and evaluation jobs in deterministic registration order" (`execution.py:126`). `EveryJobSettles`
  is checked with a clock that does not, so it does not cover this. (`job_queues` with
  `ClockStepsBack = TRUE`, `MaxTime = 2`, `MaxQueued = 2` and `EveryJobSettles` alone.)
* **History deletion against a retained snapshot.** A final snapshot whose row was deleted can never
  be saved; the domain refuses requests until restart. `PendingReconciled` is checked without deletions,
  so it does not cover this. (`job_ledger` with `HistoryDeletes = TRUE` and `PendingReconciled` alone.)
* **Interrupted cleanup.** The journal's entries are removed in any order; a crash in between leaves a
  journal that recovery refuses. (`source_live` with `Fragile = {"removing"}`.) A second failure makes it
  worse: when the marker went first, another process has begun to undo the transaction, and a power loss
  brings the marker back, the journal is "committed" over restored files. `EvidenceHolds` promises
  nothing once failures of both sorts have happened (`OneKind`). (`source_transaction` with `EvidenceHolds`
  without that condition.)
* **Pinned evidence.** `runtime.py:1020` accepts pinned chunks by the length of their index text;
  `nodes.py` fills the slots by the length of their JSON entries and drops chunks of equal text up to
  white space. A pinned chunk that was accepted may be missing from the evidence, without a word.
  (`review_run` with the invariant `PinnedIsEvidence`.)

Two smaller things the models show without a property about them. An error after the committed marker
(line 159 of `storage.py`) is reported as a failed publication although the new sources stay. And when
the fragments of a table cannot be read (`nodes.py`, after `check`'s call), the node's failure leaves
the billed call out of the stored steps and usage; `RequestsAreTraced` excludes it by name.

## 5. Proofs

Every invariant and every action property a run checks, and both refinements, are also theorems; only
the liveness properties are not (see the end of this section).

**`JobQueuesProofs`** proves, for every set of jobs and searches, every queue size, every set of kinds
and every behaviour of the clock (`QueuesAssumption` only says that identities are ordered numbers,
`None` is not a job, the domains are disjoint and capacities are positive):
`TypeCorrect`, `MutualExclusion`, `SearchIsolation`, `BarrierFollowsTurn`, `KindsFollowTickets`,
and `CancellationIsFinal`.

None of the safety properties is inductive. `SafeInv` adds to the types
*Bookkeeping* (a ticket belongs to a queued job; a job past its turn has none; a cancelled corpus job has
its event set; evaluation kinds never reach the gate), *TurnInv* (the holder is exactly the job of the
one worker inside `turn()`) and *GateInv* (the barrier is the holder's; only search-changing jobs
drain; no readers while writing). Mutual exclusion then follows because two workers inside `turn()`
would hold two different jobs while `active` is one. One lemma per action shows that it keeps
`SafeInv`; `FinishSafe`, `DrainSafe` and `LeaveSafe` are the interesting ones.

The second part of the module builds on them, under the same assumption: `AdmittedFits` (an admitted job
finds its slot), `QuickIsUnique` and `SleepersMustWait` (no worker sleeps while its ticket is the oldest
and nothing is active, and no writer in the drain when the last search has left: no lost wakeup). `PromiseInv` adds to `SafeInv` that one job at a time is
between `_enqueue_lock`'s check and its insert and its slot is still free (`SlotKept`), that a quick
evaluation counts from the check on, before it has a status the check could see (`OneLiveQuick`), and
the promise about sleepers itself: every step that makes a ticket the oldest, or clears
`active`, also notifies. The part about the drain (`DrainersMustWait`) is
inductive as it stands, because the last search to leave notifies.

**`JobLedgerProofs`** proves, for any number of jobs and concurrent requests, any number of failed
writes, restarts and charged batches, and every order in which the persister's tasks, the write lock
and the database come to run: `LedgerTyped`, `ForgottenRowsEnd`, `CancelsAreDurable`, the action
property `ChargesAreKept` and the refinement `LedgerImplementsLifecycle`. `LedgerAssumption` says that
worker, callers and jobs are different things, `MaxAttempts` is positive and the bounds are numbers.
None of these is inductive: what a row may become depends on the snapshot a suspended write carries,
and that on what the memory of the process was when the snapshot was taken. `LedgerInv` has three
layers. *LockInv*: the queue of the write lock is exactly who waits there, a waiter of `flush` is in
its drain's list, and a write in flight belongs to the head of the queue. *Flight*: the write in flight
lies between the row it replaces and the newest state in memory (`Follows` orders the statuses), and
the one of `write_final` is the retained snapshot. *JobInv*: the row runs behind the memory, a retained
snapshot is the end the job had, a job that ended in memory has ended in the ledger or its end is
retained, and an acknowledged cancellation is in the row with nothing retained that could replace it.
*WorkerInv*, *Inserts*, *Cancelling* and *RecoveredFirst* say where the actors may be meanwhile. One
lemma per action; `RowSteps` then lists what any step may do to a row (a newer snapshot is stored, a
row inserted, unfinished rows interrupted, ended rows swept), and both the action property and the
refinement follow from that list.

**`SourceTransactionProofs`** proves, for any number of files, transactions, raising operations, dying
processes and power losses at any of the steps, and whichever of the directories without a durable entry
a power loss takes: `SourcesHold`, `CatalogIsNeverAhead`, `EvidenceIsKept`, `AnsweredIsKept` and the
refinement `SourcesAreAtomic`. Each of them ends when a power loss takes an original together with
its new directory (`lost`): the code keeps none of it then (section 4).
`EvidenceIsKept` also asks that the failures so far were of one kind (`OneKind`; false without, section
4). Both conditions are on the state the code is in, and neither bounds what may still happen.
`SourcesAssumption` says that files are finitely many and none is the manifest, that `Absent` and
`NoJournal` are told apart from bytes and journals, that no file lies in the root directory, and that
the bounds are numbers. That an answered publication, or a catalog, is good on the disk now is not
inductive: what a power loss brings back, days later, decides. `SourcesInv` therefore speaks of `may` and
`mayJournal`, everything that could then be found. The sources are *Resting* (nothing left to the page
cache, catalog and files agree, and every journal that may come back finds all of its rows at one end) or
*Opened*: no other journal may come back, this one is recorded for good, and the rows are *Between*
their ends, the catalog leaving its prior bytes only while all originals have their new ones for good.
`DirsInv` (the root lasts, and what lasts exists) and the lemmas
`OutageFacts`, `OutageRests` and `OutageBetween` carry this over a power loss: one that takes a directory
with a durable original either makes `lost` true or takes an original the catalog it leaves does not
register, which the journal still explains. `StepInv` says how far each file operation has come. On top
of it, `EvidenceInv` (a committed journal has all of its new bytes) needs that only failures leave
foreign journals behind (`SoloInv`); `AnswerInv` carries what the caller is to be told from the
first step of its commit to the last; `LoneInv` says that all journals which could still change
something are of one transaction. `TameSteps` lists the kinds of step that do more than shrink what may
be found, and `AtomicSteps` turns the list into steps of `AtomicSources`.

**`AIAllowanceProofs`** proves `AllowanceTypes`, `WindowsAreKept`, `RetryIsHonest` and `DailyCostIsKept`: for
all limits, windows, clients, prices, processes and salts, and every clock that is set back by at most
`MaxSetback` with `MaxSetback + Day <= Keep` (the ledger keeps two days, so up to one day), no window
of a client ever holds more admitted requests than allowed, no UTC day costs more than its limit, and a
refused client that waits as told is admitted. `WindowsHold` and `DailyCostHolds` speak of every row ever
committed, the ledger only knows the rows that were not pruned, so the invariant needs *KeptInv*: a
pruned row is older than any window, and any UTC day, that a transaction under way, or one that begins
later, may look at. *LockInv* (what the holder of the lock read is still the ledger), *SaltInv* (all
processes name a client alike, also after restarts) and *ClockInv* carry it. `WindowStep` counts: the
new row's windows are those the decision looked at, and one more. `RetryInv` makes the promise to a
refused client one about every later time, so that no clock can break it; `WindowClears` needs
`WindowsHold` for it: the window that was full held exactly its limit, so one place is free when its
oldest row leaves. For the cost, `CostInv` says that no reservation costs more than the units it was
charged, `DayStep` that what is left of the day in the ledger covers all reservations of the day, and
`SumBound` adds them up; `UnitsCover` and `CeilingFits` are the two roundings.

**`ReviewRunProofs`** proves, for any index and any rewriting of it, any ranking, texts, sizes, prompts,
prices and limits, and whichever of the calls is refused, repaired or denied: `SuccessStaysWithinBudget`,
`DenialKeepsRun`, `SupportIsGrounded`, `RequestsStayTraced`, `EvidenceIsCurrent`, `SelectionIsHonoured` and
`StreamTells`, from the inductive invariants `ReviewHolds` and `ServiceHolds`, and `ReviewTyped`.
`ReviewAssumption` says that limits are positive, that `Gone` is no version and `None` is no failure,
request, call, decision or record; `EvidenceAssumption` that sizes are numbers, that a serialized entry is longer than the
text in it, and that chunks of one index text have one text. *ReviewInv* follows one
request: a run that has not failed is within its limits and only relevant evidence supports its decision
(`GoodRun`), nothing is billed before there is evidence (`EarlyInv`), a call under way still fits what
the calls before it left (`CallInv`), and a denial leaves nothing billed or a record (`DenialInv`).
*TraceInv* accounts for every billed request: those in the steps of the run and `Balance`, the ones of
the call under way that no step has counted yet. *SnapshotInv* ties the evidence to the gate: a token
taken inside the gate may be stale when it comes back, and only the second reading of `LoadSelected`
makes its candidates current, which they then stay because the gate is held (`StageInv`, `EvidenceInv`).
*StreamInv* says what the queue of a stream holds at every await, node by node. The rest are lemmas about
the selection itself, for any hits: text deduplication, the filing's share and the slots only take from
their input and keep its order (`Picks`, `Sorted`), the filing's share moves nothing while the hits are
no more than it allows, and what was pinned leads.

**`FoldInduction`** makes those operators provable. The prover has no induction over an operator, so its
lemmas are about sets and functions: `SetInduction` over the numbers up to `n`, `FoldExists` (a fold over
a sequence has a value for every prefix), `FiniteInduction` over the subsets of a finite set, and
`SumExists`, `SumChosen` and `SumBound` (a sum does not depend on the order the elements are chosen in,
and grows with its terms). They rest on the well-foundedness of the numbers and on facts about finite sets,
both from the library.

**`RuntimeResetProofs`** proves, for any number of requests, rows, commands, reloads, faults and
resets: `ResetTypes`, `ConfirmedHoldsAreRecorded`, `ResetsExcludeCommands`, `LockIsNeverKept`,
`EndedCommandsAreGone`, `DeletionIsConfirmed` and `NoRequestIsCut`. `ResetAssumption` says that the
bounds are numbers and `None` is no lease. `IInv` joins *GateInv* (the count of the gate is the number
of requests), *CallInv* (a request to the operator and a reset exclude each other), *CommandInv*,
*ExclusionInv* (since the inspection of `start()` found no command, none began), *HoldInv* (whoever
holds the confirmed worker is known to the operator while it lives, and to its audit) and *StageInv*
(what each stage has established: while "stopping" the confirmed worker is held and idle; while
"removing" the application is stopped, no job is active and the rows are the confirmed ones). One
lemma per action; `PartialEffect` and `UnwindsInv` carry the failing commands, closes and crashes.

**`SourceDeletionProofs`** proves `DeletionInvariant` and `OnlyPreviewedIsDeleted`, for any number of
filings, versions, previews, publications, edits, failures and restarts, and any behaviour of the clock;
`DeletionAssumption` only says that `Absent` is no version and the bounds are numbers. `IInv`
says that an approval's plan is what its digest tells (`DigestFixesPlan`: an equal digest means an
equal plan, byte for byte), that a token is held by one approval, one job or one commit and never
after it was applied, and that each end of an unresolved transaction either loses nothing or is the
content with exactly the shown files and registrations gone. The last part is what makes a recovery by
another process, long after the confirmation, still the deletion that was shown.

TLC checked these invariants on the runs' instances before they were proved (where one speaks of all
numbers, of those within the bounds).

Only model-checked: the liveness properties `EveryJobSettles`, `PendingReconciled`, `RowsSettle`,
`PublicationSettles`, `StreamEnds`, `UpdateGetsIn` and `AdmissionReopens` (fairness and ENABLED are outside the
proof system's reach). That evidence fits
its context and has no two equal texts is no property of a run and not proved either.
`ChargesPersisted` is violated by the code (section 4): `ChargesAreKept` is the part of it that holds.

## 6. Not modelled, and the plan

In this order:

1. `AgentLoop`: the step, token and time limits of the tool loop, on the calls of `ReviewRun`; the
   settings managers of the providers, which persist before they switch.
2. Several requests of `ReviewRun` over `JobQueues`' gate and `AIAllowance`'s ledger, as one
   composition instead of three with contracts.
3. A second operator process on one checkout, whose recovery and reset overwrite each other's
   audit; a docker command that takes effect long after it was abandoned (a hold delivered late).
4. Proofs: that the evidence handed to a model fits its context; how the contract under which
   `ReviewRun` meets the gate follows from `JobQueues`; how the one under which `SourceDeletion`
   meets `SourceTransaction` follows from `AtomicSources`.

Left out for good: retrieval and ranking, parsing and chunking, evaluation scoring (pure data
processing), web client, deployment and scripts.
