---------------------- MODULE JobExecutionCoordinator ----------------------
(***************************************************************************)
(* The ticket desk that corpus and evaluation jobs share (class            *)
(* JobExecutionCoordinator of app/operator/jobs/execution.py).  A job      *)
(* registers one ticket, its worker waits until the ticket is the oldest   *)
(* and nobody holds the turn, and the holder gives the turn back.  Every   *)
(* operator below is one critical section of the coordinator's condition:  *)
(* none of them awaits between its first read and its last write.          *)
(***************************************************************************)
EXTENDS Integers

CONSTANTS Job,   \* job identities; only their order matters, as a tie break
          NoJob  \* None

VARIABLES
  created,   \* created_at of each job, 0 before it is known
  pending,   \* tickets waiting for the turn
  active,    \* the job that holds the turn, or NoJob
  kinds,     \* jobs with an entry in _kinds
  waiting,   \* jobs with an on_wait callback
  notice,    \* the job each waiter was last told about, NoJob for "Queued"
  sleepers   \* jobs whose worker sleeps on the condition

turnVars == <<pending, active, kinds, waiting, notice, sleepers>>

\* _pending is sorted by (created_at, job_id).
Before(i, j) == \/ created[i] < created[j]
                \/ created[i] = created[j] /\ i < j

IsOldest(j, tickets) == j \in tickets /\ \A i \in tickets \ {j} : Before(j, i)

\* What _notify_waiters tells a waiting ticket: the holder of the turn, else
\* the oldest other ticket, else nobody.
Predecessor(j, tickets, holder) ==
  IF holder # NoJob THEN holder
  ELSE IF IsOldest(j, tickets) THEN NoJob
  ELSE CHOOSE i \in tickets : IsOldest(i, tickets)

NotifyWaiters(tickets, holder, listeners) ==
  [j \in Job |-> IF j \in tickets \cap listeners
                 THEN Predecessor(j, tickets, holder) ELSE NoJob]

Init ==
  /\ pending = {} /\ active = NoJob /\ kinds = {} /\ waiting = {}
  /\ notice = [j \in Job |-> NoJob] /\ sleepers = {}

\* Mutant of NotifyAll: the waiting workers are not woken.
NotifyNobody == UNCHANGED sleepers

\* _condition.notify_all()
NotifyAll == sleepers' = {}

\* Mutant of Forget: the kind of a finished job is left behind.
ForgetCallbackOnly(j) == waiting' = waiting \ {j} /\ UNCHANGED kinds

\* The entries of a job leave _kinds and _waiting.
Forget(j) == kinds' = kinds \ {j} /\ waiting' = waiting \ {j}

\* register(); listens says whether the caller passed on_wait.
Register(j, listens) ==
  /\ j \notin pending
  /\ kinds' = kinds \cup {j}
  /\ waiting' = IF listens THEN waiting \cup {j} ELSE waiting
  /\ pending' = pending \cup {j}
  /\ notice' = NotifyWaiters(pending', active, waiting')
  /\ NotifyAll
  /\ UNCHANGED active

\* cancel(); the entries of the job that holds the turn stay.
Cancel(j) ==
  /\ pending' = pending \ {j}
  /\ IF active = j THEN UNCHANGED <<kinds, waiting>> ELSE Forget(j)
  /\ notice' = NotifyWaiters(pending', active, waiting')
  /\ NotifyAll
  /\ UNCHANGED active

\* Mutant of HasTurn: the turn is granted while another job holds it.
OldestHasTurn(j) == IsOldest(j, pending)

\* One evaluation of the loop in turn() ends in one of three ways.
HasTurn(j) == active = NoJob /\ IsOldest(j, pending)

TurnLost(j) == j \notin pending /\ UNCHANGED turnVars

TakeTurn(j) ==
  /\ HasTurn(j)
  /\ pending' = pending \ {j}
  /\ active' = j
  /\ waiting' = waiting \ {j}
  /\ notice' = NotifyWaiters(pending', j, waiting')
  /\ UNCHANGED <<kinds, sleepers>>

AwaitTurn(j) ==
  /\ j \in pending
  /\ ~HasTurn(j)
  /\ sleepers' = sleepers \cup {j}
  /\ UNCHANGED <<pending, active, kinds, waiting, notice>>

\* The finally block of turn().
ReleaseTurn(j) ==
  /\ active' = IF active = j THEN NoJob ELSE active
  /\ Forget(j)
  /\ notice' = NotifyWaiters(pending, active', waiting')
  /\ NotifyAll
  /\ UNCHANGED pending

-----------------------------------------------------------------------------

\* Every variable of the desk has its type.
TypeOK ==
  /\ pending \subseteq Job /\ kinds \subseteq Job
  /\ waiting \subseteq Job /\ sleepers \subseteq Job
  /\ active \in Job \cup {NoJob}
  /\ notice \in [Job -> Job \cup {NoJob}]

\* _notify_waiters reads _kinds[preceding] without a default, and has_kind()
\* answers from _kinds: the entries are exactly the tickets and the holder.
\* A missing entry is a KeyError inside register(), cancel() or turn(); a
\* leftover makes has_kind() report work that no longer exists.
KindsMatchTickets ==
  kinds = pending \cup (IF active = NoJob THEN {} ELSE {active})

\* No lost wakeup: a worker asleep in turn() still has its ticket, and could
\* not take the turn if it were awake.
NoLostWakeup == \A j \in sleepers : j \in pending /\ ~HasTurn(j)

=============================================================================
