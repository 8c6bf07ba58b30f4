--------------------------- MODULE JobQueuesProofs ---------------------------
(***************************************************************************)
(* What holds of the two job queues for every number of jobs, searches and *)
(* queue slots, and for every behaviour of the wall clock.                 *)
(***************************************************************************)
EXTENDS JobQueues, FoldInduction, FiniteSetTheorems, TLAPS

\* Tickets sorted by (created_at, job_id) always have a first one: whatever the
\* clock did, the coordinator has a next job as long as tickets wait.
LEMMA OldestExists ==
  ASSUME created \in [Job -> Nat], NEW tickets \in SUBSET Job, tickets # {}
  PROVE  \E j \in tickets : Turns!IsOldest(j, tickets)
<1>1. Job \subseteq Nat
  BY QueuesAssumption
<1> DEFINE Times == {created[j] : j \in tickets}
<1>2. Times \in SUBSET Nat /\ Times # {}
  OBVIOUS
<1>3. PICK t \in Times : \A u \in Times : t <= u
  BY <1>2, LeastNat
<1> DEFINE First == {j \in tickets : created[j] = t}
<1>4. First \in SUBSET Nat /\ First # {}
  BY <1>1
<1>5. PICK j \in First : \A i \in First : j <= i
  BY <1>4, LeastNat
<1>6. ASSUME NEW i \in tickets \ {j} PROVE Turns!Before(j, i)
  <2>1. CASE created[i] = t
    BY <1>1, <1>5, <2>1 DEF Turns!Before
  <2>2. CASE created[i] # t
    <3>1. t <= created[i]
      BY <1>3
    <3> QED
      BY <1>5, <2>2, <3>1 DEF Turns!Before
  <2> QED
    BY <2>1, <2>2
<1> QED
  BY <1>5, <1>6 DEF Turns!IsOldest

-----------------------------------------------------------------------------
(* Type correctness. *)

\* There are two domains; every step below may use that.
USE DEF Domain

\* _notify_waiters always names another job, or tells a waiter "Queued".
LEMMA NoticeType ==
  ASSUME created \in [Job -> Nat],
         NEW tickets \in SUBSET Job, NEW holder \in Job \cup {NoJob}, NEW listeners
  PROVE  Turns!NotifyWaiters(tickets, holder, listeners) \in [Job -> Job \cup {NoJob}]
<1>1. ASSUME NEW j \in tickets PROVE Turns!Predecessor(j, tickets, holder) \in Job \cup {NoJob}
  <2>1. \E i \in tickets : Turns!IsOldest(i, tickets)
    BY OldestExists
  <2> QED
    BY <2>1 DEF Turns!Predecessor
<1> QED
  BY <1>1 DEF Turns!NotifyWaiters

\* The types of what the coordinator's operations leave behind.
LEMMA TurnsType ==
  ASSUME Turns!TypeOK, created \in [Job -> Nat], NEW j \in Job, NEW listens \in BOOLEAN,
         \/ Turns!Register(j, listens) \/ Turns!Cancel(j) \/ Turns!TakeTurn(j)
         \/ Turns!AwaitTurn(j) \/ Turns!TurnLost(j) \/ Turns!ReleaseTurn(j)
  PROVE  Turns!TypeOK'
<1> USE DEF Turns!TypeOK
<1>1. CASE Turns!Register(j, listens)
  BY <1>1, NoticeType DEF Turns!Register, Turns!NotifyAll
<1>2. CASE Turns!Cancel(j)
  BY <1>2, NoticeType DEF Turns!Cancel, Turns!NotifyAll, Turns!Forget
<1>3. CASE Turns!TakeTurn(j)
  BY <1>3, NoticeType DEF Turns!TakeTurn
<1>4. CASE Turns!AwaitTurn(j)
  BY <1>4 DEF Turns!AwaitTurn
<1>5. CASE Turns!TurnLost(j)
  BY <1>5 DEF Turns!TurnLost, Turns!turnVars
<1>6. CASE Turns!ReleaseTurn(j)
  BY <1>6, NoticeType DEF Turns!ReleaseTurn, Turns!NotifyAll, Turns!Forget
<1> QED
  BY <1>1, <1>2, <1>3, <1>4, <1>5, <1>6

\* The types of what the gate's operations leave behind.
LEMMA GateType ==
  ASSUME Gate!TypeOK, NEW j \in Job, NEW s,
         \/ s \in Search /\ Gate!EnterSearch(s)
         \/ Gate!ExitSearch(s) \/ Gate!BeginUpdate(j)
         \/ Gate!KeepDraining(j) \/ Gate!StartWriting(j) \/ Gate!EndUpdate(j)
         \/ Gate!WakeOnCancel(j)
  PROVE  Gate!TypeOK'
BY DEF Gate!TypeOK, Gate!EnterSearch, Gate!ExitSearch, Gate!BeginUpdate, Gate!KeepDraining,
       Gate!StartWriting, Gate!EndUpdate, Gate!WakeOnCancel, Gate!NotifyAll, Gate!accessVars

\* A worker past Take has a job of its own domain in hand.
InHand(d) == pc[d] \in {"turn", "draining", "running", "saving", "closing"}

\* Jobs stay in the domain that created them.
DomainsKept ==
  \A d \in Domain :
    /\ admitting[d] \subseteq JobsOf(d)
    /\ queue[d] \in Seq(JobsOf(d))
    /\ InHand(d) => cur[d] \in JobsOf(d)

TypeInv == TypeOK /\ DomainsKept

\* The jobs of a domain are jobs, and None is not one of them.
LEMMA JobsOfType == \A d \in Domain : JobsOf(d) \subseteq Job /\ NoJob \notin JobsOf(d)
BY QueuesAssumption DEF JobsOf, Job

\* A process starts with empty queues, idle workers and an open gate.
LEMMA TypeInit == Init => TypeInv
<1> SUFFICES ASSUME Init PROVE TypeInv
  OBVIOUS
<1>1. Turns!TypeOK /\ Gate!TypeOK
  BY DEF Init, Turns!Init, Gate!Init, Turns!TypeOK, Gate!TypeOK
<1> QED
  BY <1>1, JobsOfType DEF Init, TypeInv, TypeOK, DomainsKept, InHand, Statuses, Places

\* The types of what one evaluation of the loop in turn() leaves behind.
LEMMA SeekTurnType ==
  ASSUME TypeInv, NEW d \in Domain, NEW j \in JobsOf(d), SeekTurn(d, j),
         cur' = [cur EXCEPT ![d] = j] \/ (cur[d] = j /\ cur' = cur),
         \/ queue' = queue
         \/ Tail(queue[d]) \in Seq(JobsOf(d)) /\ queue' = [queue EXCEPT ![d] = Tail(@)],
         Seq(JobsOf(d)) \subseteq Seq(Job),
         UNCHANGED <<created, clock, kind, admitting, cancelEvents>>
  PROVE  TypeInv'
<1> USE JobsOfType DEF TypeInv, TypeOK, DomainsKept, InHand
<1>1. Turns!TypeOK'
  BY TurnsType DEF SeekTurn, BeginJob
<1>2. Gate!TypeOK'
  BY GateType DEF SeekTurn, BeginJob, accessVars, Gate!TypeOK
<1>3. \E place \in {"closing", "turn", "draining", "running"} : pc' = [pc EXCEPT ![d] = place]
  BY DEF SeekTurn, BeginJob, Goto
<1>4. status' = status \/ status' = [status EXCEPT ![j] = "running"]
  BY DEF SeekTurn, BeginJob, accessVars
<1>5. pc' \in [Domain -> Places]
  BY <1>3 DEF Places
<1>6. status' \in [Job -> Statuses]
  BY <1>4 DEF Statuses
<1>7. \A e \in Domain : InHand(e)' => cur'[e] \in JobsOf(e)
  BY <1>3
<1> QED
  BY <1>1, <1>2, <1>5, <1>6, <1>7

\* No operation of either domain, of the coordinator or of the gate breaks a type.
LEMMA TypeStep == TypeInv /\ [Next]_vars => TypeInv'
<1> SUFFICES ASSUME TypeInv, [Next]_vars PROVE TypeInv'
  OBVIOUS
<1> USE JobsOfType DEF TypeInv, TypeOK, DomainsKept, InHand, Statuses, Places
<1>1. ASSUME NEW d \in Domain, NEW j \in Job, NEW k \in CorpusKind \cup EvalKind, Admit(d, j, k)
      PROVE  TypeInv'
  <2>1. Readings(d) \subseteq Nat
    BY QueuesAssumption DEF Readings
  <2> QED
    BY <1>1, <2>1 DEF Admit, turnVars, accessVars, workerVars, Turns!TypeOK, Gate!TypeOK
<1>2. ASSUME NEW d \in Domain, NEW j \in Job, Enqueue(d, j)
      PROVE  TypeInv'
  <2>1. Turns!TypeOK'
    BY <1>2, TurnsType DEF Enqueue
  <2> QED
    BY <1>2, <2>1 DEF Enqueue, StartWorker, accessVars, Gate!TypeOK
<1>3. ASSUME NEW d \in Domain, NEW j \in Job, AbortEnqueue(d, j)
      PROVE  TypeInv'
  BY <1>3 DEF AbortEnqueue, turnVars, accessVars, workerVars, Turns!TypeOK, Gate!TypeOK
<1>4. ASSUME NEW j \in Job, Cancel(j) PROVE TypeInv'
  <2>1. Turns!TypeOK'
    BY <1>4, TurnsType DEF Cancel
  <2> QED
    BY <1>4, <2>1 DEF Cancel, SignalCancel, accessVars, workerVars, Gate!TypeOK
<1>5. ASSUME NEW j \in Job, WakeOnCancel(j) PROVE TypeInv'
  <2>1. Gate!TypeOK'
    BY <1>5, GateType DEF WakeOnCancel
  <2> QED
    BY <1>5, <2>1 DEF WakeOnCancel, turnVars, jobVars, workerVars, Turns!TypeOK
<1>6. ASSUME NEW s \in Search, EnterSearch(s) \/ ExitSearch(s) PROVE TypeInv'
  <2>1. Gate!TypeOK'
    BY <1>6 DEF EnterSearch, ExitSearch, Gate!EnterSearch, Gate!ExitSearch, Gate!NotifyAll,
                Gate!TypeOK
  <2> QED
    BY <1>6, <2>1 DEF EnterSearch, ExitSearch, turnVars, jobVars, workerVars, Turns!TypeOK
<1>7. ASSUME NEW d \in Domain, Worker(d) PROVE TypeInv'
  <2>1. ASSUME Take(d) PROVE TypeInv'
    <3> DEFINE j == Head(queue[d])
    <3>1. j \in JobsOf(d) /\ Tail(queue[d]) \in Seq(JobsOf(d)) /\ Tail(queue[d]) \in Seq(Job)
      BY <2>1 DEF Take
    <3>a. Seq(JobsOf(d)) \subseteq Seq(Job)
      OBVIOUS
    <3>2. CASE status[j] = "cancelled"
      BY <2>1, <3>1, <3>2 DEF Take, Goto, turnVars, accessVars, Turns!TypeOK, Gate!TypeOK
    <3>3. CASE SeekTurn(d, j)
      BY <2>1, <3>1, <3>a, <3>3, SeekTurnType DEF Take
    <3> QED
      BY <2>1, <3>2, <3>3 DEF Take
  <2>2. ASSUME Retire(d) PROVE TypeInv'
    BY <2>2 DEF Retire, Goto, turnVars, accessVars, jobVars, Turns!TypeOK, Gate!TypeOK
  <2>3. ASSUME RetryTurn(d) PROVE TypeInv'
    <3>1. cur[d] \in JobsOf(d)
      BY <2>3 DEF RetryTurn
    <3> QED
      BY <2>3, <3>1, SeekTurnType DEF RetryTurn
  <2>4. ASSUME Drain(d) PROVE TypeInv'
    <3>1. cur[d] \in JobsOf(d)
      BY <2>4 DEF Drain
    <3>2. Gate!TypeOK'
      BY <2>4, <3>1, GateType DEF Drain
    <3>3. Turns!TypeOK'
      BY <2>4, <3>1, TurnsType DEF Drain, turnVars, Turns!TypeOK
    <3>4. pc' = pc \/ pc' = [pc EXCEPT ![d] = "running"] \/ pc' = [pc EXCEPT ![d] = "closing"]
      BY <2>4 DEF Drain, Goto
    <3>5. status' = status \/ status' = [status EXCEPT ![cur[d]] = "running"]
      BY <2>4 DEF Drain
    <3>6. UNCHANGED <<created, clock, kind, admitting, queue, cancelEvents, cur>> /\ InHand(d)
      BY <2>4 DEF Drain
    <3>7. status' \in [Job -> Statuses]
      BY <3>5
    <3>8. pc' \in [Domain -> Places] /\ \A e \in Domain : InHand(e)' => InHand(e)
      BY <3>4, <3>6
    <3> QED
      BY <3>2, <3>3, <3>6, <3>7, <3>8
  <2>5. ASSUME Finish(d) PROVE TypeInv'
    <3>1. cur[d] \in JobsOf(d)
      BY <2>5 DEF Finish
    <3>2. Gate!TypeOK'
      BY <2>5, <3>1, GateType DEF Finish, LeaveTurn, accessVars, Gate!TypeOK
    <3>3. Turns!TypeOK'
      BY <2>5, <3>1, TurnsType DEF Finish, LeaveTurn, turnVars, Turns!TypeOK
    <3>4. pc' = [pc EXCEPT ![d] = "saving"] \/ pc' = [pc EXCEPT ![d] = "closing"]
      BY <2>5 DEF Finish, Goto
    <3>5. \/ status' = status
          \/ \E outcome \in {"succeeded", "failed"} :
               status' = [status EXCEPT ![cur[d]] = outcome]
      BY <2>5 DEF Finish
    <3>6. UNCHANGED <<created, clock, kind, admitting, queue, cancelEvents, cur>> /\ InHand(d)
      BY <2>5 DEF Finish
    <3>7. status' \in [Job -> Statuses]
      BY <3>5
    <3>8. pc' \in [Domain -> Places] /\ \A e \in Domain : InHand(e)' => InHand(e)
      BY <3>4, <3>6
    <3> QED
      BY <3>2, <3>3, <3>6, <3>7, <3>8
  <2>6. ASSUME Saved(d) PROVE TypeInv'
    <3>1. cur[d] \in JobsOf(d)
      BY <2>6 DEF Saved
    <3>2. Gate!TypeOK'
      BY <2>6, <3>1, GateType DEF Saved, LeaveTurn, accessVars, Gate!TypeOK
    <3>3. Turns!TypeOK'
      BY <2>6, <3>1, TurnsType DEF Saved, LeaveTurn
    <3>4. pc' \in [Domain -> Places] /\ \A e \in Domain : InHand(e)' => InHand(e)
      BY <2>6 DEF Saved, Goto
    <3>5. UNCHANGED <<jobVars, cur>>
      BY <2>6 DEF Saved
    <3> QED
      BY <3>2, <3>3, <3>4, <3>5 DEF jobVars
  <2>7. ASSUME Close(d) PROVE TypeInv'
    BY <2>7 DEF Close, Goto, turnVars, accessVars, Turns!TypeOK, Gate!TypeOK
  <2> QED
    BY <1>7, <2>1, <2>2, <2>3, <2>4, <2>5, <2>6, <2>7 DEF Worker
<1>8. CASE UNCHANGED vars
  BY <1>8 DEF vars, turnVars, accessVars, jobVars, workerVars, Turns!TypeOK, Gate!TypeOK
<1> QED
  BY <1>1, <1>2, <1>3, <1>4, <1>5, <1>6, <1>7, <1>8 DEF Next

\* Every variable has its type, and jobs, queues and workers keep to their
\* domain: no job of one queue reaches the worker of the other.
THEOREM TypeCorrect == Spec => []TypeOK
<1>1. TypeInv => TypeOK
  BY DEF TypeInv
<1> QED
  BY TypeInit, TypeStep, <1>1, PTL DEF Spec

-----------------------------------------------------------------------------
(* Safety.  Mutual exclusion of the two workers is not inductive by itself: *)
(* it needs to know who holds the turn, that a ticket belongs to a queued   *)
(* job, and that neither changes behind the back of a worker.               *)

\* Evaluations have evaluation kinds, so they never reach the gate.
KindsByDomain == \A j \in EvalJob : kind[j] \in EvalKind \cup {"none"}

\* A job enters the queue and the worker's hands only after its insert.
InsertedFirst ==
  \A d \in Domain :
    /\ \A j \in admitting[d] : status[j] = "absent"
    /\ \A i \in 1 .. Len(queue[d]) : status[queue[d][i]] # "absent"
    /\ InHand(d) => status[cur[d]] # "absent"

\* Every ticket belongs to a queued job, and not to one past its turn.
TicketsQueued == \A j \in pending : status[j] = "queued"
TicketGivenUp == \A d \in Domain : InHand(d) /\ pc[d] # "turn" => cur[d] \notin pending

\* The turn is held by the job of a worker inside turn(), and by no other.
TurnHeld == \A d \in Domain : Holding(d) => active = cur[d]
HolderServed == active # NoJob => \E d \in Domain : Holding(d) /\ active = cur[d]

\* cancel() sets the event of a corpus job together with its status.
CancelSignalled == \A j \in CorpusJob : status[j] = "cancelled" => j \in cancelEvents

\* The barrier is the one of the job in the turn.
DrainingChanges == \A d \in Domain : pc[d] = "draining" => ChangesSearch(cur[d])
WritersMatch ==
  /\ \A d \in Domain : Holding(d) /\ ChangesSearch(cur[d]) => writers = {cur[d]}
  /\ (\A d \in Domain : ~(Holding(d) /\ ChangesSearch(cur[d]))) => writers = {}

Bookkeeping == KindsByDomain /\ InsertedFirst /\ TicketsQueued /\ TicketGivenUp /\ CancelSignalled
TurnInv == TurnHeld /\ HolderServed /\ KindsMatchTickets
GateInv == DrainingChanges /\ WritersMatch /\ WritersExcludeSearches

SafeInv == TypeInv /\ Bookkeeping /\ TurnInv /\ GateInv

\* Initially nobody holds the turn, and no barrier is up.
LEMMA SafeInit == Init => SafeInv
<1> SUFFICES ASSUME Init PROVE SafeInv
  OBVIOUS
<1>1. TypeInv
  BY TypeInit
<1>2. Bookkeeping
  BY JobsOfType DEF Init, Turns!Init, Bookkeeping, KindsByDomain, InsertedFirst, TicketsQueued,
                    TicketGivenUp, CancelSignalled, InHand, Job, JobsOf
<1>3. TurnInv
  BY DEF Init, Turns!Init, TurnInv, TurnHeld, HolderServed, KindsMatchTickets,
         Turns!KindsMatchTickets, Holding
<1>4. GateInv
  BY DEF Init, Gate!Init, GateInv, DrainingChanges, WritersMatch, WritersExcludeSearches, Holding
<1> QED
  BY <1>1, <1>2, <1>3, <1>4 DEF SafeInv

\* What is in hand of the two workers, and what they hold.
LEMMA HandFacts ==
  ASSUME TypeInv
  PROVE  /\ \A d \in Domain : Holding(d) => InHand(d)
         /\ \A d \in Domain : InHand(d) => cur[d] \in JobsOf(d)
         /\ \A d, e \in Domain : \A j : j \in JobsOf(d) /\ j \in JobsOf(e) => d = e
BY QueuesAssumption DEF TypeInv, DomainsKept, Holding, InHand, JobsOf

\* Jobs that were inserted stay inserted where queues and hands only shrink.
LEMMA InsertedKept ==
  ASSUME TypeInv, InsertedFirst, queue' = queue,
         \A e \in Domain : \A i \in admitting'[e] : status'[i] = "absent",
         \A i \in Job : status[i] # "absent" => status'[i] # "absent",
         \A e \in Domain : InHand(e)' => InHand(e) /\ cur'[e] = cur[e]
  PROVE  InsertedFirst'
<1>1. ASSUME NEW e \in Domain, NEW i \in 1 .. Len(queue'[e])
      PROVE  status'[queue'[e][i]] # "absent"
  <2>1. queue[e] \in Seq(Job) /\ i \in 1 .. Len(queue[e])
    BY <1>1 DEF TypeInv, TypeOK
  <2>2. queue[e][i] \in Job
    BY <2>1
  <2>3. status[queue[e][i]] # "absent"
    BY <2>1 DEF InsertedFirst
  <2> QED
    BY <2>2, <2>3
<1>2. ASSUME NEW e \in Domain, InHand(e)' PROVE status'[cur'[e]] # "absent"
  <2>1. cur[e] \in Job /\ status[cur[e]] # "absent"
    BY <1>2, HandFacts, JobsOfType DEF InsertedFirst
  <2> QED
    BY <1>2, <2>1
<1> QED
  BY <1>1, <1>2 DEF InsertedFirst

\* Admitting a job changes nothing but the job's own kind and timestamp.
LEMMA AdmitSafe ==
  ASSUME SafeInv, NEW d \in Domain, NEW j \in Job, NEW k, Admit(d, j, k)
  PROVE  Bookkeeping' /\ TurnInv' /\ GateInv'
<1> USE DEF SafeInv
<1>1. /\ UNCHANGED <<status, queue, cancelEvents, turnVars, accessVars, workerVars>>
      /\ status[j] = "absent" /\ kind' = [kind EXCEPT ![j] = k]
      /\ admitting' = [admitting EXCEPT ![d] = @ \cup {j}]
      /\ j \in EvalJob => k \in EvalKind
  BY QueuesAssumption DEF Admit, JobsOf
<1>2. Bookkeeping'
  BY <1>1 DEF Bookkeeping, KindsByDomain, InsertedFirst, TicketsQueued, TicketGivenUp,
              CancelSignalled, InHand, turnVars, workerVars, TypeInv, TypeOK
<1>3. \A e \in Domain : InHand(e) => cur[e] # j
  BY <1>1 DEF Bookkeeping, InsertedFirst
<1>4. TurnInv'
  BY <1>1 DEF TurnInv, TurnHeld, HolderServed, KindsMatchTickets, Turns!KindsMatchTickets,
              Holding, turnVars, workerVars
<1>5. GateInv'
  BY <1>1, <1>3, HandFacts DEF GateInv, DrainingChanges, WritersMatch, WritersExcludeSearches,
              ChangesSearch, Holding, InHand, accessVars, workerVars, TypeInv, TypeOK
<1> QED
  BY <1>2, <1>4, <1>5

\* Registering gives a job that is nobody's yet a ticket and a place in line.
LEMMA EnqueueSafe ==
  ASSUME SafeInv, TypeInv', NEW d \in Domain, NEW j \in Job, Enqueue(d, j)
  PROVE  Bookkeeping' /\ TurnInv' /\ GateInv'
<1> USE DEF SafeInv
<1>1. /\ UNCHANGED <<kind, cancelEvents, accessVars, cur, active>>
      /\ j \in admitting[d] /\ admitting' = [admitting EXCEPT ![d] = @ \ {j}]
      /\ status' = [status EXCEPT ![j] = "queued"]
      /\ queue' = [queue EXCEPT ![d] = Append(@, j)]
      /\ pc' = [pc EXCEPT ![d] = IF @ = "idle" THEN "take" ELSE @]
      /\ pending' = pending \cup {j} /\ kinds' = kinds \cup {j}
  BY DEF Enqueue, StartWorker, Turns!Register
<1>2. status[j] = "absent" /\ j \in JobsOf(d)
  BY <1>1 DEF Bookkeeping, InsertedFirst, TypeInv, DomainsKept
<1>3. \A e \in Domain :
        /\ InHand(e)' <=> InHand(e)
        /\ Holding(e)' <=> Holding(e)
        /\ InHand(e) => pc'[e] = pc[e]
  <2>1. \A e \in Domain : pc'[e] = pc[e] \/ (pc[e] = "idle" /\ pc'[e] = "take")
    BY <1>1 DEF TypeInv, TypeOK
  <2> QED
    BY <2>1 DEF InHand, Holding
<1>4. \A e \in Domain : InHand(e) => cur[e] # j
  BY <1>2 DEF Bookkeeping, InsertedFirst
<1>5. InsertedFirst'
  <2>1. \A e \in Domain : \A i \in admitting'[e] : status'[i] = "absent"
    BY <1>1, <1>2, HandFacts DEF Bookkeeping, InsertedFirst, TypeInv, TypeOK, DomainsKept
  <2>2. ASSUME NEW e \in Domain, NEW i \in 1 .. Len(queue'[e])
        PROVE  status'[queue'[e][i]] # "absent"
    <3>1. queue[e] \in Seq(Job) /\ status \in [Job -> Statuses] /\ status'[j] = "queued"
      BY <1>1 DEF TypeInv, TypeOK
    <3>2. queue'[e][i] = j \/ (i \in 1 .. Len(queue[e]) /\ queue'[e][i] = queue[e][i])
      <4>1. CASE e = d
        <5>1. queue'[e] = Append(queue[e], j)
          BY <1>1, <4>1 DEF TypeInv, TypeOK
        <5> QED
          BY <2>2, <3>1, <5>1
      <4>2. CASE e # d
        BY <1>1, <2>2, <4>2 DEF TypeInv, TypeOK
      <4> QED
        BY <4>1, <4>2
    <3>3. CASE i \in 1 .. Len(queue[e]) /\ queue'[e][i] = queue[e][i]
      <4>1. queue[e][i] \in Job /\ status[queue[e][i]] # "absent"
        BY <3>1, <3>3 DEF Bookkeeping, InsertedFirst
      <4> QED
        BY <1>1, <3>1, <3>3, <4>1
    <3> QED
      BY <3>1, <3>2, <3>3
  <2>3. ASSUME NEW e \in Domain, InHand(e)' PROVE status'[cur'[e]] # "absent"
    <3>1. InHand(e) /\ cur[e] \in Job \ {j} /\ cur'[e] = cur[e]
      BY <1>1, <1>3, <1>4, <2>3, HandFacts, JobsOfType
    <3> QED
      BY <1>1, <3>1 DEF Bookkeeping, InsertedFirst, TypeInv, TypeOK
  <2> QED
    BY <2>1, <2>2, <2>3 DEF InsertedFirst
<1>6. Bookkeeping'
  BY <1>1, <1>2, <1>3, <1>4, <1>5 DEF Bookkeeping, KindsByDomain, TicketsQueued, TicketGivenUp,
     CancelSignalled, InHand, TypeInv, TypeOK
<1>7. TurnInv'
  <2>1. TurnHeld' /\ HolderServed'
    BY <1>1, <1>3 DEF TurnInv, TurnHeld, HolderServed
  <2>2. KindsMatchTickets'
    BY <1>1 DEF TurnInv, KindsMatchTickets, Turns!KindsMatchTickets
  <2> QED
    BY <2>1, <2>2 DEF TurnInv
<1>8. GateInv'
  BY <1>1, <1>3 DEF GateInv, DrainingChanges, WritersMatch, WritersExcludeSearches,
     ChangesSearch, accessVars, InHand, Holding
<1> QED
  BY <1>6, <1>7, <1>8

\* A failed insert leaves a job that had neither a ticket nor a place in line.
LEMMA AbortEnqueueSafe ==
  ASSUME SafeInv, TypeInv', NEW d \in Domain, NEW j \in Job, AbortEnqueue(d, j)
  PROVE  Bookkeeping' /\ TurnInv' /\ GateInv'
<1> USE DEF SafeInv
<1>1. /\ UNCHANGED <<kind, queue, cancelEvents, turnVars, accessVars, workerVars>>
      /\ j \in admitting[d] /\ admitting' = [admitting EXCEPT ![d] = @ \ {j}]
      /\ status' = [status EXCEPT ![j] = "gone"]
  BY DEF AbortEnqueue
<1>2. status[j] = "absent" /\ j \in JobsOf(d)
  BY <1>1 DEF Bookkeeping, InsertedFirst, TypeInv, DomainsKept
<1>3. InsertedFirst'
  <2>1. \A e \in Domain : \A i \in admitting'[e] : status'[i] = "absent"
    BY <1>1, <1>2, HandFacts DEF Bookkeeping, InsertedFirst, TypeInv, TypeOK, DomainsKept
  <2>2. \A i \in Job : status[i] # "absent" => status'[i] # "absent"
    BY <1>1 DEF TypeInv, TypeOK
  <2> QED
    BY <1>1, <2>1, <2>2, InsertedKept DEF Bookkeeping, InHand, workerVars
<1>4. Bookkeeping'
  BY <1>1, <1>2, <1>3 DEF Bookkeeping, KindsByDomain, TicketsQueued, TicketGivenUp,
     CancelSignalled, InHand, TypeInv, TypeOK, turnVars, workerVars
<1>5. TurnInv' /\ GateInv'
  BY <1>1 DEF TurnInv, TurnHeld, HolderServed, KindsMatchTickets, Turns!KindsMatchTickets,
     GateInv, DrainingChanges, WritersMatch, WritersExcludeSearches, ChangesSearch, Holding,
     turnVars, accessVars, workerVars
<1> QED
  BY <1>4, <1>5

\* A cancellation takes the ticket and leaves the turn and the barrier alone.
LEMMA CancelSafe ==
  ASSUME SafeInv, TypeInv', NEW j \in Job, Cancel(j)
  PROVE  Bookkeeping' /\ TurnInv' /\ GateInv'
<1> USE DEF SafeInv
<1>1. /\ UNCHANGED <<kind, admitting, queue, accessVars, workerVars, active>>
      /\ status[j] \in {"queued", "running"}
      /\ status' = [status EXCEPT ![j] = "cancelled"]
      /\ cancelEvents' = IF j \in CorpusJob THEN cancelEvents \cup {j} ELSE cancelEvents
      /\ pending' = pending \ {j}
      /\ kinds' = IF active = j THEN kinds ELSE kinds \ {j}
  BY DEF Cancel, Cancellable, SignalCancel, Turns!Cancel, Turns!Forget
<1>2. InsertedFirst'
  <2>1. \A i \in Job : i # j => status'[i] = status[i]
    BY <1>1 DEF TypeInv, TypeOK
  <2>2. ASSUME NEW e \in Domain, NEW i \in admitting'[e] PROVE status'[i] = "absent"
    <3>1. i \in Job /\ status[i] = "absent"
      BY <1>1, <2>2 DEF Bookkeeping, InsertedFirst, TypeInv, TypeOK
    <3> QED
      BY <1>1, <2>1, <3>1
  <2>3. \A i \in Job : status[i] # "absent" => status'[i] # "absent"
    BY <1>1, <2>1 DEF TypeInv, TypeOK
  <2> QED
    BY <1>1, <2>2, <2>3, InsertedKept DEF Bookkeeping, InHand, workerVars
<1>3. Bookkeeping'
  BY <1>1, <1>2 DEF Bookkeeping, KindsByDomain, TicketsQueued, TicketGivenUp,
     CancelSignalled, InHand, TypeInv, TypeOK, workerVars, Turns!TypeOK
<1>4. active \notin pending
  BY HandFacts, JobsOfType, QueuesAssumption
     DEF TurnInv, HolderServed, Bookkeeping, TicketGivenUp, Holding, InHand, TypeInv, TypeOK,
         Turns!TypeOK
<1>5. TurnInv'
  BY <1>1, <1>4 DEF TurnInv, TurnHeld, HolderServed, KindsMatchTickets,
     Turns!KindsMatchTickets, Holding, workerVars
<1>6. GateInv'
  BY <1>1 DEF GateInv, DrainingChanges, WritersMatch, WritersExcludeSearches, ChangesSearch,
     Holding, accessVars, workerVars
<1> QED
  BY <1>3, <1>5, <1>6

\* Searches enter only while no barrier is up, so none enters on a writer.
LEMMA SearchSafe ==
  ASSUME SafeInv, NEW s, EnterSearch(s) \/ ExitSearch(s)
  PROVE  Bookkeeping' /\ TurnInv' /\ GateInv'
<1> USE DEF SafeInv
<1>1. UNCHANGED <<turnVars, jobVars, workerVars, writers>>
  BY DEF EnterSearch, ExitSearch, Gate!EnterSearch, Gate!ExitSearch
<1>2. Bookkeeping' /\ TurnInv'
  BY <1>1 DEF Bookkeeping, KindsByDomain, InsertedFirst, TicketsQueued, TicketGivenUp,
     CancelSignalled, InHand, TurnInv, TurnHeld, HolderServed, KindsMatchTickets,
     Turns!KindsMatchTickets, Holding, turnVars, jobVars, workerVars
<1>3. readers' \subseteq readers \/ writers = {}
  BY DEF EnterSearch, ExitSearch, Gate!EnterSearch, Gate!ExitSearch, Gate!Updating
<1>4. GateInv'
  BY <1>1, <1>3 DEF GateInv, DrainingChanges, WritersMatch, WritersExcludeSearches,
     ChangesSearch, Holding, jobVars, workerVars
<1> QED
  BY <1>2, <1>4

\* Waking a draining writer, and a step that changes nothing.
LEMMA WakeSafe ==
  ASSUME SafeInv, NEW j, WakeOnCancel(j) \/ UNCHANGED vars
  PROVE  Bookkeeping' /\ TurnInv' /\ GateInv'
<1>1. UNCHANGED <<turnVars, jobVars, workerVars, writers, readers>>
  BY DEF WakeOnCancel, Gate!WakeOnCancel, vars, accessVars
<1> QED
  BY <1>1 DEF SafeInv, Bookkeeping, KindsByDomain, InsertedFirst, TicketsQueued, TicketGivenUp,
     CancelSignalled, InHand, TurnInv, TurnHeld, HolderServed, KindsMatchTickets,
     Turns!KindsMatchTickets, Holding, GateInv, DrainingChanges, WritersMatch,
     WritersExcludeSearches, ChangesSearch, turnVars, jobVars, workerVars

\* The loop in turn(): a worker gets the turn only when nobody holds it, and
\* raises the barrier with it.
LEMMA SeekTurnSafe ==
  ASSUME SafeInv, TypeInv', NEW d \in Domain, NEW j \in JobsOf(d), SeekTurn(d, j),
         pc[d] \in {"take", "turn"}, status[j] # "absent",
         cur' = [cur EXCEPT ![d] = j],
         \A e \in Domain : \A i \in 1 .. Len(queue'[e]) :
           queue'[e][i] \in Job /\ status[queue'[e][i]] # "absent",
         UNCHANGED <<kind, admitting, cancelEvents>>
  PROVE  Bookkeeping' /\ TurnInv' /\ GateInv'
<1> USE DEF SafeInv
<1>1. j \in Job /\ j # NoJob /\ ~Holding(d)
  BY JobsOfType DEF Holding
<1>2. \A e \in Domain \ {d} : cur'[e] = cur[e]
  BY DEF TypeInv, TypeOK
<1>3. cur'[d] = j
  BY DEF TypeInv, TypeOK
<1>4. CASE \/ Turns!TurnLost(j) /\ Goto(d, "closing") /\ UNCHANGED <<accessVars, status>>
           \/ Turns!AwaitTurn(j) /\ Goto(d, "turn") /\ UNCHANGED <<accessVars, status>>
  <2>1. UNCHANGED <<pending, active, kinds, writers, readers, status>>
    BY <1>4 DEF Turns!TurnLost, Turns!AwaitTurn, Turns!turnVars, accessVars
  <2>2. \/ pc' = [pc EXCEPT ![d] = "closing"] /\ j \notin pending
        \/ pc' = [pc EXCEPT ![d] = "turn"]
    BY <1>4 DEF Goto, Turns!TurnLost
  <2>3. \A e \in Domain \ {d} : pc'[e] = pc[e]
    BY <2>2 DEF TypeInv, TypeOK
  <2>4. pc'[d] \in {"closing", "turn"} /\ (pc'[d] = "closing" => j \notin pending)
    BY <2>2 DEF TypeInv, TypeOK
  <2>5. Bookkeeping'
    BY <1>2, <1>3, <2>1, <2>3, <2>4 DEF Bookkeeping, KindsByDomain, InsertedFirst,
       TicketsQueued, TicketGivenUp, CancelSignalled, InHand
  <2>6. \A e \in Domain : Holding(e)' <=> (Holding(e) /\ e # d)
    BY <1>1, <2>3, <2>4 DEF Holding
  <2>7. TurnInv'
    BY <1>1, <1>2, <2>1, <2>6 DEF TurnInv, TurnHeld, HolderServed, KindsMatchTickets,
       Turns!KindsMatchTickets
  <2>8. GateInv'
    BY <1>1, <1>2, <2>1, <2>3, <2>4, <2>6 DEF GateInv, DrainingChanges, WritersMatch,
       WritersExcludeSearches, ChangesSearch
  <2> QED
    BY <2>5, <2>7, <2>8
<1>5. CASE BeginJob(d, j)
  <2>1. /\ active = NoJob /\ j \in pending
        /\ pending' = pending \ {j} /\ active' = j /\ kinds' = kinds
    BY <1>5 DEF BeginJob, Turns!TakeTurn, Turns!HasTurn, Turns!IsOldest
  <2>2. \A e \in Domain : ~Holding(e)
    BY <2>1, HandFacts, JobsOfType DEF TurnInv, TurnHeld
  <2>3. writers = {}
    BY <2>2 DEF GateInv, WritersMatch
  <2>4. IF ChangesSearch(j) THEN writers' = {j} /\ readers' = readers
                            ELSE writers' = {} /\ readers' = readers
    BY <1>5, <2>3 DEF BeginJob, Gate!BeginUpdate, accessVars
  <2>5. \/ /\ ChangesSearch(j) /\ readers # {}
           /\ pc' = [pc EXCEPT ![d] = "draining"] /\ status' = status
        \/ /\ ~(ChangesSearch(j) /\ readers # {})
           /\ pc' = [pc EXCEPT ![d] = "running"] /\ status' = [status EXCEPT ![j] = "running"]
    BY <1>5 DEF BeginJob, Goto
  <2>6. \A e \in Domain \ {d} : pc'[e] = pc[e]
    BY <2>5 DEF TypeInv, TypeOK
  <2>7. \/ pc'[d] = "draining" /\ ChangesSearch(j)
        \/ pc'[d] = "running" /\ (ChangesSearch(j) => readers = {})
    BY <2>5 DEF TypeInv, TypeOK
  <2>8. \A e \in Domain : Holding(e)' <=> e = d
    BY <2>2, <2>6, <2>7 DEF Holding
  <2>9. status[j] = "queued"
    BY <2>1 DEF Bookkeeping, TicketsQueued
  <2>10. /\ \A i \in Job \ {j} : status'[i] = status[i]
         /\ status'[j] \in {"queued", "running"}
    BY <1>1, <2>5, <2>9 DEF TypeInv, TypeOK
  <2>11. InsertedFirst'
    <3>1. \A e \in Domain : \A i \in admitting'[e] : status'[i] = "absent"
      BY <2>9, <2>10 DEF Bookkeeping, InsertedFirst, TypeInv, TypeOK
    <3>2. \A e \in Domain : InHand(e)' => status'[cur'[e]] # "absent"
      BY <1>2, <1>3, <2>6, <2>10, HandFacts, JobsOfType DEF InHand, Bookkeeping, InsertedFirst
    <3>3. \A e \in Domain : \A i \in 1 .. Len(queue'[e]) : status'[queue'[e][i]] # "absent"
      BY <2>10
    <3> QED
      BY <3>1, <3>2, <3>3 DEF InsertedFirst
  <2>12. TicketGivenUp'
    BY <1>2, <1>3, <2>1, <2>6 DEF Bookkeeping, TicketGivenUp, InHand
  <2>13. TicketsQueued' /\ CancelSignalled' /\ KindsByDomain'
    BY <2>1, <2>10 DEF Bookkeeping, TicketsQueued, CancelSignalled, KindsByDomain, TypeInv,
       TypeOK, Turns!TypeOK, Job
  <2>14. TurnInv'
    BY <1>1, <1>3, <2>1, <2>8 DEF TurnInv, TurnHeld, HolderServed, KindsMatchTickets,
       Turns!KindsMatchTickets
  <2>15. GateInv'
    <3>1. \A i : ChangesSearch(i)' <=> ChangesSearch(i)
      BY DEF ChangesSearch
    <3>2. DrainingChanges'
      BY <1>2, <1>3, <2>6, <2>7, <3>1 DEF GateInv, DrainingChanges
    <3>3. WritersMatch'
      BY <1>3, <2>4, <2>8, <3>1 DEF WritersMatch
    <3>4. WritersExcludeSearches'
      BY <1>3, <2>4, <2>7, <2>8, <3>1 DEF WritersExcludeSearches, Holding
    <3> QED
      BY <3>2, <3>3, <3>4 DEF GateInv
  <2> QED
    BY <2>11, <2>12, <2>13, <2>14, <2>15 DEF Bookkeeping
<1> QED
  BY <1>4, <1>5 DEF SeekTurn

\* The way out of turn(): the turn and the barrier are given back together.
LEMMA LeaveSafe ==
  ASSUME SafeInv, TypeInv', NEW d \in Domain, Holding(d),
         Turns!ReleaseTurn(cur[d]),
         IF ChangesSearch(cur[d]) THEN Gate!EndUpdate(cur[d]) ELSE UNCHANGED accessVars,
         pc' = [pc EXCEPT ![d] = "closing"],
         UNCHANGED <<status, kind, admitting, queue, cancelEvents, cur>>
  PROVE  Bookkeeping' /\ TurnInv' /\ GateInv'
<1> USE DEF SafeInv
<1>1. /\ active = cur[d] /\ cur[d] \in JobsOf(d) /\ cur[d] # NoJob
      /\ InHand(d) /\ pc[d] # "turn" /\ cur[d] \notin pending
  BY HandFacts, JobsOfType DEF TurnInv, TurnHeld, Bookkeeping, TicketGivenUp, Holding
<1>2. active' = NoJob /\ kinds' = kinds \ {cur[d]} /\ pending' = pending
  BY <1>1 DEF Turns!ReleaseTurn, Turns!Forget
<1>3. pc'[d] = "closing" /\ \A e \in Domain \ {d} : pc'[e] = pc[e]
  BY DEF TypeInv, TypeOK
<1>4. \A e \in Domain : Holding(e) => e = d
  BY <1>1, HandFacts DEF TurnInv, TurnHeld
<1>5. \A e \in Domain : ~Holding(e)'
  BY <1>3, <1>4 DEF Holding
<1>6. writers' = {}
  BY <1>4 DEF GateInv, WritersMatch, Gate!EndUpdate, accessVars
<1>7. Bookkeeping'
  BY <1>1, <1>2, <1>3 DEF Bookkeeping, KindsByDomain, InsertedFirst, TicketsQueued,
     TicketGivenUp, CancelSignalled, InHand
<1>8. TurnInv'
  BY <1>1, <1>2, <1>5 DEF TurnInv, TurnHeld, HolderServed, KindsMatchTickets,
     Turns!KindsMatchTickets
<1>9. GateInv'
  BY <1>5, <1>6 DEF GateInv, DrainingChanges, WritersMatch, WritersExcludeSearches, Holding
<1> QED
  BY <1>7, <1>8, <1>9

\* The worker takes jobs that were inserted, and skips cancelled ones.
LEMMA TakeSafe ==
  ASSUME SafeInv, TypeInv', NEW d \in Domain, Take(d)
  PROVE  Bookkeeping' /\ TurnInv' /\ GateInv'
<1> USE DEF SafeInv
<1> DEFINE j == Head(queue[d])
<1>1. /\ pc[d] = "take" /\ cur' = [cur EXCEPT ![d] = j]
      /\ queue[d] # <<>> /\ queue' = [queue EXCEPT ![d] = Tail(@)]
      /\ UNCHANGED <<created, clock, kind, admitting, cancelEvents>>
  BY DEF Take
<1>2. queue[d] \in Seq(JobsOf(d)) /\ queue \in [Domain -> Seq(Job)] /\ j \in JobsOf(d)
  BY <1>1 DEF TypeInv, TypeOK, DomainsKept
<1>3. j = queue[d][1] /\ status[j] # "absent"
  BY <1>1, <1>2 DEF Bookkeeping, InsertedFirst
<1>4. ASSUME NEW e \in Domain, NEW i \in 1 .. Len(queue'[e])
      PROVE  queue'[e][i] \in Job /\ status[queue'[e][i]] # "absent"
  <2>1. CASE e = d
    <3>1. i + 1 \in 1 .. Len(queue[d]) /\ queue'[d][i] = queue[d][i + 1]
      BY <1>1, <1>2, <1>4, <2>1
    <3> QED
      BY <1>2, <2>1, <3>1 DEF Bookkeeping, InsertedFirst
  <2>2. CASE e # d
    BY <1>1, <1>2, <1>4, <2>2 DEF Bookkeeping, InsertedFirst
  <2> QED
    BY <2>1, <2>2
<1>5. CASE SeekTurn(d, j)
  BY <1>1, <1>2, <1>3, <1>4, <1>5, SeekTurnSafe
<1>6. CASE status[j] = "cancelled" /\ Goto(d, "closing") /\ UNCHANGED <<turnVars, accessVars, status>>
  <2>1. j \notin pending
    BY <1>6 DEF Bookkeeping, TicketsQueued
  <2>2. pc'[d] = "closing" /\ \A e \in Domain \ {d} : pc'[e] = pc[e]
    BY <1>6 DEF Goto, TypeInv, TypeOK
  <2>3. cur'[d] = j /\ \A e \in Domain \ {d} : cur'[e] = cur[e]
    BY <1>1 DEF TypeInv, TypeOK
  <2>4. \A e \in Domain : Holding(e)' <=> (Holding(e) /\ e # d)
    BY <2>2 DEF Holding
  <2>5. ~Holding(d)
    BY <1>1 DEF Holding
  <2>6. Bookkeeping'
    BY <1>1, <1>3, <1>4, <1>6, <2>1, <2>2, <2>3 DEF Bookkeeping, KindsByDomain, InsertedFirst,
       TicketsQueued, TicketGivenUp, CancelSignalled, InHand, turnVars
  <2>7. TurnInv'
    BY <1>6, <2>3, <2>4, <2>5 DEF TurnInv, TurnHeld, HolderServed, KindsMatchTickets,
       Turns!KindsMatchTickets, turnVars
  <2>8. GateInv'
    BY <1>1, <1>6, <2>2, <2>3, <2>4, <2>5 DEF GateInv, DrainingChanges, WritersMatch,
       WritersExcludeSearches, ChangesSearch, accessVars
  <2> QED
    BY <2>6, <2>7, <2>8
<1> QED
  BY <1>5, <1>6 DEF Take

\* A woken waiter asks for the turn again.
LEMMA RetryTurnSafe ==
  ASSUME SafeInv, TypeInv', NEW d \in Domain, RetryTurn(d)
  PROVE  Bookkeeping' /\ TurnInv' /\ GateInv'
<1> USE DEF SafeInv
<1>1. /\ pc[d] = "turn" /\ SeekTurn(d, cur[d])
      /\ UNCHANGED <<created, clock, kind, admitting, queue, cancelEvents, cur>>
  BY DEF RetryTurn
<1>2. cur[d] \in JobsOf(d) /\ status[cur[d]] # "absent" /\ cur' = [cur EXCEPT ![d] = cur[d]]
  BY <1>1 DEF TypeInv, TypeOK, DomainsKept, Bookkeeping, InsertedFirst, InHand
<1>3. \A e \in Domain : \A i \in 1 .. Len(queue'[e]) :
        queue'[e][i] \in Job /\ status[queue'[e][i]] # "absent"
  BY <1>1 DEF TypeInv, TypeOK, Bookkeeping, InsertedFirst
<1> QED
  BY <1>1, <1>2, <1>3, SeekTurnSafe

\* The job in the turn changes its own status and its worker's place only.
LEMMA StepInTurn ==
  ASSUME SafeInv, TypeInv', NEW d \in Domain, Holding(d),
         NEW place \in {"draining", "running", "saving"}, pc' = [pc EXCEPT ![d] = place],
         place = "draining" => pc[d] = "draining",
         ChangesSearch(cur[d]) /\ place # "draining" => readers = {},
         NEW outcome \in Statuses \ {"absent", "cancelled"},
         status' = [status EXCEPT ![cur[d]] = outcome] \/ status' = status,
         UNCHANGED <<pending, active, kinds, writers, readers, kind, admitting, queue,
                     cancelEvents, cur>>
  PROVE  Bookkeeping' /\ TurnInv' /\ GateInv'
<1> USE DEF SafeInv
<1>1. /\ cur[d] \in JobsOf(d) /\ InHand(d) /\ cur[d] \in Job /\ cur[d] \notin pending
      /\ status[cur[d]] # "absent"
  BY HandFacts, JobsOfType DEF Bookkeeping, TicketGivenUp, InsertedFirst, Holding
<1>2. pc'[d] = place /\ \A e \in Domain \ {d} : pc'[e] = pc[e]
  BY DEF TypeInv, TypeOK
<1>3. \A e \in Domain : Holding(e)' <=> Holding(e)
  BY <1>2 DEF Holding
<1>4. \A i \in Job : \/ status'[i] = status[i]
                     \/ i = cur[d] /\ status'[i] \notin {"absent", "cancelled"}
  BY <1>1 DEF TypeInv, TypeOK
<1>5. InsertedFirst'
  <2>1. ASSUME NEW e \in Domain, NEW i \in admitting'[e] PROVE status'[i] = "absent"
    BY <1>1, <1>4, <2>1 DEF Bookkeeping, InsertedFirst, TypeInv, TypeOK
  <2>2. \A i \in Job : status[i] # "absent" => status'[i] # "absent"
    BY <1>4
  <2>3. \A e \in Domain : InHand(e)' => InHand(e)
    BY <1>1, <1>2 DEF InHand
  <2> QED
    BY <2>1, <2>2, <2>3, InsertedKept DEF Bookkeeping
<1>6. TicketGivenUp'
  BY <1>1, <1>2 DEF Bookkeeping, TicketGivenUp, InHand
<1>7. TicketsQueued' /\ CancelSignalled' /\ KindsByDomain'
  BY <1>1, <1>4 DEF Bookkeeping, TicketsQueued, CancelSignalled, KindsByDomain, TypeInv, TypeOK,
     Turns!TypeOK, Job
<1>8. TurnInv'
  BY <1>3 DEF TurnInv, TurnHeld, HolderServed, KindsMatchTickets, Turns!KindsMatchTickets
<1>9. GateInv'
  BY <1>2, <1>3 DEF GateInv, DrainingChanges, WritersMatch, WritersExcludeSearches, ChangesSearch
<1> QED
  BY <1>5, <1>6, <1>7, <1>8, <1>9 DEF Bookkeeping

\* Writing begins when the gate has drained; a cancelled drain leaves.
LEMMA DrainSafe ==
  ASSUME SafeInv, TypeInv', NEW d \in Domain, Drain(d)
  PROVE  Bookkeeping' /\ TurnInv' /\ GateInv'
<1> USE DEF SafeInv
<1>1. /\ pc[d] = "draining" /\ Holding(d) /\ ChangesSearch(cur[d])
      /\ UNCHANGED <<created, clock, kind, admitting, queue, cancelEvents, cur>>
  BY DEF Drain, GateInv, DrainingChanges, Holding
<1>2. CASE Gate!KeepDraining(cur[d]) /\ UNCHANGED <<turnVars, status, pc>>
  <2>1. pc' = [pc EXCEPT ![d] = "draining"]
    BY <1>1, <1>2 DEF TypeInv, TypeOK
  <2>2. "running" \in Statuses \ {"absent", "cancelled"}
    BY DEF Statuses
  <2> QED
    BY <1>1, <1>2, <2>1, <2>2, StepInTurn DEF Gate!KeepDraining, turnVars
<1>3. CASE /\ Gate!StartWriting(cur[d]) /\ UNCHANGED turnVars
           /\ status' = [status EXCEPT ![cur[d]] = "running"] /\ Goto(d, "running")
  BY <1>1, <1>3, StepInTurn DEF Gate!StartWriting, Gate!accessVars, turnVars, Goto, Statuses
<1>4. CASE /\ Gate!EndUpdate(cur[d]) /\ Turns!ReleaseTurn(cur[d])
           /\ Goto(d, "closing") /\ UNCHANGED status
  BY <1>1, <1>4, LeaveSafe DEF Goto
<1> QED
  BY <1>2, <1>3, <1>4 DEF Drain

\* The operation ends and its result is saved inside the turn.
LEMMA FinishSafe ==
  ASSUME SafeInv, TypeInv', NEW d \in Domain, Finish(d) \/ Saved(d)
  PROVE  Bookkeeping' /\ TurnInv' /\ GateInv'
<1> USE DEF SafeInv
<1>1. /\ pc[d] \in {"running", "saving"} /\ Holding(d)
      /\ UNCHANGED <<created, clock, kind, admitting, queue, cancelEvents, cur>>
  BY DEF Finish, Saved, Holding, jobVars
<1>2. CASE LeaveTurn(cur[d]) /\ Goto(d, "closing") /\ UNCHANGED status
  BY <1>1, <1>2, LeaveSafe DEF LeaveTurn, Goto
<1>3. CASE /\ \E outcome \in {"succeeded", "failed"} :
                status' = [status EXCEPT ![cur[d]] = outcome]
           /\ Goto(d, "saving") /\ UNCHANGED <<turnVars, accessVars>>
  <2>1. ChangesSearch(cur[d]) => readers = {}
    BY <1>1 DEF GateInv, WritersExcludeSearches
  <2>2. PICK outcome \in {"succeeded", "failed"} : status' = [status EXCEPT ![cur[d]] = outcome]
    BY <1>3
  <2> QED
    BY <1>1, <1>3, <2>1, <2>2, StepInTurn DEF Goto, turnVars, accessVars, Statuses
<1> QED
  BY <1>2, <1>3 DEF Finish, Saved, jobVars

\* Forgetting a job happens after its turn, and an idle worker changes nothing.
LEMMA CloseSafe ==
  ASSUME SafeInv, TypeInv', NEW d \in Domain, Close(d) \/ Retire(d)
  PROVE  Bookkeeping' /\ TurnInv' /\ GateInv'
<1> USE DEF SafeInv
<1>1. /\ UNCHANGED <<pending, active, kinds, writers, readers, kind, admitting, queue>>
      /\ ~Holding(d) /\ (pc' = [pc EXCEPT ![d] = "take"] \/ pc' = [pc EXCEPT ![d] = "idle"])
  BY DEF Close, Retire, Goto, Holding, turnVars, accessVars, jobVars
<1>2. pc'[d] \in {"take", "idle"} /\ \A e \in Domain \ {d} : pc'[e] = pc[e] /\ cur'[e] = cur[e]
  BY <1>1 DEF Close, Retire, TypeInv, TypeOK
<1>3. \A e \in Domain : (Holding(e)' <=> Holding(e)) /\ (Holding(e) => e # d)
  BY <1>1, <1>2 DEF Holding
<1>4. \/ /\ cur[d] \in Job /\ cur[d] \notin pending /\ status[cur[d]] # "absent"
         /\ status' = [status EXCEPT ![cur[d]] = "gone"]
         /\ cancelEvents' = cancelEvents \ {cur[d]}
      \/ UNCHANGED <<status, cancelEvents>>
  BY HandFacts, JobsOfType DEF Close, Retire, jobVars, InHand, Bookkeeping, TicketGivenUp,
     InsertedFirst
<1>5. \A i \in Job : \/ status'[i] = status[i] /\ (i \in cancelEvents => i \in cancelEvents')
                     \/ status[i] # "absent" /\ status'[i] = "gone" /\ i \notin pending
  BY <1>4 DEF TypeInv, TypeOK
<1>6. InsertedFirst'
  <2>1. ASSUME NEW e \in Domain, NEW i \in admitting'[e] PROVE status'[i] = "absent"
    BY <1>1, <1>5, <2>1 DEF Bookkeeping, InsertedFirst, TypeInv, TypeOK
  <2>2. \A i \in Job : status[i] # "absent" => status'[i] # "absent"
    BY <1>5
  <2>3. \A e \in Domain : InHand(e)' => InHand(e) /\ cur'[e] = cur[e]
    BY <1>2 DEF InHand
  <2> QED
    BY <1>1, <2>1, <2>2, <2>3, InsertedKept DEF Bookkeeping
<1>7. TicketGivenUp'
  BY <1>1, <1>2 DEF Bookkeeping, TicketGivenUp, InHand
<1>8. TicketsQueued' /\ CancelSignalled' /\ KindsByDomain'
  BY <1>1, <1>5 DEF Bookkeeping, TicketsQueued, CancelSignalled, KindsByDomain, TypeInv, TypeOK,
     Turns!TypeOK, Job
<1>9. TurnInv'
  BY <1>1, <1>2, <1>3 DEF TurnInv, TurnHeld, HolderServed, KindsMatchTickets,
     Turns!KindsMatchTickets
<1>10. GateInv'
  BY <1>1, <1>2, <1>3 DEF GateInv, DrainingChanges, WritersMatch, WritersExcludeSearches,
     ChangesSearch
<1> QED
  BY <1>6, <1>7, <1>8, <1>9, <1>10 DEF Bookkeeping

\* Every operation keeps the turn, the tickets and the barrier in agreement.
LEMMA SafeStep == SafeInv /\ [Next]_vars => SafeInv'
<1> SUFFICES ASSUME SafeInv, [Next]_vars PROVE SafeInv'
  OBVIOUS
<1>1. TypeInv'
  BY TypeStep DEF SafeInv
<1>2. ASSUME NEW d \in Domain, NEW j \in Job, NEW k \in CorpusKind \cup EvalKind, Admit(d, j, k)
      PROVE  SafeInv'
  BY <1>1, <1>2, AdmitSafe DEF SafeInv
<1>3. ASSUME NEW d \in Domain, NEW j \in Job, Enqueue(d, j) PROVE SafeInv'
  BY <1>1, <1>3, EnqueueSafe DEF SafeInv
<1>4. ASSUME NEW d \in Domain, NEW j \in Job, AbortEnqueue(d, j) PROVE SafeInv'
  BY <1>1, <1>4, AbortEnqueueSafe DEF SafeInv
<1>5. ASSUME NEW j \in Job, Cancel(j) PROVE SafeInv'
  BY <1>1, <1>5, CancelSafe DEF SafeInv
<1>6. ASSUME NEW j \in Job, WakeOnCancel(j) PROVE SafeInv'
  BY <1>1, <1>6, WakeSafe DEF SafeInv
<1>7. ASSUME NEW d \in Domain, Worker(d) PROVE SafeInv'
  BY <1>1, <1>7, TakeSafe, RetryTurnSafe, DrainSafe, FinishSafe, CloseSafe DEF SafeInv, Worker
<1>8. ASSUME NEW s \in Search, EnterSearch(s) \/ ExitSearch(s) PROVE SafeInv'
  BY <1>1, <1>8, SearchSafe DEF SafeInv
<1>9. CASE UNCHANGED vars
  BY <1>1, <1>9, WakeSafe DEF SafeInv
<1> QED
  BY <1>2, <1>3, <1>4, <1>5, <1>6, <1>7, <1>8, <1>9 DEF Next

-----------------------------------------------------------------------------
(* The theorems. *)

\* Never two jobs inside turn(), whatever is registered, cancelled and released
\* by the requests and workers of both domains.
THEOREM MutualExclusion == Spec => []OneJobExecutes
<1>1. SafeInv => OneJobExecutes
  BY HandFacts DEF SafeInv, TurnInv, TurnHeld, OneJobExecutes
<1> QED
  BY SafeInit, SafeStep, <1>1, PTL DEF Spec

\* No search reads while a job rewrites what search reads.
THEOREM SearchIsolation == Spec => []WritersExcludeSearches
<1>1. SafeInv => WritersExcludeSearches
  BY DEF SafeInv, GateInv
<1> QED
  BY SafeInit, SafeStep, <1>1, PTL DEF Spec

\* The barrier is up for the search-changing job in the turn and for no other:
\* it comes down on every way out, success, failure and cancellation alike.
THEOREM BarrierFollowsTurn == Spec => []BarrierMatchesTurn
<1>1. ASSUME SafeInv PROVE BarrierMatchesTurn
  <2>1. \A d, e \in Domain : Holding(d) /\ Holding(e) => d = e
    BY <1>1, HandFacts DEF SafeInv, TurnInv, TurnHeld
  <2>2. CASE \E d \in Domain : Holding(d) /\ ChangesSearch(cur[d])
    <3>1. PICK d \in Domain : Holding(d) /\ ChangesSearch(cur[d])
      BY <2>2
    <3>2. {e \in Domain : Holding(e) /\ ChangesSearch(cur[e])} = {d}
      BY <2>1, <3>1
    <3>3. writers = {cur[d]}
      BY <1>1, <3>1 DEF SafeInv, GateInv, WritersMatch
    <3> QED
      BY <3>2, <3>3 DEF BarrierMatchesTurn
  <2>3. CASE ~ \E d \in Domain : Holding(d) /\ ChangesSearch(cur[d])
    BY <1>1, <2>3 DEF SafeInv, GateInv, WritersMatch, BarrierMatchesTurn
  <2> QED
    BY <2>2, <2>3
<1> QED
  BY SafeInit, SafeStep, <1>1, PTL DEF Spec

\* _kinds names exactly the waiting tickets and the job in the turn, so
\* _notify_waiters always finds the kind of the preceding job.
THEOREM KindsFollowTickets == Spec => []KindsMatchTickets
<1>1. SafeInv => KindsMatchTickets
  BY DEF SafeInv, TurnInv
<1> QED
  BY SafeInit, SafeStep, <1>1, PTL DEF Spec

\* A cancelled job is only ever forgotten: no worker starts it, and the late
\* result of its operation does not replace its status.
THEOREM CancellationIsFinal == Spec => CancelledStaysCancelled
<1> DEFINE Stays == \A j \in Job : status[j] = "cancelled" => status'[j] \in {"cancelled", "gone"}
<1>1. ASSUME SafeInv, [Next]_vars PROVE Stays
  <2> SUFFICES ASSUME NEW i \in Job, status[i] = "cancelled"
               PROVE  status'[i] \in {"cancelled", "gone"}
    OBVIOUS
  <2> USE <1>1 DEF SafeInv
  <2>1. status \in [Job -> Statuses] /\ i \notin pending
    BY DEF TypeInv, TypeOK, Bookkeeping, TicketsQueued
  <2>2. ASSUME NEW d \in Domain, NEW j \in Job, Enqueue(d, j) PROVE status'[i] = "cancelled"
    BY <2>1, <2>2 DEF Enqueue, Bookkeeping, InsertedFirst
  <2>3. ASSUME NEW d \in Domain, NEW j, SeekTurn(d, j) PROVE status'[i] = "cancelled"
    BY <2>1, <2>3 DEF SeekTurn, BeginJob, Turns!TakeTurn, Turns!HasTurn, Turns!IsOldest
  <2>4. ASSUME NEW d \in Domain, Drain(d) PROVE status'[i] = "cancelled"
    <3>1. cur[d] \in CorpusJob
      <4>1. ChangesSearch(cur[d]) /\ cur[d] \in JobsOf(d) /\ cur[d] \in Job
        BY <2>4, HandFacts, JobsOfType DEF Drain, GateInv, DrainingChanges, InHand
      <4>2. cur[d] \notin EvalJob
        BY <4>1 DEF ChangesSearch, SearchChangingKinds, EvalKind, Bookkeeping, KindsByDomain
      <4> QED
        BY <4>1, <4>2 DEF Job
    <3>2. status[cur[d]] = "cancelled" => ~Gate!StartWriting(cur[d])
      BY <3>1 DEF Bookkeeping, CancelSignalled, Gate!StartWriting
    <3> QED
      BY <2>1, <2>4, <3>2 DEF Drain
  <2>5. ASSUME NEW d \in Domain, Finish(d) PROVE status'[i] = "cancelled"
    BY <2>1, <2>5 DEF Finish, Acknowledged
  <2>6. ASSUME NEW d \in Domain, Worker(d) PROVE status'[i] \in {"cancelled", "gone"}
    BY <2>1, <2>3, <2>4, <2>5, <2>6 DEF Worker, Take, Retire, RetryTurn, Saved, Close, jobVars
  <2>7. ASSUME NEW d \in Domain, NEW j \in Job, AbortEnqueue(d, j)
        PROVE  status'[i] \in {"cancelled", "gone"}
    BY <2>1, <2>7 DEF AbortEnqueue
  <2>8. ASSUME NEW j \in Job, Cancel(j) PROVE status'[i] = "cancelled"
    BY <2>1, <2>8 DEF Cancel
  <2>9. ASSUME NEW d \in Domain, NEW j \in Job, NEW k, Admit(d, j, k) PROVE status' = status
    BY <2>9 DEF Admit
  <2>10. ASSUME NEW s, EnterSearch(s) \/ ExitSearch(s) \/ WakeOnCancel(s) PROVE status' = status
    BY <2>10 DEF EnterSearch, ExitSearch, WakeOnCancel, jobVars
  <2>11. CASE UNCHANGED vars
    BY <2>11 DEF vars, jobVars
  <2> QED
    BY <2>2, <2>6, <2>7, <2>8, <2>9, <2>10, <2>11 DEF Next
<1>2. SafeInv /\ [Next]_vars => [Stays]_vars
  BY <1>1
<1> QED
  BY SafeInit, SafeStep, <1>2, PTL DEF Spec, CancelledStaysCancelled

-----------------------------------------------------------------------------
(* Three promises that rest on the safety invariant: an admitted job always finds its *)
(* slot, one quick evaluation is alive at a time, and no worker sleeps through its    *)
(* turn.                                                                              *)

\* There are two domains; every step below may use that.
USE DEF Domain

\* _enqueue_lock admits one job at a time, and its slot is kept for it.
HasSlot(d) ==
  \/ admitting[d] = {} /\ Len(queue[d]) <= MaxQueued
  \/ \E j \in Job : admitting[d] = {j} /\ Len(queue[d]) < MaxQueued
SlotKept == \A d \in Domain : HasSlot(d)

\* A quick evaluation counts from the check for duplicates on, before it has a
\* status that the check could see.
Live(i) ==
  /\ kind[i] = "quick"
  /\ i \in admitting["evaluation"] \/ status[i] \in {"queued", "running"}
OneLiveQuick == \A i, j \in EvalJob : Live(i) /\ Live(j) => i = j

PromiseInv == SafeInv /\ SlotKept /\ OneLiveQuick /\ NoLostTurn

-----------------------------------------------------------------------------
(* The slot of an admitted job. *)

\* Only admission takes a slot, and only the worker frees one.
LEMMA SlotStep ==
  ASSUME SafeInv, SlotKept, [Next]_vars
  PROVE  SlotKept'
<1> USE DEF SafeInv, TypeInv, TypeOK, SlotKept, HasSlot
<1>0. MaxQueued \in Nat /\ \A d \in Domain : Len(queue[d]) \in Nat
  <2>1. MaxQueued \in Nat
    BY QueuesAssumption
  <2>2. ASSUME NEW d \in Domain PROVE Len(queue[d]) \in Nat
    <3>1. queue[d] \in Seq(Job)
      OBVIOUS
    <3> QED
      BY <3>1
  <2> QED
    BY <2>1, <2>2
<1>1. ASSUME NEW d \in Domain, NEW j \in Job, NEW k, Admit(d, j, k) PROVE SlotKept'
  <2>1. admitting[d] = {} /\ Len(queue[d]) < MaxQueued
    BY <1>1 DEF Admit, MayAdmit
  <2>2. admitting'[d] = {j} /\ queue' = queue
    BY <1>1, <2>1 DEF Admit
  <2>3. \A e \in Domain \ {d} : admitting'[e] = admitting[e]
    BY <1>1 DEF Admit
  <2>4. HasSlot(d)'
    BY <2>1, <2>2
  <2>5. \A e \in Domain \ {d} : HasSlot(e)'
    BY <2>2, <2>3
  <2> QED
    BY <2>4, <2>5
<1>2. ASSUME NEW d \in Domain, NEW j \in Job, Enqueue(d, j) PROVE SlotKept'
  <2>1. admitting[d] = {j} /\ Len(queue[d]) < MaxQueued
    BY <1>2 DEF Enqueue
  <2>2. admitting'[d] = {} /\ queue'[d] = Append(queue[d], j)
    BY <1>2, <2>1 DEF Enqueue
  <2>3. Len(queue'[d]) = Len(queue[d]) + 1
    BY <2>2
  <2>4. \A e \in Domain \ {d} : admitting'[e] = admitting[e] /\ queue'[e] = queue[e]
    BY <1>2 DEF Enqueue
  <2>5. HasSlot(d)'
    BY <1>0, <2>1, <2>2, <2>3
  <2>6. \A e \in Domain \ {d} : HasSlot(e)'
    BY <2>4
  <2> QED
    BY <2>5, <2>6
<1>3. ASSUME NEW d \in Domain, NEW j \in Job, AbortEnqueue(d, j) PROVE SlotKept'
  BY <1>3, QueuesAssumption DEF AbortEnqueue
<1>4. ASSUME NEW d \in Domain, Take(d) PROVE SlotKept'
  <2>1. /\ queue[d] # <<>> /\ queue'[d] = Tail(queue[d]) /\ admitting' = admitting
        /\ \A e \in Domain \ {d} : queue'[e] = queue[e]
    BY <1>4 DEF Take
  <2>2. Len(queue'[d]) = Len(queue[d]) - 1
    BY <2>1
  <2>3. HasSlot(d)'
    <3>1. Len(queue[d]) < MaxQueued => Len(queue'[d]) < MaxQueued
      BY <1>0, <2>2
    <3>2. Len(queue[d]) <= MaxQueued => Len(queue'[d]) <= MaxQueued
      BY <1>0, <2>2
    <3>3. admitting'[d] = admitting[d] /\ HasSlot(d)
      BY <2>1
    <3> QED
      BY <3>1, <3>2, <3>3
  <2>4. \A e \in Domain \ {d} : HasSlot(e)'
    BY <2>1
  <2> QED
    BY <2>3, <2>4
<1>5. ASSUME UNCHANGED <<admitting, queue>> PROVE SlotKept'
  BY <1>5
<1>6. ASSUME NEW d \in Domain, Worker(d) PROVE SlotKept'
  BY <1>4, <1>5, <1>6 DEF Worker, Retire, RetryTurn, Drain, Finish, Saved, Close, jobVars
<1>7. ASSUME NEW j \in Job, Cancel(j) \/ WakeOnCancel(j) PROVE SlotKept'
  BY <1>5, <1>7 DEF Cancel, WakeOnCancel, jobVars
<1>8. ASSUME NEW s \in Search, EnterSearch(s) \/ ExitSearch(s) PROVE SlotKept'
  BY <1>5, <1>8 DEF EnterSearch, ExitSearch, jobVars
<1>9. CASE UNCHANGED vars
  BY <1>5, <1>9 DEF vars, jobVars
<1> QED
  BY <1>1, <1>2, <1>3, <1>6, <1>7, <1>8, <1>9 DEF Next

-----------------------------------------------------------------------------
(* One quick evaluation at a time. *)

\* A worker starts only what waits in the queue, and never an evaluation
\* through the gate.
LEMMA WorkerRevivesNothing ==
  ASSUME SafeInv, NEW d \in Domain, Worker(d),
         NEW i \in EvalJob, status'[i] \in {"queued", "running"}
  PROVE  status[i] \in {"queued", "running"}
<1> USE DEF SafeInv
<1>1. status \in [Job -> Statuses] /\ i \in Job
  BY DEF TypeInv, TypeOK, Job
<1>2. ASSUME NEW j, SeekTurn(d, j) PROVE status[i] \in {"queued", "running"}
  BY <1>1, <1>2 DEF SeekTurn, BeginJob, Turns!TakeTurn, Turns!HasTurn, Turns!IsOldest,
     Bookkeeping, TicketsQueued
<1>3. ASSUME Drain(d) PROVE status[i] \in {"queued", "running"}
  <2>1. ChangesSearch(cur[d]) /\ cur[d] # i
    BY <1>3 DEF Drain, GateInv, DrainingChanges, ChangesSearch, SearchChangingKinds, EvalKind,
       Bookkeeping, KindsByDomain
  <2> QED
    BY <1>1, <1>3, <2>1 DEF Drain
<1>4. ASSUME Finish(d) PROVE status[i] \in {"queued", "running"}
  BY <1>1, <1>4 DEF Finish
<1>5. ASSUME Close(d) PROVE status[i] \in {"queued", "running"}
  BY <1>1, <1>5 DEF Close
<1> QED
  BY <1>2, <1>3, <1>4, <1>5 DEF Worker, Take, Retire, RetryTurn, Saved, jobVars

\* A step that admits nothing makes no evaluation live.
LEMMA OneLiveKept ==
  ASSUME OneLiveQuick, \A i \in EvalJob : Live(i)' => Live(i)
  PROVE  OneLiveQuick'
BY DEF OneLiveQuick

\* The check for duplicates and the lock together see every live evaluation.
LEMMA QuickStep ==
  ASSUME SafeInv, OneLiveQuick, [Next]_vars
  PROVE  OneLiveQuick'
<1> USE DEF SafeInv
<1>1. /\ status \in [Job -> Statuses] /\ admitting \in [Domain -> SUBSET Job]
      /\ EvalJob \subseteq Job /\ DOMAIN kind = Job
  BY DEF TypeInv, TypeOK, Job
<1>2. ASSUME NEW d \in Domain, NEW j \in Job, NEW k, Admit(d, j, k) PROVE OneLiveQuick'
  <2>1. CASE d = "evaluation" /\ k = "quick"
    <3>1. \A i \in EvalJob : ~Live(i)
      BY <1>2, <2>1 DEF Admit, MayAdmit, Duplicate, Live
    <3>2. \A i \in EvalJob : Live(i)' => i = j
      BY <1>1, <1>2, <2>1, <3>1 DEF Admit, Live
    <3> QED
      BY <3>2 DEF OneLiveQuick
  <2>2. CASE d = "evaluation" /\ k # "quick"
    BY <1>1, <1>2, <2>2, OneLiveKept DEF Admit, Live
  <2>3. CASE d = "corpus"
    <3>1. j \notin EvalJob
      BY <1>2, <2>3, QueuesAssumption DEF Admit, JobsOf
    <3> QED
      BY <1>1, <1>2, <2>3, <3>1, OneLiveKept DEF Admit, Live
  <2> QED
    BY <2>1, <2>2, <2>3
<1>3. ASSUME NEW d \in Domain, NEW j \in Job, Enqueue(d, j) PROVE OneLiveQuick'
  <2>1. d = "corpus" => j \notin EvalJob
    BY <1>3, QueuesAssumption DEF Enqueue, TypeInv, DomainsKept, JobsOf
  <2> QED
    BY <1>1, <1>3, <2>1, OneLiveKept DEF Enqueue, Live
<1>4. ASSUME NEW d \in Domain, NEW j \in Job, AbortEnqueue(d, j) PROVE OneLiveQuick'
  BY <1>1, <1>4, OneLiveKept DEF AbortEnqueue, Live
<1>5. ASSUME NEW d \in Domain, Worker(d) PROVE OneLiveQuick'
  <2>1. UNCHANGED <<kind, admitting>>
    BY <1>5 DEF Worker, Take, Retire, RetryTurn, Drain, Finish, Saved, Close, jobVars
  <2> QED
    BY <1>5, <2>1, WorkerRevivesNothing, OneLiveKept DEF Live
<1>6. ASSUME NEW j \in Job, Cancel(j) PROVE OneLiveQuick'
  BY <1>1, <1>6, OneLiveKept DEF Cancel, Live
<1>7. ASSUME UNCHANGED <<kind, status, admitting>> PROVE OneLiveQuick'
  BY <1>7, OneLiveKept DEF Live
<1>8. ASSUME NEW j, WakeOnCancel(j) \/ EnterSearch(j) \/ ExitSearch(j) PROVE OneLiveQuick'
  BY <1>7, <1>8 DEF WakeOnCancel, EnterSearch, ExitSearch, jobVars
<1>9. CASE UNCHANGED vars
  BY <1>7, <1>9 DEF vars, jobVars
<1> QED
  BY <1>2, <1>3, <1>4, <1>5, <1>6, <1>8, <1>9 DEF Next

-----------------------------------------------------------------------------
(* No lost wakeup. *)

\* Each critical section of the coordinator either wakes everybody, or leaves
\* nobody asleep who could go on.
LEMMA WakeupDesk ==
  ASSUME TypeInv, NoLostTurn, created' = created, NEW j \in Job, NEW listens,
         \/ Turns!Register(j, listens) \/ Turns!Cancel(j) \/ Turns!TakeTurn(j)
         \/ Turns!AwaitTurn(j) \/ Turns!TurnLost(j) \/ Turns!ReleaseTurn(j)
  PROVE  NoLostTurn'
<1> USE DEF NoLostTurn, Turns!NoLostWakeup
<1>1. CASE Turns!Register(j, listens) \/ Turns!Cancel(j) \/ Turns!ReleaseTurn(j)
  BY <1>1 DEF Turns!Register, Turns!Cancel, Turns!ReleaseTurn, Turns!NotifyAll
<1>2. CASE Turns!TakeTurn(j)
  BY <1>2, QueuesAssumption DEF Turns!TakeTurn, Turns!HasTurn
<1>3. CASE Turns!AwaitTurn(j)
  BY <1>3 DEF Turns!AwaitTurn, Turns!HasTurn, Turns!IsOldest, Turns!Before
<1>4. CASE Turns!TurnLost(j)
  BY <1>4 DEF Turns!TurnLost, Turns!turnVars, Turns!HasTurn, Turns!IsOldest, Turns!Before
<1> QED
  BY <1>1, <1>2, <1>3, <1>4

\* A step that leaves the desk alone and does not move a ticket's timestamp
\* lets nobody overtake.
LEMMA WakeupKept ==
  ASSUME NoLostTurn, UNCHANGED turnVars, \A i \in pending : created'[i] = created[i]
  PROVE  NoLostTurn'
<1>1. ASSUME NEW j \in sleepers PROVE j \in pending /\ ~Turns!HasTurn(j)'
  <2>1. j \in pending /\ ~Turns!HasTurn(j)
    BY <1>1 DEF NoLostTurn, Turns!NoLostWakeup
  <2>2. Turns!IsOldest(j, pending)' => Turns!IsOldest(j, pending)
    BY <2>1 DEF turnVars, Turns!IsOldest, Turns!Before
  <2> QED
    BY <2>1, <2>2 DEF turnVars, Turns!HasTurn
<1> QED
  BY <1>1 DEF NoLostTurn, Turns!NoLostWakeup, turnVars

\* Whatever a worker does, it does to the desk by one critical section.
LEMMA WorkerAtDesk ==
  ASSUME SafeInv, NEW d \in Domain, Worker(d)
  PROVE  /\ created' = created
         /\ \/ UNCHANGED turnVars
            \/ \E j \in Job : \/ Turns!TakeTurn(j) \/ Turns!AwaitTurn(j)
                              \/ Turns!TurnLost(j) \/ Turns!ReleaseTurn(j)
<1>1. queue[d] \in Seq(Job) /\ (InHand(d) => cur[d] \in Job)
  BY JobsOfType DEF SafeInv, TypeInv, TypeOK, DomainsKept
<1>2. CASE Take(d)
  <2>1. Head(queue[d]) \in Job
    BY <1>1, <1>2 DEF Take
  <2> QED
    BY <1>2, <2>1 DEF Take, SeekTurn, BeginJob
<1>3. CASE RetryTurn(d)
  BY <1>1, <1>3 DEF RetryTurn, SeekTurn, BeginJob, InHand
<1>4. CASE Drain(d)
  BY <1>1, <1>4 DEF Drain, InHand
<1>5. CASE Finish(d)
  BY <1>1, <1>5 DEF Finish, LeaveTurn, InHand
<1>6. CASE Saved(d)
  BY <1>1, <1>6 DEF Saved, LeaveTurn, InHand, jobVars
<1>7. CASE Close(d) \/ Retire(d)
  BY <1>7 DEF Close, Retire, jobVars
<1> QED
  BY <1>2, <1>3, <1>4, <1>5, <1>6, <1>7 DEF Worker

\* No step of a request, a worker or a search makes a sleeper miss its turn.
LEMMA WakeupStep ==
  ASSUME SafeInv, NoLostTurn, [Next]_vars
  PROVE  NoLostTurn'
<1> USE DEF SafeInv
<1>1. ASSUME NEW d \in Domain, NEW j \in Job, NEW k, Admit(d, j, k) PROVE NoLostTurn'
  <2>1. j \notin pending
    BY <1>1 DEF Admit, Bookkeeping, TicketsQueued
  <2>2. UNCHANGED turnVars /\ \A i \in pending : created'[i] = created[i]
    BY <1>1, <2>1 DEF Admit, TypeInv, TypeOK, Turns!TypeOK
  <2> QED
    BY <2>2, WakeupKept
<1>2. ASSUME NEW d \in Domain, NEW j \in Job, Enqueue(d, j) PROVE NoLostTurn'
  BY <1>2, WakeupDesk DEF Enqueue
<1>3. ASSUME NEW j \in Job, Cancel(j) PROVE NoLostTurn'
  BY <1>3, WakeupDesk DEF Cancel
<1>4. ASSUME UNCHANGED <<turnVars, created>> PROVE NoLostTurn'
  BY <1>4, WakeupKept
<1>5. ASSUME NEW d \in Domain, Worker(d) PROVE NoLostTurn'
  BY <1>4, <1>5, WorkerAtDesk, WakeupDesk
<1>6. ASSUME NEW d \in Domain, NEW j \in Job, AbortEnqueue(d, j) PROVE NoLostTurn'
  BY <1>4, <1>6 DEF AbortEnqueue
<1>7. ASSUME NEW j, WakeOnCancel(j) \/ EnterSearch(j) \/ ExitSearch(j) PROVE NoLostTurn'
  BY <1>4, <1>7 DEF WakeOnCancel, EnterSearch, ExitSearch, jobVars
<1>8. CASE UNCHANGED vars
  BY <1>4, <1>8 DEF vars, jobVars
<1> QED
  BY <1>1, <1>2, <1>3, <1>5, <1>6, <1>7, <1>8 DEF Next

-----------------------------------------------------------------------------
(* The theorems. *)

\* Initially nothing is admitted, queued or asleep.
LEMMA PromiseInit == Init => PromiseInv
<1> SUFFICES ASSUME Init PROVE PromiseInv
  OBVIOUS
<1>1. SlotKept
  BY QueuesAssumption DEF Init, SlotKept, HasSlot
<1>2. OneLiveQuick
  BY DEF Init, OneLiveQuick, Live, Job
<1>3. NoLostTurn
  BY DEF Init, Turns!Init, NoLostTurn, Turns!NoLostWakeup
<1> QED
  BY <1>1, <1>2, <1>3, SafeInit DEF PromiseInv

LEMMA PromiseStep == PromiseInv /\ [Next]_vars => PromiseInv'
BY SafeStep, SlotStep, QuickStep, WakeupStep DEF PromiseInv

\* put_nowait never raises QueueFull: while a row is inserted the queue and the
\* job in admission together never exceed the limit.
THEOREM AdmittedFits == Spec => []AdmissionFits
<1>1. ASSUME PromiseInv PROVE AdmissionFits
  <2> SUFFICES ASSUME NEW d \in Domain
               PROVE  Len(queue[d]) + Cardinality(admitting[d]) <= MaxQueued
    BY DEF AdmissionFits
  <2>1. Len(queue[d]) \in Nat /\ MaxQueued \in Nat
    BY <1>1, QueuesAssumption DEF PromiseInv, SafeInv, TypeInv, TypeOK
  <2>2. CASE admitting[d] = {}
    BY <1>1, <2>1, <2>2, FS_EmptySet DEF PromiseInv, SlotKept, HasSlot
  <2>3. CASE \E j \in Job : admitting[d] = {j} /\ Len(queue[d]) < MaxQueued
    <3>1. Cardinality(admitting[d]) = 1
      BY <2>3, FS_Singleton
    <3> QED
      BY <2>1, <2>3, <3>1
  <2> QED
    BY <1>1, <2>2, <2>3 DEF PromiseInv, SlotKept, HasSlot
<1> QED
  BY PromiseInit, PromiseStep, <1>1, PTL DEF Spec

\* Two requests for the same quick evaluation, however they interleave with the
\* inserts and the worker, never leave two of them queued or running.
THEOREM QuickIsUnique == Spec => []NoDuplicateQuick
<1>1. PromiseInv => NoDuplicateQuick
  BY DEF PromiseInv, OneLiveQuick, Live, NoDuplicateQuick
<1> QED
  BY PromiseInit, PromiseStep, <1>1, PTL DEF Spec

\* A writer asleep in the drain still has a search to wait for, however searches,
\* cancellations and writers come and go.
LEMMA DrainersMustWait == Spec => []NoLostDrain
<1>1. Init => NoLostDrain
  BY DEF Init, Gate!Init, NoLostDrain, Gate!NoLostDrain
<1>2. ASSUME NoLostDrain, [Next]_vars PROVE NoLostDrain'
  <2> USE <1>2 DEF NoLostDrain, Gate!NoLostDrain
  <2>1. UNCHANGED accessVars => NoLostDrain'
    BY DEF accessVars
  <2>2. ASSUME NEW j, Gate!BeginUpdate(j) \/ Gate!KeepDraining(j) \/ Gate!EndUpdate(j)
               \/ Gate!StartWriting(j) \/ Gate!WakeOnCancel(j) \/ Gate!EnterSearch(j)
               \/ Gate!ExitSearch(j)
        PROVE  NoLostDrain'
    BY <2>2 DEF Gate!BeginUpdate, Gate!KeepDraining, Gate!EndUpdate, Gate!StartWriting,
       Gate!WakeOnCancel, Gate!EnterSearch, Gate!ExitSearch, Gate!NotifyAll, Gate!accessVars
  <2>3. ASSUME NEW d, NEW j, SeekTurn(d, j) PROVE NoLostDrain'
    BY <2>1, <2>2, <2>3 DEF SeekTurn, BeginJob
  <2>4. ASSUME NEW d, Worker(d) PROVE NoLostDrain'
    <3>1. CASE Take(d) \/ RetryTurn(d)
      BY <2>1, <2>3, <3>1 DEF Take, RetryTurn
    <3>2. CASE Drain(d)
      BY <2>1, <2>2, <3>2 DEF Drain
    <3>3. CASE Retire(d) \/ Close(d)
      BY <2>1, <3>3 DEF Retire, Close
    <3>4. CASE Finish(d) \/ Saved(d)
      BY <2>1, <2>2, <3>4 DEF Finish, Saved, LeaveTurn
    <3> QED
      BY <2>4, <3>1, <3>2, <3>3, <3>4 DEF Worker
  <2>5. ASSUME NEW j, WakeOnCancel(j) \/ EnterSearch(j) \/ ExitSearch(j) PROVE NoLostDrain'
    BY <2>2, <2>5 DEF WakeOnCancel, EnterSearch, ExitSearch
  <2>6. ASSUME NEW d, NEW j, NEW k, Admit(d, j, k) \/ Enqueue(d, j) \/ AbortEnqueue(d, j)
               \/ Cancel(j)
        PROVE  NoLostDrain'
    BY <2>1, <2>6 DEF Admit, Enqueue, AbortEnqueue, Cancel
  <2>7. UNCHANGED vars => NoLostDrain'
    BY <2>1 DEF vars
  <2> QED
    BY <2>4, <2>5, <2>6, <2>7 DEF Next
<1> QED
  BY <1>1, <1>2, PTL DEF Spec

\* No worker and no draining writer sleeps through a wakeup: a worker asleep in turn() has
\* its ticket and somebody ahead of it, and a writer in the drain a search to wait for.
THEOREM SleepersMustWait == Spec => []NoLostWakeup
<1>1. PromiseInv => NoLostTurn
  BY DEF PromiseInv
<1>2. NoLostTurn /\ NoLostDrain => NoLostWakeup
  BY DEF NoLostWakeup
<1> QED
  BY PromiseInit, PromiseStep, DrainersMustWait, <1>1, <1>2, PTL DEF Spec

=============================================================================
