--------------------------- MODULE JobLedgerProofs ---------------------------
(***************************************************************************)
(* What holds of the shared ledger for every number of jobs, requests,     *)
(* charged batches, failures and restarts: the rows implement the life     *)
(* cycle of JobLifecycle, no forgotten job is left unfinished, an answered *)
(* cancellation is durable, and charges are not lost.                      *)
(***************************************************************************)
EXTENDS JobLedger, SequenceTheorems, TLAPS

Ops == {"none", "enqueue", "cancel", "list"}

\* A process in the queue of the write lock waits there, and only once.
LockHeld == \A i \in 1 .. Len(lockq) : lockq[i] \in Proc => at[lockq[i]] = "lock"
LockOnce ==
  \A i, k \in 1 .. Len(lockq) : i # k /\ lockq[i] \in Proc => lockq[i] # lockq[k]

\* A process in flush() is among the waiters of its job's drain task.
In(q, line) == \E i \in 1 .. Len(line) : line[i] = q
FlushWaits == \A p \in Proc : at[p] = "flush" => In(p, flushers[target[p]])

\* Where the worker and the callers may be, and on which errand.
WorkerPlaces ==
  /\ at[Worker] \notin {"reconcile", "create"}
  /\ at[Worker] # "idle" => target[Worker] \in Job
  /\ at[Worker] = "flush" => goal[Worker] \in {"usage", "final", "close"}
  /\ at[Worker] = "lock" => goal[Worker] \in {"usage", "final"}
CallerPlaces ==
  \A c \in Caller :
    /\ at[c] \in {"idle", "reconcile", "flush", "lock", "create"}
    /\ at[c] \in {"flush", "lock"} => target[c] \in Job /\ goal[c] \in {"final", "retry"}
    /\ at[c] # "idle" => request[c].job \in Job
    /\ at[c] = "create" => request[c].op = "enqueue"

RequestType == request \in [Caller -> [op : Ops, job : Job \cup {Worker}]]

ProcInv == LockHeld /\ LockOnce /\ FlushWaits /\ WorkerPlaces /\ CallerPlaces
TypeInv == TypeOK /\ RequestType /\ ProcInv

-----------------------------------------------------------------------------
(* Type correctness and the write lock. *)

\* A job or a process that asks for the lock queues behind the others.
LEMMA LockAppend ==
  ASSUME lockq \in Seq(Proc \cup Job), LockHeld, LockOnce, NEW o \in Proc \cup Job,
         lockq' = Append(lockq, o),
         o \in Proc => at[o] # "lock" /\ at'[o] = "lock",
         \A q \in Proc : at[q] = "lock" => at'[q] = "lock"
  PROVE  /\ LockHeld' /\ LockOnce' /\ lockq' \in Seq(Proc \cup Job) /\ lockq' # <<>>
         /\ lockq # <<>> => Owner' = Owner
<1>1. /\ lockq' \in Seq(Proc \cup Job) /\ lockq' # <<>> /\ Len(lockq') = Len(lockq) + 1
      /\ \A i \in 1 .. Len(lockq) : lockq'[i] = lockq[i]
      /\ lockq'[Len(lockq) + 1] = o /\ Len(lockq) \in Nat
  BY AppendProperties, LenProperties
<1>2. LockHeld'
  BY <1>1 DEF LockHeld
<1>3. LockOnce'
  <2> SUFFICES ASSUME NEW i \in 1 .. Len(lockq'), NEW k \in 1 .. Len(lockq'), i # k,
                      lockq'[i] \in Proc, lockq'[i] = lockq'[k]
               PROVE  FALSE
    BY DEF LockOnce
  <2>1. CASE i \in 1 .. Len(lockq) /\ k \in 1 .. Len(lockq)
    BY <1>1, <2>1 DEF LockOnce
  <2>2. CASE i = Len(lockq) + 1 /\ k \in 1 .. Len(lockq)
    BY <1>1, <2>2 DEF LockHeld
  <2>3. CASE k = Len(lockq) + 1 /\ i \in 1 .. Len(lockq)
    BY <1>1, <2>3 DEF LockHeld
  <2> QED
    BY <1>1, <2>1, <2>2, <2>3
<1>4. lockq # <<>> => Owner' = Owner
  <2>1. lockq # <<>> => 1 \in 1 .. Len(lockq)
    BY EmptySeq, <1>1
  <2> QED
    BY <1>1, <2>1 DEF Owner
<1> QED
  BY <1>1, <1>2, <1>3, <1>4

\* The owner leaves; the others stay in line.
LEMMA LockTail ==
  ASSUME lockq \in Seq(Proc \cup Job), lockq # <<>>, LockHeld, LockOnce,
         lockq' = Tail(lockq),
         \A q \in Proc : at[q] = "lock" /\ q # Owner => at'[q] = "lock"
  PROVE  LockHeld' /\ LockOnce' /\ lockq' \in Seq(Proc \cup Job)
<1>1. /\ lockq' \in Seq(Proc \cup Job) /\ Len(lockq') = Len(lockq) - 1
      /\ \A i \in 1 .. Len(lockq') : lockq'[i] = lockq[i + 1]
      /\ Len(lockq) \in Nat \ {0} /\ Owner = lockq[1]
  BY HeadTailProperties, EmptySeq DEF Owner
<1>2. \A i \in 1 .. Len(lockq') : i + 1 \in 1 .. Len(lockq) /\ i + 1 # 1
  BY <1>1
<1>3. LockHeld'
  BY <1>1, <1>2 DEF LockHeld, LockOnce
<1>4. LockOnce'
  <2> SUFFICES ASSUME NEW i \in 1 .. Len(lockq'), NEW k \in 1 .. Len(lockq'), i # k,
                      lockq'[i] \in Proc, lockq'[i] = lockq'[k]
               PROVE  FALSE
    BY DEF LockOnce
  <2>1. i + 1 # k + 1
    BY <1>1
  <2> QED
    BY <1>1, <1>2, <2>1 DEF LockOnce
<1> QED
  BY <1>1, <1>3, <1>4

\* The drain task of a job releases the lock and may ask for it again.
LEMMA LockRequeue ==
  ASSUME lockq \in Seq(Proc \cup Job), lockq # <<>>, LockHeld, LockOnce, NEW j \in Job,
         lockq' = Append(Tail(lockq), j), at' = at
  PROVE  LockHeld' /\ LockOnce' /\ lockq' \in Seq(Proc \cup Job)
<1> DEFINE rest == Tail(lockq)
<1>1. /\ rest \in Seq(Proc \cup Job) /\ Len(rest) = Len(lockq) - 1
      /\ \A i \in 1 .. Len(rest) : rest[i] = lockq[i + 1]
      /\ Len(lockq) \in Nat \ {0} /\ Len(rest) \in Nat
  BY HeadTailProperties, EmptySeq, LenProperties
<1>a. lockq' = Append(rest, j)
  OBVIOUS
<1> HIDE DEF rest
<1>2. /\ lockq' \in Seq(Proc \cup Job) /\ Len(lockq') = Len(rest) + 1
      /\ \A i \in 1 .. Len(rest) : lockq'[i] = rest[i]
      /\ lockq'[Len(rest) + 1] = j
  BY <1>1, <1>a, AppendProperties
<1>3. j \notin Proc
  BY LedgerAssumption DEF Proc
<1>4. ASSUME NEW i \in 1 .. Len(lockq'), lockq'[i] \in Proc
      PROVE  i + 1 \in 1 .. Len(lockq) /\ lockq'[i] = lockq[i + 1]
  <2>1. i # Len(rest) + 1
    BY <1>2, <1>3, <1>4
  <2>2. i \in 1 .. Len(rest)
    BY <1>1, <1>2, <1>4, <2>1
  <2> QED
    BY <1>1, <1>2, <2>2
<1>5. LockHeld'
  BY <1>4 DEF LockHeld
<1>6. LockOnce'
  <2> SUFFICES ASSUME NEW i \in 1 .. Len(lockq'), NEW k \in 1 .. Len(lockq'), i # k,
                      lockq'[i] \in Proc, lockq'[i] = lockq'[k]
               PROVE  FALSE
    BY DEF LockOnce
  <2>1. i + 1 # k + 1
    BY <1>2
  <2> QED
    BY <1>4, <2>1 DEF LockOnce
<1> QED
  BY <1>2, <1>5, <1>6

\* Nobody leaves the lock's queue.
LEMMA LockSame ==
  ASSUME LockHeld, LockOnce, lockq' = lockq,
         \A q \in Proc : at[q] = "lock" => at'[q] = "lock"
  PROVE  LockHeld' /\ LockOnce'
BY DEF LockHeld, LockOnce

\* Who may own the lock, and on whose behalf it writes.
LEMMA OwnerFacts ==
  ASSUME TypeInv, lockq # <<>>
  PROVE  /\ Owner \in Proc \cup Job /\ JobOf(Owner) \in Job
         /\ Owner \in Proc => /\ at[Owner] = "lock" /\ target[Owner] = JobOf(Owner)
                              /\ goal[Owner] \in {"usage", "final", "retry"}
         /\ Owner = Worker => goal[Owner] \in {"usage", "final"}
         /\ Owner \in Caller => goal[Owner] \in {"final", "retry"}
<1>1. Owner \in Proc \cup Job /\ Owner = lockq[1] /\ 1 \in 1 .. Len(lockq)
  BY HeadTailProperties, EmptySeq DEF TypeInv, TypeOK, Owner
<1>2. Owner \in Proc => at[Owner] = "lock"
  BY <1>1 DEF TypeInv, ProcInv, LockHeld
<1>3. Proc \cap Job = {}
  BY LedgerAssumption DEF Proc
<1> QED
  BY <1>1, <1>2, <1>3 DEF TypeInv, ProcInv, WorkerPlaces, CallerPlaces, JobOf, Proc
-----------------------------------------------------------------------------

\* The write in flight keeps its owner and its purpose.
WriteKept ==
  lockq # <<>> => /\ lockq' # <<>> /\ JobOf(Owner)' = JobOf(Owner)
                  /\ ForFinal(Owner)' = ForFinal(Owner)

QueueTypes ==
  /\ dirty \subseteq Job
  /\ task \in [Job -> {"none", "created", "busy", "done"}]
  /\ flushers \in [Job -> Seq(Proc)] /\ lockq \in Seq(Proc \cup Job)
  /\ at \in [Proc -> Places]
  /\ goal \in [Proc -> {"none", "usage", "final", "retry", "close"}]
  /\ target \in [Proc -> Job \cup {Worker}]

ErrandOf(p, g) == g \in IF p = Worker THEN {"usage", "final", "close"} ELSE {"final", "retry"}

\* Where AfterFlush sends a process, it finds its errand and its place in line.
LEMMA AfterFlushType ==
  ASSUME TypeInv, NEW p \in Proc, NEW g, ErrandOf(p, g), at[p] # "lock",
         AfterFlush(p, g)
  PROVE  /\ lockq' \in Seq(Proc \cup Job) /\ at' \in [Proc -> Places]
         /\ at'[p] = IF g = "close" THEN "close" ELSE "lock"
         /\ \A q \in Proc \ {p} : at'[q] = at[q]
         /\ LockHeld' /\ LockOnce'
         /\ lockq # <<>> => lockq' # <<>> /\ Owner' = Owner
<1> USE DEF TypeInv, TypeOK, ProcInv
<1>1. /\ at' \in [Proc -> Places]
      /\ at'[p] = IF g = "close" THEN "close" ELSE "lock"
      /\ \A q \in Proc \ {p} : at'[q] = at[q]
  BY DEF AfterFlush, Places
<1>2. CASE g = "close"
  <2>1. lockq' = lockq /\ \A q \in Proc : at[q] = "lock" => at'[q] = "lock"
    BY <1>1, <1>2 DEF AfterFlush
  <2> QED
    BY <1>1, <2>1, LockSame DEF Owner
<1>3. CASE g # "close"
  <2>1. lockq' = Append(lockq, p) /\ \A q \in Proc : at[q] = "lock" => at'[q] = "lock"
    BY <1>1, <1>3 DEF AfterFlush
  <2> QED
    BY <1>1, <1>3, <2>1, LockAppend
<1> QED
  BY <1>2, <1>3

\* The places and errands after a process has gone on to flush, lock or close.
LEMMA FlushPlaces ==
  ASSUME TypeInv, NEW p \in Proc, NEW j \in Job, NEW g, ErrandOf(p, g),
         at[p] \notin {"flush", "lock"}, UNCHANGED request,
         p \in Caller => at[p] # "idle",
         at'[p] \in (IF g = "close" THEN {"flush", "close"} ELSE {"flush", "lock"}),
         goal'[p] = g, target'[p] = j,
         \A q \in Proc \ {p} : at'[q] = at[q] /\ goal'[q] = goal[q] /\ target'[q] = target[q],
         lockq # <<>> => lockq' # <<>> /\ Owner' = Owner
  PROVE  WorkerPlaces' /\ CallerPlaces' /\ WriteKept
<1> USE DEF TypeInv, ProcInv
<1>1. Worker \notin Caller /\ Worker \in Proc /\ Caller \subseteq Proc /\ Proc = Caller \cup {Worker}
  BY LedgerAssumption DEF Proc
<1>2. WorkerPlaces'
  BY <1>1 DEF WorkerPlaces, ErrandOf
<1>3. CallerPlaces'
  BY <1>1 DEF CallerPlaces, ErrandOf
<1>4. WriteKept
  <2> SUFFICES ASSUME lockq # <<>> PROVE JobOf(Owner)' = JobOf(Owner) /\ ForFinal(Owner)' = ForFinal(Owner)
    BY DEF WriteKept
  <2>1. Owner' = Owner /\ Owner \in Proc \cup Job /\ (Owner \in Proc => Owner # p)
    BY OwnerFacts
  <2> QED
    BY <2>1 DEF JobOf, ForFinal
<1> QED
  BY <1>2, <1>3, <1>4

\* Entering flush() keeps the order of the lock and the waiters of every drain.
LEMMA FlushType ==
  ASSUME TypeInv, NEW p \in Proc, NEW j \in Job, NEW g, ErrandOf(p, g),
         at[p] \notin {"flush", "lock"}, Flush(p, j, g), UNCHANGED request,
         p \in Caller => at[p] # "idle"
  PROVE  /\ QueueTypes' /\ ProcInv' /\ WriteKept
         /\ at'[p] \in (IF g = "close" THEN {"flush", "close"} ELSE {"flush", "lock"})
         /\ \A q \in Proc \ {p} : UNCHANGED <<at[q], goal[q], target[q]>>
         /\ goal'[p] = g /\ target'[p] = j
<1> USE DEF TypeInv, TypeOK
<1>1. /\ goal'[p] = g /\ target'[p] = j
      /\ \A q \in Proc \ {p} : goal'[q] = goal[q] /\ target'[q] = target[q]
      /\ goal' \in [Proc -> {"none", "usage", "final", "retry", "close"}]
      /\ target' \in [Proc -> Job \cup {Worker}] /\ dirty' \subseteq Job
  BY DEF Flush, ErrandOf
<1>2. CASE Draining(j)
  <2>1. /\ flushers' = [flushers EXCEPT ![j] = Append(@, p)] /\ UNCHANGED <<task, lockq>>
        /\ at' = [at EXCEPT ![p] = "flush"]
    BY <1>2 DEF Flush
  <2>2. /\ at' \in [Proc -> Places] /\ at'[p] = "flush"
        /\ \A q \in Proc \ {p} : at'[q] = at[q]
    BY <2>1 DEF Places
  <2>3. /\ flushers' \in [Job -> Seq(Proc)] /\ flushers'[j] = Append(flushers[j], p)
        /\ \A i \in Job \ {j} : flushers'[i] = flushers[i]
    BY <2>1
  <2>4. /\ Len(flushers[j]) \in Nat /\ Len(flushers'[j]) = Len(flushers[j]) + 1
        /\ \A i \in 1 .. Len(flushers[j]) : flushers'[j][i] = flushers[j][i]
        /\ flushers'[j][Len(flushers[j]) + 1] = p
    BY <2>3, AppendProperties, LenProperties
  <2>5. FlushWaits'
    <3>1. In(p, flushers'[j])
      <4>1. Len(flushers[j]) + 1 \in 1 .. Len(flushers'[j])
        BY <2>4
      <4> QED
        BY <2>4, <4>1 DEF In
    <3>2. ASSUME NEW q, In(q, flushers[j]) PROVE In(q, flushers'[j])
      <4>1. PICK i \in 1 .. Len(flushers[j]) : flushers[j][i] = q
        BY <3>2 DEF In
      <4>2. i \in 1 .. Len(flushers'[j]) /\ flushers'[j][i] = q
        BY <2>4, <4>1
      <4> QED
        BY <4>2 DEF In
    <3>3. ASSUME NEW q \in Proc \ {p}, at'[q] = "flush" PROVE In(q, flushers'[target'[q]])
      <4>1. target'[q] = target[q] /\ target[q] \in Job /\ In(q, flushers[target[q]])
        BY <1>1, <2>2, <3>3 DEF ProcInv, FlushWaits, WorkerPlaces, CallerPlaces, Proc
      <4> QED
        BY <2>3, <3>2, <4>1
    <3> QED
      BY <1>1, <3>1, <3>3 DEF FlushWaits
  <2>6. LockHeld' /\ LockOnce' /\ (lockq # <<>> => Owner' = Owner)
    <3>1. \A q \in Proc : at[q] = "lock" => at'[q] = "lock"
      BY <2>2
    <3> QED
      BY <2>1, <3>1, LockSame DEF ProcInv, Owner
  <2> QED
    BY <1>1, <2>1, <2>2, <2>3, <2>5, <2>6, FlushPlaces DEF QueueTypes, ProcInv
<1>3. CASE ~Draining(j)
  <2>1. flushers' = flushers /\ task' = [task EXCEPT ![j] = "none"] /\ AfterFlush(p, g)
    BY <1>3 DEF Flush
  <2>2. /\ lockq' \in Seq(Proc \cup Job) /\ at' \in [Proc -> Places]
        /\ at'[p] = IF g = "close" THEN "close" ELSE "lock"
        /\ \A q \in Proc \ {p} : at'[q] = at[q]
        /\ LockHeld' /\ LockOnce'
        /\ lockq # <<>> => lockq' # <<>> /\ Owner' = Owner
    BY <2>1, AfterFlushType
  <2>3. FlushWaits'
    <3>1. \A q \in Proc : at'[q] = "flush" => q # p /\ at[q] = "flush" /\ target'[q] = target[q]
      BY <1>1, <2>2
    <3> QED
      BY <2>1, <3>1 DEF ProcInv, FlushWaits
  <2>4. task' \in [Job -> {"none", "created", "busy", "done"}]
    BY <2>1
  <2> QED
    BY <1>1, <2>1, <2>2, <2>3, <2>4, FlushPlaces DEF QueueTypes, ProcInv
<1> QED
  BY <1>2, <1>3

DataTypes ==
  /\ row \in [Job -> Snapshots] /\ mem \in [Job -> Snapshots]
  /\ final \in [Job -> Snapshots] /\ inflight \in Snapshots
  /\ recovered \in BOOLEAN /\ enabled \subseteq Job
  /\ acked \subseteq Job /\ ended \subseteq Job /\ attempt \in 1 .. MaxAttempts
  /\ todo \in [Caller -> SUBSET Job]
  /\ faults \in 0 .. MaxFaults /\ crashes \in 0 .. MaxCrashes

LEMMA TypeSplit ==
  (TypeOK <=> QueueTypes /\ DataTypes) /\ (TypeOK' <=> QueueTypes' /\ DataTypes')
BY DEF TypeOK, QueueTypes, DataTypes

\* The desk of the write lock keeps its shape where nobody moves.
LEMMA ProcKept ==
  ASSUME TypeInv, UNCHANGED <<lockq, flushers, goal, target, request>>,
         \A q \in Proc : at'[q] = at[q] \/ (at[q] \notin {"flush", "lock"} /\
           at'[q] \in (IF q = Worker THEN {"running", "ended", "closing", "idle"}
                       ELSE {"idle", "reconcile", "create"})),
         \A c \in Caller : at'[c] # at[c] =>
           /\ at[c] # "idle"
           /\ at'[c] = "create" => request[c].op = "enqueue",
         at'[Worker] # at[Worker] => target[Worker] \in Job
  PROVE  ProcInv'
<1> USE DEF TypeInv, ProcInv
<1>1. Worker \notin Caller /\ Worker \in Proc /\ Caller \subseteq Proc
  BY LedgerAssumption DEF Proc
<1>2. LockHeld' /\ LockOnce'
  BY LockSame
<1>3. FlushWaits'
  BY DEF FlushWaits
<1>4. WorkerPlaces'
  BY <1>1 DEF WorkerPlaces
<1>5. CallerPlaces'
  BY <1>1 DEF CallerPlaces
<1> QED
  BY <1>2, <1>3, <1>4, <1>5

\* The owner of the lock goes on to a place of its kind.
LEMMA PlaceAfterType ==
  ASSUME TypeInv, lockq # <<>>, Owner \in Proc, NEW ok \in BOOLEAN
  PROVE  PlaceAfter(Owner, ok) \in IF Owner = Worker THEN {"running", "ended", "closing"}
                                   ELSE {"reconcile", "idle"}
<1>1. CASE Owner = Worker
  BY <1>1, OwnerFacts DEF PlaceAfter
<1>2. CASE Owner # Worker
  BY <1>2, OwnerFacts DEF PlaceAfter, Proc
<1> QED
  BY <1>1, <1>2

\* A write that ends hands the lock to the next in line.
LEMMA ReleaseType ==
  ASSUME TypeInv, lockq # <<>>, NEW ok \in BOOLEAN, Release(Owner, ok),
         UNCHANGED <<goal, target, flushers, request>>
  PROVE  /\ QueueTypes' /\ ProcInv'
         /\ final' \in [Job -> Snapshots] /\ acked' \subseteq Job
         /\ inflight' \in Snapshots /\ attempt' \in 1 .. MaxAttempts
<1>1. Worker \notin Caller /\ Worker \in Proc /\ Caller \subseteq Proc /\ Proc \cap Job = {}
  BY LedgerAssumption DEF Proc
<1>2. NoSnapshot \in Snapshots
  BY LedgerAssumption DEF NoSnapshot, Snapshot, Snapshots
<1>3. inflight' \in Snapshots /\ attempt' \in 1 .. MaxAttempts
  BY <1>2, LedgerAssumption DEF Release
<1>4. QueueTypes /\ DataTypes /\ ProcInv /\ Owner \in Proc \cup Job /\ JobOf(Owner) \in Job
  BY OwnerFacts, TypeSplit DEF TypeInv
<1>5. CASE Owner \in Job
  <2>1. ReleaseDrain(Owner)
    BY <1>5 DEF Release
  <2>2. UNCHANGED <<at, final, acked>> /\ dirty' \subseteq Job
        /\ task' \in [Job -> {"none", "created", "busy", "done"}]
    BY <1>4, <2>1 DEF ReleaseDrain, QueueTypes
  <2>3. LockHeld' /\ LockOnce' /\ lockq' \in Seq(Proc \cup Job)
    BY <1>4, <1>5, <2>1, <2>2, LockTail, LockRequeue DEF ReleaseDrain, ProcInv, QueueTypes
  <2>4. FlushWaits' /\ WorkerPlaces' /\ CallerPlaces'
    BY <1>4, <2>2 DEF ProcInv, FlushWaits, WorkerPlaces, CallerPlaces
  <2> QED
    BY <1>3, <1>4, <2>2, <2>3, <2>4 DEF QueueTypes, DataTypes, ProcInv
<1>6. CASE Owner \notin Job
  <2>1. ReleaseProc(Owner, ok) /\ Owner \in Proc
    BY <1>4, <1>6 DEF Release
  <2>2. at[Owner] = "lock" /\ target[Owner] \in Job
    BY <1>4, <2>1, OwnerFacts
  <2> DEFINE place == PlaceAfter(Owner, ok)
  <2>3. place \in IF Owner = Worker THEN {"running", "ended", "closing"} ELSE {"reconcile", "idle"}
    BY <2>1, PlaceAfterType
  <2>4. at' = [at EXCEPT ![Owner] = place] /\ lockq' = Tail(lockq) /\ UNCHANGED <<task, dirty>>
    BY <2>1 DEF ReleaseProc
  <2> HIDE DEF place
  <2>5. at' \in [Proc -> Places] /\ at'[Owner] = place /\ \A q \in Proc \ {Owner} : at'[q] = at[q]
    BY <1>4, <2>1, <2>3, <2>4 DEF QueueTypes, Places
  <2>6. LockHeld' /\ LockOnce' /\ lockq' \in Seq(Proc \cup Job)
    BY <1>4, <2>4, <2>5, LockTail DEF ProcInv, QueueTypes
  <2>7. FlushWaits'
    BY <1>4, <2>3, <2>5 DEF ProcInv, FlushWaits
  <2>8. WorkerPlaces'
    BY <1>1, <1>4, <2>2, <2>3, <2>5 DEF ProcInv, WorkerPlaces
  <2>9. CallerPlaces'
    BY <1>1, <1>4, <2>2, <2>3, <2>5 DEF ProcInv, CallerPlaces
  <2>10. final' \in [Job -> Snapshots] /\ acked' \subseteq Job
    BY <1>2, <1>4, <2>1, <2>2 DEF ReleaseProc, DataTypes
  <2> QED
    BY <1>3, <1>4, <2>4, <2>5, <2>6, <2>7, <2>8, <2>9, <2>10 DEF QueueTypes, ProcInv
<1> QED
  BY <1>5, <1>6

\* What a snapshot is made of.
LEMMA SnapshotType ==
  /\ NoSnapshot \in Snapshots /\ Snapshot("gone", 0) \in Snapshots
  /\ \A s \in Terminal \cup {"queued", "running"}, u \in 0 .. MaxUsage : Snapshot(s, u) \in Snapshots
  /\ \A s \in Snapshots : /\ s.usage \in 0 .. MaxUsage /\ s = Snapshot(s.status, s.usage)
                          /\ s.status \in {"none", "gone", "queued", "running"} \cup Terminal
BY LedgerAssumption DEF NoSnapshot, Snapshot, Snapshots, Terminal

\* put() merges one snapshot into one row.
LEMMA MergedType ==
  ASSUME TypeInv, NEW j \in Job, NEW s \in Snapshots
  PROVE  /\ Merged(j, s) \in [Job -> Snapshots]
         /\ \A i \in Job \ {j} : Merged(j, s)[i] = row[i]
         /\ Merged(j, s)[j].status = s.status
         /\ Merged(j, s)[j].usage = IF s.usage = 0 THEN row[j].usage ELSE s.usage
<1>1. Snapshot(s.status, IF s.usage = 0 THEN row[j].usage ELSE s.usage) \in Snapshots
  BY SnapshotType DEF TypeInv, TypeOK, Snapshot, Snapshots
<1>2. Merged(j, s)[j] = Snapshot(s.status, IF s.usage = 0 THEN row[j].usage ELSE s.usage)
  BY DEF TypeInv, TypeOK, Merged
<1> QED
  BY <1>1, <1>2 DEF TypeInv, TypeOK, Merged, Snapshot

\* The drain tasks: created by schedule(), then in line for the lock.
LEMMA DrainType ==
  ASSUME TypeInv, NEW j \in Job, DrainStarts(j) \/ Publish(j)
  PROVE  TypeInv'
<1> USE DEF TypeInv
<1>1. QueueTypes /\ DataTypes
  BY TypeSplit
<1>2. Worker \notin Caller /\ Worker \in Proc /\ Proc \cap Job = {}
  BY LedgerAssumption DEF Proc
<1>3. CASE DrainStarts(j)
  <2>1. LockHeld' /\ LockOnce' /\ lockq' \in Seq(Proc \cup Job)
    BY <1>1, <1>2, <1>3, LockAppend DEF DrainStarts, QueueTypes, ProcInv, procVars
  <2>2. FlushWaits' /\ WorkerPlaces' /\ CallerPlaces'
    BY <1>3 DEF DrainStarts, procVars, ProcInv, FlushWaits, WorkerPlaces, CallerPlaces
  <2>3. QueueTypes' /\ DataTypes' /\ RequestType'
    BY <1>1, <1>3, <2>1 DEF DrainStarts, procVars, boundVars, QueueTypes, DataTypes, RequestType
  <2> QED
    BY <2>1, <2>2, <2>3, TypeSplit DEF ProcInv
<1>4. CASE Publish(j)
  <2>1. DataTypes' /\ RequestType' /\ UNCHANGED <<lockq, flushers, goal, target, request>>
    BY <1>1, <1>4 DEF Publish, workerRest, boundVars, DataTypes, RequestType
  <2>2. at' = at \/ at' = [at EXCEPT ![Worker] = "ended"]
    BY <1>4 DEF Publish
  <2>3. mem[j].status # "cancelled" => at' = at
    BY <1>4 DEF Publish
  <2>4. at' # at => at[Worker] = "running"
    BY <1>4, <2>3 DEF Publish
  <2>5. at' \in [Proc -> Places] /\ \A q \in Proc : at'[q] = at[q] \/ (q = Worker /\ at' # at /\ at'[q] = "ended")
    BY <1>1, <2>2 DEF QueueTypes, Places
  <2>6. ProcInv'
    BY <1>2, <2>1, <2>4, <2>5, ProcKept DEF ProcInv, WorkerPlaces, Proc
  <2>7. QueueTypes'
    BY <1>1, <1>4, <2>1, <2>5 DEF Publish, Schedule, QueueTypes
  <2> QED
    BY <2>1, <2>6, <2>7, TypeSplit
<1> QED
  BY <1>3, <1>4

\* The waiters of a drain leave flush() one by one.
LEMMA FlushedType ==
  ASSUME TypeInv, NEW p \in Proc, Flushed(p)
  PROVE  TypeInv' /\ WriteKept
<1> USE DEF TypeInv
<1>1. QueueTypes /\ DataTypes /\ ProcInv
  BY TypeSplit
<1>2. Worker \notin Caller /\ Worker \in Proc /\ Proc = Caller \cup {Worker}
  BY LedgerAssumption DEF Proc
<1> DEFINE j == target[p]
<1>3. /\ at[p] = "flush" /\ p = Head(flushers[j]) /\ AfterFlush(p, goal[p])
      /\ flushers' = [flushers EXCEPT ![j] = Tail(@)] /\ task' = [task EXCEPT ![j] = "none"]
      /\ UNCHANGED <<row, mem, recovered, enabled, dirty, final, inflight, attempt,
                     goal, target, todo, request, acked, ended, boundVars>>
  BY DEF Flushed
<1>4. j \in Job /\ In(p, flushers[j]) /\ ErrandOf(p, goal[p])
  BY <1>1, <1>2, <1>3 DEF ProcInv, FlushWaits, WorkerPlaces, CallerPlaces, ErrandOf
<1>5. /\ lockq' \in Seq(Proc \cup Job) /\ at' \in [Proc -> Places]
      /\ at'[p] = IF goal[p] = "close" THEN "close" ELSE "lock"
      /\ \A q \in Proc \ {p} : at'[q] = at[q]
      /\ LockHeld' /\ LockOnce'
      /\ lockq # <<>> => lockq' # <<>> /\ Owner' = Owner
  BY <1>3, <1>4, AfterFlushType
<1> HIDE DEF j
<1>6. flushers[j] \in Seq(Proc) /\ flushers[j] # <<>>
  <2>1. PICK i \in 1 .. Len(flushers[j]) : flushers[j][i] = p
    BY <1>4 DEF In
  <2>2. flushers[j] \in Seq(Proc)
    BY <1>1, <1>4 DEF QueueTypes
  <2>3. Len(<<>>) = 0
    OBVIOUS
  <2> QED
    BY <2>1, <2>2, <2>3
<1>7. /\ flushers' \in [Job -> Seq(Proc)] /\ flushers'[j] = Tail(flushers[j])
      /\ \A i \in Job \ {j} : flushers'[i] = flushers[i]
  BY <1>1, <1>3, <1>4, <1>6, HeadTailProperties DEF QueueTypes
<1>8. FlushWaits'
  <2> SUFFICES ASSUME NEW q \in Proc, at'[q] = "flush" PROVE In(q, flushers'[target'[q]])
    BY DEF FlushWaits
  <2>1. q # p /\ at[q] = "flush" /\ target'[q] = target[q]
    BY <1>3, <1>5
  <2>2. target[q] \in Job /\ In(q, flushers[target[q]])
    BY <1>1, <1>2, <2>1 DEF ProcInv, FlushWaits, WorkerPlaces, CallerPlaces
  <2>3. ASSUME In(q, flushers[j]) PROVE In(q, Tail(flushers[j]))
    <3>1. PICK i \in 1 .. Len(flushers[j]) : flushers[j][i] = q
      BY <2>3 DEF In
    <3>2. i # 1
      BY <1>3, <1>6, <2>1, <3>1
    <3>3. /\ Len(flushers[j]) \in Nat /\ Len(Tail(flushers[j])) = Len(flushers[j]) - 1
          /\ \A k \in 1 .. Len(Tail(flushers[j])) : Tail(flushers[j])[k] = flushers[j][k + 1]
      BY <1>6, HeadTailProperties, LenProperties
    <3>4. i - 1 \in 1 .. Len(Tail(flushers[j])) /\ (i - 1) + 1 = i
      BY <3>1, <3>2, <3>3
    <3> QED
      BY <3>1, <3>3, <3>4 DEF In
  <2> QED
    BY <1>7, <2>1, <2>2, <2>3
<1>9. WorkerPlaces' /\ CallerPlaces'
  BY <1>1, <1>2, <1>3, <1>4, <1>5 DEF ProcInv, WorkerPlaces, CallerPlaces, ErrandOf
<1>10. WriteKept
  <2> SUFFICES ASSUME lockq # <<>> PROVE JobOf(Owner)' = JobOf(Owner) /\ ForFinal(Owner)' = ForFinal(Owner)
    BY <1>5 DEF WriteKept
  <2> QED
    BY <1>3, <1>5 DEF JobOf, ForFinal
<1>11. QueueTypes' /\ DataTypes' /\ RequestType'
  BY <1>1, <1>3, <1>4, <1>5, <1>7 DEF QueueTypes, DataTypes, RequestType, boundVars
<1> QED
  BY <1>5, <1>8, <1>9, <1>10, <1>11, TypeSplit DEF ProcInv

\* What a write would store is a snapshot.
LEMMA SnapshotToWriteType ==
  ASSUME TypeInv, lockq # <<>>
  PROVE  SnapshotToWrite(Owner) \in Snapshots
<1>1. /\ JobOf(Owner) \in Job /\ (Owner \in Proc => target[Owner] = JobOf(Owner))
      /\ Owner \in Proc \cup Job
  BY OwnerFacts
<1> QED
  BY <1>1, SnapshotType DEF SnapshotToWrite, ForFinal, TypeInv, TypeOK

\* The write lock's owner writes, fails, tries again or gives up.
LEMMA WritesType ==
  ASSUME TypeInv, Writes, inflight # NoSnapshot => lockq # <<>>
  PROVE  TypeInv'
<1> USE DEF TypeInv
<1>1. QueueTypes /\ DataTypes /\ ProcInv /\ RequestType
  BY TypeSplit
<1>2. lockq # <<>> /\ UNCHANGED <<goal, target, flushers, request>>
  BY DEF Writes, BeginWrite, EndWrite, FailWrite
<1>3. RequestType'
  BY <1>1, <1>2 DEF RequestType
<1>4. JobOf(Owner) \in Job
  BY <1>2, OwnerFacts
<1>5. ASSUME Put(JobOf(Owner), inflight) PROVE row' \in [Job -> Snapshots] /\ ended' \subseteq Job
  BY <1>1, <1>4, <1>5, MergedType DEF Put, DataTypes
<1>6. CASE BeginWrite
  <2>1. CASE Release(Owner, TRUE)
    BY <1>1, <1>2, <1>3, <1>6, <2>1, ReleaseType, TypeSplit DEF BeginWrite, DataTypes, boundVars
  <2>2. CASE inflight' = SnapshotToWrite(Owner) /\ UNCHANGED <<attempt, lockq, task, dirty, at, final, acked>>
    <3>1. ProcInv' /\ QueueTypes'
      BY <1>1, <1>2, <1>6, <2>2 DEF ProcInv, QueueTypes, LockHeld, LockOnce, FlushWaits,
         WorkerPlaces, CallerPlaces, BeginWrite
    <3>2. DataTypes'
      BY <1>1, <1>2, <1>6, <2>2, SnapshotToWriteType DEF BeginWrite, DataTypes, boundVars
    <3> QED
      BY <1>3, <3>1, <3>2, TypeSplit
  <2> QED
    BY <1>6, <2>1, <2>2 DEF BeginWrite
<1>7. CASE EndWrite
  <2>1. row' \in [Job -> Snapshots] /\ ended' \subseteq Job
    BY <1>1, <1>5, <1>7 DEF EndWrite, DataTypes
  <2>2. \E ok \in BOOLEAN : Release(Owner, ok)
    BY <1>7 DEF EndWrite
  <2>3. UNCHANGED <<mem, recovered, enabled, todo, faults, crashes>>
    BY <1>7 DEF EndWrite, boundVars
  <2> QED
    BY <1>1, <1>2, <1>3, <2>1, <2>2, <2>3, ReleaseType, TypeSplit DEF DataTypes
<1>8. CASE FailWrite
  <2>1. row' \in [Job -> Snapshots] /\ ended' \subseteq Job
    BY <1>1, <1>5, <1>8 DEF FailWrite, DataTypes
  <2>2. UNCHANGED <<mem, recovered, enabled, todo, crashes>> /\ faults' \in 0 .. MaxFaults
    BY <1>1, <1>8, LedgerAssumption DEF FailWrite, DataTypes
  <2>3. CASE TriesAgain /\ attempt' = attempt + 1 /\ UNCHANGED <<inflight, lockq, task, dirty, at, final, acked>>
    <3>1. ProcInv' /\ QueueTypes'
      BY <1>1, <1>2, <2>3 DEF ProcInv, QueueTypes, LockHeld, LockOnce, FlushWaits,
         WorkerPlaces, CallerPlaces
    <3>2. attempt' \in 1 .. MaxAttempts
      BY <1>1, <2>3, LedgerAssumption DEF TriesAgain, DataTypes
    <3> QED
      BY <1>1, <1>3, <2>1, <2>2, <2>3, <3>1, <3>2, TypeSplit DEF DataTypes
  <2>4. CASE Release(Owner, FALSE)
    BY <1>1, <1>2, <1>3, <2>1, <2>2, <2>4, ReleaseType, TypeSplit DEF DataTypes
  <2> QED
    BY <1>8, <2>3, <2>4 DEF FailWrite
<1> QED
  BY <1>6, <1>7, <1>8 DEF Writes

\* The worker takes a job, charges batches, ends it and forgets it.
LEMMA WorkerType ==
  ASSUME TypeInv, WorkerStep
  PROVE  TypeInv'
<1> USE DEF TypeInv
<1>1. QueueTypes /\ DataTypes /\ ProcInv /\ RequestType
  BY TypeSplit
<1>2. Worker \notin Caller /\ Worker \in Proc /\ Proc = Caller \cup {Worker} /\ Worker \notin Job
  BY LedgerAssumption DEF Proc
<1>3. /\ UNCHANGED <<row, recovered, inflight, attempt, todo, request, acked, ended, faults, crashes>>
      /\ RequestType'
  BY <1>1 DEF WorkerStep, StartJob, RecordUsage, FinishJob, StartClose, Close, workerRest,
     boundVars, RequestType
<1>4. ASSUME mem' \in [Job -> Snapshots], final' \in [Job -> Snapshots], enabled' \subseteq Job
      PROVE  DataTypes'
  BY <1>1, <1>3, <1>4 DEF DataTypes
<1>5. ASSUME NEW j \in Job, StartJob(j) PROVE TypeInv'
  <2>1. /\ target' = [target EXCEPT ![Worker] = j] /\ at[Worker] = "idle"
        /\ at' = [at EXCEPT ![Worker] = "running"] \/ at' = [at EXCEPT ![Worker] = "closing"]
        /\ UNCHANGED <<enabled, final, flushers, lockq, goal>>
    BY <1>5 DEF StartJob
  <2>2. mem' \in [Job -> Snapshots]
    <3>1. mem[j] \in Snapshots /\ [mem[j] EXCEPT !.status = "running"] \in Snapshots
      BY <1>1 DEF DataTypes, Snapshots
    <3>2. mem' = mem \/ mem' = [mem EXCEPT ![j] = [mem[j] EXCEPT !.status = "running"]]
      BY <1>5 DEF StartJob
    <3> QED
      BY <1>1, <3>1, <3>2 DEF DataTypes
  <2>3. /\ at' \in [Proc -> Places] /\ at'[Worker] \in {"running", "closing"} /\ target'[Worker] = j
        /\ target' \in [Proc -> Job \cup {Worker}]
        /\ \A q \in Caller : at'[q] = at[q] /\ target'[q] = target[q]
    BY <1>1, <1>2, <2>1 DEF QueueTypes, Places
  <2>4. QueueTypes'
    <3>1. Schedule(j) \/ UNCHANGED <<dirty, task>>
      BY <1>5 DEF StartJob
    <3>2. dirty' \subseteq Job /\ task' \in [Job -> {"none", "created", "busy", "done"}]
      BY <1>1, <3>1 DEF Schedule, QueueTypes
    <3> QED
      BY <1>1, <2>1, <2>3, <3>2 DEF QueueTypes
  <2>5. LockHeld' /\ LockOnce'
    BY <1>1, <1>2, <2>1, <2>3, LockSame DEF ProcInv
  <2>6. FlushWaits' /\ WorkerPlaces' /\ CallerPlaces'
    BY <1>1, <1>2, <1>3, <2>1, <2>3 DEF ProcInv, FlushWaits, WorkerPlaces, CallerPlaces
  <2> QED
    BY <1>1, <1>3, <1>4, <2>1, <2>2, <2>4, <2>5, <2>6, TypeSplit DEF DataTypes, ProcInv
<1>6. ASSUME NEW j \in Job, NEW g \in {"usage", "final", "close"}, Flush(Worker, j, g),
             at[Worker] \notin {"flush", "lock"}
      PROVE  QueueTypes' /\ ProcInv'
  BY <1>2, <1>3, <1>6, FlushType DEF ErrandOf
<1>7. ASSUME RecordUsage PROVE TypeInv'
  <2>1. target[Worker] \in Job /\ at[Worker] = "running"
    BY <1>1, <1>7 DEF RecordUsage, ProcInv, WorkerPlaces
  <2>2. QueueTypes' /\ ProcInv'
    BY <1>6, <1>7, <2>1 DEF RecordUsage
  <2> DEFINE j == target[Worker]
  <2>3. [mem[j] EXCEPT !.usage = @ + 1] \in Snapshots
    <3>1. mem[j] \in Snapshots /\ mem[j].usage < MaxUsage
      BY <1>1, <1>7, <2>1 DEF RecordUsage, DataTypes
    <3>2. mem[j].usage + 1 \in 0 .. MaxUsage
      BY <3>1, SnapshotType, LedgerAssumption
    <3> QED
      BY <3>1, <3>2 DEF Snapshots
  <2>4. mem' = [mem EXCEPT ![j] = [mem[j] EXCEPT !.usage = @ + 1]] /\ UNCHANGED <<enabled, final>>
    BY <1>7, <2>1 DEF RecordUsage
  <2>5. mem' \in [Job -> Snapshots]
    BY <1>1, <2>1, <2>3, <2>4 DEF DataTypes
  <2> QED
    BY <1>1, <1>3, <1>4, <2>2, <2>4, <2>5, TypeSplit DEF DataTypes
<1>8. ASSUME FinishJob PROVE TypeInv'
  <2> DEFINE j == target[Worker]
  <2>1. j \in Job /\ at[Worker] \in {"running", "ended"}
    BY <1>1, <1>8 DEF FinishJob, ProcInv, WorkerPlaces
  <2>2. CASE WriteFinal(Worker, j, Snapshot("finished", mem[j].usage))
    <3>1. Snapshot("finished", mem[j].usage) \in Snapshots
      BY <1>1, <2>1, SnapshotType DEF DataTypes, Terminal
    <3>2. QueueTypes' /\ ProcInv'
      BY <1>6, <2>1, <2>2 DEF WriteFinal
    <3>3. mem' \in [Job -> Snapshots] /\ final' \in [Job -> Snapshots] /\ enabled' \subseteq Job
      BY <1>1, <2>1, <2>2, <3>1 DEF WriteFinal, DataTypes
    <3> QED
      BY <1>3, <1>4, <3>2, <3>3, TypeSplit
  <2>3. CASE /\ at' = [at EXCEPT ![Worker] = "closing"]
             /\ UNCHANGED <<mem, enabled, final, dirty, task, flushers, lockq, goal, target>>
    <3>1. ProcInv'
      BY <1>1, <1>2, <1>3, <2>1, <2>3, ProcKept DEF QueueTypes
    <3>2. QueueTypes'
      BY <1>1, <2>3 DEF QueueTypes, Places
    <3> QED
      BY <1>1, <1>3, <1>4, <2>3, <3>1, <3>2, TypeSplit DEF DataTypes
  <2> QED
    BY <1>8, <2>2, <2>3 DEF FinishJob
<1>9. ASSUME StartClose PROVE TypeInv'
  <2>1. target[Worker] \in Job /\ at[Worker] = "closing"
    BY <1>1, <1>9 DEF StartClose, ProcInv, WorkerPlaces
  <2>2. QueueTypes' /\ ProcInv'
    BY <1>6, <1>9, <2>1 DEF StartClose
  <2> QED
    BY <1>1, <1>3, <1>4, <1>9, <2>2, TypeSplit DEF StartClose, DataTypes
<1>10. ASSUME Close PROVE TypeInv'
  <2>1. target[Worker] \in Job /\ at[Worker] = "close"
    BY <1>1, <1>10 DEF Close, ProcInv, WorkerPlaces
  <2>2. ProcInv'
    BY <1>1, <1>2, <1>3, <1>10, <2>1, ProcKept DEF Close, QueueTypes
  <2>3. QueueTypes'
    BY <1>1, <1>10 DEF Close, QueueTypes, Places
  <2>4. mem' \in [Job -> Snapshots] /\ UNCHANGED <<enabled, final>>
    BY <1>1, <1>10, SnapshotType DEF Close, DataTypes
  <2> QED
    BY <1>1, <1>3, <1>4, <2>2, <2>3, <2>4, TypeSplit DEF DataTypes
<1> QED
  BY <1>5, <1>7, <1>8, <1>9, <1>10 DEF WorkerStep

\* A request arrives.
LEMMA CallType ==
  ASSUME TypeInv, NEW c \in Caller, NEW op \in {"enqueue", "cancel", "list"}, NEW j \in Job,
         Call(c, op, j)
  PROVE  TypeInv'
<1> USE DEF TypeInv
<1>1. QueueTypes /\ DataTypes /\ ProcInv /\ RequestType
  BY TypeSplit
<1>2. Worker \notin Caller /\ Worker \in Proc /\ Caller \subseteq Proc
  BY LedgerAssumption DEF Proc
<1>3. /\ at[c] = "idle" /\ request' = [request EXCEPT ![c] = Request(op, j)]
      /\ at' = [at EXCEPT ![c] = "reconcile"] /\ todo' = [todo EXCEPT ![c] = Unsaved]
      /\ UNCHANGED <<row, mem, recovered, callRest, acked, ended, boundVars>>
  BY DEF Call
<1>4. RequestType' /\ request'[c] = Request(op, j) /\ \A q \in Caller \ {c} : request'[q] = request[q]
  BY <1>1, <1>3 DEF RequestType, Request, Ops
<1>5. /\ at' \in [Proc -> Places] /\ at'[c] = "reconcile" /\ at[c] = "idle"
      /\ \A q \in Proc \ {c} : at'[q] = at[q]
  BY <1>1, <1>2, <1>3 DEF QueueTypes, Places
<1>6. UNCHANGED <<enabled, task, dirty, final, flushers, lockq, inflight, attempt, goal, target>>
  BY <1>3 DEF callRest
<1>7. LockHeld' /\ LockOnce'
  BY <1>1, <1>5, <1>6, LockSame DEF ProcInv
<1>8. FlushWaits' /\ WorkerPlaces'
  BY <1>1, <1>2, <1>5, <1>6 DEF ProcInv, FlushWaits, WorkerPlaces
<1>9. CallerPlaces'
  BY <1>1, <1>2, <1>4, <1>5, <1>6 DEF ProcInv, CallerPlaces, Request
<1>10. DataTypes' /\ QueueTypes'
  BY <1>1, <1>3, <1>5, <1>6 DEF DataTypes, QueueTypes, boundVars, Unsaved
<1> QED
  BY <1>4, <1>7, <1>8, <1>9, <1>10, TypeSplit DEF ProcInv

\* A request reconciles, recovers, cancels, inserts or is answered.
LEMMA CallerType ==
  ASSUME TypeInv, NEW c \in Caller, CallerStep(c)
  PROVE  TypeInv'
<1> USE DEF TypeInv
<1>1. QueueTypes /\ DataTypes /\ ProcInv /\ RequestType
  BY TypeSplit
<1>2. Worker \notin Caller /\ Worker \in Proc /\ Caller \subseteq Proc
  BY LedgerAssumption DEF Proc
<1>3. request' = request /\ RequestType' /\ UNCHANGED <<inflight, attempt, acked, crashes>>
  BY <1>1 DEF CallerStep, RetryPending, Recover, Cancel, Answer, Create, callRest, boundVars,
     RequestType
<1>4. ASSUME NEW j \in Job, NEW g \in {"final", "retry"}, Flush(c, j, g),
             at[c] \notin {"flush", "lock", "idle"}
      PROVE  QueueTypes' /\ ProcInv'
  BY <1>2, <1>3, <1>4, FlushType DEF ErrandOf
<1>5. CASE RetryPending(c)
  <2>1. PICK j \in todo[c] : todo' = [todo EXCEPT ![c] = @ \ {j}] /\ Flush(c, j, "retry")
    BY <1>5 DEF RetryPending
  <2>2. j \in Job /\ at[c] = "reconcile"
    BY <1>1, <1>5, <2>1 DEF RetryPending, DataTypes
  <2>3. QueueTypes' /\ ProcInv'
    BY <1>4, <2>1, <2>2
  <2>4. DataTypes'
    BY <1>1, <1>3, <1>5, <2>1 DEF RetryPending, DataTypes, boundVars
  <2> QED
    BY <1>3, <2>3, <2>4, TypeSplit
<1>6. CASE Recover(c)
  <2>1. /\ at[c] = "reconcile" /\ (at' = at \/ at' = [at EXCEPT ![c] = "idle"])
        /\ UNCHANGED <<mem, callRest, todo, request, acked, crashes>>
    BY <1>6 DEF Recover
  <2>2. UNCHANGED <<enabled, task, dirty, final, flushers, lockq, inflight, attempt, goal, target>>
    BY <2>1 DEF callRest
  <2>3. ProcInv'
    BY <1>1, <1>2, <2>1, <2>2, ProcKept DEF QueueTypes
  <2>4. row' \in [Job -> Snapshots] /\ ended' \subseteq Job
    <3>1. CASE InterruptIncomplete
      <4>1. \A j \in Job : Interrupted(row[j]) \in Snapshots
        BY <1>1, SnapshotType DEF DataTypes, Interrupted, Terminal
      <4> QED
        BY <1>1, <3>1, <4>1 DEF InterruptIncomplete, DataTypes, LeftBehind
    <3> QED
      BY <1>1, <1>6, <3>1 DEF Recover, DataTypes
  <2>5. recovered' \in BOOLEAN /\ faults' \in 0 .. MaxFaults
    <3>1. recovered' \in BOOLEAN
      BY <1>1, <1>6 DEF Recover, DataTypes
    <3>2. faults' = faults \/ (faults < MaxFaults /\ faults' = faults + 1)
      BY <1>6 DEF Recover
    <3> QED
      BY <1>1, <3>1, <3>2, LedgerAssumption DEF DataTypes
  <2>6. QueueTypes'
    BY <1>1, <2>1, <2>2 DEF QueueTypes, Places
  <2> QED
    BY <1>1, <1>3, <2>1, <2>2, <2>3, <2>4, <2>5, <2>6, TypeSplit DEF DataTypes
<1>7. CASE Cancel(c)
  <2> DEFINE j == request[c].job
  <2>1. /\ at[c] = "reconcile" /\ WriteFinal(c, j, Snapshot("cancelled", mem[j].usage))
        /\ UNCHANGED <<row, recovered, todo, ended, boundVars>>
    BY <1>7 DEF Cancel, Reconciled
  <2>2. j \in Job
    BY <1>1, <2>1 DEF ProcInv, CallerPlaces
  <2>3. Snapshot("cancelled", mem[j].usage) \in Snapshots
    BY <1>1, <2>2, SnapshotType DEF DataTypes, Terminal
  <2>4. QueueTypes' /\ ProcInv'
    BY <1>4, <2>1, <2>2 DEF WriteFinal
  <2>5. mem' \in [Job -> Snapshots] /\ final' \in [Job -> Snapshots] /\ enabled' \subseteq Job
    BY <1>1, <2>1, <2>2, <2>3 DEF WriteFinal, DataTypes
  <2> QED
    BY <1>1, <1>3, <2>1, <2>4, <2>5, TypeSplit DEF DataTypes, boundVars
<1>8. CASE Answer(c)
  <2>1. UNCHANGED <<enabled, task, dirty, final, flushers, lockq, inflight, attempt, goal, target>>
    BY <1>8 DEF Answer, callRest
  <2>2. /\ at[c] = "reconcile" /\ UNCHANGED <<row, mem, recovered, todo, ended, boundVars>>
        /\ at' = [at EXCEPT ![c] = IF request[c].op = "enqueue" THEN "create" ELSE "idle"]
    BY <1>8 DEF Answer, Reconciled
  <2>3. ProcInv'
    BY <1>1, <1>2, <1>3, <2>1, <2>2, ProcKept DEF QueueTypes
  <2>4. QueueTypes' /\ DataTypes'
    BY <1>1, <1>3, <2>1, <2>2 DEF QueueTypes, DataTypes, Places, boundVars
  <2> QED
    BY <1>3, <2>3, <2>4, TypeSplit
<1>9. CASE Create(c)
  <2>1. /\ at[c] = "create" /\ at' = [at EXCEPT ![c] = "idle"]
        /\ UNCHANGED <<recovered, task, dirty, final, flushers, lockq, inflight, attempt,
                       goal, target, todo, request, acked, ended, crashes>>
    BY <1>9 DEF Create
  <2>2. request[c].job \in Job
    BY <1>1, <2>1 DEF ProcInv, CallerPlaces
  <2>3. Snapshot("queued", 0) \in Snapshots
    BY SnapshotType, LedgerAssumption
  <2>4. row' \in [Job -> Snapshots] /\ mem' \in [Job -> Snapshots] /\ enabled' \subseteq Job
    <3>1. /\ [row EXCEPT ![request[c].job] = Snapshot("queued", 0)] \in [Job -> Snapshots]
          /\ [mem EXCEPT ![request[c].job] = Snapshot("queued", 0)] \in [Job -> Snapshots]
      BY <1>1, <2>2, <2>3 DEF DataTypes
    <3> QED
      BY <1>1, <1>9, <2>2, <3>1 DEF Create, DataTypes
  <2>5. faults' \in 0 .. MaxFaults
    BY <1>1, <1>9, LedgerAssumption DEF Create, DataTypes
  <2>6. ProcInv'
    BY <1>1, <1>2, <2>1, ProcKept DEF QueueTypes
  <2>7. QueueTypes' /\ DataTypes'
    BY <1>1, <2>1, <2>4, <2>5 DEF QueueTypes, DataTypes, Places
  <2> QED
    BY <1>3, <2>6, <2>7, TypeSplit
<1> QED
  BY <1>5, <1>6, <1>7, <1>8, <1>9 DEF CallerStep

\* History is deleted, or the process stops and starts again.
LEMMA OutsideType ==
  ASSUME TypeInv, DeleteHistory \/ Crash, inflight # NoSnapshot => lockq # <<>>
  PROVE  TypeInv'
<1> USE DEF TypeInv
<1>1. QueueTypes /\ DataTypes /\ ProcInv /\ RequestType
  BY TypeSplit
<1>2. CASE DeleteHistory
  <2>1. UNCHANGED <<mem, recovered, persisterVars, procVars, acked, ended, boundVars>>
        /\ row' \in [Job -> Snapshots]
    BY <1>1, <1>2, SnapshotType DEF DeleteHistory, DataTypes
  <2> QED
    BY <1>1, <2>1, TypeSplit DEF persisterVars, procVars, boundVars, QueueTypes, DataTypes,
       RequestType, ProcInv, LockHeld, LockOnce, FlushWaits, WorkerPlaces, CallerPlaces
<1>3. CASE Crash
  <2>1. /\ mem' \in [Job -> Snapshots] /\ final' \in [Job -> Snapshots] /\ inflight' \in Snapshots
        /\ crashes' \in 0 .. MaxCrashes /\ attempt' \in 1 .. MaxAttempts
    BY <1>1, <1>3, SnapshotType, LedgerAssumption DEF Crash, DataTypes
  <2>2. row' \in [Job -> Snapshots]
    <3>1. Snapshot("queued", 0) \in Snapshots
      BY SnapshotType, LedgerAssumption
    <3>2. inflight # NoSnapshot => Merged(JobOf(Owner), inflight) \in [Job -> Snapshots]
      BY <1>1, OwnerFacts, MergedType DEF DataTypes
    <3>3. \A c \in Caller : [row EXCEPT ![request[c].job] = Snapshot("queued", 0)] \in [Job -> Snapshots]
      BY <1>1, <3>1 DEF DataTypes
    <3>4. row' \in Survivors
      BY <1>3 DEF Crash
    <3> QED
      BY <1>1, <3>2, <3>3, <3>4 DEF Survivors, DataTypes
  <2>3. ended' \subseteq Job
    BY <1>1, <1>3 DEF Crash, DataTypes
  <2>4. QueueTypes'
    BY <1>3, LedgerAssumption DEF Crash, QueueTypes, Places
  <2>5. RequestType'
    BY <1>3 DEF Crash, RequestType, Request, Ops
  <2>6. ProcInv'
    <3>1. lockq' = <<>> /\ at' = [p \in Proc |-> "idle"]
      BY <1>3 DEF Crash
    <3>2. \A p \in Proc : at'[p] = "idle"
      BY <3>1
    <3> QED
      BY <3>1, <3>2, EmptySeq DEF ProcInv, LockHeld, LockOnce, FlushWaits, WorkerPlaces,
         CallerPlaces, Proc
  <2>7. DataTypes'
    BY <1>1, <1>3, <2>1, <2>2, <2>3 DEF Crash, DataTypes
  <2> QED
    BY <2>4, <2>5, <2>6, <2>7, TypeSplit
<1> QED
  BY <1>2, <1>3

\* Whoever writes still owns the lock.
WriterOwns == inflight # NoSnapshot => lockq # <<>>
LockInv == TypeInv /\ WriterOwns

LEMMA LockInit == Init => LockInv
<1> SUFFICES ASSUME Init PROVE LockInv
  OBVIOUS
<1>1. QueueTypes
  <2>1. <<>> \in Seq(Proc) /\ <<>> \in Seq(Proc \cup Job)
    OBVIOUS
  <2>2. flushers \in [Job -> Seq(Proc)] /\ lockq \in Seq(Proc \cup Job)
    BY <2>1 DEF Init
  <2>3. /\ dirty \subseteq Job /\ task \in [Job -> {"none", "created", "busy", "done"}]
        /\ at \in [Proc -> Places] /\ target \in [Proc -> Job \cup {Worker}]
        /\ goal \in [Proc -> {"none", "usage", "final", "retry", "close"}]
    BY DEF Init, Places
  <2> QED
    BY <2>2, <2>3 DEF QueueTypes
<1>a. DataTypes
  <2>1. /\ row \in [Job -> Snapshots] /\ mem \in [Job -> Snapshots]
        /\ final \in [Job -> Snapshots] /\ inflight \in Snapshots
    BY SnapshotType DEF Init
  <2>2. attempt \in 1 .. MaxAttempts /\ faults \in 0 .. MaxFaults /\ crashes \in 0 .. MaxCrashes
    BY LedgerAssumption DEF Init
  <2>3. todo \in [Caller -> SUBSET Job]
    BY DEF Init
  <2> QED
    BY <2>1, <2>2, <2>3 DEF Init, DataTypes
<1>2. RequestType
  BY DEF Init, RequestType, Request, Ops
<1>3. ProcInv
  <2>1. \A p \in Proc : at[p] = "idle"
    BY DEF Init
  <2> QED
    BY <2>1, EmptySeq DEF Init, ProcInv, LockHeld, LockOnce, FlushWaits, WorkerPlaces, CallerPlaces, Proc
<1> QED
  BY <1>1, <1>a, <1>2, <1>3, TypeSplit DEF Init, LockInv, TypeInv, WriterOwns

\* No step breaks a type, the order of the lock, or leaves a write unowned.
LEMMA LockStep == LockInv /\ [Next]_vars => LockInv'
<1> SUFFICES ASSUME LockInv, [Next]_vars PROVE LockInv'
  OBVIOUS
<1> USE DEF LockInv, WriterOwns
<1>a. lockq \in Seq(Proc \cup Job)
  BY DEF TypeInv, TypeOK
<1>0. \A o \in Proc \cup Job : Append(lockq, o) # <<>>
  BY <1>a, AppendProperties
<1>1. ASSUME NEW j \in Job, DrainStarts(j) \/ Publish(j) PROVE LockInv'
  <2>1. inflight' = inflight /\ (lockq' = lockq \/ lockq' = Append(lockq, j))
    BY <1>1 DEF DrainStarts, Publish, workerRest
  <2> QED
    BY <1>0, <1>1, <2>1, DrainType
<1>2. ASSUME NEW p \in Proc, Flushed(p) PROVE LockInv'
  <2>1. inflight' = inflight
    BY <1>2 DEF Flushed
  <2> QED
    BY <1>2, <2>1, FlushedType DEF WriteKept
<1>3. ASSUME Writes PROVE LockInv'
  <2>1. inflight' = NoSnapshot \/ lockq' = lockq
    BY <1>3 DEF Writes, BeginWrite, EndWrite, FailWrite, Release
  <2>2. lockq # <<>>
    BY <1>3 DEF Writes, BeginWrite, EndWrite, FailWrite
  <2> QED
    BY <1>3, <2>1, <2>2, WritesType
<1>4. ASSUME NEW p \in Proc, NEW j, NEW g, Flush(p, j, g) PROVE lockq # <<>> => lockq' # <<>>
  BY <1>0, <1>4 DEF Flush, AfterFlush
<1>5. ASSUME WorkerStep PROVE LockInv'
  <2>1. Worker \in Proc /\ inflight' = inflight
    BY <1>5 DEF Proc, WorkerStep, StartJob, RecordUsage, FinishJob, StartClose, Close, workerRest
  <2>2. lockq # <<>> => lockq' # <<>>
    BY <1>4, <1>5, <2>1 DEF WorkerStep, StartJob, RecordUsage, FinishJob, WriteFinal, StartClose,
       Close
  <2> QED
    BY <1>5, <2>1, <2>2, WorkerType
<1>6. ASSUME NEW c \in Caller, CallerStep(c) PROVE LockInv'
  <2>1. c \in Proc /\ inflight' = inflight
    BY <1>6 DEF Proc, CallerStep, RetryPending, Recover, Cancel, Answer, Create, callRest
  <2>2. lockq # <<>> => lockq' # <<>>
    BY <1>4, <1>6, <2>1 DEF CallerStep, RetryPending, Recover, Cancel, WriteFinal, Answer, Create,
       callRest
  <2> QED
    BY <1>6, <2>1, <2>2, CallerType
<1>7. ASSUME NEW c \in Caller, NEW op \in {"enqueue", "cancel", "list"}, NEW j \in Job, Call(c, op, j)
      PROVE  LockInv'
  <2>1. inflight' = inflight /\ lockq' = lockq
    BY <1>7 DEF Call, callRest
  <2> QED
    BY <1>7, <2>1, CallType
<1>8. ASSUME DeleteHistory \/ Crash PROVE LockInv'
  <2>1. inflight' = NoSnapshot \/ (inflight' = inflight /\ lockq' = lockq)
    BY <1>8 DEF DeleteHistory, Crash, persisterVars
  <2> QED
    BY <1>8, <2>1, OutsideType
<1>9. CASE UNCHANGED vars
  BY <1>9 DEF vars, persisterVars, procVars, boundVars, TypeInv, TypeOK, RequestType, ProcInv,
     LockHeld, LockOnce, FlushWaits, WorkerPlaces, CallerPlaces
<1> QED
  BY <1>1, <1>2, <1>3, <1>5, <1>6, <1>7, <1>8, <1>9 DEF Next

\* Every variable has its type: in particular no process leaves a drain it did
\* not wait for, and the lock always has a next owner with an errand.
THEOREM LedgerTyped == Spec => []TypeOK
<1>1. LockInv => TypeOK
  BY DEF LockInv, TypeInv
<1> QED
  BY LockInit, LockStep, <1>1, PTL DEF Spec

-----------------------------------------------------------------------------
(* What the ledger's promises rest on.                                      *)

\* A row of status r may still be written with status s.
Follows(r, s) ==
  \/ r = "none" \/ r = s
  \/ r = "queued" /\ s \in {"running", "finished", "cancelled"}
  \/ r = "running" /\ s \in {"finished", "cancelled"}

\* The status in memory fits what the worker is doing for its job.
WorkerInv ==
  LET s == mem[target[Worker]].status
      onErrand(g) == at[Worker] \in {"flush", "lock"} /\ goal[Worker] = g IN
    /\ at[Worker] \in {"running", "ended"} \/ onErrand("usage") => s \in {"running", "cancelled"}
    /\ onErrand("final") => s = "finished"
    /\ at[Worker] \in {"closing", "close"} \/ onErrand("close") => s \in {"finished", "cancelled"}

\* Nothing of a former process is in memory before the domain is recovered.
RecoveredFirst ==
  ~recovered =>
    /\ \A j \in Job : mem[j].status \in {"none", "gone"} /\ final[j] = NoSnapshot
    /\ inflight = NoSnapshot
    /\ \A c \in Caller : at[c] # "create"

\* One request at a time inserts a row, for a job that never existed.
Enqueuing(c) == at[c] # "idle" /\ request[c].op = "enqueue"
Inserts ==
  /\ \A c \in Caller : Enqueuing(c) =>
       LET j == request[c].job IN
         row[j].status = "none" /\ mem[j] = NoSnapshot /\ j \notin ended
  /\ \A c, d \in Caller : Enqueuing(c) /\ Enqueuing(d) => c = d

\* The row of a job runs behind its memory, and never ahead of it.
RowBehindMemory(j) ==
  /\ mem[j].status # "interrupted"
  /\ Known(j) => Follows(row[j].status, mem[j].status) /\ row[j].usage <= mem[j].usage

\* A retained snapshot is the end the job had in memory.
RetainedEnd(j) ==
  final[j] # NoSnapshot =>
    /\ final[j].status \in {"finished", "cancelled"}
    /\ mem[j].status \in {final[j].status, "gone"}
    /\ Follows(row[j].status, final[j].status)
    /\ Known(j) => final[j].usage <= mem[j].usage
    /\ final[j].status = "finished" =>
         row[j].usage <= final[j].usage /\ (Known(j) => mem[j].usage <= final[j].usage)

\* A job that ended in memory has ended in the ledger, or its end is retained.
EndSaved(j) ==
  recovered /\ mem[j].status \in {"finished", "cancelled", "gone"}
            /\ row[j].status \in Unfinished => final[j] # NoSnapshot

\* The cancellation of a job is in the ledger for good.
CancelKept(j) ==
  /\ mem[j].status \in {"cancelled", "gone"}
  /\ final[j] = NoSnapshot
  /\ row[j].status \in {"cancelled", "none"}

JobInv(j) ==
  /\ RowBehindMemory(j) /\ RetainedEnd(j) /\ EndSaved(j)
  /\ j \in acked => CancelKept(j)
  /\ row[j].status \in Terminal => j \in ended

\* The write in flight: between the row it replaces and the newest state.
FlightOf(j) ==
  /\ mem[j].status # "none"
  /\ inflight.status \in {"queued", "running", "finished", "cancelled"}
  /\ inflight.status \in Unfinished => mem[j].status \in Unfinished \/ final[j] # NoSnapshot
  /\ Follows(row[j].status, inflight.status)
  /\ Known(j) => Follows(inflight.status, mem[j].status) /\ inflight.usage <= mem[j].usage
  /\ final[j] # NoSnapshot => Follows(inflight.status, final[j].status)
  /\ final[j].status = "finished" => inflight.usage <= final[j].usage
  /\ inflight.status # "cancelled" => row[j].usage <= inflight.usage
Flight ==
  inflight # NoSnapshot =>
    /\ FlightOf(JobOf(Owner))
    /\ ForFinal(Owner) => inflight = final[JobOf(Owner)]

\* A request that cancels still has its snapshot to write, or found it written.
Cancels(c) == at[c] \in {"flush", "lock"} /\ goal[c] = "final"
Cancelling ==
  \A c \in Caller : Cancels(c) => final[target[c]].status = "cancelled" \/ CancelKept(target[c])

DataInv ==
  /\ WorkerInv /\ RecoveredFirst /\ Inserts /\ Flight /\ Cancelling
  /\ \A j \in Job : JobInv(j)

LedgerInv == LockInv /\ DataInv

-----------------------------------------------------------------------------

\* The order of the life cycle.
LEMMA FollowsFacts ==
  /\ \A s : Follows(s, s) /\ Follows("none", s)
  /\ \A r, s, t : Follows(r, s) /\ Follows(s, t) /\ s # "none" => Follows(r, t)
BY DEF Follows

\* Only steps that touch the records can disturb what holds of them.
LEMMA DataKept ==
  ASSUME LedgerInv, UNCHANGED <<row, mem, final, recovered, acked, ended, inflight>>,
         WriteKept, WorkerInv', Inserts',
         \A c \in Caller : Cancels(c)' => Cancels(c) /\ target'[c] = target[c],
         \A c \in Caller : at'[c] = "create" => at[c] = "create" \/ recovered
  PROVE  DataInv'
<1> USE DEF LedgerInv, DataInv
<1>1. RecoveredFirst'
  BY DEF RecoveredFirst
<1>2. Flight'
  <2>1. inflight # NoSnapshot => lockq # <<>>
    BY DEF LockInv, WriterOwns
  <2> QED
    BY <2>1 DEF Flight, FlightOf, WriteKept, Known
<1>3. Cancelling'
  BY DEF Cancelling, CancelKept
<1>4. \A j \in Job : JobInv(j)'
  BY DEF JobInv, RowBehindMemory, RetainedEnd, EndSaved, CancelKept, Known
<1> QED
  BY <1>1, <1>2, <1>3, <1>4

\* The drain tasks touch no record.
LEMMA DrainSafe ==
  ASSUME LedgerInv, LockInv', NEW j \in Job, DrainStarts(j) \/ Publish(j)
  PROVE  DataInv'
<1>0. LockInv /\ TypeInv /\ DataInv
  BY DEF LedgerInv, LockInv
<1>1. /\ UNCHANGED <<row, mem, final, recovered, acked, ended, inflight>>
      /\ UNCHANGED <<goal, target, request>>
  BY DEF DrainStarts, Publish, workerRest, procVars
<1>2. Worker \notin Caller /\ at \in [Proc -> Places] /\ Worker \in Proc /\ Caller \subseteq Proc
  BY <1>0, LedgerAssumption DEF TypeInv, TypeOK, Proc
<1>3. /\ at' = at \/ at' = [at EXCEPT ![Worker] = "ended"]
      /\ at' # at => at[Worker] = "running"
  BY DEF DrainStarts, Publish, procVars
<1>4. /\ \A c \in Caller : at'[c] = at[c]
      /\ at'[Worker] = at[Worker] \/ (at[Worker] = "running" /\ at'[Worker] = "ended")
  BY <1>2, <1>3
<1>5. WriteKept
  <2>1. CASE DrainStarts(j)
    <3>1. lockq \in Seq(Proc \cup Job)
      BY <1>0 DEF TypeInv, TypeOK
    <3>2. lockq # <<>> => lockq' # <<>> /\ Owner' = Owner
      BY <1>0, <2>1, <3>1, LockAppend, LedgerAssumption DEF DrainStarts, TypeInv, ProcInv, Proc, procVars
    <3> QED
      BY <1>1, <3>2 DEF WriteKept, JobOf, ForFinal
  <2>2. CASE Publish(j)
    BY <1>1, <2>2 DEF Publish, WriteKept, Owner, JobOf, ForFinal
  <2> QED
    BY <2>1, <2>2
<1>6. WorkerInv'
  BY <1>0, <1>1, <1>4 DEF DataInv, WorkerInv
<1>7. Inserts'
  <2>1. \A c \in Caller : Enqueuing(c)' <=> Enqueuing(c)
    BY <1>1, <1>4 DEF Enqueuing
  <2> QED
    BY <1>0, <1>1, <2>1 DEF DataInv, Inserts
<1>8. \A c \in Caller : Cancels(c)' => Cancels(c) /\ target'[c] = target[c]
  BY <1>1, <1>4 DEF Cancels
<1>9. \A c \in Caller : at'[c] = "create" => at[c] = "create" \/ recovered
  BY <1>4
<1> QED
  BY <1>1, <1>5, <1>6, <1>7, <1>8, <1>9, DataKept

\* A process that leaves flush() keeps its errand.
LEMMA FlushedSafe ==
  ASSUME LedgerInv, NEW p \in Proc, Flushed(p)
  PROVE  DataInv'
<1>0. LockInv /\ TypeInv /\ DataInv
  BY DEF LedgerInv, LockInv
<1>1. Worker \notin Caller /\ Worker \in Proc /\ Caller \subseteq Proc
  BY LedgerAssumption DEF Proc
<1>2. /\ UNCHANGED <<row, mem, final, recovered, acked, ended, inflight, goal, target, request>>
      /\ at[p] = "flush"
  BY DEF Flushed
<1>3. /\ at'[p] = IF goal[p] = "close" THEN "close" ELSE "lock"
      /\ \A q \in Proc \ {p} : at'[q] = at[q]
  <2>1. at' = [at EXCEPT ![p] = IF goal[p] = "close" THEN "close" ELSE "lock"]
    BY DEF Flushed, AfterFlush
  <2> QED
    BY <1>0, <2>1 DEF TypeInv, TypeOK
<1>4. WriteKept
  BY <1>0, FlushedType
<1>5. WorkerInv'
  <2>1. CASE p = Worker
    BY <1>0, <1>2, <1>3, <2>1 DEF DataInv, WorkerInv
  <2>2. CASE p # Worker
    BY <1>0, <1>1, <1>2, <1>3, <2>2 DEF DataInv, WorkerInv
  <2> QED
    BY <2>1, <2>2
<1>6. \A c \in Caller : /\ Enqueuing(c)' <=> Enqueuing(c)
                        /\ Cancels(c)' => Cancels(c)
                        /\ at'[c] # "create" \/ at[c] = "create"
  <2>1. p \in Caller => goal[p] # "close"
    BY <1>0, <1>2 DEF TypeInv, ProcInv, CallerPlaces
  <2> QED
    BY <1>1, <1>2, <1>3, <2>1 DEF Enqueuing, Cancels
<1>7. Inserts'
  BY <1>0, <1>2, <1>6 DEF DataInv, Inserts
<1> QED
  BY <1>2, <1>4, <1>5, <1>6, <1>7, DataKept

\* A worker that only moves on, with a finished or cancelled job in hand.
LEMMA WorkerMoves ==
  ASSUME LedgerInv, StartClose \/ (FinishJob /\ Acknowledged(target[Worker]))
  PROVE  DataInv'
<1>0. LockInv /\ TypeInv /\ DataInv
  BY DEF LedgerInv, LockInv
<1>1. Worker \notin Caller /\ Worker \in Proc /\ Caller \subseteq Proc
  BY LedgerAssumption DEF Proc
<1>2. UNCHANGED <<row, mem, final, recovered, acked, ended, inflight, request>>
  BY DEF StartClose, FinishJob, workerRest
<1>3. /\ WriteKept /\ target'[Worker] = target[Worker]
      /\ \A c \in Caller : UNCHANGED <<at[c], goal[c], target[c]>>
      /\ \/ at'[Worker] = "closing" /\ mem[target[Worker]].status = "cancelled"
         \/ at[Worker] = "closing" /\ goal'[Worker] = "close" /\ at'[Worker] \in {"flush", "close"}
  <2>1. CASE StartClose
    <3>1. target[Worker] \in Job /\ at[Worker] = "closing" /\ Flush(Worker, target[Worker], "close")
      BY <1>0, <2>1 DEF StartClose, TypeInv, ProcInv, WorkerPlaces
    <3>2. ErrandOf(Worker, "close") /\ at[Worker] \notin {"flush", "lock"}
      BY <3>1 DEF ErrandOf
    <3> QED
      BY <1>0, <1>1, <1>2, <3>1, <3>2, FlushType
  <2>2. CASE FinishJob /\ Acknowledged(target[Worker])
    <3>1. /\ at' = [at EXCEPT ![Worker] = "closing"] /\ UNCHANGED <<goal, target, lockq>>
          /\ mem[target[Worker]].status = "cancelled"
      BY <2>2 DEF FinishJob, Acknowledged
    <3> QED
      BY <1>0, <1>1, <3>1 DEF TypeInv, TypeOK, WriteKept, Owner, JobOf, ForFinal
  <2> QED
    BY <2>1, <2>2
<1>4. WorkerInv'
  BY <1>0, <1>2, <1>3 DEF DataInv, WorkerInv
<1>5. \A c \in Caller : /\ Enqueuing(c)' <=> Enqueuing(c)
                        /\ Cancels(c)' <=> Cancels(c)
  BY <1>2, <1>3 DEF Enqueuing, Cancels
<1>6. Inserts'
  BY <1>0, <1>2, <1>5 DEF DataInv, Inserts
<1> QED
  BY <1>2, <1>3, <1>4, <1>5, <1>6, DataKept

\* A caller that only moves on: to save a retained snapshot, or to its answer.
LEMMA CallerMoves ==
  ASSUME LedgerInv, NEW c \in Caller, RetryPending(c) \/ Answer(c)
  PROVE  DataInv'
<1>0. LockInv /\ TypeInv /\ DataInv
  BY DEF LedgerInv, LockInv
<1>1. Worker \notin Caller /\ Worker \in Proc /\ Caller \subseteq Proc
  BY LedgerAssumption DEF Proc
<1>2. UNCHANGED <<row, mem, final, recovered, acked, ended, inflight, request>>
  BY DEF RetryPending, Answer, callRest
<1>3. /\ WriteKept /\ at[c] = "reconcile"
      /\ \A q \in Proc \ {c} : UNCHANGED <<at[q], goal[q], target[q]>>
      /\ \/ at'[c] \in {"flush", "lock"} /\ goal'[c] = "retry"
         \/ at'[c] \in {"idle", "create"} /\ recovered
  <2>1. CASE RetryPending(c)
    <3>1. PICK j \in todo[c] : Flush(c, j, "retry")
      BY <2>1 DEF RetryPending
    <3>2. j \in Job /\ ErrandOf(c, "retry") /\ at[c] = "reconcile"
      BY <1>0, <1>1, <2>1 DEF RetryPending, TypeInv, TypeOK, ErrandOf
    <3> QED
      BY <1>0, <1>1, <1>2, <3>1, <3>2, FlushType
  <2>2. CASE Answer(c)
    <3>1. /\ at' = [at EXCEPT ![c] = IF request[c].op = "enqueue" THEN "create" ELSE "idle"]
          /\ UNCHANGED <<goal, target, lockq>> /\ at[c] = "reconcile" /\ recovered
      BY <2>2 DEF Answer, Reconciled, callRest
    <3> QED
      BY <1>0, <1>1, <3>1 DEF TypeInv, TypeOK, WriteKept, Owner, JobOf, ForFinal
  <2> QED
    BY <2>1, <2>2
<1>4. WorkerInv'
  BY <1>0, <1>1, <1>2, <1>3 DEF DataInv, WorkerInv
<1>5. \A d \in Caller : /\ Enqueuing(d)' => Enqueuing(d)
                        /\ Cancels(d)' => Cancels(d) /\ target'[d] = target[d]
                        /\ at'[d] = "create" => at[d] = "create" \/ recovered
  BY <1>1, <1>2, <1>3 DEF Enqueuing, Cancels
<1>6. Inserts'
  BY <1>0, <1>2, <1>5 DEF DataInv, Inserts
<1> QED
  BY <1>2, <1>3, <1>4, <1>5, <1>6, DataKept

\* A request arrives; one enqueue() at a time, for a new job.
LEMMA CallSafe ==
  ASSUME LedgerInv, NEW c \in Caller, NEW op \in {"enqueue", "cancel", "list"}, NEW j \in Job,
         Call(c, op, j)
  PROVE  DataInv'
<1>0. LockInv /\ TypeInv /\ DataInv
  BY DEF LedgerInv, LockInv
<1>1. Worker \notin Caller /\ Worker \in Proc /\ Caller \subseteq Proc
  BY LedgerAssumption DEF Proc
<1>2. UNCHANGED <<row, mem, final, recovered, acked, ended, inflight, goal, target, lockq>>
  BY DEF Call, callRest
<1>3. /\ at[c] = "idle" /\ at'[c] = "reconcile" /\ request'[c] = Request(op, j) /\ MayCall(op, j)
      /\ \A q \in Proc \ {c} : at'[q] = at[q]
      /\ \A d \in Caller \ {c} : request'[d] = request[d]
  BY <1>0, <1>1 DEF Call, TypeInv, TypeOK, RequestType
<1>4. WriteKept
  BY <1>2 DEF WriteKept, Owner, JobOf, ForFinal
<1>5. WorkerInv'
  BY <1>0, <1>1, <1>2, <1>3 DEF DataInv, WorkerInv
<1>6. Inserts'
  <2>1. \A d \in Caller \ {c} : (Enqueuing(d)' <=> Enqueuing(d)) /\ request'[d] = request[d]
    BY <1>1, <1>3 DEF Enqueuing
  <2>2. Enqueuing(c)' => op = "enqueue"
    BY <1>3 DEF Enqueuing, Request
  <2>3. CASE op = "enqueue"
    <3>1. \A d \in Caller : ~Enqueuing(d)
      BY <1>3, <2>3 DEF MayCall, Enqueuing
    <3>2. request'[c].job = j /\ row[j].status = "none" /\ mem[j] = NoSnapshot /\ j \notin ended
      BY <1>3, <2>3 DEF MayCall, HasRow, Request
    <3> QED
      BY <1>2, <2>1, <3>1, <3>2 DEF Inserts
  <2>4. CASE op # "enqueue"
    BY <1>0, <1>2, <2>1, <2>2, <2>4 DEF DataInv, Inserts
  <2> QED
    BY <2>3, <2>4
<1>7. \A d \in Caller : /\ Cancels(d)' => Cancels(d) /\ target'[d] = target[d]
                        /\ at'[d] = "create" => at[d] = "create"
  BY <1>1, <1>2, <1>3 DEF Cancels
<1> QED
  BY <1>2, <1>4, <1>5, <1>6, <1>7, DataKept

-----------------------------------------------------------------------------
(* Steps that change what a job is in memory. *)

\* A snapshot that is known is not the empty one.
LEMMA KnownFacts ==
  ASSUME TypeInv
  PROVE  /\ \A j \in Job : Known(j) => mem[j].status \in {"queued", "running"} \cup Terminal
         /\ \A j \in Job : mem[j] = NoSnapshot => ~Known(j)
         /\ NoSnapshot.status = "none"
BY SnapshotType DEF Known, TypeInv, TypeOK, NoSnapshot, Snapshot

\* How a job may go on in memory: it starts, it is charged, or it ends and its
\* last snapshot is retained.
GoesOn(j) ==
  /\ final' = final
  /\ \/ mem[j].status = "queued" /\ mem'[j].status = "running"
     \/ mem[j].status \in {"running", "cancelled"} /\ mem'[j].status = mem[j].status
Ends(j) ==
  /\ mem[j].status \in {"queued", "running"} /\ mem'[j].status \in {"finished", "cancelled"}
  /\ final' = [final EXCEPT ![j] = mem'[j]]

Advances(j) ==
  /\ mem' \in [Job -> Snapshots] /\ \A i \in Job \ {j} : mem'[i] = mem[i]
  /\ mem'[j].usage >= mem[j].usage
  /\ GoesOn(j) \/ Ends(j)
  /\ UNCHANGED <<row, recovered, acked, ended, inflight>>

\* The records of every job stay in order when one job goes on.
LEMMA AdvanceJobs ==
  ASSUME LedgerInv, NEW j \in Job, Advances(j)
  PROVE  /\ \A i \in Job : JobInv(i)'
         /\ recovered /\ Known(j)
         /\ Ends(j) => final[j] = NoSnapshot /\ j \notin acked
         /\ \A i \in Job \ {j} : final'[i] = final[i]
<1>0. TypeInv /\ TypeOK /\ WorkerInv /\ RecoveredFirst /\ \A i \in Job : JobInv(i)
  BY DEF LedgerInv, LockInv, DataInv, TypeInv
<1>1. /\ mem[j].status \in {"queued", "running", "cancelled"} /\ Known(j) /\ recovered
      /\ mem[j] \in Snapshots /\ mem'[j] \in Snapshots /\ row[j] \in Snapshots
      /\ final[j] \in Snapshots
  BY <1>0 DEF Advances, GoesOn, Ends, RecoveredFirst, Known, TypeOK
<1>2. /\ mem[j].usage \in Nat /\ mem'[j].usage \in Nat /\ row[j].usage \in Nat
      /\ final[j].usage \in Nat
  BY <1>1, SnapshotType, LedgerAssumption
<1>3. \A i \in Job \ {j} : final'[i] = final[i] /\ mem'[i] = mem[i]
  BY <1>0 DEF Advances, GoesOn, Ends, TypeOK
<1>4. ASSUME NEW i \in Job \ {j} PROVE JobInv(i)'
  BY <1>0, <1>3 DEF Advances, JobInv, RowBehindMemory, RetainedEnd, EndSaved, CancelKept, Known
<1>5. JobInv(j)
  BY <1>0
<1>6. CASE GoesOn(j)
  <2>1. RowBehindMemory(j)'
    <3>1. Follows(row[j].status, mem[j].status) /\ row[j].usage <= mem[j].usage
      BY <1>1, <1>5 DEF JobInv, RowBehindMemory
    <3>2. /\ mem'[j].status \in {"running", "cancelled"}
          /\ Follows(row[j].status, mem'[j].status)
      BY <1>6, <3>1 DEF GoesOn, Follows
    <3>3. row[j].usage <= mem'[j].usage
      BY <1>2, <3>1 DEF Advances
    <3> QED
      BY <3>2, <3>3 DEF Advances, RowBehindMemory
  <2>2. RetainedEnd(j)'
    BY <1>1, <1>2, <1>5, <1>6 DEF Advances, GoesOn, JobInv, RetainedEnd, Known
  <2>3. EndSaved(j)' /\ (j \in acked' => CancelKept(j)') /\ (row'[j].status \in Terminal => j \in ended')
    BY <1>1, <1>5, <1>6 DEF Advances, GoesOn, JobInv, EndSaved, CancelKept
  <2> QED
    BY <1>1, <1>3, <1>4, <1>6, <2>1, <2>2, <2>3 DEF JobInv, GoesOn, Ends
<1>7. CASE Ends(j)
  <2>1. final'[j] = mem'[j] /\ final[j] = NoSnapshot /\ j \notin acked
    BY <1>0, <1>1, <1>5, <1>7 DEF Ends, JobInv, RetainedEnd, CancelKept, TypeOK
  <2>2. RowBehindMemory(j)'
    BY <1>1, <1>2, <1>5, <1>7 DEF Advances, Ends, JobInv, RowBehindMemory, Known, Follows
  <2>3. RetainedEnd(j)'
    BY <1>1, <1>2, <1>5, <1>7, <2>1, <2>2 DEF Advances, Ends, RowBehindMemory, RetainedEnd, Known
  <2>4. final'[j] # NoSnapshot
    BY <1>7, <2>1 DEF Ends, NoSnapshot, Snapshot
  <2>5. EndSaved(j)' /\ (j \in acked' => CancelKept(j)') /\ (row'[j].status \in Terminal => j \in ended')
    BY <1>5, <2>1, <2>4 DEF Advances, JobInv, EndSaved
  <2> QED
    BY <1>1, <1>3, <1>4, <2>1, <2>2, <2>3, <2>5 DEF JobInv
<1> QED
  BY <1>6, <1>7 DEF Advances

\* The write in flight stays behind the job that goes on.
LEMMA AdvanceFlight ==
  ASSUME LedgerInv, NEW j \in Job, Advances(j), WriteKept
  PROVE  Flight'
<1>0. TypeInv /\ TypeOK /\ Flight /\ WriterOwns /\ \A i \in Job : JobInv(i)
  BY DEF LedgerInv, LockInv, DataInv, TypeInv
<1> SUFFICES ASSUME inflight # NoSnapshot
             PROVE  /\ FlightOf(JobOf(Owner))'
                    /\ ForFinal(Owner)' => inflight' = final'[JobOf(Owner)']
  BY DEF Flight, Advances
<1>1. lockq # <<>> /\ JobOf(Owner) \in Job
  BY <1>0, OwnerFacts DEF WriterOwns
<1>2. PICK k \in Job : k = JobOf(Owner)
  BY <1>1
<1>3. FlightOf(k) /\ (ForFinal(Owner) => inflight = final[k])
  BY <1>0, <1>2 DEF Flight
<1>4. JobOf(Owner)' = k /\ ForFinal(Owner)' = ForFinal(Owner)
  BY <1>1, <1>2 DEF WriteKept
<1>5. \A i \in Job \ {j} : final'[i] = final[i] /\ mem'[i] = mem[i]
  BY AdvanceJobs DEF Advances
<1>6. CASE k # j
  BY <1>3, <1>4, <1>5, <1>6 DEF FlightOf, Advances, Known
<1>7. CASE k = j
  <2>1. /\ mem[j] \in Snapshots /\ mem'[j] \in Snapshots /\ inflight \in Snapshots
        /\ final[j] \in Snapshots /\ JobInv(j)
    BY <1>0 DEF Advances, TypeOK
  <2>2. /\ mem[j].usage \in Nat /\ mem'[j].usage \in Nat /\ inflight.usage \in Nat
        /\ mem[j].status \in {"queued", "running", "cancelled"} /\ Known(j)
    BY <2>1, SnapshotType, LedgerAssumption DEF Advances, GoesOn, Ends, Known
  <2>3. Follows(inflight.status, mem[j].status) /\ inflight.usage <= mem[j].usage
    BY <1>3, <1>7, <2>2 DEF FlightOf
  <2>4. Follows(inflight.status, mem'[j].status) /\ inflight.usage <= mem'[j].usage
    BY <2>2, <2>3 DEF Advances, GoesOn, Ends, Follows
  <2>5. CASE GoesOn(j)
    <3>1. FlightOf(j)'
      BY <1>3, <1>7, <2>2, <2>4, <2>5 DEF FlightOf, Advances, GoesOn, Unfinished
    <3> QED
      BY <1>3, <1>4, <1>7, <2>5, <3>1 DEF GoesOn, FlightOf, Advances, Known
  <2>6. CASE Ends(j)
    <3>1. final'[j] = mem'[j] /\ final[j] = NoSnapshot
      BY <1>0, <2>6, AdvanceJobs DEF Ends, TypeOK
    <3>2. final'[j] # NoSnapshot
      BY <2>6, <3>1 DEF Ends, NoSnapshot, Snapshot
    <3>3. FlightOf(j)'
      BY <1>3, <1>7, <2>2, <2>4, <2>6, <3>1, <3>2 DEF FlightOf, Advances, Ends
    <3>4. ~ForFinal(Owner)
      BY <1>3, <1>7, <3>1
    <3> QED
      BY <1>4, <1>7, <3>3, <3>4 DEF FlightOf, Known
  <2> QED
    BY <2>5, <2>6 DEF Advances
<1> QED
  BY <1>6, <1>7

\* The callers that cancel or insert other jobs are not concerned.
LEMMA AdvanceSafe ==
  ASSUME LedgerInv, NEW j \in Job, Advances(j), WriteKept, WorkerInv', UNCHANGED request,
         \A c \in Caller : /\ Enqueuing(c)' => Enqueuing(c)
                           /\ at'[c] = "create" => at[c] = "create"
                           /\ Cancels(c)' => \/ Cancels(c) /\ target'[c] = target[c]
                                             \/ target'[c] = j /\ final'[j].status = "cancelled"
  PROVE  DataInv'
<1>0. TypeInv /\ RecoveredFirst /\ Inserts /\ Cancelling /\ \A i \in Job : JobInv(i)
  BY DEF LedgerInv, LockInv, DataInv
<1>1. /\ \A i \in Job : JobInv(i)'
      /\ recovered /\ Known(j)
      /\ Ends(j) => final[j] = NoSnapshot /\ j \notin acked
      /\ \A i \in Job \ {j} : final'[i] = final[i]
  BY AdvanceJobs
<1>2. Flight'
  BY AdvanceFlight
<1>3. RecoveredFirst'
  BY <1>1 DEF RecoveredFirst, Advances
<1>4. Inserts'
  <2>1. \A c \in Caller : Enqueuing(c) => request[c].job # j /\ request[c].job \in Job
    BY <1>0, <1>1, KnownFacts DEF Inserts, TypeInv, ProcInv, CallerPlaces, Enqueuing
  <2> QED
    BY <1>0, <2>1 DEF Inserts, Advances
<1>5. Cancelling'
  <2> SUFFICES ASSUME NEW c \in Caller, Cancels(c)', Cancels(c), target'[c] = target[c]
               PROVE  final'[target[c]].status = "cancelled" \/ CancelKept(target[c])'
    BY DEF Cancelling, CancelKept
  <2>1. /\ target[c] \in Job /\ JobInv(target[c])
        /\ final[target[c]].status = "cancelled" \/ CancelKept(target[c])
    BY <1>0 DEF Cancelling, Cancels, TypeInv, ProcInv, CallerPlaces
  <2>2. CASE target[c] # j
    BY <1>1, <2>1, <2>2 DEF CancelKept, Advances
  <2>3. CASE target[c] = j
    <3>1. ~Ends(j)
      <4>1. NoSnapshot.status # "cancelled"
        BY DEF NoSnapshot, Snapshot
      <4> QED
        BY <1>1, <2>1, <2>3, <4>1 DEF Ends, CancelKept
    <3> QED
      BY <2>1, <2>3, <3>1 DEF Advances, GoesOn, CancelKept
  <2> QED
    BY <2>2, <2>3
<1> QED
  BY <1>1, <1>2, <1>3, <1>4, <1>5 DEF DataInv

\* A lock that does not move, with a process that is not in it.
LEMMA LockUntouched ==
  ASSUME TypeInv, NEW p \in Proc, at[p] # "lock", lockq' = lockq,
         \A q \in Proc \ {p} : UNCHANGED <<goal[q], target[q]>>
  PROVE  WriteKept
<1> SUFFICES ASSUME lockq # <<>> PROVE JobOf(Owner)' = JobOf(Owner) /\ ForFinal(Owner)' = ForFinal(Owner)
  BY DEF WriteKept
<1>1. Owner' = Owner /\ Owner \in Proc \cup Job /\ (Owner \in Proc => Owner # p)
  BY OwnerFacts DEF Owner
<1> QED
  BY <1>1 DEF JobOf, ForFinal

\* The worker takes a job: one that starts, or one cancelled in the queue.
LEMMA StartSafe ==
  ASSUME LedgerInv, NEW j \in Job, StartJob(j)
  PROVE  DataInv'
<1>0. LockInv /\ TypeInv /\ TypeOK /\ DataInv
  BY DEF LedgerInv, LockInv, TypeInv
<1>1. Worker \notin Caller /\ Worker \in Proc /\ Caller \subseteq Proc
  BY LedgerAssumption DEF Proc
<1>2. /\ UNCHANGED <<row, recovered, inflight, request, acked, ended, final, lockq, goal>>
      /\ at[Worker] = "idle" /\ target' = [target EXCEPT ![Worker] = j]
  BY DEF StartJob, workerRest
<1>3. /\ \A c \in Caller : UNCHANGED <<at[c], goal[c], target[c]>>
      /\ target'[Worker] = j
      /\ \/ /\ mem[j].status = "queued" /\ at'[Worker] = "running"
            /\ mem' = [mem EXCEPT ![j].status = "running"]
         \/ mem[j].status = "cancelled" /\ at'[Worker] = "closing" /\ mem' = mem
  BY <1>0, <1>1, <1>2 DEF StartJob, TypeOK
<1>4. WriteKept
  BY <1>0, <1>1, <1>2, <1>3, LockUntouched DEF Proc
<1>5. \A c \in Caller : /\ Enqueuing(c)' <=> Enqueuing(c)
                        /\ Cancels(c)' <=> Cancels(c)
  BY <1>2, <1>3 DEF Enqueuing, Cancels
<1>6. CASE mem[j].status = "cancelled" /\ at'[Worker] = "closing" /\ mem' = mem
  <2>1. WorkerInv'
    BY <1>3, <1>6 DEF WorkerInv
  <2>2. Inserts'
    BY <1>0, <1>2, <1>5, <1>6 DEF DataInv, Inserts
  <2> QED
    BY <1>2, <1>3, <1>4, <1>5, <1>6, <2>1, <2>2, DataKept
<1>7. CASE /\ mem[j].status = "queued" /\ at'[Worker] = "running"
           /\ mem' = [mem EXCEPT ![j].status = "running"]
  <2>1. /\ mem' \in [Job -> Snapshots] /\ \A i \in Job \ {j} : mem'[i] = mem[i]
        /\ mem'[j].status = "running" /\ mem'[j].usage = mem[j].usage
        /\ mem[j].usage \in Nat
    <3>1. mem[j] \in Snapshots /\ mem[j].usage \in Nat
      BY <1>0, SnapshotType, LedgerAssumption DEF TypeOK
    <3>2. mem'[j] = [mem[j] EXCEPT !.status = "running"] /\ \A i \in Job \ {j} : mem'[i] = mem[i]
      BY <1>0, <1>7 DEF TypeOK
    <3>3. mem'[j] \in Snapshots /\ mem'[j].status = "running" /\ mem'[j].usage = mem[j].usage
      BY <3>1, <3>2 DEF Snapshots
    <3>4. mem' \in [Job -> Snapshots]
      BY <1>0, <1>7, <3>2, <3>3 DEF TypeOK
    <3> QED
      BY <3>1, <3>2, <3>3, <3>4
  <2>2. Advances(j)
    BY <1>2, <1>7, <2>1 DEF Advances, GoesOn
  <2>3. WorkerInv'
    BY <1>3, <1>7, <2>1 DEF WorkerInv
  <2> QED
    BY <1>2, <1>3, <1>4, <1>5, <2>2, <2>3, AdvanceSafe
<1> QED
  BY <1>3, <1>6, <1>7

\* A batch is charged, or the operation is over before it was cancelled.
LEMMA WorkSafe ==
  ASSUME LedgerInv, RecordUsage \/ (FinishJob /\ ~Acknowledged(target[Worker]))
  PROVE  DataInv'
<1>0. LockInv /\ TypeInv /\ TypeOK /\ DataInv
  BY DEF LedgerInv, LockInv, TypeInv
<1>1. Worker \notin Caller /\ Worker \in Proc /\ Caller \subseteq Proc
  BY LedgerAssumption DEF Proc
<1>2. UNCHANGED <<row, recovered, inflight, request, acked, ended>>
  BY DEF RecordUsage, FinishJob, workerRest
<1>3. PICK j \in Job : j = target[Worker] /\ at[Worker] \in {"running", "ended"}
  BY <1>0 DEF RecordUsage, FinishJob, TypeInv, ProcInv, WorkerPlaces
<1>4. /\ mem[j].status \in {"running", "cancelled"} /\ mem[j] \in Snapshots
      /\ mem[j].usage \in Nat
  BY <1>0, <1>3, SnapshotType, LedgerAssumption DEF DataInv, WorkerInv, TypeOK
<1>5. PICK g \in {"usage", "final"} :
        /\ Flush(Worker, j, g)
        /\ \/ /\ g = "usage" /\ final' = final
              /\ mem[j].usage < MaxUsage /\ mem' = [mem EXCEPT ![j].usage = @ + 1]
           \/ /\ g = "final" /\ mem[j].status = "running"
              /\ final' = [final EXCEPT ![j] = Snapshot("finished", mem[j].usage)]
              /\ mem' = [mem EXCEPT ![j] = Snapshot("finished", mem[j].usage)]
  BY <1>3, <1>4 DEF RecordUsage, FinishJob, Acknowledged, WriteFinal
<1>6. /\ WriteKept
      /\ at'[Worker] \in {"flush", "lock"} /\ goal'[Worker] = g /\ target'[Worker] = j
      /\ \A c \in Caller : UNCHANGED <<at[c], goal[c], target[c]>>
  <2>1. ErrandOf(Worker, g) /\ at[Worker] \notin {"flush", "lock"}
    BY <1>3 DEF ErrandOf
  <2> QED
    BY <1>0, <1>1, <1>2, <1>5, <2>1, FlushType
<1>7. \A c \in Caller : /\ Enqueuing(c)' <=> Enqueuing(c)
                        /\ Cancels(c)' <=> Cancels(c)
  BY <1>2, <1>6 DEF Enqueuing, Cancels
<1>8. Advances(j) /\ WorkerInv'
  <2>1. CASE g = "usage"
    <3>1. mem' = [mem EXCEPT ![j].usage = @ + 1] /\ final' = final /\ mem[j].usage < MaxUsage
      BY <1>5, <2>1
    <3>2. /\ mem'[j] = [mem[j] EXCEPT !.usage = @ + 1] /\ \A i \in Job \ {j} : mem'[i] = mem[i]
          /\ DOMAIN mem' = Job
      BY <1>0, <3>1 DEF TypeOK
    <3>3. mem'[j].status = mem[j].status /\ mem'[j].usage = mem[j].usage + 1
      BY <1>4, <3>2 DEF Snapshots
    <3>4. mem' \in [Job -> Snapshots]
      <4>1. mem[j].usage + 1 \in 0 .. MaxUsage
        BY <1>4, <3>1, LedgerAssumption
      <4>2. mem'[j] \in Snapshots
        BY <1>4, <3>2, <4>1 DEF Snapshots
      <4> QED
        BY <1>0, <3>1, <3>2, <4>2 DEF TypeOK
    <3>5. mem'[j].usage >= mem[j].usage
      BY <1>4, <3>3
    <3> QED
      BY <1>2, <1>4, <1>6, <2>1, <3>1, <3>2, <3>3, <3>4, <3>5 DEF Advances, GoesOn, WorkerInv
  <2>2. CASE g = "final"
    <3>1. /\ final' = [final EXCEPT ![j] = Snapshot("finished", mem[j].usage)]
          /\ mem' = [mem EXCEPT ![j] = Snapshot("finished", mem[j].usage)]
          /\ mem[j].status = "running"
      BY <1>5, <2>2
    <3>2. /\ Snapshot("finished", mem[j].usage) \in Snapshots
          /\ Snapshot("finished", mem[j].usage).status = "finished"
          /\ Snapshot("finished", mem[j].usage).usage = mem[j].usage
      BY <1>4, SnapshotType DEF Snapshot, Terminal
    <3>3. /\ mem'[j] = Snapshot("finished", mem[j].usage) /\ \A i \in Job \ {j} : mem'[i] = mem[i]
          /\ mem' \in [Job -> Snapshots]
      BY <1>0, <3>1, <3>2 DEF TypeOK
    <3> QED
      BY <1>2, <1>4, <1>6, <2>2, <3>1, <3>2, <3>3 DEF Advances, Ends, WorkerInv
  <2> QED
    BY <2>1, <2>2
<1> QED
  BY <1>0, <1>2, <1>6, <1>7, <1>8, AdvanceSafe

\* A request cancels a queued job, or a running one that may be cancelled.
LEMMA CancelSafe ==
  ASSUME LedgerInv, NEW c \in Caller, Cancel(c)
  PROVE  DataInv'
<1>0. LockInv /\ TypeInv /\ TypeOK /\ DataInv
  BY DEF LedgerInv, LockInv, TypeInv
<1>1. Worker \notin Caller /\ Worker \in Proc /\ Caller \subseteq Proc /\ c \in Proc /\ c # Worker
  BY LedgerAssumption DEF Proc
<1>2. UNCHANGED <<row, recovered, inflight, request, acked, ended>>
  BY DEF Cancel
<1>3. PICK j \in Job : j = request[c].job /\ at[c] = "reconcile" /\ Cancellable(j)
  BY <1>0 DEF Cancel, Reconciled, TypeInv, ProcInv, CallerPlaces
<1>4. WriteFinal(c, j, Snapshot("cancelled", mem[j].usage)) /\ request[c].op = "cancel"
  BY <1>3 DEF Cancel
<1>5. mem[j].status \in {"queued", "running"} /\ mem[j] \in Snapshots /\ mem[j].usage \in Nat
  BY <1>0, <1>3, SnapshotType, LedgerAssumption DEF Cancellable, TypeOK
<1>6. /\ WriteKept
      /\ at'[c] \in {"flush", "lock"} /\ goal'[c] = "final" /\ target'[c] = j
      /\ \A q \in Proc \ {c} : UNCHANGED <<at[q], goal[q], target[q]>>
  <2>1. ErrandOf(c, "final") /\ at[c] \notin {"flush", "lock"} /\ Flush(c, j, "final")
    BY <1>1, <1>3, <1>4 DEF ErrandOf, WriteFinal
  <2> QED
    BY <1>0, <1>1, <1>2, <1>3, <2>1, FlushType
<1>7. /\ Snapshot("cancelled", mem[j].usage) \in Snapshots
      /\ Snapshot("cancelled", mem[j].usage).status = "cancelled"
      /\ Snapshot("cancelled", mem[j].usage).usage = mem[j].usage
  BY <1>5, SnapshotType DEF Snapshot, Terminal
<1>8. /\ mem'[j] = Snapshot("cancelled", mem[j].usage) /\ \A i \in Job \ {j} : mem'[i] = mem[i]
      /\ mem' \in [Job -> Snapshots]
      /\ final' = [final EXCEPT ![j] = Snapshot("cancelled", mem[j].usage)]
      /\ final'[j] = Snapshot("cancelled", mem[j].usage)
  BY <1>0, <1>4, <1>7 DEF WriteFinal, TypeOK
<1>9. Advances(j)
  BY <1>2, <1>5, <1>7, <1>8 DEF Advances, Ends
<1>10. WorkerInv'
  <2>1. UNCHANGED <<at[Worker], goal[Worker], target[Worker]>>
    BY <1>1, <1>6
  <2>2. at[Worker] # "idle" => target[Worker] \in Job
    BY <1>0 DEF TypeInv, ProcInv, WorkerPlaces
  <2>3. CASE at[Worker] # "idle" /\ target[Worker] # j
    BY <1>0, <1>8, <2>1, <2>2, <2>3 DEF DataInv, WorkerInv
  <2>4. CASE at[Worker] # "idle" /\ target[Worker] = j
    BY <1>0, <1>5, <1>7, <1>8, <2>1, <2>4 DEF DataInv, WorkerInv
  <2>5. CASE at[Worker] = "idle"
    BY <2>1, <2>5 DEF WorkerInv
  <2> QED
    BY <2>3, <2>4, <2>5
<1>11. \A d \in Caller : /\ Enqueuing(d)' => Enqueuing(d)
                         /\ at'[d] = "create" => at[d] = "create"
                         /\ Cancels(d)' => \/ Cancels(d) /\ target'[d] = target[d]
                                           \/ target'[d] = j /\ final'[j].status = "cancelled"
  BY <1>1, <1>2, <1>4, <1>6, <1>7, <1>8 DEF Enqueuing, Cancels
<1> QED
  BY <1>0, <1>2, <1>6, <1>9, <1>10, <1>11, AdvanceSafe

-----------------------------------------------------------------------------
(* Steps that forget jobs, insert rows, and sweep the ledger. *)

\* The worker forgets a job only when its end is in the ledger or retained.
LEMMA CloseSafe ==
  ASSUME LedgerInv, Close
  PROVE  DataInv'
<1>0. LockInv /\ TypeInv /\ TypeOK /\ DataInv
  BY DEF LedgerInv, LockInv, TypeInv
<1>1. Worker \notin Caller /\ Worker \in Proc /\ Caller \subseteq Proc
  BY LedgerAssumption DEF Proc
<1>2. /\ UNCHANGED <<row, recovered, inflight, request, acked, ended, final, lockq, goal, target>>
      /\ at[Worker] = "close"
  BY DEF Close, workerRest
<1>3. PICK j \in Job : j = target[Worker] /\ mem[j].status \in {"finished", "cancelled"}
  BY <1>0, <1>2 DEF DataInv, WorkerInv, TypeInv, ProcInv, WorkerPlaces
<1>4. /\ mem'[j] = Snapshot("gone", 0) /\ \A i \in Job \ {j} : mem'[i] = mem[i]
      /\ at'[Worker] = "idle" /\ \A c \in Caller : at'[c] = at[c]
  BY <1>0, <1>1, <1>3 DEF Close, TypeOK
<1>5. mem'[j].status = "gone" /\ ~Known(j)' /\ mem[j] # NoSnapshot
  BY <1>3, <1>4 DEF Known, Snapshot, NoSnapshot
<1>6. WriteKept
  BY <1>0, <1>1, <1>2, LockUntouched
<1>7. WorkerInv' /\ RecoveredFirst'
  BY <1>0, <1>2, <1>3, <1>4, <1>5 DEF DataInv, WorkerInv, RecoveredFirst
<1>8. Inserts'
  <2>1. \A c \in Caller : (Enqueuing(c)' <=> Enqueuing(c)) /\ (Enqueuing(c) => request[c].job \in Job)
    BY <1>0, <1>2, <1>4 DEF Enqueuing, TypeInv, ProcInv, CallerPlaces
  <2> QED
    BY <1>0, <1>2, <1>4, <1>5, <2>1 DEF DataInv, Inserts
<1>9. ASSUME NEW i \in Job PROVE JobInv(i)'
  <2>1. CASE i # j
    BY <1>0, <1>2, <1>4, <2>1 DEF DataInv, JobInv, RowBehindMemory, RetainedEnd, EndSaved,
       CancelKept, Known
  <2>2. CASE i = j
    BY <1>0, <1>2, <1>3, <1>5, <2>2 DEF DataInv, JobInv, RowBehindMemory, RetainedEnd, EndSaved,
       CancelKept
  <2> QED
    BY <2>1, <2>2
<1>10. Flight'
  <2> SUFFICES ASSUME inflight # NoSnapshot
               PROVE  /\ FlightOf(JobOf(Owner))'
                      /\ ForFinal(Owner)' => inflight' = final'[JobOf(Owner)']
    BY <1>2 DEF Flight
  <2>1. lockq # <<>> /\ JobOf(Owner) \in Job
    BY <1>0, OwnerFacts DEF LockInv, WriterOwns
  <2>2. PICK k \in Job : k = JobOf(Owner)
    BY <2>1
  <2>3. FlightOf(k) /\ (ForFinal(Owner) => inflight = final[k])
    BY <1>0, <2>2 DEF DataInv, Flight
  <2>4. JobOf(Owner)' = k /\ ForFinal(Owner)' = ForFinal(Owner)
    BY <1>6, <2>1, <2>2 DEF WriteKept
  <2>5. FlightOf(k)'
    <3>1. CASE k # j
      BY <1>2, <1>4, <2>3, <3>1 DEF FlightOf, Known
    <3>2. CASE k = j
      BY <1>2, <1>3, <1>5, <2>3, <3>2 DEF FlightOf, Unfinished
    <3> QED
      BY <3>1, <3>2
  <2> QED
    BY <1>2, <2>3, <2>4, <2>5
<1>11. Cancelling'
  <2> SUFFICES ASSUME NEW c \in Caller, Cancels(c)'
               PROVE  (final[target[c]].status = "cancelled" \/ CancelKept(target[c]))'
    BY DEF Cancelling
  <2>1. PICK k \in Job : k = target[c]
    BY <1>0, <1>2, <1>4 DEF Cancels, TypeInv, ProcInv, CallerPlaces
  <2>2. final[k].status = "cancelled" \/ CancelKept(k)
    BY <1>0, <1>2, <1>4, <2>1 DEF DataInv, Cancelling, Cancels
  <2>3. CancelKept(k) => CancelKept(k)'
    BY <1>2, <1>4, <1>5 DEF CancelKept
  <2> QED
    BY <1>2, <2>1, <2>2, <2>3 DEF CancelKept
<1> QED
  BY <1>7, <1>8, <1>9, <1>10, <1>11 DEF DataInv

\* A row is inserted for a job nobody knew of; a failed insert may have left
\* the row behind.
LEMMA CreateSafe ==
  ASSUME LedgerInv, NEW c \in Caller, Create(c)
  PROVE  DataInv'
<1>0. LockInv /\ TypeInv /\ TypeOK /\ DataInv
  BY DEF LedgerInv, LockInv, TypeInv
<1>1. Worker \notin Caller /\ Worker \in Proc /\ Caller \subseteq Proc /\ c # Worker
  BY LedgerAssumption DEF Proc
<1>2. /\ UNCHANGED <<recovered, inflight, request, acked, ended, final, lockq, goal, target>>
      /\ at[c] = "create" /\ at' = [at EXCEPT ![c] = "idle"]
  BY DEF Create
<1>3. at'[c] = "idle" /\ \A q \in Proc \ {c} : at'[q] = at[q]
  BY <1>0, <1>1, <1>2 DEF TypeOK
<1>4. Enqueuing(c) /\ request[c].job \in Job
  BY <1>0, <1>2 DEF Enqueuing, TypeInv, ProcInv, CallerPlaces
<1>5. PICK j \in Job : j = request[c].job
  BY <1>4
<1>6. row[j].status = "none" /\ mem[j] = NoSnapshot /\ j \notin ended /\ recovered
  BY <1>0, <1>2, <1>4, <1>5 DEF DataInv, Inserts, RecoveredFirst
<1>7. mem[j].status = "none" /\ ~Known(j)
  BY <1>6 DEF NoSnapshot, Snapshot, Known
<1>8. final[j] = NoSnapshot /\ j \notin acked
  BY <1>0, <1>7 DEF DataInv, JobInv, RetainedEnd, CancelKept
<1>9. /\ \A i \in Job \ {j} : row'[i] = row[i] /\ mem'[i] = mem[i]
      /\ row'[j] = row[j] \/ row'[j] = Snapshot("queued", 0)
      /\ mem'[j] = mem[j] \/ (row'[j] = Snapshot("queued", 0) /\ mem'[j] = Snapshot("queued", 0))
  BY <1>0, <1>5 DEF Create, TypeOK
<1>10. Snapshot("queued", 0).status = "queued" /\ Snapshot("queued", 0).usage = 0
  BY DEF Snapshot
<1>11. WriteKept
  BY <1>0, <1>1, <1>2, LockUntouched
<1>12. WorkerInv'
  <2>1. UNCHANGED <<at[Worker], goal[Worker], target[Worker]>>
    BY <1>1, <1>2, <1>3
  <2>2. at[Worker] # "idle" => target[Worker] \in Job
    BY <1>0 DEF TypeInv, ProcInv, WorkerPlaces
  <2>3. CASE at[Worker] # "idle" /\ target[Worker] # j
    BY <1>0, <1>9, <2>1, <2>2, <2>3 DEF DataInv, WorkerInv
  <2>4. CASE at[Worker] # "idle" /\ target[Worker] = j
    BY <1>0, <1>7, <2>1, <2>4 DEF DataInv, WorkerInv
  <2>5. CASE at[Worker] = "idle"
    BY <2>1, <2>5 DEF WorkerInv
  <2> QED
    BY <2>3, <2>4, <2>5
<1>13. RecoveredFirst'
  BY <1>2, <1>6 DEF RecoveredFirst
<1>14. Inserts'
  <2>1. \A d \in Caller \ {c} : ~Enqueuing(d)
    BY <1>0, <1>4 DEF DataInv, Inserts
  <2>2. \A d \in Caller : ~Enqueuing(d)'
    BY <1>1, <1>2, <1>3, <2>1 DEF Enqueuing, Proc
  <2> QED
    BY <2>2 DEF Inserts
<1>15. ASSUME NEW i \in Job PROVE JobInv(i)'
  <2>1. CASE i # j
    BY <1>0, <1>2, <1>9, <2>1 DEF DataInv, JobInv, RowBehindMemory, RetainedEnd, EndSaved,
       CancelKept, Known
  <2>2. CASE i = j
    <3>1. /\ row'[j].status \in {"none", "queued"} /\ mem'[j].status \in {"none", "queued"}
          /\ mem'[j].status = "queued" => row'[j] = mem'[j] /\ row'[j].usage = 0
          /\ final'[j] = NoSnapshot /\ j \notin acked'
      BY <1>2, <1>6, <1>7, <1>8, <1>9, <1>10
    <3> QED
      BY <2>2, <3>1 DEF JobInv, RowBehindMemory, RetainedEnd, EndSaved, Known, Follows, Terminal
  <2> QED
    BY <2>1, <2>2
<1>16. Flight'
  <2> SUFFICES ASSUME inflight # NoSnapshot
               PROVE  /\ FlightOf(JobOf(Owner))'
                      /\ ForFinal(Owner)' => inflight' = final'[JobOf(Owner)']
    BY <1>2 DEF Flight
  <2>1. lockq # <<>> /\ JobOf(Owner) \in Job
    BY <1>0, OwnerFacts DEF LockInv, WriterOwns
  <2>2. PICK k \in Job : k = JobOf(Owner)
    BY <2>1
  <2>3. FlightOf(k) /\ (ForFinal(Owner) => inflight = final[k])
    BY <1>0, <2>2 DEF DataInv, Flight
  <2>4. JobOf(Owner)' = k /\ ForFinal(Owner)' = ForFinal(Owner)
    BY <1>11, <2>1, <2>2 DEF WriteKept
  <2>5. k # j
    BY <1>7, <2>3 DEF FlightOf
  <2>6. FlightOf(k)'
    BY <1>2, <1>9, <2>3, <2>5 DEF FlightOf, Known
  <2> QED
    BY <1>2, <2>3, <2>4, <2>6
<1>17. Cancelling'
  <2> SUFFICES ASSUME NEW d \in Caller, Cancels(d)'
               PROVE  (final[target[d]].status = "cancelled" \/ CancelKept(target[d]))'
    BY DEF Cancelling
  <2>1. Cancels(d) /\ target[d] \in Job
    BY <1>0, <1>1, <1>2, <1>3 DEF Cancels, TypeInv, ProcInv, CallerPlaces
  <2>2. PICK k \in Job : k = target[d]
    BY <2>1
  <2>3. final[k].status = "cancelled" \/ CancelKept(k)
    BY <1>0, <2>1, <2>2 DEF DataInv, Cancelling
  <2>4. k # j
    BY <1>7, <1>8, <2>3 DEF CancelKept, NoSnapshot, Snapshot
  <2>5. CancelKept(k) => CancelKept(k)'
    BY <1>2, <1>9, <2>4 DEF CancelKept
  <2> QED
    BY <1>2, <2>2, <2>3, <2>5 DEF CancelKept
<1> QED
  BY <1>12, <1>13, <1>14, <1>15, <1>16, <1>17 DEF DataInv

\* The recovery finds nothing of this process to write or to cancel.
LEMMA RecoverSafe ==
  ASSUME LedgerInv, NEW c \in Caller, Recover(c)
  PROVE  DataInv'
<1>0. LockInv /\ TypeInv /\ TypeOK /\ DataInv
  BY DEF LedgerInv, LockInv, TypeInv
<1>1. Worker \notin Caller /\ Worker \in Proc /\ Caller \subseteq Proc /\ c # Worker
  BY LedgerAssumption DEF Proc
<1>2. /\ UNCHANGED <<mem, inflight, request, acked, final, goal, target>>
      /\ at[c] = "reconcile" /\ ~recovered
      /\ InterruptIncomplete \/ (UNCHANGED <<row, ended>> /\ ~recovered')
  BY DEF Recover, callRest, MustRecover
<1>3. /\ \A q \in Proc \ {c} : at'[q] = at[q]
      /\ at'[c] \in {"reconcile", "idle"}
      /\ at' = at \/ ~recovered'
  BY <1>0, <1>1, <1>2 DEF Recover, TypeOK
<1>4. /\ \A j \in Job : mem[j].status \in {"none", "gone"} /\ final[j] = NoSnapshot /\ ~Known(j)
      /\ inflight = NoSnapshot /\ \A d \in Caller : at[d] # "create"
  BY <1>0, <1>2 DEF DataInv, RecoveredFirst, Known
<1>5. ASSUME NEW j \in Job
      PROVE  /\ row'[j] = row[j] \/ (row[j].status \in Unfinished /\ row'[j].status = "interrupted"
                                     /\ j \in ended')
             /\ j \in ended' => j \in ended \/ row[j].status \in Unfinished
             /\ j \in ended => j \in ended'
             /\ recovered' => row'[j].status \notin Unfinished
  <2>1. CASE InterruptIncomplete
    BY <2>1 DEF InterruptIncomplete, LeftBehind, Interrupted, Snapshot, Unfinished
  <2>2. CASE UNCHANGED <<row, ended>> /\ ~recovered'
    BY <2>2
  <2> QED
    BY <1>2, <2>1, <2>2
<1>6. WorkerInv'
  BY <1>0, <1>1, <1>2, <1>3 DEF DataInv, WorkerInv
<1>7. RecoveredFirst'
  BY <1>1, <1>2, <1>3, <1>4 DEF RecoveredFirst
<1>8. Inserts'
  <2>1. \A d \in Caller : Enqueuing(d)' => Enqueuing(d) /\ request[d].job \in Job
    BY <1>0, <1>1, <1>2, <1>3 DEF Enqueuing, TypeInv, ProcInv, CallerPlaces
  <2> QED
    BY <1>0, <1>2, <1>5, <2>1 DEF DataInv, Inserts, Unfinished
<1>9. ASSUME NEW j \in Job PROVE JobInv(j)'
  <2>1. RowBehindMemory(j)' /\ RetainedEnd(j)' /\ EndSaved(j)'
    BY <1>2, <1>4, <1>5 DEF RowBehindMemory, RetainedEnd, EndSaved, Known
  <2>2. j \in acked' => CancelKept(j)'
    BY <1>0, <1>2, <1>5 DEF DataInv, JobInv, CancelKept, Unfinished
  <2>3. row'[j].status \in Terminal => j \in ended'
    BY <1>0, <1>5 DEF DataInv, JobInv
  <2> QED
    BY <2>1, <2>2, <2>3 DEF JobInv
<1>10. Flight'
  BY <1>2, <1>4 DEF Flight
<1>11. Cancelling'
  <2> SUFFICES ASSUME NEW d \in Caller, Cancels(d)'
               PROVE  (final[target[d]].status = "cancelled" \/ CancelKept(target[d]))'
    BY DEF Cancelling
  <2>1. Cancels(d) /\ target[d] \in Job
    BY <1>0, <1>1, <1>2, <1>3 DEF Cancels, TypeInv, ProcInv, CallerPlaces
  <2>2. PICK k \in Job : k = target[d]
    BY <2>1
  <2>3. CancelKept(k)
    BY <1>0, <1>4, <2>1, <2>2 DEF DataInv, Cancelling, NoSnapshot, Snapshot
  <2> QED
    BY <1>2, <1>5, <2>2, <2>3 DEF CancelKept, Unfinished
<1> QED
  BY <1>6, <1>7, <1>8, <1>9, <1>10, <1>11 DEF DataInv

\* History deletion takes rows that no write replaces any more with news.
LEMMA DeleteSafe ==
  ASSUME LedgerInv, DeleteHistory
  PROVE  DataInv'
<1>0. LockInv /\ TypeInv /\ TypeOK /\ DataInv
  BY DEF LedgerInv, LockInv, TypeInv
<1>1. UNCHANGED <<mem, recovered, inflight, lockq, at, goal, target, request, acked, ended, final>>
  BY DEF DeleteHistory, persisterVars, procVars
<1>2. ASSUME NEW j \in Job
      PROVE  row'[j] = row[j] \/ (row[j].status \in Terminal /\ row'[j].status = "none"
                                  /\ row'[j].usage = 0)
  BY DEF DeleteHistory, NoSnapshot, Snapshot
<1>3. /\ \A s \in Snapshots : s.usage \in Nat
      /\ \A j \in Job : mem[j] \in Snapshots /\ final[j] \in Snapshots
      /\ inflight \in Snapshots
  BY <1>0, SnapshotType, LedgerAssumption DEF TypeOK
<1>4. \A i \in Nat : 0 <= i
  OBVIOUS
<1>5. WorkerInv' /\ RecoveredFirst'
  BY <1>0, <1>1 DEF DataInv, WorkerInv, RecoveredFirst
<1>6. Inserts'
  <2>1. \A c \in Caller : Enqueuing(c) => request[c].job \in Job
    BY <1>0 DEF Enqueuing, TypeInv, ProcInv, CallerPlaces
  <2> QED
    BY <1>0, <1>1, <1>2, <2>1 DEF DataInv, Inserts, Enqueuing, Terminal
<1>7. ASSUME NEW j \in Job PROVE JobInv(j)'
  <2>1. CASE row'[j] = row[j]
    BY <1>0, <1>1, <2>1 DEF DataInv, JobInv, RowBehindMemory, RetainedEnd, EndSaved, CancelKept, Known
  <2>2. CASE row[j].status \in Terminal /\ row'[j].status = "none" /\ row'[j].usage = 0
    <3>1. mem[j].usage \in Nat /\ final[j].usage \in Nat
      BY <1>3
    <3> QED
      BY <1>0, <1>1, <1>4, <2>2, <3>1 DEF DataInv, JobInv, RowBehindMemory, RetainedEnd, EndSaved,
         CancelKept, Known, Follows, Unfinished, Terminal
  <2> QED
    BY <1>2, <2>1, <2>2
<1>8. Flight'
  <2> SUFFICES ASSUME inflight # NoSnapshot
               PROVE  /\ FlightOf(JobOf(Owner))'
                      /\ ForFinal(Owner)' => inflight' = final'[JobOf(Owner)']
    BY <1>1 DEF Flight
  <2>1. lockq # <<>> /\ JobOf(Owner) \in Job
    BY <1>0, OwnerFacts DEF LockInv, WriterOwns
  <2>2. PICK k \in Job : k = JobOf(Owner)
    BY <2>1
  <2>3. FlightOf(k) /\ (ForFinal(Owner) => inflight = final[k])
    BY <1>0, <2>2 DEF DataInv, Flight
  <2>4. JobOf(Owner)' = k /\ ForFinal(Owner)' = ForFinal(Owner)
    BY <1>1, <2>2 DEF Owner, JobOf, ForFinal
  <2>5. Follows(row'[k].status, inflight.status)
    BY <1>2, <2>3 DEF FlightOf, Follows
  <2>6. inflight.status # "cancelled" => row'[k].usage <= inflight.usage
    BY <1>2, <1>3, <1>4, <2>3 DEF FlightOf
  <2>7. FlightOf(k)'
    BY <1>1, <2>3, <2>5, <2>6 DEF FlightOf, Known
  <2> QED
    BY <1>1, <2>3, <2>4, <2>7
<1>9. Cancelling'
  <2> SUFFICES ASSUME NEW d \in Caller, Cancels(d)'
               PROVE  (final[target[d]].status = "cancelled" \/ CancelKept(target[d]))'
    BY DEF Cancelling
  <2>1. Cancels(d) /\ target[d] \in Job
    BY <1>0, <1>1 DEF Cancels, TypeInv, ProcInv, CallerPlaces
  <2>2. PICK k \in Job : k = target[d]
    BY <2>1
  <2>3. final[k].status = "cancelled" \/ CancelKept(k)
    BY <1>0, <2>1, <2>2 DEF DataInv, Cancelling
  <2> QED
    BY <1>1, <1>2, <2>2, <2>3 DEF CancelKept
<1> QED
  BY <1>5, <1>6, <1>7, <1>8, <1>9 DEF DataInv

\* What a process leaves behind may hold the write or the insert that was under
\* way, but no answered cancellation is undone by it.
LEMMA CrashSafe ==
  ASSUME LedgerInv, Crash
  PROVE  DataInv'
<1>0. LockInv /\ TypeInv /\ TypeOK /\ DataInv
  BY DEF LedgerInv, LockInv, TypeInv
<1>1. /\ \A p \in Proc : at'[p] = "idle"
      /\ \A j \in Job : final'[j] = NoSnapshot
      /\ inflight' = NoSnapshot /\ recovered' = FALSE /\ acked' = acked
      /\ \A j \in Job : row'[j].status \in Terminal => j \in ended'
      /\ row' \in Survivors
  BY DEF Crash
<1>2. ASSUME NEW j \in Job
      PROVE  /\ mem'[j].status \in {"none", "gone"} /\ ~Known(j)'
             /\ mem[j].status # "none" => mem'[j].status = "gone"
  BY DEF Crash, Known, NoSnapshot, Snapshot
<1>3. Worker \in Proc /\ Caller \subseteq Proc
  BY DEF Proc
<1>4. WorkerInv' /\ RecoveredFirst' /\ Inserts' /\ Flight' /\ Cancelling'
  BY <1>1, <1>2, <1>3 DEF WorkerInv, RecoveredFirst, Inserts, Enqueuing, Flight, Cancelling, Cancels
<1>5. ASSUME NEW j \in acked PROVE CancelKept(j)'
  <2>1. j \in Job /\ CancelKept(j)
    BY <1>0 DEF DataInv, JobInv, TypeOK
  <2>2. row'[j].status \in {"cancelled", "none"}
    <3>1. CASE row' = row
      BY <2>1, <3>1 DEF CancelKept
    <3>2. CASE inflight # NoSnapshot /\ HasRow(JobOf(Owner)) /\ row' = Merged(JobOf(Owner), inflight)
      <4>1. lockq # <<>> /\ JobOf(Owner) \in Job
        BY <1>0, <3>2, OwnerFacts DEF LockInv, WriterOwns
      <4>2. PICK k \in Job : k = JobOf(Owner)
        BY <4>1
      <4>3. FlightOf(k) /\ row[k].status # "none" /\ inflight \in Snapshots
        BY <1>0, <3>2, <4>2 DEF DataInv, Flight, HasRow, TypeOK
      <4>4. /\ row'[k].status = inflight.status
            /\ \A i \in Job \ {k} : row'[i] = row[i]
        <5>1. row' = Merged(k, inflight)
          BY <3>2, <4>2
        <5>2. /\ \A i \in Job \ {k} : Merged(k, inflight)[i] = row[i]
              /\ Merged(k, inflight)[k].status = inflight.status
          BY <1>0, <4>3, MergedType
        <5> QED
          BY <5>1, <5>2
      <4>5. CASE k = j
        BY <2>1, <4>3, <4>4, <4>5 DEF CancelKept, FlightOf, Follows
      <4>6. CASE k # j
        BY <2>1, <4>4, <4>6 DEF CancelKept
      <4> QED
        BY <4>5, <4>6
    <3>3. ASSUME NEW d \in Caller, at[d] = "create",
                 row' = [row EXCEPT ![request[d].job] = Snapshot("queued", 0)]
          PROVE  row'[j].status \in {"cancelled", "none"}
      <4>1. Enqueuing(d) /\ request[d].job \in Job
        BY <1>0, <3>3 DEF Enqueuing, TypeInv, ProcInv, CallerPlaces
      <4>2. mem[request[d].job].status = "none"
        BY <1>0, <4>1 DEF DataInv, Inserts, NoSnapshot, Snapshot
      <4>3. request[d].job # j
        BY <2>1, <4>2 DEF CancelKept
      <4> QED
        BY <1>0, <2>1, <3>3, <4>1, <4>3 DEF CancelKept, TypeOK
    <3> QED
      BY <1>1, <3>1, <3>2, <3>3 DEF Survivors
  <2> QED
    BY <1>1, <1>2, <2>1, <2>2 DEF CancelKept
<1>6. \A j \in Job : JobInv(j)'
  BY <1>1, <1>2, <1>5 DEF JobInv, RowBehindMemory, RetainedEnd, EndSaved
<1> QED
  BY <1>4, <1>6 DEF DataInv

-----------------------------------------------------------------------------
(* The writes, under the lock. *)

\* What the records of job k are after a write that took effect or did not.
Written(k) ==
  /\ \A i \in Job \ {k} : row'[i] = row[i]
  /\ ended \subseteq ended' /\ ended' \subseteq ended \cup {k}
  /\ row[k].status = "none" => row'[k].status = "none" /\ ended' = ended
  /\ RowBehindMemory(k)'
  /\ final[k] # NoSnapshot =>
       /\ Follows(row'[k].status, final[k].status)
       /\ final[k].status = "finished" => row'[k].usage <= final[k].usage
  /\ recovered /\ mem[k].status \in {"finished", "cancelled", "gone"}
               /\ row'[k].status \in Unfinished => final[k] # NoSnapshot
  /\ CancelKept(k) => row'[k].status \in {"cancelled", "none"}
  /\ row'[k].status \in Terminal => k \in ended'

LEMMA NotWritten ==
  ASSUME LedgerInv, NEW k \in Job, UNCHANGED <<row, mem, ended>>
  PROVE  Written(k)
<1>1. JobInv(k)
  BY DEF LedgerInv, DataInv
<1> QED
  BY <1>1 DEF Written, JobInv, RowBehindMemory, RetainedEnd, EndSaved, CancelKept, Known

\* A write puts the row between what it was and the newest state of the job.
LEMMA PutWritten ==
  ASSUME LedgerInv, NEW k \in Job, k = JobOf(Owner), inflight # NoSnapshot, HasRow(k),
         Put(k, inflight), UNCHANGED mem
  PROVE  /\ Written(k) /\ row'[k].status = inflight.status
         /\ inflight.status # "cancelled" => row'[k].usage <= inflight.usage
<1>0. TypeInv /\ TypeOK /\ JobInv(k) /\ FlightOf(k)
  BY DEF LedgerInv, LockInv, DataInv, Flight, TypeInv
<1>1. /\ \A i \in Job \ {k} : row'[i] = row[i]
      /\ row'[k].status = inflight.status
      /\ row'[k].usage = IF inflight.usage = 0 THEN row[k].usage ELSE inflight.usage
  <2>1. inflight \in Snapshots /\ row' = Merged(k, inflight)
    BY <1>0 DEF Put, TypeOK
  <2> QED
    BY <1>0, <2>1, MergedType
<1>2. /\ row[k].usage \in Nat /\ inflight.usage \in Nat /\ mem[k].usage \in Nat
      /\ final[k].usage \in Nat
  <2>1. row[k] \in Snapshots /\ inflight \in Snapshots /\ mem[k] \in Snapshots /\ final[k] \in Snapshots
    BY <1>0 DEF TypeOK
  <2> QED
    BY <2>1, SnapshotType, LedgerAssumption
<1>3. ended' = IF inflight.status \in Terminal THEN ended \cup {k} ELSE ended
  BY DEF Put
<1>4. RowBehindMemory(k)'
  <2>1. mem'[k].status # "interrupted"
    BY <1>0 DEF JobInv, RowBehindMemory
  <2>2. Known(k) => /\ Follows(inflight.status, mem[k].status)
                    /\ inflight.usage <= mem[k].usage /\ row[k].usage <= mem[k].usage
    BY <1>0 DEF FlightOf, JobInv, RowBehindMemory
  <2> QED
    BY <1>1, <1>2, <2>1, <2>2 DEF RowBehindMemory, Known
<1>5. final[k] # NoSnapshot =>
        /\ Follows(row'[k].status, final[k].status)
        /\ final[k].status = "finished" => row'[k].usage <= final[k].usage
  <2>1. final[k] # NoSnapshot => Follows(inflight.status, final[k].status)
    BY <1>0 DEF FlightOf
  <2>2. final[k] # NoSnapshot /\ final[k].status = "finished" =>
          inflight.usage <= final[k].usage /\ row[k].usage <= final[k].usage
    BY <1>0 DEF FlightOf, JobInv, RetainedEnd
  <2> QED
    BY <1>1, <1>2, <2>1, <2>2
<1>6. mem[k].status \in {"finished", "cancelled", "gone"} /\ row'[k].status \in Unfinished
        => final[k] # NoSnapshot
  BY <1>0, <1>1 DEF FlightOf, Unfinished
<1>7. CancelKept(k) => row'[k].status \in {"cancelled", "none"}
  BY <1>0, <1>1 DEF CancelKept, HasRow, FlightOf, Follows
<1>8. inflight.status # "cancelled" => row'[k].usage <= inflight.usage
  BY <1>0, <1>1, <1>2 DEF FlightOf
<1> QED
  BY <1>1, <1>3, <1>4, <1>5, <1>6, <1>7, <1>8 DEF Written, HasRow

\* The jobs after a write that retires the retained snapshot it has saved.
LEMMA WrittenJobs ==
  ASSUME LedgerInv, NEW k \in Job, Written(k), UNCHANGED <<mem, recovered>>,
         \A i \in Job \ {k} : final'[i] = final[i],
         \/ final'[k] = final[k]
         \/ final'[k] = NoSnapshot /\ row'[k].status = final[k].status,
         NEW a \in {{}, {k}}, acked' = acked \cup a, k \in a => CancelKept(k)'
  PROVE  \A i \in Job : JobInv(i)'
<1>0. \A i \in Job : JobInv(i)
  BY DEF LedgerInv, DataInv
<1>1. ASSUME NEW i \in Job \ {k} PROVE JobInv(i)'
  <2>1. i \in acked' <=> i \in acked
    OBVIOUS
  <2>2. i \in ended' <=> i \in ended
    BY DEF Written
  <2>3. row'[i] = row[i] /\ final'[i] = final[i] /\ mem'[i] = mem[i]
    BY DEF Written
  <2> QED
    BY <1>0, <2>1, <2>2, <2>3 DEF JobInv, RowBehindMemory, RetainedEnd, EndSaved, CancelKept, Known
<1>2. RowBehindMemory(k)' /\ (row'[k].status \in Terminal => k \in ended')
  BY DEF Written
<1>3. JobInv(k) /\ NoSnapshot.status = "none"
  BY <1>0 DEF NoSnapshot, Snapshot
<1>4. RetainedEnd(k)'
  BY <1>3 DEF Written, JobInv, RetainedEnd, Known
<1>5. EndSaved(k)'
  BY <1>3 DEF Written, JobInv, RetainedEnd, EndSaved, Unfinished
<1>6. k \in acked' => CancelKept(k)'
  BY <1>3 DEF Written, JobInv, CancelKept
<1> QED
  BY <1>1, <1>2, <1>4, <1>5, <1>6 DEF JobInv

\* Whoever leaves the lock takes what it has learnt about its own job only.
LEMMA ReleaseSafe ==
  ASSUME LedgerInv, lockq # <<>>, NEW ok \in BOOLEAN, Release(Owner, ok),
         NEW k \in Job, k = JobOf(Owner), Written(k),
         UNCHANGED <<mem, recovered, goal, target, request>>,
         ok /\ ForFinal(Owner) => final[k] = NoSnapshot \/ row'[k].status = final[k].status
  PROVE  DataInv'
<1>0. LockInv /\ TypeInv /\ TypeOK /\ DataInv /\ Owner \in Proc \cup Job
  BY OwnerFacts DEF LedgerInv, LockInv, TypeInv
<1>1. Worker \notin Caller /\ Worker \in Proc /\ Caller \subseteq Proc /\ Proc \cap Job = {}
      /\ Proc = Caller \cup {Worker}
  BY LedgerAssumption DEF Proc
<1>2. inflight' = NoSnapshot
  BY DEF Release
<1>3. /\ \A q \in Proc \ {Owner} : at'[q] = at[q]
      /\ Owner \in Proc => /\ at[Owner] = "lock" /\ target[Owner] = k
                           /\ at'[Owner] = PlaceAfter(Owner, ok)
                           /\ at'[Owner] \notin {"flush", "lock", "create", "close"}
  <2>1. CASE Owner \in Job
    BY <1>1, <2>1 DEF Release, ReleaseDrain
  <2>2. CASE Owner \in Proc
    <3>1. at' = [at EXCEPT ![Owner] = PlaceAfter(Owner, ok)]
      BY <1>1, <2>2 DEF Release, ReleaseProc
    <3>2. PlaceAfter(Owner, ok) \in {"running", "ended", "closing", "reconcile", "idle"}
      BY <1>0, <2>2, PlaceAfterType
    <3> QED
      BY <1>0, <2>2, <3>1, <3>2, OwnerFacts DEF TypeOK
  <2> QED
    BY <1>0, <2>1, <2>2
<1>4. /\ \A i \in Job \ {k} : final'[i] = final[i]
      /\ \/ final'[k] = final[k]
         \/ final'[k] = NoSnapshot /\ row'[k].status = final[k].status
  <2>1. CASE Owner \in Job
    BY <2>1 DEF Release, ReleaseDrain
  <2>2. CASE Owner \in Proc
    <3>1. final' = IF ok /\ ForFinal(Owner) THEN [final EXCEPT ![k] = NoSnapshot] ELSE final
      BY <1>1, <1>3, <2>2 DEF Release, ReleaseProc, FinalSaved
    <3> QED
      BY <1>0, <3>1 DEF TypeOK
  <2> QED
    BY <1>0, <2>1, <2>2
<1>5. final[k].status = "cancelled" \/ CancelKept(k)
        => final'[k].status = "cancelled" \/ CancelKept(k)'
  <2>1. CASE CancelKept(k)
    BY <1>4, <2>1 DEF CancelKept, Written
  <2>2. CASE final[k].status = "cancelled" /\ final'[k] # final[k]
    <3>1. final[k] # NoSnapshot
      BY <2>2 DEF NoSnapshot, Snapshot
    <3>2. mem[k].status \in {"cancelled", "gone"}
      BY <1>0, <2>2, <3>1 DEF DataInv, JobInv, RetainedEnd
    <3> QED
      BY <1>4, <2>2, <3>2 DEF CancelKept
  <2> QED
    BY <2>1, <2>2
<1>6. PICK a \in {{}, {k}} : /\ acked' = acked \cup a
                             /\ k \in a => ok /\ Owner \in Caller /\ goal[Owner] = "final"
  <2>1. CASE Owner \in Job
    BY <2>1 DEF Release, ReleaseDrain
  <2>2. CASE Owner \in Proc
    <3>1. acked' = IF ok /\ goal[Owner] = "final" /\ Owner \in Caller THEN acked \cup {k} ELSE acked
      BY <1>1, <1>3, <2>2 DEF Release, ReleaseProc
    <3>2. CASE ok /\ goal[Owner] = "final" /\ Owner \in Caller
      BY <3>1, <3>2
    <3>3. CASE ~(ok /\ goal[Owner] = "final" /\ Owner \in Caller)
      BY <3>1, <3>3
    <3> QED
      BY <3>2, <3>3
  <2> QED
    BY <1>0, <2>1, <2>2
<1>7. k \in a => CancelKept(k)'
  <2> SUFFICES ASSUME ok, Owner \in Caller, goal[Owner] = "final" PROVE CancelKept(k)'
    BY <1>6
  <2>1. ForFinal(Owner) /\ Cancels(Owner) /\ target[Owner] = k
    BY <1>1, <1>3 DEF ForFinal, Cancels
  <2>2. final[k].status = "cancelled" \/ CancelKept(k)
    BY <1>0, <2>1 DEF DataInv, Cancelling
  <2>3. final'[k] = NoSnapshot
    <3>1. final' = [final EXCEPT ![k] = NoSnapshot]
      BY <1>1, <2>1 DEF Release, ReleaseProc, FinalSaved
    <3> QED
      BY <1>0, <3>1 DEF TypeOK
  <2> QED
    BY <1>5, <2>2, <2>3 DEF NoSnapshot, Snapshot
<1>8. \A i \in Job : JobInv(i)'
  BY <1>4, <1>6, <1>7, WrittenJobs
<1>9. WorkerInv'
  <2>1. CASE Owner = Worker
    <3>1. /\ at'[Worker] = IF goal[Worker] = "final" THEN "closing" ELSE IF ok THEN "running" ELSE "ended"
          /\ goal[Worker] \in {"usage", "final"} /\ at[Worker] = "lock"
      BY <1>1, <1>3, <2>1, OwnerFacts, <1>0 DEF PlaceAfter
    <3> QED
      BY <1>0, <3>1 DEF DataInv, WorkerInv
  <2>2. CASE Owner # Worker
    BY <1>0, <1>1, <1>3, <2>2 DEF DataInv, WorkerInv
  <2> QED
    BY <2>1, <2>2
<1>10. RecoveredFirst'
  <2>1. \A c \in Caller : at'[c] = "create" => at[c] = "create"
    BY <1>1, <1>3
  <2>2. \A i \in Job : final[i] = NoSnapshot => final'[i] = NoSnapshot
    BY <1>4
  <2> QED
    BY <1>0, <1>2, <2>1, <2>2 DEF DataInv, RecoveredFirst
<1>11. Inserts'
  <2>1. \A c \in Caller : Enqueuing(c)' => Enqueuing(c) /\ request[c].job \in Job
    BY <1>0, <1>1, <1>3 DEF Enqueuing, TypeInv, ProcInv, CallerPlaces
  <2>2. \A i \in Job : row[i].status = "none" /\ i \notin ended
                       => row'[i].status = "none" /\ i \notin ended'
    BY DEF Written
  <2> QED
    BY <1>0, <2>1, <2>2 DEF DataInv, Inserts
<1>12. Flight'
  BY <1>2 DEF Flight
<1>13. Cancelling'
  <2> SUFFICES ASSUME NEW d \in Caller, Cancels(d)'
               PROVE  (final[target[d]].status = "cancelled" \/ CancelKept(target[d]))'
    BY DEF Cancelling
  <2>1. Cancels(d) /\ target[d] \in Job
    BY <1>0, <1>1, <1>3 DEF Cancels, TypeInv, ProcInv, CallerPlaces
  <2>2. PICK i \in Job : i = target[d]
    BY <2>1
  <2>3. final[i].status = "cancelled" \/ CancelKept(i)
    BY <1>0, <2>1, <2>2 DEF DataInv, Cancelling
  <2>4. CASE i = k
    BY <1>5, <2>2, <2>3, <2>4
  <2>5. CASE i # k
    BY <1>4, <2>2, <2>3, <2>5 DEF CancelKept, Written
  <2> QED
    BY <2>4, <2>5
<1> QED
  BY <1>8, <1>9, <1>10, <1>11, <1>12, <1>13 DEF DataInv

\* The owner of the lock has read what it is going to write, if anything.
LEMMA BeginSafe ==
  ASSUME LedgerInv, BeginWrite
  PROVE  DataInv'
<1>0. LockInv /\ TypeInv /\ TypeOK /\ DataInv
  BY DEF LedgerInv, LockInv, TypeInv
<1>1. /\ lockq # <<>> /\ inflight = NoSnapshot
      /\ UNCHANGED <<row, mem, recovered, goal, target, request, ended>>
  BY DEF BeginWrite
<1>2. PICK k \in Job : k = JobOf(Owner)
  BY <1>0, <1>1, OwnerFacts
<1>3. Owner \notin Job => target[Owner] = k
  BY <1>2 DEF JobOf
<1>4. CASE SnapshotToWrite(Owner) = NoSnapshot
  <2>1. Release(Owner, TRUE)
    BY <1>4 DEF BeginWrite
  <2>2. ForFinal(Owner) => final[k] = NoSnapshot
    BY <1>3, <1>4 DEF SnapshotToWrite, ForFinal
  <2>3. Written(k)
    BY <1>1, NotWritten
  <2> QED
    BY <1>1, <1>2, <2>1, <2>2, <2>3, ReleaseSafe
<1>5. CASE SnapshotToWrite(Owner) # NoSnapshot
  <2>1. inflight' = SnapshotToWrite(Owner) /\ UNCHANGED <<lockq, at, final, acked>>
    BY <1>5 DEF BeginWrite
  <2>2. \/ ForFinal(Owner) /\ inflight' = final[k] /\ final[k] # NoSnapshot
        \/ ~ForFinal(Owner) /\ inflight' = mem[k] /\ Known(k)
    BY <1>2, <1>3, <1>5, <2>1 DEF SnapshotToWrite, ForFinal
  <2>3. JobInv(k) /\ recovered
    BY <1>0, <2>2 DEF DataInv, RecoveredFirst, Known
  <2>4. mem[k] \in Snapshots /\ final[k] \in Snapshots /\ mem[k].usage \in Nat /\ final[k].usage \in Nat
    BY <1>0, SnapshotType, LedgerAssumption DEF TypeOK
  <2>5. FlightOf(k)'
    <3>1. CASE inflight' = final[k] /\ final[k] # NoSnapshot
      <4>1. /\ final[k].status \in {"finished", "cancelled"}
            /\ mem[k].status \in {final[k].status, "gone"}
            /\ Follows(row[k].status, final[k].status)
            /\ Known(k) => final[k].usage <= mem[k].usage
            /\ final[k].status = "finished" => row[k].usage <= final[k].usage
        BY <2>3, <3>1 DEF JobInv, RetainedEnd
      <4> QED
        BY <1>1, <2>1, <2>4, <3>1, <4>1 DEF FlightOf, Follows, Known, Unfinished
    <3>2. CASE inflight' = mem[k] /\ Known(k)
      <4>1. /\ mem[k].status \in {"queued", "running", "finished", "cancelled"}
            /\ Follows(row[k].status, mem[k].status) /\ row[k].usage <= mem[k].usage
        BY <2>3, <2>4, <3>2, SnapshotType DEF JobInv, RowBehindMemory, Known, Terminal
      <4>2. final[k] # NoSnapshot => Follows(mem[k].status, final[k].status)
        BY <2>3, <3>2 DEF JobInv, RetainedEnd, Known, Follows
      <4>3. final[k].status = "finished" => mem[k].usage <= final[k].usage
        BY <2>3, <3>2 DEF JobInv, RetainedEnd, NoSnapshot, Snapshot
      <4>4. Follows(mem[k].status, mem[k].status) /\ mem[k].usage <= mem[k].usage
        BY <2>4 DEF Follows
      <4> QED
        BY <1>1, <2>1, <3>2, <4>1, <4>2, <4>3, <4>4 DEF FlightOf, Known, Unfinished
    <3> QED
      BY <2>2, <3>1, <3>2
  <2>6. Flight'
    <3>1. JobOf(Owner)' = k /\ ForFinal(Owner)' = ForFinal(Owner)
      BY <1>1, <1>2, <2>1 DEF JobOf, ForFinal, Owner
    <3> QED
      BY <2>1, <2>2, <2>5, <3>1 DEF Flight
  <2>7. \A i \in Job : JobInv(i)'
    BY <1>0, <1>1, <2>1 DEF DataInv, JobInv, RowBehindMemory, RetainedEnd, EndSaved, CancelKept, Known
  <2>8. WorkerInv' /\ RecoveredFirst' /\ Inserts' /\ Cancelling'
    BY <1>0, <1>1, <2>1, <2>3 DEF DataInv, WorkerInv, RecoveredFirst, Inserts, Enqueuing, Cancelling,
       Cancels, CancelKept
  <2> QED
    BY <2>6, <2>7, <2>8 DEF DataInv
<1> QED
  BY <1>4, <1>5

\* A write ends or fails, whether or not it reached the ledger.
LEMMA WriteSafe ==
  ASSUME LedgerInv, EndWrite \/ FailWrite
  PROVE  DataInv'
<1>0. LockInv /\ TypeInv /\ TypeOK /\ DataInv /\ \A i \in Job : JobInv(i)
  BY DEF LedgerInv, LockInv, TypeInv, DataInv
<1>1. inflight # NoSnapshot /\ UNCHANGED <<mem, recovered, goal, target, request>>
  BY DEF EndWrite, FailWrite
<1>2. lockq # <<>> /\ JobOf(Owner) \in Job
  BY <1>0, <1>1, OwnerFacts DEF LockInv, WriterOwns
<1>3. PICK k \in Job : k = JobOf(Owner)
  BY <1>2
<1>4. FlightOf(k) /\ (ForFinal(Owner) => inflight = final[k])
  BY <1>0, <1>1, <1>3 DEF DataInv, Flight
<1>5. (HasRow(k) /\ Put(k, inflight)) \/ UNCHANGED <<row, ended>>
  BY <1>3 DEF EndWrite, FailWrite
<1>6. Written(k)
  BY <1>1, <1>3, <1>5, PutWritten, NotWritten
<1>7. CASE Release(Owner, FALSE)
  BY <1>1, <1>2, <1>3, <1>6, <1>7, ReleaseSafe
<1>8. CASE Release(Owner, TRUE) /\ HasRow(k) /\ Put(k, inflight)
  <2>1. ForFinal(Owner) => row'[k].status = final[k].status
    BY <1>1, <1>3, <1>4, <1>8, PutWritten
  <2> QED
    BY <1>1, <1>2, <1>3, <1>6, <1>8, <2>1, ReleaseSafe
<1>9. CASE UNCHANGED <<inflight, lockq, at, final, acked>>
  <2>1. \A i \in Job : JobInv(i)'
    BY <1>1, <1>6, <1>9, WrittenJobs
  <2>2. WorkerInv'
    BY <1>0, <1>1, <1>9 DEF DataInv, WorkerInv
  <2>3. RecoveredFirst'
    BY <1>0, <1>1, <1>9 DEF DataInv, RecoveredFirst
  <2>4. Inserts'
    <3>1. \A c \in Caller : (Enqueuing(c)' <=> Enqueuing(c)) /\ (Enqueuing(c) => request[c].job \in Job)
      BY <1>0, <1>1, <1>9 DEF Enqueuing, TypeInv, ProcInv, CallerPlaces
    <3>2. \A i \in Job : row[i].status = "none" /\ i \notin ended
                         => row'[i].status = "none" /\ i \notin ended'
      BY <1>6 DEF Written
    <3> QED
      BY <1>0, <1>1, <3>1, <3>2 DEF DataInv, Inserts
  <2>5. Cancelling'
    <3> SUFFICES ASSUME NEW d \in Caller, Cancels(d)'
                 PROVE  (final[target[d]].status = "cancelled" \/ CancelKept(target[d]))'
      BY DEF Cancelling
    <3>1. Cancels(d) /\ target[d] \in Job
      BY <1>0, <1>1, <1>9 DEF Cancels, TypeInv, ProcInv, CallerPlaces
    <3>2. PICK i \in Job : i = target[d]
      BY <3>1
    <3>3. final[i].status = "cancelled" \/ CancelKept(i)
      BY <1>0, <3>1, <3>2 DEF DataInv, Cancelling
    <3>4. CancelKept(i) => CancelKept(i)'
      BY <1>1, <1>6, <1>9 DEF CancelKept, Written
    <3> QED
      BY <1>1, <1>9, <3>2, <3>3, <3>4
  <2>6. Flight'
    <3>1. JobOf(Owner)' = k /\ ForFinal(Owner)' = ForFinal(Owner)
      BY <1>1, <1>3, <1>9 DEF JobOf, ForFinal, Owner
    <3>2. CASE HasRow(k) /\ Put(k, inflight)
      <4>1. /\ row'[k].status = inflight.status
            /\ inflight.status # "cancelled" => row'[k].usage <= inflight.usage
        BY <1>1, <1>3, <3>2, PutWritten
      <4>2. FlightOf(k)'
        BY <1>1, <1>4, <1>9, <4>1 DEF FlightOf, Known, Follows
      <4> QED
        BY <1>1, <1>4, <1>9, <3>1, <4>2 DEF Flight
    <3>3. CASE UNCHANGED <<row, ended>>
      <4>1. FlightOf(k)'
        BY <1>1, <1>4, <1>9, <3>3 DEF FlightOf, Known
      <4> QED
        BY <1>1, <1>4, <1>9, <3>1, <4>1 DEF Flight
    <3> QED
      BY <1>5, <3>2, <3>3
  <2> QED
    BY <2>1, <2>2, <2>3, <2>4, <2>5, <2>6 DEF DataInv
<1> QED
  <2>1. FailWrite => Release(Owner, FALSE) \/ UNCHANGED <<inflight, lockq, at, final, acked>>
    BY DEF FailWrite
  <2>2. EndWrite => Release(Owner, FALSE) \/ (Release(Owner, TRUE) /\ HasRow(k) /\ Put(k, inflight))
    BY <1>3 DEF EndWrite
  <2> QED
    BY <1>7, <1>8, <1>9, <2>1, <2>2

-----------------------------------------------------------------------------
(* The invariant, and what follows from it. *)

LEMMA DataInit == Init => DataInv
<1> SUFFICES ASSUME Init PROVE DataInv
  OBVIOUS
<1>1. /\ \A j \in Job : row[j] = NoSnapshot /\ mem[j] = NoSnapshot /\ final[j] = NoSnapshot
      /\ \A p \in Proc : at[p] = "idle"
      /\ inflight = NoSnapshot /\ ~recovered /\ acked = {}
  BY DEF Init
<1>2. NoSnapshot.status = "none" /\ Worker \in Proc /\ Caller \subseteq Proc
  BY DEF NoSnapshot, Snapshot, Proc
<1>3. WorkerInv /\ RecoveredFirst /\ Inserts /\ Flight /\ Cancelling
  BY <1>1, <1>2 DEF WorkerInv, RecoveredFirst, Inserts, Enqueuing, Flight, Cancelling, Cancels
<1>4. \A j \in Job : JobInv(j)
  BY <1>1, <1>2 DEF JobInv, RowBehindMemory, RetainedEnd, EndSaved, Known, Terminal
<1> QED
  BY <1>3, <1>4 DEF DataInv

LEMMA LedgerStep == LedgerInv /\ [Next]_vars => LedgerInv'
<1> SUFFICES ASSUME LedgerInv, [Next]_vars PROVE LedgerInv'
  OBVIOUS
<1>1. LockInv /\ LockInv' /\ TypeInv
  BY LockStep DEF LedgerInv, LockInv
<1>2. CASE UNCHANGED vars
  <2>1. /\ UNCHANGED <<row, mem, final, recovered, acked, ended, inflight>>
        /\ UNCHANGED <<at, goal, target, request, lockq>>
    BY <1>2 DEF vars, persisterVars, procVars
  <2> QED
    BY <1>1, <2>1, DataKept DEF WriteKept, Owner, JobOf, ForFinal, LedgerInv, DataInv, WorkerInv,
       Inserts, Enqueuing, Cancels
<1>3. CASE Next
  <2>1. ASSUME WorkerStep PROVE DataInv'
    BY <2>1, StartSafe, WorkSafe, WorkerMoves, CloseSafe DEF WorkerStep
  <2>2. ASSUME NEW c \in Caller, CallerStep(c) PROVE DataInv'
    BY <2>2, CallerMoves, RecoverSafe, CancelSafe, CreateSafe DEF CallerStep
  <2>3. ASSUME Writes PROVE DataInv'
    BY <2>3, BeginSafe, WriteSafe DEF Writes
  <2>4. DataInv'
    BY <1>1, <1>3, <2>1, <2>2, <2>3, DrainSafe, FlushedSafe, CallSafe, DeleteSafe, CrashSafe DEF Next
  <2> QED
    BY <1>1, <2>4 DEF LedgerInv
<1> QED
  BY <1>2, <1>3

\* The invariant behind every promise of the ledger: rows run behind the memory of
\* the process, a write in flight lies between the row and that memory, and a
\* retained snapshot is the end the job had.
THEOREM LedgerHolds == Spec => []LedgerInv
<1>1. Init => LedgerInv
  BY LockInit, DataInit DEF LedgerInv
<1> QED
  BY <1>1, LedgerStep, PTL DEF Spec

\* A job the process has forgotten is not left queued or running in the ledger,
\* however many writes failed: its row has ended, or the snapshot that ends it is
\* retained in _pending for the next retry_pending().
THEOREM ForgottenRowsEnd == Spec => []NoForgottenRow
<1>1. LedgerInv => NoForgottenRow
  BY DEF LedgerInv, DataInv, JobInv, EndSaved, NoForgottenRow
<1> QED
  BY <1>1, LedgerHolds, PTL

\* A cancellation that cancel() answered with success stays in the ledger: no
\* later write, retry or restart replaces it.
THEOREM CancelsAreDurable == Spec => []AckedCancelDurable
<1>1. LedgerInv => AckedCancelDurable
  <2> SUFFICES ASSUME LedgerInv, NEW j \in acked PROVE row[j].status \in {"cancelled", "none"}
    BY DEF AckedCancelDurable
  <2>1. j \in Job
    BY DEF LedgerInv, LockInv, TypeInv, TypeOK
  <2> QED
    BY <2>1 DEF LedgerInv, DataInv, JobInv, CancelKept
<1> QED
  BY <1>1, LedgerHolds, PTL

-----------------------------------------------------------------------------
(* How the rows change, and the life cycle they implement. *)

\* A write that took effect, an insert, and the deletion of history.
Stored(k) ==
  /\ row[k].status # "none" /\ FlightOf(k)
  /\ row' \in [Job -> Snapshots] /\ \A i \in Job \ {k} : row'[i] = row[i]
  /\ row'[k].status = inflight.status
  /\ inflight.status # "cancelled" => row[k].usage <= row'[k].usage
  /\ ended' = IF inflight.status \in Terminal THEN ended \cup {k} ELSE ended
Inserted(k) ==
  /\ row[k].status = "none" /\ k \notin ended
  /\ row' = [row EXCEPT ![k] = Snapshot("queued", 0)] /\ ended' = ended
Swept ==
  /\ \E j \in Job : row[j].status \in Terminal
  /\ row' = [j \in Job |-> IF row[j].status \in Terminal THEN NoSnapshot ELSE row[j]]
  /\ ended' = ended

LEMMA MergedStored ==
  ASSUME LedgerInv, NEW k \in Job, k = JobOf(Owner), inflight # NoSnapshot, HasRow(k),
         row' = Merged(k, inflight),
         ended' = IF inflight.status \in Terminal THEN ended \cup {k} ELSE ended
  PROVE  Stored(k)
<1>0. TypeInv /\ TypeOK /\ FlightOf(k)
  BY DEF LedgerInv, LockInv, DataInv, Flight, TypeInv
<1>1. /\ row' \in [Job -> Snapshots] /\ \A i \in Job \ {k} : row'[i] = row[i]
      /\ row'[k].status = inflight.status
      /\ row'[k].usage = IF inflight.usage = 0 THEN row[k].usage ELSE inflight.usage
  <2>1. inflight \in Snapshots
    BY <1>0 DEF TypeOK
  <2> QED
    BY <1>0, <2>1, MergedType
<1>2. row[k].usage \in Nat /\ inflight.usage \in Nat
  <2>1. row[k] \in Snapshots /\ inflight \in Snapshots
    BY <1>0 DEF TypeOK
  <2> QED
    BY <2>1, SnapshotType, LedgerAssumption
<1>3. inflight.status # "cancelled" => row[k].usage <= row'[k].usage
  BY <1>0, <1>1, <1>2 DEF FlightOf
<1> QED
  BY <1>0, <1>1, <1>3 DEF Stored, HasRow

LEMMA RowSteps ==
  ASSUME LedgerInv, [Next]_vars
  PROVE  \/ UNCHANGED <<row, ended>>
         \/ \E k \in Job : Stored(k) \/ Inserted(k)
         \/ InterruptIncomplete \/ Swept
<1>0. TypeInv /\ TypeOK /\ DataInv /\ LockInv
  BY DEF LedgerInv, LockInv, TypeInv
<1>1. ASSUME Writes PROVE UNCHANGED <<row, ended>> \/ \E k \in Job : Stored(k)
  <2>1. CASE UNCHANGED <<row, ended>>
    BY <2>1
  <2>2. CASE inflight # NoSnapshot /\ HasRow(JobOf(Owner)) /\ Put(JobOf(Owner), inflight)
    <3>1. PICK k \in Job : k = JobOf(Owner)
      BY <1>0, <2>2, OwnerFacts DEF LockInv, WriterOwns
    <3> QED
      BY <2>2, <3>1, MergedStored DEF Put
  <2> QED
    BY <1>1, <2>1, <2>2 DEF Writes, BeginWrite, EndWrite, FailWrite
<1>2. ASSUME NEW c \in Caller, at[c] = "create"
      PROVE  request[c].job \in Job /\ row[request[c].job].status = "none" /\ request[c].job \notin ended
  <2>1. Enqueuing(c) /\ request[c].job \in Job
    BY <1>0, <1>2 DEF Enqueuing, TypeInv, ProcInv, CallerPlaces
  <2> QED
    BY <1>0, <2>1 DEF DataInv, Inserts
<1>3. ASSUME NEW c \in Caller, Create(c)
      PROVE  UNCHANGED <<row, ended>> \/ \E k \in Job : Inserted(k)
  BY <1>2, <1>3 DEF Create, Inserted
<1>4. ASSUME Crash
      PROVE  UNCHANGED <<row, ended>> \/ \E k \in Job : Stored(k) \/ Inserted(k)
  <2>1. /\ ended' = ended \cup {j \in Job : row'[j].status \in Terminal}
        /\ row' \in Survivors
    BY <1>4 DEF Crash
  <2>2. \A j \in Job : row[j].status \in Terminal => j \in ended
    BY <1>0 DEF DataInv, JobInv
  <2>3. CASE row' = row
    BY <2>1, <2>2, <2>3
  <2>4. CASE inflight # NoSnapshot /\ HasRow(JobOf(Owner)) /\ row' = Merged(JobOf(Owner), inflight)
    <3>1. PICK k \in Job : k = JobOf(Owner)
      BY <1>0, <2>4, OwnerFacts DEF LockInv, WriterOwns
    <3>2. \A i \in Job \ {k} : row'[i] = row[i]
      BY <1>0, <2>4, <3>1, MergedType DEF TypeOK
    <3>3. row'[k].status = inflight.status
      BY <1>0, <2>4, <3>1, MergedType DEF TypeOK
    <3>4. ended' = IF inflight.status \in Terminal THEN ended \cup {k} ELSE ended
      <4>1. ASSUME NEW j PROVE j \in ended' <=> j \in ended \/ (j = k /\ inflight.status \in Terminal)
        BY <2>1, <2>2, <3>2, <3>3
      <4> QED
        BY <4>1
    <3> QED
      BY <2>4, <3>1, <3>4, MergedStored
  <2>5. ASSUME NEW d \in Caller, at[d] = "create",
               row' = [row EXCEPT ![request[d].job] = Snapshot("queued", 0)]
        PROVE  \E k \in Job : Inserted(k)
    <3>1. PICK k \in Job : k = request[d].job
      BY <1>2, <2>5
    <3>2. row[k].status = "none" /\ k \notin ended
      BY <1>2, <2>5, <3>1
    <3>3. row'[k].status = "queued" /\ \A i \in Job \ {k} : row'[i] = row[i]
      BY <1>0, <2>5, <3>1 DEF TypeOK, Snapshot
    <3>4. ended' = ended
      <4>1. ASSUME NEW j \in Job, row'[j].status \in Terminal PROVE j \in ended
        BY <2>2, <3>3, <4>1 DEF Terminal
      <4> QED
        BY <2>1, <4>1
    <3> QED
      BY <2>5, <3>1, <3>2, <3>4 DEF Inserted
  <2> QED
    BY <2>1, <2>3, <2>4, <2>5 DEF Survivors
<1>5. ASSUME NEW c \in Caller, CallerStep(c)
      PROVE  UNCHANGED <<row, ended>> \/ InterruptIncomplete \/ \E k \in Job : Inserted(k)
  BY <1>3, <1>5 DEF CallerStep, RetryPending, Recover, Cancel, Answer
<1>6. DeleteHistory => Swept
  BY DEF DeleteHistory, Swept
<1>7. ASSUME \/ \E j \in Job : DrainStarts(j) \/ Publish(j)
             \/ \E p \in Proc : Flushed(p)
             \/ WorkerStep
             \/ \E c \in Caller, op \in {"enqueue", "cancel", "list"}, j \in Job : Call(c, op, j)
             \/ UNCHANGED vars
      PROVE  UNCHANGED <<row, ended>>
  BY <1>7 DEF DrainStarts, Publish, Flushed, WorkerStep, StartJob, RecordUsage, FinishJob, StartClose,
     Close, Call, workerRest, vars
<1> QED
  BY <1>1, <1>4, <1>5, <1>6, <1>7 DEF Next

\* A job without a row has no charges in the ledger.
EmptyRows == \A j \in Job : row[j].status = "none" => row[j].usage = 0

LEMMA EmptyRowsStep == LedgerInv /\ EmptyRows /\ [Next]_vars => EmptyRows'
<1> SUFFICES ASSUME LedgerInv, EmptyRows, [Next]_vars, NEW j \in Job, row'[j].status = "none"
             PROVE  row'[j].usage = 0
  BY DEF EmptyRows
<1>0. TypeInv /\ TypeOK
  BY DEF LedgerInv, LockInv, TypeInv
<1>1. CASE row'[j] = row[j]
  BY <1>1 DEF EmptyRows
<1>2. ASSUME NEW k \in Job, Stored(k) \/ Inserted(k) PROVE row'[j] = row[j]
  <2>1. row'[k].status # "none" /\ \A i \in Job \ {k} : row'[i] = row[i]
    BY <1>0, <1>2 DEF Stored, Inserted, FlightOf, Snapshot, TypeOK
  <2> QED
    BY <2>1
<1>3. ASSUME InterruptIncomplete PROVE row'[j] = row[j]
  BY <1>3 DEF InterruptIncomplete, Interrupted, Snapshot
<1>4. ASSUME Swept PROVE row'[j] = row[j] \/ row'[j].usage = 0
  BY <1>4 DEF Swept, NoSnapshot, Snapshot
<1> QED
  BY <1>1, <1>2, <1>3, <1>4, RowSteps

\* Progress, final and retried writes carry the newest list of charged batches:
\* an unfinished, finished or interrupted row never loses one.
THEOREM ChargesAreKept == Spec => UsageKeptUnlessCancelled
<1> DEFINE Kept == \A j \in Job : row'[j].status \in Unfinished \cup {"finished", "interrupted"}
                                 => row'[j].usage >= row[j].usage
<1>1. Init => EmptyRows
  BY DEF Init, EmptyRows, NoSnapshot, Snapshot
<1>2. LedgerInv /\ EmptyRows /\ [Next]_vars => [Kept]_vars
  <2> SUFFICES ASSUME LedgerInv, EmptyRows, [Next]_vars, NEW j \in Job,
                      row'[j].status \in Unfinished \cup {"finished", "interrupted"}
               PROVE  row'[j].usage >= row[j].usage
    OBVIOUS
  <2>1. TypeInv /\ TypeOK /\ row[j].usage \in Nat
    <3>1. row[j] \in Snapshots
      BY DEF LedgerInv, LockInv, TypeInv, TypeOK
    <3> QED
      BY <3>1, SnapshotType, LedgerAssumption DEF LedgerInv, LockInv, TypeInv
  <2>2. CASE row'[j] = row[j]
    BY <2>1, <2>2
  <2>3. ASSUME NEW k \in Job, Stored(k), k = j PROVE row'[j].usage >= row[j].usage
    <3>1. inflight.status # "cancelled" /\ row'[j] \in Snapshots
      BY <2>3 DEF Stored, Unfinished
    <3>2. row[j].usage <= row'[j].usage /\ row'[j].usage \in Nat
      BY <2>3, <3>1, SnapshotType, LedgerAssumption DEF Stored
    <3> QED
      BY <2>1, <3>2
  <2>4. ASSUME NEW k \in Job, Inserted(k), k = j PROVE row'[j].usage >= row[j].usage
    BY <2>1, <2>4 DEF Inserted, EmptyRows, Snapshot, TypeOK
  <2>5. ASSUME NEW k \in Job, Stored(k) \/ Inserted(k), k # j PROVE row'[j] = row[j]
    BY <2>1, <2>5 DEF Stored, Inserted, TypeOK
  <2>6. ASSUME InterruptIncomplete PROVE row'[j].usage >= row[j].usage
    BY <2>1, <2>6 DEF InterruptIncomplete, Interrupted, Snapshot
  <2>7. ASSUME Swept PROVE row'[j] = row[j]
    BY <2>7 DEF Swept, NoSnapshot, Snapshot, Unfinished
  <2> QED
    BY <2>2, <2>3, <2>4, <2>5, <2>6, <2>7, RowSteps
<1>3. EmptyRows /\ LedgerInv /\ [Next]_vars => EmptyRows'
  BY EmptyRowsStep
<1> HIDE DEF Kept
<1>4. Spec => [][Kept]_vars
  BY <1>1, <1>2, <1>3, LedgerHolds, PTL DEF Spec
<1> QED
  BY <1>4 DEF Kept, UsageKeptUnlessCancelled

\* One row goes on along the life cycle, or stays as it is.
LEMMA RowGoesOn ==
  ASSUME LedgerInv, NEW k \in Job, Stored(k) \/ Inserted(k)
  PROVE  Lifecycle!Next \/ UNCHANGED Lifecycle!vars
<1> DEFINE ledger == [j \in Job |-> row[j].status]
<1>0. TypeOK
  BY DEF LedgerInv, LockInv, TypeInv
<1>1. CASE Inserted(k)
  <2>1. ledger' = [ledger EXCEPT ![k] = "queued"]
    BY <1>0, <1>1 DEF Inserted, Snapshot, TypeOK
  <2>2. Lifecycle!Create(k)
    BY <1>1, <2>1 DEF Inserted, Lifecycle!Create
  <2> QED
    BY <2>2 DEF Lifecycle!Next
<1>2. CASE Stored(k)
  <2> DEFINE s == inflight.status
  <2>1. /\ ledger' = [ledger EXCEPT ![k] = s] /\ ledger[k] = row[k].status
        /\ Follows(ledger[k], s) /\ ledger[k] # "none"
        /\ s \in {"queued", "running", "finished", "cancelled"}
    <3>1. \A i \in Job : row'[i].status = IF i = k THEN s ELSE row[i].status
      BY <1>2 DEF Stored
    <3>2. ledger' = [ledger EXCEPT ![k] = s]
      BY <3>1
    <3> QED
      BY <1>2, <3>2 DEF Stored, FlightOf
  <2>2. /\ ended' = IF s \in Terminal THEN ended \cup {k} ELSE ended
        /\ ledger[k] \in Terminal => k \in ended
    BY <1>2 DEF Stored, LedgerInv, DataInv, JobInv
  <2>a. ledger = [i \in Job |-> ledger[i]]
    OBVIOUS
  <2> HIDE DEF s, ledger
  <2>3. CASE s = ledger[k]
    <3>1. ledger' = ledger
      BY <2>1, <2>3, <2>a
    <3>2. ended' = ended
      BY <2>2, <2>3
    <3> QED
      BY <3>1, <3>2 DEF Lifecycle!vars, ledger
  <2>4. CASE s = "running" /\ ledger[k] = "queued"
    <3>1. ended' = ended
      BY <2>2, <2>4 DEF Terminal
    <3>2. Lifecycle!Start(k)
      BY <2>1, <2>4, <3>1 DEF Lifecycle!Start, ledger
    <3> QED
      BY <3>2 DEF Lifecycle!Next
  <2>5. CASE s \in {"finished", "cancelled"} /\ ledger[k] \in {"queued", "running"}
    <3>1. ended' = ended \cup {k}
      BY <2>2, <2>5 DEF Terminal
    <3>2. Lifecycle!End(k)
      BY <2>1, <2>5, <3>1 DEF Lifecycle!End, Lifecycle!Unfinished, ledger
    <3> QED
      BY <3>2 DEF Lifecycle!Next
  <2> QED
    BY <2>1, <2>3, <2>4, <2>5 DEF Follows
<1> QED
  BY <1>1, <1>2

\* The ledger implements the life cycle of JobLifecycle: whatever the writers go
\* through, a row starts queued, may run, ends once, and only a recovery calls
\* it interrupted.
THEOREM LedgerImplementsLifecycle == Spec => LifecycleSpec
<1> DEFINE ledger == [j \in Job |-> row[j].status]
<1>1. Init => Lifecycle!Init
  BY DEF Init, Lifecycle!Init, NoSnapshot, Snapshot
<1>2. LedgerInv /\ [Next]_vars => [Lifecycle!Next]_(Lifecycle!vars)
  <2> SUFFICES ASSUME LedgerInv, [Next]_vars PROVE Lifecycle!Next \/ UNCHANGED Lifecycle!vars
    OBVIOUS
  <2>1. CASE UNCHANGED <<row, ended>>
    BY <2>1 DEF Lifecycle!vars
  <2>2. CASE InterruptIncomplete
    <3>1. \A j \in Job : row'[j].status = IF row[j].status \in {"queued", "running"} THEN "interrupted"
                                          ELSE row[j].status
      BY <2>2 DEF InterruptIncomplete, LeftBehind, Unfinished, Interrupted, Snapshot
    <3>2. ledger' = [j \in Job |-> IF ledger[j] \in {"queued", "running"} THEN "interrupted" ELSE ledger[j]]
      BY <3>1
    <3>3. ended' = ended \cup LeftBehind
      BY <2>2 DEF InterruptIncomplete
    <3>4. \A j \in Job : row[j].status \in Terminal => j \in ended
      BY DEF LedgerInv, DataInv, JobInv
    <3>5. CASE LeftBehind = {}
      <4>1. \A j \in Job : row[j].status \notin {"queued", "running"}
        BY <3>5 DEF LeftBehind, Unfinished
      <4>2. ledger' = ledger /\ ended' = ended
        BY <3>2, <3>3, <3>5, <4>1
      <4> QED
        BY <4>2 DEF Lifecycle!vars
    <3>6. CASE LeftBehind # {}
      <4>1. \E j \in Job : ledger[j] \in {"queued", "running"}
        BY <3>6 DEF LeftBehind, Unfinished
      <4>2. ended' = {j \in Job : ledger'[j] \in Terminal} \cup ended
        <5>1. \A j \in Job : row'[j].status \in Terminal <=>
                               row[j].status \in Terminal \/ j \in LeftBehind
          BY <3>1 DEF LeftBehind, Unfinished, Terminal
        <5>2. \A j \in Job : ledger'[j] = row'[j].status
          OBVIOUS
        <5> HIDE DEF ledger
        <5> QED
          BY <3>3, <3>4, <5>1, <5>2 DEF LeftBehind
      <4> QED
        BY <3>2, <4>1, <4>2 DEF Lifecycle!Next, Lifecycle!Interrupt, Lifecycle!Unfinished,
           Lifecycle!Terminal, Terminal
    <3> QED
      BY <3>5, <3>6
  <2>3. CASE Swept
    <3>1. ledger' = [j \in Job |-> IF ledger[j] \in Terminal THEN "none" ELSE ledger[j]]
      BY <2>3 DEF Swept, NoSnapshot, Snapshot
    <3>2. (\E j \in Job : ledger[j] \in Terminal) /\ ended' = ended
      BY <2>3 DEF Swept
    <3> QED
      BY <3>1, <3>2 DEF Lifecycle!Next, Lifecycle!Delete, Lifecycle!Terminal, Terminal
  <2>4. ASSUME NEW k \in Job, Stored(k) \/ Inserted(k)
        PROVE  Lifecycle!Next \/ UNCHANGED Lifecycle!vars
    BY <2>4, RowGoesOn
  <2> QED
    BY <2>1, <2>2, <2>3, <2>4, RowSteps
<1> QED
  BY <1>1, <1>2, LedgerHolds, PTL DEF Spec, LifecycleSpec, Lifecycle!Spec

=============================================================================
