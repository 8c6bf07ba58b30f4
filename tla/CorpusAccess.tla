---------------------------- MODULE CorpusAccess ----------------------------
(***************************************************************************)
(* The gate between searches and the jobs that rewrite what search reads   *)
(* (class CorpusAccess of app/operator/corpus_access.py).  A search is     *)
(* admitted unless a writer is draining or writing; a writer waits for the *)
(* admitted searches or for its own cancellation.  As in the coordinator,  *)
(* every operator is one stretch of code without an await.                 *)
(***************************************************************************)
EXTENDS Integers

CONSTANTS Job, NoJob,
          Search   \* concurrent search requests

VARIABLES
  readers,    \* admitted searches
  writers,    \* jobs inside update(), draining or writing
  writerLock, \* the job that owns _writer_lock, or NoJob
  drainers,   \* jobs asleep in the drain condition
  cancelEvents \* jobs whose cancel event is set

accessVars == <<readers, writers, writerLock, drainers>>

Updating == writers # {}

Init == readers = {} /\ writers = {} /\ writerLock = NoJob /\ drainers = {}

\* _condition.notify_all()
NotifyAll == drainers' = {}

\* Mutant of EnterSearch: admission does not look at the barrier.
EnterSearchAnyway(s) ==
  /\ s \notin readers
  /\ readers' = readers \cup {s}
  /\ UNCHANGED <<writers, writerLock, drainers>>

\* search() is entered; while Updating it raises CorpusUpdatingError instead.
EnterSearch(s) ==
  /\ s \notin readers
  /\ ~Updating
  /\ readers' = readers \cup {s}
  /\ UNCHANGED <<writers, writerLock, drainers>>

\* Mutant of ExitSearch: the last search leaves without notify_all.
ExitSearchQuietly(s) ==
  /\ s \in readers
  /\ readers' = readers \ {s}
  /\ UNCHANGED <<writers, writerLock, drainers>>

ExitSearch(s) ==
  /\ s \in readers
  /\ readers' = readers \ {s}
  /\ NotifyAll
  /\ UNCHANGED <<writers, writerLock>>

\* update() up to its first possible wait: the admission barrier goes up, and
\* the body starts at once when there is nobody to wait for.
BeginUpdate(j) ==
  /\ writerLock = NoJob
  /\ writers' = writers \cup {j}
  /\ writerLock' = j
  /\ drainers' = IF readers = {} THEN drainers ELSE drainers \cup {j}
  /\ UNCHANGED readers

\* A woken writer finds searches still running and sleeps again.
KeepDraining(j) ==
  /\ j \notin drainers
  /\ readers # {} /\ j \notin cancelEvents
  /\ drainers' = drainers \cup {j}
  /\ UNCHANGED <<readers, writers, writerLock>>

\* A woken writer finds the gate drained: update() yields to its body.
StartWriting(j) ==
  /\ j \notin drainers
  /\ readers = {} /\ j \notin cancelEvents
  /\ UNCHANGED accessVars

\* Mutant of EndUpdate: a cancelled drain forgets the barrier.
EndUpdateUnlessCancelled(j) ==
  /\ writers' = IF j \in cancelEvents THEN writers ELSE writers \ {j}
  /\ writerLock' = NoJob
  /\ NotifyAll
  /\ UNCHANGED readers

\* The way out of update(), on success, on failure and on cancellation.
EndUpdate(j) ==
  /\ writers' = writers \ {j}
  /\ writerLock' = NoJob
  /\ NotifyAll
  /\ UNCHANGED readers

\* Mutant of WakeOnCancel: the watcher sees the event and notifies nobody.
WakeNobody(j) ==
  /\ j \in drainers \cap cancelEvents
  /\ UNCHANGED accessVars

\* The watcher task of a draining writer notifies once the event is set.
WakeOnCancel(j) ==
  /\ j \in drainers \cap cancelEvents
  /\ NotifyAll
  /\ UNCHANGED <<readers, writers, writerLock>>

-----------------------------------------------------------------------------

\* Every variable of the gate has its type.
TypeOK ==
  /\ readers \subseteq Search
  /\ writers \subseteq Job /\ drainers \subseteq Job
  /\ writerLock \in Job \cup {NoJob}

\* A writer asleep in the drain still has a search to wait for: the last search to
\* leave, and every way out of update(), woke it.
NoLostDrain == drainers # {} => readers # {}

=============================================================================
