------------------------- MODULE SourceTransaction -------------------------
(***************************************************************************)
(* Journalled publication of original filings and their catalog            *)
(* (app/ingestion/sources/storage.py).  One session at a time holds the    *)
(* file lock; inside it commit_sources() prepares a journal, replaces the  *)
(* files, replaces the catalog last and marks the journal committed.       *)
(* Whoever takes the lock with recover=True afterwards finishes or undoes  *)
(* what an interrupted session left.                                       *)
(*                                                                         *)
(* Every file operation is a step, after which it may raise, its process   *)
(* may stop, or the machine may lose whatever no fsync has made durable:   *)
(* "may" and "mayJournal" hold what could then be found on the disk.  The  *)
(* fsync of a directory makes its entries durable, not the entry that      *)
(* names it: nothing makes durable the directories that a transaction      *)
(* makes on the way to a path, and a power loss may take them with all     *)
(* that was synced in them.                                                *)
(***************************************************************************)
EXTENDS Naturals, Sequences, FiniteSets, SequencesExt

CONSTANTS
  File,             \* fixed paths of originals
  Manifest,         \* manifest.json, the catalog
  Version,          \* bytes of an original
  Absent,           \* a path that does not exist
  NoJournal,        \* no .source-transaction directory
  DirOf,            \* the directory of each path, for all the levels that lead to it
  KnownDirs,        \* directories that exist from the start
  MaxTransactions,  \* bound: transactions of a behaviour
  Faulty,           \* bound: steps whose file operation may raise
  MaxFaults,        \* bound: how many of them do
  Fragile,          \* bound: steps at which a process or the machine may stop
  MaxCrashes,       \* bound: how many processes stop
  MaxOutages        \* bound: how many times the machine stops

Target == File \cup {Manifest}
Root == DirOf[Manifest]

CommitSteps == {"applying", "replacing", "syncing", "committed"}
PrepareSteps == {"preparing", "recorded"}
RecoverySteps == {"checking", "restoring", "resyncing", "removing", "removed"}
Operations == PrepareSteps \cup CommitSteps \cup RecoverySteps \cup {"discarding"}
Steps == {"unlocked", "inside"} \cup Operations

\* What a catalog registers for every path, and what any path may hold.
Contents == [File -> Version \cup {Absent}]
Bytes == Version \cup {Absent} \cup Contents

\* The journal directory: record.json ("record") with its rows, the copies of
\* prior bytes, and the "committed" marker.
Journals == [id : Nat, rows : Seq([path : Target, before : Bytes, after : Bytes]),
             backups : SUBSET Target, record : BOOLEAN, committed : BOOLEAN]

ASSUME SourcesAssumption ==
  /\ IsFiniteSet(File) /\ Manifest \notin File
  /\ Absent \notin Version \cup Contents
  /\ NoJournal \notin Journals
  /\ \A before, after \in [Target -> Bytes] : NoJournal # {before, after}
  /\ \A f \in File : DirOf[f] # Root
  /\ Root \in KnownDirs
  /\ {MaxTransactions, MaxFaults, MaxCrashes, MaxOutages} \subseteq Nat
  /\ Faulty \subseteq Operations /\ Fragile \subseteq Steps

VARIABLES
  disk,        \* what a reader finds at every path
  may,         \* what it could find there after a power loss that leaves the directory
  dirs,        \* existing directories
  lasting,     \* those that no power loss takes
  lost,        \* history: a power loss took an original the catalog it left registers,
               \* made durable in a directory that was not
  journal,     \* the journal directory, or NoJournal
  mayJournal,  \* what could be left of it after a power loss
  step,        \* the file operation the holder of the lock does next
  at,          \* the row it is at
  goal,        \* how recover_transaction() returns: to the body of the lock or to its commit
  answer,      \* history: the last transaction and what its caller was told
  count        \* counters of the bounds

dirVars == <<dirs, lasting, lost>>
diskVars == <<disk, may, dirVars>>
journalVars == <<journal, mayJournal>>
vars == <<diskVars, journalVars, step, at, goal, answer, count>>

-----------------------------------------------------------------------------

\* The bytes the catalog registers for a path; an absent catalog registers none.
Registered(f) == IF disk[Manifest] = Absent THEN Absent ELSE disk[Manifest][f]

\* Any earlier publications, all of them complete.
Init ==
  /\ \E c \in Contents, registered \in {TRUE, FALSE} :
       /\ ~registered => \A f \in File : c[f] = Absent
       /\ disk = [t \in Target |-> IF t # Manifest THEN c[t]
                                   ELSE IF registered THEN c ELSE Absent]
       /\ dirs = KnownDirs \cup {DirOf[f] : f \in {g \in File : c[g] # Absent}}
  /\ lasting = dirs /\ lost = FALSE
  /\ may = [t \in Target |-> {disk[t]}]
  /\ journal = NoJournal /\ mayJournal = {NoJournal}
  /\ step = "unlocked" /\ at = 0 /\ goal = "body"
  /\ answer = [result |-> "none", before |-> disk, after |-> disk]
  /\ count = [started |-> 0, faults |-> 0, crashes |-> 0, outages |-> 0]

-----------------------------------------------------------------------------
\* File operations.

Write(t, content) ==
  /\ disk' = [disk EXCEPT ![t] = content]
  /\ may' = [may EXCEPT ![t] = @ \cup {content}]

\* _sync_directory: the directory's entries are durable, the journal's own
\* entry among those of the root; the directory's own entry is not.
Sync(d) ==
  /\ may' = [t \in Target |-> IF DirOf[t] = d THEN {disk[t]} ELSE may[t]]
  /\ mayJournal' = IF d # Root THEN mayJournal
                   ELSE IF journal = NoJournal THEN {NoJournal}
                   ELSE {j \in mayJournal \ {NoJournal} : j.id = journal.id}

\* A change of the journal's entries: each may or may not survive a power loss.
ChangeJournal(Change(_)) ==
  /\ journal' = Change(journal)
  /\ mayJournal' = mayJournal \cup
       {Change(j) : j \in {k \in mayJournal \ {NoJournal} : k.id = journal.id}}

\* The holder goes on, at row i, with the operation s.
Continue(s, i) == step' = s /\ at' = i /\ UNCHANGED <<goal, answer, count>>

\* It leaves recover_transaction() or the lock; a commit's caller gets its answer.
End(s, result) ==
  /\ step' = s /\ at' = 0 /\ goal' = "body"
  /\ answer' = IF answer.result = "pending" /\ goal # "body"
               THEN [answer EXCEPT !.result = result] ELSE answer
Raise == End("unlocked", "failed") /\ UNCHANGED count

-----------------------------------------------------------------------------
\* source_lock().  With an unresolved journal only recover=True gets in.

EnterClean ==
  /\ step = "unlocked" /\ journal = NoJournal
  /\ Continue("inside", 0) /\ UNCHANGED <<diskVars, journalVars>>

EnterRecover ==
  /\ step = "unlocked" /\ journal # NoJournal
  /\ Continue("checking", 0) /\ UNCHANGED <<diskVars, journalVars>>

Leave ==
  /\ step = "inside"
  /\ Continue("unlocked", 0) /\ UNCHANGED <<diskVars, journalVars>>

-----------------------------------------------------------------------------
\* commit_sources().

\* A publication brings new bytes, a deletion removes registered originals.
Publications == UNION {[S -> Version] : S \in SUBSET File}
Deletions == UNION {[S -> {Absent}] : S \in SUBSET {f \in File : Registered(f) # Absent}}

\* One row for each changed path in the caller's order, the catalog's the last.
Rows(order, change) ==
  Append([i \in 1..Len(order) |->
            [path |-> order[i], before |-> disk[order[i]], after |-> change[order[i]]]],
         [path |-> Manifest, before |-> disk[Manifest],
          after |-> [f \in File |-> IF f \in DOMAIN change THEN change[f]
                                    ELSE Registered(f)]])

\* What the rows' "before" or "after" make of the current contents.
Paths(rows) == {rows[i].path : i \in DOMAIN rows}
RowOf(rows, t) == rows[CHOOSE i \in DOMAIN rows : rows[i].path = t]
Before(rows) == [t \in Target |-> IF t \in Paths(rows) THEN RowOf(rows, t).before ELSE disk[t]]
After(rows) == [t \in Target |-> IF t \in Paths(rows) THEN RowOf(rows, t).after ELSE disk[t]]

Begin ==
  /\ step = "inside" /\ journal = NoJournal
  /\ count.started < MaxTransactions
  /\ \E change \in Publications \cup Deletions : \E order \in SetToSeqs(DOMAIN change) :
       LET rows == Rows(order, change)
       IN /\ journal' = [id |-> count.started, rows |-> rows, backups |-> {},
                         record |-> FALSE, committed |-> FALSE]
          /\ answer' = [result |-> "pending", before |-> disk, after |-> After(rows)]
  /\ mayJournal' = mayJournal \cup {journal'}
  /\ count' = [count EXCEPT !.started = @ + 1]
  /\ step' = "preparing" /\ at' = 1 /\ goal' = "published"
  /\ UNCHANGED diskVars

Row == journal.rows[at]
MoreRows == at \in DOMAIN journal.rows

\* The prior bytes of a row, if there were any, are copied into the journal.
PrepareRow ==
  /\ step = "preparing" /\ MoreRows
  /\ LET Copy(j) == [j EXCEPT !.backups = @ \cup {Row.path}]
     IN IF Row.before = Absent THEN UNCHANGED journalVars ELSE ChangeJournal(Copy)
  /\ Continue("preparing", at + 1) /\ UNCHANGED diskVars

PublishRecord ==
  /\ step = "preparing" /\ ~MoreRows
  /\ LET Put(j) == [j EXCEPT !.record = TRUE] IN ChangeJournal(Put)
  /\ Continue("recorded", 1) /\ UNCHANGED diskVars

\* Both fsyncs before prepared = True: the journal, then its entry in the root.
SyncPrepared ==
  /\ step = "recorded"
  /\ may' = [may EXCEPT ![Manifest] = {disk[Manifest]}]
  /\ mayJournal' = {journal}
  /\ Continue("applying", at) /\ UNCHANGED <<disk, dirVars, journal>>

\* mkdir(parents=True): none of the entries it adds is ever synced.
MakeDirectory ==
  /\ step = "applying" /\ MoreRows
  /\ dirs' = dirs \cup {DirOf[Row.path]}
  /\ Continue("replacing", at) /\ UNCHANGED <<disk, may, lasting, lost, journalVars>>

ReplaceRow ==
  /\ step = "replacing"
  /\ Write(Row.path, Row.after)
  /\ Continue("syncing", at) /\ UNCHANGED <<dirVars, journalVars>>

\* Mutant of SyncRow: the rename is left to the page cache.
RowUnsynced ==
  /\ step = "syncing"
  /\ Continue("applying", at + 1) /\ UNCHANGED <<diskVars, journalVars>>

SyncRow ==
  /\ step = "syncing"
  /\ Sync(DirOf[Row.path])
  /\ Continue("applying", at + 1) /\ UNCHANGED <<disk, dirVars, journal>>

\* Mutant of PublishCommitted: marked before the catalog's own row.
CommittedEarly ==
  /\ step = "applying" /\ at >= Len(journal.rows)
  /\ LET Mark(j) == [j EXCEPT !.committed = TRUE] IN ChangeJournal(Mark)
  /\ Continue("committed", at) /\ UNCHANGED diskVars

PublishCommitted ==
  /\ step = "applying" /\ ~MoreRows
  /\ LET Mark(j) == [j EXCEPT !.committed = TRUE] IN ChangeJournal(Mark)
  /\ Continue("committed", at) /\ UNCHANGED diskVars

SyncCommitted ==
  /\ step = "committed"
  /\ mayJournal' = {journal}
  /\ Continue("checking", 0) /\ UNCHANGED <<diskVars, journal>>

-----------------------------------------------------------------------------
\* recover_transaction().

\* Mutant of Proven: only untouched sources are taken for recoverable.
ProvenUntouched(j) ==
  j.record /\ \A i \in DOMAIN j.rows :
    LET row == j.rows[i]
    IN disk[row.path] = row.before /\ (row.before # Absent => row.path \in j.backups)

\* Every row is at one of its two ends and every needed backup is in place.
Proven(j) ==
  j.record /\ \A i \in DOMAIN j.rows :
    LET row == j.rows[i]
    IN /\ disk[row.path] \in {row.before, row.after}
       /\ row.before # Absent => row.path \in j.backups

Finished(j) == \A i \in DOMAIN j.rows : disk[j.rows[i].path] = j.rows[i].after

\* Mutant of CheckJournal: an uncommitted journal is removed like a committed one.
CheckForgetsRollback ==
  /\ step = "checking"
  /\ IF Proven(journal) /\ (journal.committed => Finished(journal))
     THEN Continue("removing", 0) ELSE Raise
  /\ UNCHANGED <<diskVars, journalVars>>

CheckJournal ==
  /\ step = "checking"
  /\ IF Proven(journal) /\ (journal.committed => Finished(journal))
     THEN IF journal.committed THEN Continue("removing", 0)
          ELSE Continue("restoring", Len(journal.rows))
     ELSE Raise
  /\ UNCHANGED <<diskVars, journalVars>>

\* The rows in reverse, so the catalog is the first to go back.
RestoreRow ==
  /\ step = "restoring" /\ MoreRows
  /\ Write(Row.path, Row.before)
  /\ dirs' = IF Row.before = Absent THEN dirs ELSE dirs \cup {DirOf[Row.path]}
  /\ Continue("resyncing", at) /\ UNCHANGED <<lasting, lost, journalVars>>

\* Opening a directory that was never made raises FileNotFoundError.
SyncRestored ==
  /\ step = "resyncing"
  /\ IF DirOf[Row.path] \in dirs
     THEN Sync(DirOf[Row.path]) /\ Continue("restoring", at - 1)
     ELSE Raise /\ UNCHANGED <<may, mayJournal>>
  /\ UNCHANGED <<disk, dirVars, journal>>

EndRestore ==
  /\ step = "restoring" /\ ~MoreRows
  /\ Continue("removing", 0) /\ UNCHANGED <<diskVars, journalVars>>

\* shutil.rmtree unlinks the entries in the order the directory lists them.
RemoveEntry ==
  /\ step \in {"removing", "discarding"}
  /\ \/ \E t \in journal.backups :
          LET Drop(j) == [j EXCEPT !.backups = @ \ {t}] IN ChangeJournal(Drop)
     \/ /\ journal.record
        /\ LET Drop(j) == [j EXCEPT !.record = FALSE] IN ChangeJournal(Drop)
     \/ /\ journal.committed
        /\ LET Drop(j) == [j EXCEPT !.committed = FALSE] IN ChangeJournal(Drop)
  /\ Continue(step, at) /\ UNCHANGED diskVars

RemoveJournal ==
  /\ step \in {"removing", "discarding"}
  /\ journal.backups = {} /\ ~journal.record /\ ~journal.committed
  /\ journal' = NoJournal
  /\ mayJournal' = mayJournal \cup {NoJournal}
  /\ IF step = "removing" THEN Continue("removed", 0) ELSE Raise
  /\ UNCHANGED diskVars

\* Where recover_transaction() returns to: the commit it ends, the error it
\* follows, or the body of the lock.
Return == IF goal = "failed" THEN Raise ELSE End("inside", goal) /\ UNCHANGED count

\* Mutant of SyncRemoved: answered while the journal may still come back.
RemovedUnsynced ==
  /\ step = "removed"
  /\ Return /\ UNCHANGED <<diskVars, journalVars>>

SyncRemoved ==
  /\ step = "removed"
  /\ Sync(Root)
  /\ Return /\ UNCHANGED <<disk, dirVars, journal>>

-----------------------------------------------------------------------------
\* What may go wrong.

\* The file operation of this step raises.  An unprepared journal is discarded,
\* a prepared one recovered, and an error of the recovery itself goes up.
Fault ==
  /\ count.faults < MaxFaults /\ step \in Faulty
  /\ count' = [count EXCEPT !.faults = @ + 1]
  /\ IF step \in PrepareSteps \cup CommitSteps
     THEN /\ step' = IF step \in PrepareSteps THEN "discarding" ELSE "checking"
          /\ goal' = "failed" /\ UNCHANGED <<at, answer>>
     ELSE End("unlocked", "failed")
  /\ UNCHANGED <<diskVars, journalVars>>

\* The caller of an interrupted commit is never answered.
Stop(kind) ==
  /\ step \in Fragile
  /\ step' = "unlocked" /\ at' = 0 /\ goal' = "body"
  /\ answer' = IF answer.result = "pending" THEN [answer EXCEPT !.result = "none"] ELSE answer
  /\ count' = [count EXCEPT ![kind] = @ + 1]

\* The process that holds the lock dies; the operating system frees the lock.
Crash ==
  /\ count.crashes < MaxCrashes
  /\ Stop("crashes") /\ UNCHANGED <<diskVars, journalVars>>

\* What a power loss that takes the directories "gone" takes of durable originals.
Torn(gone) == {f \in File : DirOf[f] \in gone /\ Absent \notin may[f]}

\* The machine stops.  What nobody synced may be gone, and so may a directory whose
\* own entry nobody synced, with everything in it.
Outage ==
  /\ count.outages < MaxOutages
  /\ Stop("outages")
  /\ \E gone \in SUBSET (dirs \ lasting) :
       /\ disk' \in {d \in [Target -> UNION {may[t] : t \in Target} \cup {Absent}] :
                       \A t \in Target : IF DirOf[t] \in gone THEN d[t] = Absent
                                         ELSE d[t] \in may[t]}
       /\ dirs' = dirs \ gone
       /\ lost' = (lost \/ \E f \in Torn(gone) : Registered(f)' # Absent)
  /\ lasting' = dirs'
  /\ may' = [t \in Target |-> {disk'[t]}]
  /\ journal' \in mayJournal
  /\ mayJournal' = {journal'}

-----------------------------------------------------------------------------

Work == \/ Leave \/ PrepareRow \/ PublishRecord \/ SyncPrepared
        \/ MakeDirectory \/ ReplaceRow \/ SyncRow \/ PublishCommitted \/ SyncCommitted
        \/ CheckJournal \/ RestoreRow \/ SyncRestored \/ EndRestore
        \/ RemoveEntry \/ RemoveJournal \/ SyncRemoved

Next == EnterClean \/ EnterRecover \/ Begin \/ Work \/ Fault \/ Crash \/ Outage

Spec == Init /\ [][Next]_vars

\* File operations return or raise, and the operator retries an acquisition
\* while a publication is pending.
FairSpec == Spec /\ WF_vars(Work) /\ WF_vars(EnterRecover)

-----------------------------------------------------------------------------
\* Properties.

Rowset(j) == {j.rows[i] : i \in DOMAIN j.rows}

TypeOK ==
  /\ DOMAIN disk = Target /\ DOMAIN may = Target
  /\ \A t \in Target : disk[t] \in may[t]
  /\ disk[Manifest] \in Contents \cup {Absent}
  /\ \A f \in File : disk[f] \in Version \cup {Absent}
  /\ \A f \in File : disk[f] # Absent => DirOf[f] \in dirs
  /\ journal \in mayJournal
  /\ step \in Steps /\ goal \in {"body", "published", "failed"}
  /\ answer.result \in {"none", "pending", "published", "failed"}
  /\ step \in PrepareSteps \cup CommitSteps \cup (RecoverySteps \ {"removed"}) \cup {"discarding"}
       => journal # NoJournal

Agree == \A f \in File : disk[f] = Registered(f)

\* Whoever reads without the lock finds a catalog that matches every original, or
\* the catalog from before a transaction whose journal can still undo it: never a
\* catalog that is ahead of the bytes it registers, unless a power loss took an
\* original with the new directory it was published in.
CatalogNeverAhead ==
  lost \/ Agree
  \/ /\ journal # NoJournal /\ journal.record
     /\ \E row \in Rowset(journal) : row.path = Manifest /\ disk[Manifest] = row.before

\* No operation ever raised and no process died, or the machine never stopped.
OneKind == count.outages = 0 \/ count.faults + count.crashes = 0

\* Neither raising operations and dying processes nor power losses make a recorded
\* journal blame the sources: "Source changed during recovery" and "Committed source
\* files changed" stay reserved to foreign changes.  Not promised once a power loss
\* took a new directory with its original, nor when it met failures of the other kinds.
EvidenceHolds ==
  ~lost /\ OneKind /\ journal # NoJournal /\ journal.record =>
    /\ \A row \in Rowset(journal) : disk[row.path] \in {row.before, row.after}
    /\ journal.committed => Finished(journal)

\* "Make rename ordering durable before advancing the transaction journal"
\* (_sync_directory): once the marker is there, the originals and the catalog that
\* the transaction brought are, also after a power loss.
RenamesAreDurable == journal # NoJournal /\ journal.committed => Finished(journal)

\* A publication that was answered survives every crash, and every power loss that
\* leaves the directories it was published in, until the next transaction begins.
PublishedIsKept == ~lost /\ answer.result = "published" => disk = answer.after

\* Every interrupted publication is resolved by the acquisitions that follow.
PublicationSettles == journal # NoJournal ~> journal = NoJournal

\* Originals and catalog as a recovery would leave them.
Recovered ==
  IF journal # NoJournal /\ journal.record
  THEN IF journal.committed THEN After(journal.rows) ELSE Before(journal.rows)
  ELSE disk

\* A journal whose recovery would leave the disk as it is.
Harmless(j) ==
  j = NoJournal \/ (Before(j.rows) = disk /\ (j.committed => After(j.rows) = disk))

\* The two ends of the transaction whose journal may still change the sources.
Ends ==
  LET open == {j \in mayJournal : ~Harmless(j)}
  IN IF open = {} THEN NoJournal
     ELSE LET rows == (CHOOSE j \in open : TRUE).rows IN {Before(rows), After(rows)}

Atomic == INSTANCE AtomicSources WITH content <- Recovered, pending <- Ends, torn <- lost,
                                      Nothing <- NoJournal

\* Originals and catalog only ever change together, and only by a transaction, until
\* a power loss takes an original with the new directory it was published in.
AtomicSpec == Atomic!Spec

=============================================================================
