--------------------------- MODULE SourceDeletion ---------------------------
(***************************************************************************)
(* Confirmed deletion of original filings                                  *)
(* (app/ingestion/sources/deletion.py) beside the other users of the       *)
(* source lock: publications, input pinning, and whoever edits the files   *)
(* by hand.  A preview is bound to what it read by a digest; the job that  *)
(* deletes runs any time later.  A transaction under the lock is the       *)
(* AtomicSources that SourceTransaction implements: while it is unresolved *)
(* a recovery may still end it with either content.                        *)
(***************************************************************************)
EXTENDS Naturals, SequencesExt

CONSTANTS
  Filing,        \* official filings; the original of each has one fixed path
  Version,       \* bytes of an original
  Absent,        \* no file, or no registration
  None,          \* no transaction, no running deletion
  Lifetime,      \* how long a confirmation is valid (300 s)
  MaxApprovals,  \* previews that may be outstanding (128)
  MaxTime,       \* bound: largest clock reading
  MaxPreviews,   \* bound: previews issued in a behaviour
  MaxAcquired,   \* bound: filings that one acquisition brings
  MaxEvents      \* bound: pinned selections, edits, broken commits and restarts together

ASSUME DeletionAssumption ==
  /\ Absent \notin Version
  /\ {Lifetime, MaxApprovals, MaxTime, MaxPreviews, MaxAcquired, MaxEvents} \subseteq Nat

VARIABLES
  content,      \* documents the catalog knows, versions it registers, files
  transaction,  \* the two contents an unresolved commit may end with, the approval it
                \* acts on, and whether its process still holds the lock
  inputs,       \* retained manifests: the paths and versions they name
  approvals,    \* _approvals: token to approval
  queue,        \* tokens of the queued deletion jobs
  running,      \* the approval that execute() has taken, until it ends
  applied,      \* history: tokens whose deletion took effect
  count         \* counters of the bounds

corpusVars == <<content, transaction, inputs>>
serviceVars == <<approvals, queue, running>>
vars == <<corpusVars, serviceVars, applied, count>>

Token == 1..MaxPreviews
Without(f, S) == Restrict(f, DOMAIN f \ S)
Clock == 0..MaxTime  \* time.time(): the wall clock may be set either way between two readings

Unexpired(now) == Restrict(approvals, {t \in DOMAIN approvals : approvals[t].expires > now})

\* Earlier acquisitions; an older manifest may name some of the current paths.
Init ==
  /\ \E registered \in [Filing -> Version \cup {Absent}] :
       LET present == {f \in Filing : registered[f] # Absent} IN
       /\ content = [known |-> present, registered |-> registered, file |-> registered]
       /\ \E S \in SUBSET present :
            inputs = IF S = {} THEN {}
                     ELSE {[path |-> "current", names |-> Restrict(registered, S)]}
  /\ transaction = None
  /\ approvals = <<>> /\ queue = <<>> /\ running = None
  /\ applied = {}
  /\ count = [previews |-> 0, pins |-> 0, edits |-> 0, faults |-> 0]

Count(counter) == count' = [count EXCEPT ![counter] = @ + 1]
Happens(event) == count.pins + count.edits + count.faults < MaxEvents /\ Count(event)

-----------------------------------------------------------------------------
\* source_lock(): nobody is inside, and without recover=True nothing is unresolved.

LockIsFree == transaction # None => ~transaction.held
MayEnter == transaction = None

\* external_references(): current paths that retained manifests name.
Retained == {f \in Filing : \E m \in inputs : m.path = "current" /\ f \in DOMAIN m.names}

-----------------------------------------------------------------------------
\* _plan().

Targets(documents) == {f \in documents : content.registered[f] # Absent}
Present(documents) == {f \in Targets(documents) : content.file[f] # Absent}
References(documents) ==
  Retained \cup {f \in Filing \ Targets(documents) : content.registered[f] # Absent}
Removed(documents) == Present(documents) \ References(documents)

\* Mutant of Evidence: the catalog vouches for the files it registers.
EvidenceOfCatalog(documents) == Restrict(content.registered, Targets(documents))

\* The fingerprints of the files themselves.
Evidence(documents) == Restrict(content.file, Targets(documents))

\* The plan names the files and which are retained; the evidence fingerprints
\* the catalog, every retained manifest and the files.
Digest(documents) ==
  <<documents, Present(documents), Removed(documents),
    content.known, content.registered, inputs, Evidence(documents)>>

Plannable(documents) == documents # {} /\ documents \subseteq content.known

Deleted(documents) ==
  [content EXCEPT
     !.registered = [f \in Filing |-> IF f \in documents THEN Absent ELSE @[f]],
     !.file = [f \in Filing |-> IF f \in Removed(documents) THEN Absent ELSE @[f]]]

-----------------------------------------------------------------------------
\* Requests.

\* What the preview answers, with the bytes it speaks of.
Plan(documents) ==
  [registered |-> Restrict(content.registered, Targets(documents)),
   file |-> Restrict(content.file, Removed(documents))]

Approval(token, documents, expires) ==
  [token |-> token, documents |-> documents, digest |-> Digest(documents), plan |-> Plan(documents),
   expires |-> expires, reserved |-> FALSE]

Issued(token, documents, now) ==
  [t \in DOMAIN Unexpired(now) \cup {token} |->
     IF t = token THEN Approval(token, documents, now + Lifetime) ELSE approvals[t]]

\* Expired approvals are dropped first, also when there are too many others.
Preview(documents, now) ==
  /\ MayEnter /\ Plannable(documents)
  /\ IF Cardinality(DOMAIN Unexpired(now)) >= MaxApprovals
     THEN approvals' = Unexpired(now) /\ UNCHANGED count
     ELSE /\ count.previews < MaxPreviews /\ Count("previews")
          /\ approvals' = Issued(count'.previews, documents, now)
  /\ UNCHANGED <<corpusVars, queue, running, applied>>

\* reserve() accepts a confirmation once.
Reservable(t, now) ==
  t \in DOMAIN approvals /\ ~approvals[t].reserved /\ approvals[t].expires > now

\* enqueue() of a deletion: reserve(), then the job, unless its insert fails.
Confirm(t, now) ==
  /\ Reservable(t, now)
  /\ approvals' = [approvals EXCEPT ![t].reserved = TRUE]
  /\ queue' \in {queue, Append(queue, t)}
  /\ UNCHANGED <<corpusVars, running, applied, count>>

\* A queued job is cancelled, or fails before execute(): its confirmation is not given back.
Abandon(t) ==
  /\ t \in ToSet(queue)
  /\ queue' = SelectSeq(queue, LAMBDA u : u # t)
  /\ UNCHANGED <<corpusVars, approvals, running, applied, count>>

\* record_selection() pins copies of registered originals, below inputs/.
Pin(documents) ==
  /\ MayEnter /\ Plannable(documents)
  /\ \A f \in documents : content.registered[f] # Absent /\ content.file[f] = content.registered[f]
  /\ inputs' = inputs \cup
       {[path |-> "inputs", names |-> Restrict(content.registered, documents)]}
  /\ Happens("pins")
  /\ UNCHANGED <<content, transaction, serviceVars, applied>>

-----------------------------------------------------------------------------
\* execute(), in the job's turn.

Valid(t, now) == t \in DOMAIN approvals /\ approvals[t].reserved /\ approvals[t].expires > now

\* The approval is used up, whatever comes of it.
Take(now) ==
  /\ running = None /\ queue # <<>>
  /\ LET t == Head(queue) IN
       /\ approvals' = Without(approvals, {t})
       /\ running' = IF Valid(t, now) THEN approvals[t] ELSE None
  /\ queue' = Tail(queue)
  /\ UNCHANGED <<corpusVars, applied, count>>

Unchanged == Plannable(running.documents) /\ Digest(running.documents) = running.digest

Refuse ==
  /\ running # None /\ LockIsFree
  /\ transaction # None \/ ~Unchanged
  /\ running' = None
  /\ UNCHANGED <<corpusVars, approvals, queue, applied, count>>

BeginCommit(after, by) ==
  transaction' = [ends |-> {content, after}, by |-> by, held |-> TRUE]

Delete ==
  /\ running # None /\ MayEnter /\ Unchanged
  /\ BeginCommit(Deleted(running.documents), running)
  /\ UNCHANGED <<content, inputs, serviceVars, applied, count>>

-----------------------------------------------------------------------------
Acquisitions ==
  UNION {[S -> Version] : S \in {S \in SUBSET Filing : Cardinality(S) \in 1..MaxAcquired}}

Replaced(old, new) == [f \in Filing |-> IF f \in DOMAIN new THEN new[f] ELSE old[f]]

\* publish_acquired() with the filings one acquisition brings; a past input or
\* unregistered bytes at a path forbid other bytes.
Publish(acquired) ==
  /\ MayEnter
  /\ \A f \in DOMAIN acquired :
       f \in Retained \/ content.registered[f] = Absent =>
         content.file[f] \in {Absent, acquired[f]}
  /\ BeginCommit([known |-> content.known \cup DOMAIN acquired,
                  registered |-> Replaced(content.registered, acquired),
                  file |-> Replaced(content.file, acquired)], None)
  /\ UNCHANGED <<content, inputs, serviceVars, applied, count>>

-----------------------------------------------------------------------------
\* Ends of a transaction.

Resolve ==
  /\ content' \in transaction.ends
  /\ transaction' = None
  /\ applied' = IF content' # content /\ transaction.by # None
                THEN applied \cup {transaction.by.token} ELSE applied

\* commit_sources() returns, or raises with or without effect.
EndCommit ==
  /\ ~LockIsFree /\ Resolve
  /\ running' = IF transaction.by = None THEN running ELSE None
  /\ UNCHANGED <<inputs, approvals, queue, count>>

\* Its rollback fails too, or its process stops: the journal stays.
BreakCommit ==
  /\ ~LockIsFree
  /\ transaction' = [transaction EXCEPT !.held = FALSE]
  /\ running' = IF transaction.by = None THEN running ELSE None
  /\ Happens("faults")
  /\ UNCHANGED <<content, inputs, approvals, queue, applied>>

\* The next acquisition enters with recover=True.
Recover ==
  /\ transaction # None /\ LockIsFree /\ Resolve
  /\ UNCHANGED <<inputs, serviceVars, count>>

\* A new service knows no approval and runs no job of the one before.
Restart ==
  /\ approvals' = <<>> /\ queue' = <<>> /\ running' = None
  /\ transaction' = IF ~LockIsFree /\ transaction.by # None
                    THEN [transaction EXCEPT !.held = FALSE] ELSE transaction
  /\ Happens("faults")
  /\ UNCHANGED <<content, inputs, applied>>

-----------------------------------------------------------------------------
\* The world around.

Edit(f, bytes) ==
  /\ MayEnter
  /\ content' = [content EXCEPT !.file[f] = bytes]
  /\ Happens("edits")
  /\ UNCHANGED <<transaction, inputs, serviceVars, applied>>

Next ==
  \/ \E documents \in SUBSET Filing :
       Pin(documents) \/ \E now \in Clock : Preview(documents, now)
  \/ \E t \in Token : Abandon(t) \/ \E now \in Clock : Confirm(t, now)
  \/ \E now \in Clock : Take(now)
  \/ Refuse \/ Delete
  \/ \E acquired \in Acquisitions : Publish(acquired)
  \/ EndCommit \/ BreakCommit \/ Recover \/ Restart
  \/ \E f \in Filing, bytes \in Version \cup {Absent} : Edit(f, bytes)

Spec == Init /\ [][Next]_vars

-----------------------------------------------------------------------------

Lost(f) == content.file[f] # Absent /\ content'.file[f] = Absent
Unregistered(f) == content.registered[f] # Absent /\ content'.registered[f] = Absent
Emptied(f, S) == [x \in DOMAIN f |-> IF x \in S THEN Absent ELSE f[x]]

\* The step does what the preview of its transaction showed, to the same bytes and to
\* nothing else, and no step has done it before.
IsShown ==
  /\ transaction # None /\ transaction.by # None
  /\ transaction.by.token \notin applied
  /\ LET plan == transaction.by.plan IN
       /\ plan.file = Restrict(content.file, DOMAIN plan.file)
       /\ plan.registered = Restrict(content.registered, DOMAIN plan.registered)
       /\ content'.file = Emptied(content.file, DOMAIN plan.file)
       /\ content'.registered = Emptied(content.registered, DOMAIN plan.registered)

\* However much later the job runs, and whatever was published, pinned, edited, interrupted,
\* recovered or restarted since the preview: original files and registrations disappear only
\* as one preview showed them, all together and once. A past input's path keeps its bytes
\* under every publication and deletion.
OnlyShownIsDeleted ==
  [][count'.edits = count.edits =>
       /\ \A f \in Retained : content.file[f] \in {Absent, content'.file[f]}
       /\ (\E f \in Filing : Lost(f) \/ Unregistered(f)) => IsShown]_vars

=============================================================================
