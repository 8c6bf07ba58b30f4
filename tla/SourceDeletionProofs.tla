------------------------ MODULE SourceDeletionProofs ------------------------
(***************************************************************************)
(* A deletion does what one preview showed, for any number of filings,     *)
(* versions, previews, publications, edits and failures.                   *)
(***************************************************************************)
EXTENDS SourceDeletion, TLAPS

Contents == [Filing -> Version \cup {Absent}]

ContentType == [known : SUBSET Filing, registered : Contents, file : Contents]

TypeInv ==
  /\ content \in ContentType
  /\ count \in [previews : Nat, pins : Nat, edits : Nat, faults : Nat]
  /\ applied \subseteq 1..count.previews

\* What a plan was, told by its digest alone.
PlanOf(digest) ==
  [registered |-> Restrict(digest[5], {f \in digest[1] : digest[5][f] # Absent}),
   file |-> Restrict(digest[7], digest[3])]

Issue(a) ==
  /\ a = [token |-> a.token, documents |-> a.documents, digest |-> a.digest, plan |-> a.plan,
          expires |-> a.expires, reserved |-> a.reserved]
  /\ a.token \in 1..count.previews /\ a.token \notin applied
  /\ a.plan = PlanOf(a.digest)

\* A token is good for one approval, which the requests, the job or a commit holds.
ApprovalInv ==
  \A t \in DOMAIN approvals : approvals[t].token = t /\ Issue(approvals[t])

RunningInv ==
  running # None => Issue(running) /\ running.token \notin DOMAIN approvals

\* An end of a transaction keeps what past inputs name,
PastInputsKept(c) == \A f \in Retained : content.file[f] \in {Absent, c.file[f]}

\* and either loses nothing or does exactly what was shown.
NothingLost(c) ==
  \A f \in Filing : /\ content.file[f] # Absent => c.file[f] # Absent
                    /\ content.registered[f] # Absent => c.registered[f] # Absent
AsShown(c, plan) ==
  /\ plan.file = Restrict(content.file, DOMAIN plan.file)
  /\ plan.registered = Restrict(content.registered, DOMAIN plan.registered)
  /\ c.file = Emptied(content.file, DOMAIN plan.file)
  /\ c.registered = Emptied(content.registered, DOMAIN plan.registered)

CommitInv ==
  transaction # None =>
    LET by == transaction.by IN
    /\ transaction = [ends |-> transaction.ends, by |-> by, held |-> transaction.held]
    /\ \A c \in transaction.ends :
         /\ c \in ContentType
         /\ PastInputsKept(c)
         /\ NothingLost(c) \/ (by # None /\ AsShown(c, by.plan))
    /\ by # None =>
         /\ by.token \in 1..count.previews
         /\ by.token \notin applied \cup DOMAIN approvals
         /\ IF transaction.held THEN running = by
            ELSE running # None => running.token # by.token

IInv == TypeInv /\ ApprovalInv /\ RunningInv /\ CommitInv

LEMMA InitEstablishes == Init => IInv
  <1> SUFFICES ASSUME Init PROVE IInv
    OBVIOUS
  <1>1. TypeInv
    <2>1. PICK registered \in [Filing -> Version \cup {Absent}] :
            content = [known |-> {f \in Filing : registered[f] # Absent},
                       registered |-> registered, file |-> registered]
      BY DEF Init
    <2> QED  BY <2>1 DEF Init, TypeInv, ContentType, Contents
  <1>2. ApprovalInv
    BY DEF Init, ApprovalInv
  <1>3. RunningInv /\ CommitInv
    BY DEF Init, RunningInv, CommitInv
  <1> QED  BY <1>1, <1>2, <1>3 DEF IInv

\* The digest of a plan determines it: what the confirmation compares is what the preview
\* showed, byte for byte.
LEMMA DigestFixesPlan ==
  ASSUME NEW documents, NEW digest, Digest(documents) = digest
  PROVE  PlanOf(digest) = Plan(documents)
  <1>1. /\ digest[1] = documents /\ digest[3] = Removed(documents)
        /\ digest[5] = content.registered /\ digest[7] = Evidence(documents)
    BY DEF Digest
  <1>2. Removed(documents) \subseteq Targets(documents)
    BY DEF Removed, Present
  <1>3. Restrict(Evidence(documents), Removed(documents)) = Restrict(content.file, Removed(documents))
    BY <1>2 DEF Evidence, Restrict
  <1> QED  BY <1>1, <1>3 DEF PlanOf, Plan, Targets

-----------------------------------------------------------------------------
\* Requests.

LEMMA PreviewPreserves ==
  ASSUME IInv, NEW documents, NEW now, Preview(documents, now)
  PROVE  IInv'
  <1> USE DEF IInv
  <1>1. count.previews \in Nat /\ transaction = None /\ transaction' = None
    BY DEF Preview, MayEnter, TypeInv, corpusVars
  <1>0. PICK token \in Nat : token = count.previews + 1
    BY <1>1
  <1>2. CASE approvals' = Unexpired(now) /\ UNCHANGED count
    <2>1. /\ DOMAIN approvals' \subseteq DOMAIN approvals
          /\ \A t \in DOMAIN approvals' : approvals'[t] = approvals[t]
      BY <1>2 DEF Unexpired, Restrict
    <2> QED
      BY <1>1, <1>2, <2>1
      DEF Preview, corpusVars, TypeInv, ApprovalInv, RunningInv, CommitInv, Issue
  <1>3. CASE Count("previews") /\ approvals' = Issued(count'.previews, documents, now)
    <2>1. TypeInv' /\ count'.previews = token
      BY <1>0, <1>3 DEF Count, TypeInv, Preview, corpusVars
    <2>2. /\ DOMAIN approvals' \subseteq DOMAIN approvals \cup {token}
          /\ \A t \in DOMAIN approvals' \ {token} : approvals'[t] = approvals[t]
          /\ approvals'[token] = Approval(token, documents, now + Lifetime)
      BY <1>3, <2>1 DEF Issued, Unexpired, Restrict
    <2>3. ApprovalInv'
      <3>1. ASSUME NEW t \in DOMAIN approvals', t # token
            PROVE  approvals'[t].token = t /\ Issue(approvals[t])'
        BY <1>0, <1>1, <2>1, <2>2, <3>1 DEF ApprovalInv, Issue, Preview
      <3>2. Digest(documents) = Approval(token, documents, now + Lifetime).digest
        BY DEF Approval
      <3>3. PlanOf(Approval(token, documents, now + Lifetime).digest) = Plan(documents)
        BY <3>2, DigestFixesPlan
      <3>4. token \in 1..count'.previews /\ token \notin applied'
        BY <1>0, <1>1, <2>1 DEF TypeInv, Preview
      <3>5. approvals'[token].token = token /\ Issue(approvals[token])'
        BY <2>2, <3>3, <3>4 DEF Issue, Approval
      <3> QED  BY <2>2, <3>1, <3>5 DEF ApprovalInv
    <2>4. RunningInv'
      BY <1>0, <1>1, <2>1, <2>2 DEF RunningInv, Issue, Preview
    <2> QED  BY <1>1, <2>1, <2>3, <2>4 DEF CommitInv
  <1> QED  BY <1>2, <1>3 DEF Preview

LEMMA ConfirmPreserves ==
  ASSUME IInv, NEW t, NEW now, Confirm(t, now)
  PROVE  IInv'
  <1>1. /\ DOMAIN approvals' = DOMAIN approvals
        /\ \A u \in DOMAIN approvals : /\ approvals'[u].token = approvals[u].token
                                       /\ approvals'[u].plan = approvals[u].plan
                                       /\ approvals'[u].digest = approvals[u].digest
    BY DEF Confirm, Reservable, IInv, ApprovalInv, Issue
  <1>2. ASSUME NEW u \in DOMAIN approvals
        PROVE  Issue(approvals[u])'
    <2>1. Issue(approvals[u]) /\ applied' = applied /\ count' = count
      BY DEF Confirm, IInv, ApprovalInv
    <2>2. CASE u # t
      BY <2>1, <2>2 DEF Confirm, Issue
    <2>3. CASE u = t
      <3>1. approvals'[t] = [approvals[t] EXCEPT !.reserved = TRUE]
        BY <2>3 DEF Confirm
      <3>2. approvals'[t] = [token |-> approvals[t].token, documents |-> approvals[t].documents,
                             digest |-> approvals[t].digest, plan |-> approvals[t].plan,
                             expires |-> approvals[t].expires, reserved |-> TRUE]
        BY <3>1, <2>1, <2>3 DEF Issue
      <3> QED  BY <3>2, <2>1, <2>3 DEF Issue
    <2> QED  BY <2>2, <2>3
  <1>3. ApprovalInv'
    BY <1>1, <1>2 DEF IInv, ApprovalInv
  <1>4. RunningInv'
    BY <1>1 DEF Confirm, IInv, RunningInv, Issue
  <1>5. CommitInv'
    BY <1>1 DEF Confirm, corpusVars, IInv, CommitInv, PastInputsKept, Retained, NothingLost,
                AsShown, Emptied, ContentType
  <1> QED  BY <1>3, <1>4, <1>5 DEF Confirm, corpusVars, IInv, TypeInv

LEMMA AbandonPreserves ==
  ASSUME IInv, NEW t, Abandon(t)
  PROVE  IInv'
  BY DEF Abandon, corpusVars, IInv, TypeInv, ApprovalInv, RunningInv, CommitInv, Issue,
         PastInputsKept, Retained, NothingLost, AsShown, Emptied

\* Nothing is unresolved, so new inputs and edited files are nobody's end.
LEMMA PinPreserves ==
  ASSUME IInv, NEW documents, Pin(documents)
  PROVE  IInv'
  <1>1. /\ transaction = None /\ transaction' = None
        /\ count'.previews = count.previews /\ TypeInv'
    BY DEF Pin, MayEnter, Happens, Count, serviceVars, IInv, TypeInv
  <1> QED
    BY <1>1 DEF Pin, serviceVars, IInv, ApprovalInv, RunningInv, CommitInv, Issue

LEMMA EditPreserves ==
  ASSUME IInv, NEW f \in Filing, NEW bytes \in Version \cup {Absent}, Edit(f, bytes)
  PROVE  IInv'
  <1>1. /\ transaction = None /\ transaction' = None
        /\ count'.previews = count.previews /\ TypeInv'
    BY DEF Edit, MayEnter, Happens, Count, serviceVars, IInv, TypeInv, ContentType, Contents
  <1> QED
    BY <1>1 DEF Edit, serviceVars, IInv, ApprovalInv, RunningInv, CommitInv, Issue

-----------------------------------------------------------------------------
\* The job.

LEMMA TakePreserves ==
  ASSUME IInv, NEW now, Take(now)
  PROVE  IInv'
  <1> USE DEF IInv
  <1>1. PICK t : /\ approvals' = Without(approvals, {t})
                 /\ running' = IF Valid(t, now) THEN approvals[t] ELSE None
    BY DEF Take
  <1>2. /\ DOMAIN approvals' = DOMAIN approvals \ {t}
        /\ \A u \in DOMAIN approvals' : approvals'[u] = approvals[u]
    BY <1>1 DEF Without, Restrict
  <1>3. /\ running = None
        /\ UNCHANGED <<content, transaction, inputs, applied, count>>
    BY DEF Take, corpusVars
  <1>4. TypeInv' /\ ApprovalInv'
    BY <1>2, <1>3 DEF TypeInv, ApprovalInv, Issue
  <1>5. running' # None => running'.token = t /\ t \in DOMAIN approvals /\ running' = approvals[t]
    BY <1>1 DEF Valid, ApprovalInv
  <1>6. RunningInv'
    BY <1>2, <1>3, <1>5 DEF RunningInv, ApprovalInv, Issue
  <1>7. CommitInv'
    BY <1>2, <1>3, <1>5
    DEF CommitInv, PastInputsKept, Retained, NothingLost, AsShown, Emptied
  <1> QED  BY <1>4, <1>6, <1>7

LEMMA RefusePreserves ==
  ASSUME IInv, Refuse
  PROVE  IInv'
  BY DEF Refuse, LockIsFree, corpusVars, IInv, TypeInv, ApprovalInv, RunningInv, CommitInv, Issue,
         PastInputsKept, Retained, NothingLost, AsShown, Emptied

LEMMA RestartPreserves ==
  ASSUME IInv, Restart
  PROVE  IInv'
  <1> USE DEF IInv
  <1>1. /\ DOMAIN approvals' = {} /\ running' = None
        /\ count'.previews = count.previews /\ TypeInv'
        /\ UNCHANGED <<content, inputs, applied>>
    BY DEF Restart, Happens, Count, TypeInv
  <1>2. ApprovalInv' /\ RunningInv'
    BY <1>1 DEF ApprovalInv, RunningInv
  <1>3. CASE ~LockIsFree /\ transaction.by # None
    <2>1. transaction' = [ends |-> transaction.ends, by |-> transaction.by, held |-> FALSE]
      BY <1>3 DEF Restart, LockIsFree, CommitInv
    <2>2. CommitInv'
      BY <1>1, <1>3, <2>1 DEF LockIsFree, CommitInv, PastInputsKept, Retained, NothingLost,
                              AsShown, Emptied
    <2> QED  BY <1>1, <1>2, <2>2
  <1>4. CASE ~(~LockIsFree /\ transaction.by # None)
    <2>1. transaction' = transaction
      BY <1>4 DEF Restart
    <2>2. CommitInv'
      BY <1>1, <1>4, <2>1 DEF LockIsFree, CommitInv, PastInputsKept, Retained, NothingLost,
                              AsShown, Emptied
    <2> QED  BY <1>1, <1>2, <2>2
  <1> QED  BY <1>3, <1>4

-----------------------------------------------------------------------------
\* Transactions.

LEMMA DeletePreserves ==
  ASSUME IInv, Delete
  PROVE  IInv'
  <1> DEFINE documents == running.documents
             after == Deleted(documents)
  <1> USE DEF IInv
  <1>1. /\ running # None /\ transaction = None
        /\ transaction' = [ends |-> {content, after}, by |-> running, held |-> TRUE]
        /\ UNCHANGED <<content, inputs, approvals, running, applied, count>>
    BY DEF Delete, MayEnter, BeginCommit, serviceVars
  <1>2. TypeInv' /\ ApprovalInv' /\ RunningInv'
    BY <1>1 DEF TypeInv, ApprovalInv, RunningInv, Issue
  <1>3. content \in ContentType /\ content.file \in Contents /\ content.registered \in Contents
    BY DEF TypeInv, ContentType
  <1>4. /\ after \in ContentType
        /\ after.file = [f \in Filing |-> IF f \in Removed(documents) THEN Absent
                                          ELSE content.file[f]]
        /\ after.registered = [f \in Filing |-> IF f \in documents THEN Absent
                                                ELSE content.registered[f]]
    BY <1>3 DEF Deleted, ContentType, Contents
  <1>5. running.plan = Plan(documents)
    BY <1>1, DigestFixesPlan DEF Delete, Unchanged, RunningInv, Issue
  <1>6. AsShown(after, running.plan)
    <2>1. /\ DOMAIN running.plan.file = Removed(documents)
          /\ DOMAIN running.plan.registered = Targets(documents)
          /\ running.plan.file = Restrict(content.file, Removed(documents))
          /\ running.plan.registered = Restrict(content.registered, Targets(documents))
      BY <1>5 DEF Plan, Restrict
    <2>2. after.file = Emptied(content.file, Removed(documents))
      BY <1>3, <1>4 DEF Emptied, Contents
    <2>3. after.registered = Emptied(content.registered, Targets(documents))
      BY <1>3, <1>4 DEF Emptied, Contents, Targets
    <2> QED  BY <2>1, <2>2, <2>3 DEF AsShown
  <1>7. PastInputsKept(after)
    BY <1>3, <1>4 DEF PastInputsKept, Removed, References, Retained
  <1>8. CommitInv'
    <2>1. /\ content' \in ContentType /\ PastInputsKept(content)' /\ NothingLost(content)'
      BY <1>1, <1>3 DEF PastInputsKept, NothingLost
    <2> QED
      BY <1>1, <1>4, <1>6, <1>7, <2>1
      DEF CommitInv, PastInputsKept, Retained, AsShown, Emptied, RunningInv, Issue
  <1> QED  BY <1>2, <1>8

LEMMA PublishPreserves ==
  ASSUME IInv, NEW acquired \in Acquisitions, Publish(acquired)
  PROVE  IInv'
  <1> DEFINE after == [known |-> content.known \cup DOMAIN acquired,
                       registered |-> Replaced(content.registered, acquired),
                       file |-> Replaced(content.file, acquired)]
  <1> USE DEF IInv
  <1>1. /\ transaction = None
        /\ transaction' = [ends |-> {content, after}, by |-> None, held |-> TRUE]
        /\ UNCHANGED <<content, inputs, approvals, running, applied, count>>
    BY DEF Publish, MayEnter, BeginCommit, serviceVars
  <1>2. TypeInv' /\ ApprovalInv' /\ RunningInv'
    BY <1>1 DEF TypeInv, ApprovalInv, RunningInv, Issue
  <1>3. content \in ContentType /\ content.file \in Contents /\ content.registered \in Contents
    BY DEF TypeInv, ContentType
  <1>4. PICK S \in SUBSET Filing : acquired \in [S -> Version]
    BY DEF Acquisitions
  <1>5. after \in ContentType
    BY <1>3, <1>4 DEF Replaced, ContentType, Contents
  <1>6. PastInputsKept(after)
    BY <1>3, <1>4 DEF Publish, PastInputsKept, Retained, Replaced
  <1>7. NothingLost(after)
    BY <1>3, <1>4, DeletionAssumption DEF NothingLost, Replaced, DeletionAssumption
  <1>8. CommitInv'
    <2>1. PastInputsKept(content) /\ NothingLost(content)
      BY DEF PastInputsKept, NothingLost
    <2> QED
      BY <1>1, <1>3, <1>5, <1>6, <1>7, <2>1
      DEF CommitInv, PastInputsKept, Retained, NothingLost
  <1> QED  BY <1>2, <1>8

LEMMA BreakCommitPreserves ==
  ASSUME IInv, BreakCommit
  PROVE  IInv'
  <1> USE DEF IInv
  <1>1. /\ transaction # None /\ transaction.held
        /\ transaction' = [ends |-> transaction.ends, by |-> transaction.by, held |-> FALSE]
        /\ running' = IF transaction.by = None THEN running ELSE None
        /\ UNCHANGED <<content, inputs, approvals, applied>>
    BY DEF BreakCommit, LockIsFree, CommitInv
  <1>2. count'.previews = count.previews /\ TypeInv'
    BY <1>1 DEF BreakCommit, Happens, Count, TypeInv
  <1>3. ApprovalInv' /\ RunningInv'
    BY <1>1, <1>2 DEF ApprovalInv, RunningInv, Issue
  <1>4. CommitInv'
    BY <1>1, <1>2 DEF CommitInv, PastInputsKept, Retained, NothingLost, AsShown, Emptied
  <1> QED  BY <1>2, <1>3, <1>4

\* A deletion that takes effect is marked applied; nobody else has its token.
LEMMA ResolvePreserves ==
  ASSUME IInv, transaction # None, Resolve, UNCHANGED <<inputs, approvals, count>>,
         running' = running \/ running' = None,
         transaction.by # None /\ transaction.held => running' = None
  PROVE  IInv'
  <1> USE DEF IInv
  <1>1. content' \in ContentType /\ transaction' = None
    BY DEF Resolve, CommitInv
  <1>2. applied' = applied \/ (transaction.by # None /\ applied' = applied \cup {transaction.by.token})
    BY DEF Resolve
  <1>3. TypeInv'
    BY <1>1, <1>2 DEF TypeInv, CommitInv
  <1>4. ApprovalInv'
    BY <1>2 DEF ApprovalInv, CommitInv, Issue
  <1>5. RunningInv'
    BY <1>2 DEF RunningInv, CommitInv, Issue
  <1> QED  BY <1>1, <1>3, <1>4, <1>5 DEF CommitInv

LEMMA EndCommitPreserves == IInv /\ EndCommit => IInv'
  BY ResolvePreserves DEF EndCommit, LockIsFree

LEMMA RecoverPreserves == IInv /\ Recover => IInv'
  BY ResolvePreserves DEF Recover, LockIsFree, serviceVars

LEMMA NextPreserves == IInv /\ [Next]_vars => IInv'
  <1> SUFFICES ASSUME IInv, [Next]_vars PROVE IInv'
    OBVIOUS
  <1>1. CASE UNCHANGED vars
    BY <1>1 DEF vars, corpusVars, serviceVars, IInv, TypeInv, ApprovalInv, RunningInv, CommitInv,
                Issue, PastInputsKept, Retained, NothingLost, AsShown, Emptied
  <1>2. CASE Next
    BY <1>2, PreviewPreserves, ConfirmPreserves, AbandonPreserves, PinPreserves, EditPreserves,
       TakePreserves, RefusePreserves, DeletePreserves, PublishPreserves, EndCommitPreserves,
       BreakCommitPreserves, RecoverPreserves, RestartPreserves DEF Next
  <1> QED  BY <1>1, <1>2

\* The types, what tokens are held by, and what the ends of a transaction may do, always hold.
THEOREM DeletionInvariant == Spec => []IInv
  BY InitEstablishes, NextPreserves, PTL DEF Spec

-----------------------------------------------------------------------------

\* Only the end of a transaction, or a hand, changes originals and registrations.
LEMMA ContentStays ==
  ASSUME Next, ~EndCommit, ~Recover, count'.edits = count.edits, IInv
  PROVE  content' = content
  <1>1. \A f \in Filing, bytes \in Version \cup {Absent} : ~Edit(f, bytes)
    BY DEF Edit, Happens, Count, IInv, TypeInv
  <1> QED
    BY <1>1 DEF Next, Preview, Pin, Abandon, Confirm, Take, Refuse, Delete, Publish, BreakCommit,
                Restart, corpusVars

\* What a step may do: keep everything past inputs name, and lose only what a preview showed.
LEMMA StepIsShown ==
  ASSUME IInv, [Next]_vars, count'.edits = count.edits
  PROVE  /\ \A f \in Retained : content.file[f] \in {Absent, content'.file[f]}
         /\ (\E f \in Filing : Lost(f) \/ Unregistered(f)) => IsShown
  <1>1. CASE content' = content
    BY <1>1 DEF Lost, Unregistered
  <1>2. CASE transaction # None /\ content' \in transaction.ends
    <2>1. PastInputsKept(content')
      BY <1>2 DEF IInv, CommitInv
    <2>2. CASE NothingLost(content')
      BY <2>1, <2>2 DEF PastInputsKept, NothingLost, Lost, Unregistered
    <2>3. CASE transaction.by # None /\ AsShown(content', transaction.by.plan)
      BY <1>2, <2>1, <2>3 DEF IInv, CommitInv, PastInputsKept, AsShown, IsShown
    <2> QED  BY <1>2, <2>2, <2>3 DEF IInv, CommitInv
  <1>3. CASE EndCommit \/ Recover
    BY <1>2, <1>3 DEF EndCommit, Recover, LockIsFree, Resolve
  <1>4. CASE UNCHANGED vars
    BY <1>1, <1>4 DEF vars, corpusVars
  <1> QED  BY <1>1, <1>3, <1>4, ContentStays

\* Originals and registrations disappear only as one preview showed them, once, and past
\* inputs keep their bytes: for any number of filings, previews and failures.
THEOREM OnlyPreviewedIsDeleted == Spec => OnlyShownIsDeleted
  <1>1. IInv /\ [Next]_vars =>
          [count'.edits = count.edits =>
             /\ \A f \in Retained : content.file[f] \in {Absent, content'.file[f]}
             /\ (\E f \in Filing : Lost(f) \/ Unregistered(f)) => IsShown]_vars
    BY StepIsShown
  <1> QED  BY <1>1, DeletionInvariant, PTL DEF Spec, OnlyShownIsDeleted

=============================================================================
