----------------------- MODULE SourceTransactionProofs -----------------------
(***************************************************************************)
(* What holds of originals, catalog and journal for any number of files,   *)
(* transactions, raising operations, dying processes and power losses, as  *)
(* long as no power loss takes an original together with a new directory   *)
(* whose own entry no fsync has made durable.                              *)
(***************************************************************************)
EXTENDS SourceTransaction, FiniteSetTheorems, SequenceTheorems, TLAPS

-----------------------------------------------------------------------------
(* The rows of a transaction. *)

Reg(m, f) == IF m = Absent THEN Absent ELSE m[f]

\* The row of the catalog.
Entry(rows) == rows[Len(rows)]

\* One row for each changed path, the catalog's the last: it registers what the
\* rows of the originals bring, and leaves the other paths as they were.
RowsOK(rows) ==
  /\ Len(rows) > 0
  /\ Entry(rows).path = Manifest
  /\ Entry(rows).before \in Contents \cup {Absent} /\ Entry(rows).after \in Contents
  /\ \A i \in 1 .. Len(rows) - 1 :
       /\ rows[i].path \in File
       /\ rows[i].before = Reg(Entry(rows).before, rows[i].path)
       /\ rows[i].after = Entry(rows).after[rows[i].path]
  /\ \A i, k \in 1 .. Len(rows) : i # k => rows[i].path # rows[k].path
  /\ \A f \in File \ Paths(rows) : Entry(rows).after[f] = Reg(Entry(rows).before, f)

JournalOK(j) == j \in Journals /\ RowsOK(j.rows)

-----------------------------------------------------------------------------
(* The invariant. *)

Left == mayJournal \ {NoJournal}

DataTypes ==
  /\ disk \in [Target -> Bytes] /\ may \in [Target -> SUBSET Bytes]
  /\ \A t \in Target : disk[t] \in may[t]
  /\ may[Manifest] \subseteq Contents \cup {Absent}
  /\ \A f \in File : may[f] \subseteq Version \cup {Absent}
  /\ journal \in mayJournal /\ \A j \in Left : JournalOK(j)
ControlTypes ==
  /\ step \in Steps /\ at \in Nat /\ goal \in {"body", "published", "failed"}
  /\ answer \in [result : {"none", "pending", "published", "failed"},
                 before : [Target -> Bytes], after : [Target -> Bytes]]
  /\ count \in [started : Nat, faults : Nat, crashes : Nat, outages : Nat]
TypeInv == DataTypes /\ ControlTypes

Settled == \A t \in Target : may[t] = {disk[t]}

AtBefore(rows) == \A i \in 1 .. Len(rows) : disk[rows[i].path] = rows[i].before
AtAfter(rows) == \A i \in 1 .. Len(rows) : disk[rows[i].path] = rows[i].after

\* Nothing is under way: whatever journal a power loss may bring back, the sources
\* are at one of its ends.
Resting ==
  /\ Settled /\ Agree
  /\ \A j \in Left : AtBefore(j.rows) \/ AtAfter(j.rows)

\* Every path is between the ends of the rows, and the catalog only leaves its
\* prior bytes while all originals have their new ones for good.
Between(rows) ==
  /\ \A f \in File \ Paths(rows) : may[f] = {Entry(rows).after[f]}
  /\ \A i \in 1 .. Len(rows) : may[rows[i].path] \subseteq {rows[i].before, rows[i].after}
  /\ \/ may[Manifest] = {Entry(rows).before}
     \/ \A i \in 1 .. Len(rows) - 1 : may[rows[i].path] = {rows[i].after}

\* The journal is recorded for good, and no other may come back.
Owned == \A j \in mayJournal : j # NoJournal /\ j.record /\ j.rows = journal.rows
Opened == Owned /\ Between(journal.rows)

CoreInv ==
  IF journal = NoJournal \/ ~journal.record THEN Resting
  ELSE Opened \/ (Resting /\ AtBefore(journal.rows))

\* Committed at most when nothing is left to the page cache.
CommittedInv == journal # NoJournal /\ journal.committed => Settled

\* Rows before the current one have their new bytes, rows after it the prior ones.
Applied ==
  \A i \in 1 .. Len(journal.rows) :
    /\ i < at => may[journal.rows[i].path] = {journal.rows[i].after}
    /\ i > at => may[journal.rows[i].path] = {journal.rows[i].before}
Restored ==
  \A i \in 1 .. Len(journal.rows) :
    i > at => may[journal.rows[i].path] = {journal.rows[i].before}

PrepareInv ==
  step \in PrepareSteps =>
    /\ ~journal.committed /\ Resting /\ AtBefore(journal.rows)
    /\ at >= 1
    /\ step = "recorded" => journal.record /\ at = 1
    /\ step = "preparing" => ~journal.record
ApplyInv ==
  step \in {"applying", "replacing", "syncing"} =>
    /\ journal.record /\ ~journal.committed /\ Opened /\ Applied
    /\ at \in 1 .. Len(journal.rows) + 1
    /\ step # "applying" => at <= Len(journal.rows)
    /\ step # "syncing" /\ at <= Len(journal.rows) =>
         may[Row.path] = {Row.before}
    /\ step = "syncing" => disk[Row.path] = Row.after
CommitInv ==
  step = "committed" =>
    /\ journal.record /\ journal.committed
    /\ Opened /\ Resting /\ AtAfter(journal.rows)
RestoreInv ==
  step \in {"restoring", "resyncing"} =>
    /\ journal.record /\ ~journal.committed /\ Restored
    /\ at \in 0 .. Len(journal.rows)
    /\ step = "resyncing" => at >= 1 /\ disk[Row.path] = Row.before
RemoveInv ==
  /\ step \in {"inside", "removed"} => journal = NoJournal
  /\ step \in Operations \ {"removed"} => journal # NoJournal
  /\ step \in {"removing", "discarding"} => Resting
  /\ step = "discarding" => AtBefore(journal.rows)

StepInv == PrepareInv /\ ApplyInv /\ CommitInv /\ RestoreInv /\ RemoveInv

SourcesInv == TypeInv /\ CoreInv /\ CommittedInv /\ StepInv

\* The root is there for good.
DirsInv == Root \in lasting /\ lasting \subseteq dirs /\ lost \in BOOLEAN

\* What holds until a power loss takes an original with its new directory.
SafeInv == ~lost => SourcesInv

\* While no operation has raised and no process has died, only the journal of the
\* transaction under way can be there.
Alone ==
  step \in {"unlocked", "inside", "applying", "replacing", "syncing", "checking",
            "restoring", "resyncing"} => mayJournal = {journal}
Clean == count.faults + count.crashes = 0
SoloInv ==
  Clean =>
    /\ Alone /\ step # "discarding"
    /\ \A j \in Left : j.committed => AtAfter(j.rows)
EvidenceInv == journal # NoJournal /\ journal.committed => AtAfter(journal.rows)

\* What a commit under way is to answer is what its journal leads to.
Planned ==
  goal = "published" =>
    /\ step \in PrepareSteps \cup CommitSteps \cup {"checking", "removing", "removed"}
    /\ step \in PrepareSteps \cup CommitSteps \cup {"checking"} =>
         answer.after = After(journal.rows)
    /\ step = "checking" => journal.committed /\ AtAfter(journal.rows)
    /\ step \in {"removing", "removed"} => disk = answer.after

\* A publication is answered when nothing of its journal can come back.
AnswerInv ==
  /\ answer.result = "published" =>
       disk = answer.after /\ mayJournal = {NoJournal} /\ step \in {"unlocked", "inside"}
  /\ Planned

\* Only one transaction can still change the sources.
Harmful(j) == j \in mayJournal /\ ~Harmless(j)
LoneInv == \A j, k \in mayJournal : Harmful(j) /\ Harmful(k) => j.rows = k.rows

-----------------------------------------------------------------------------
(* The operators on rows. *)

\* Rows are numbered from one, at known paths, and hold bytes of their kind.
LEMMA RowTypes ==
  ASSUME NEW j, JournalOK(j)
  PROVE  /\ j.rows \in Seq([path : Target, before : Bytes, after : Bytes])
         /\ DOMAIN j.rows = 1 .. Len(j.rows) /\ Len(j.rows) \in Nat \ {0}
         /\ \A i \in 1 .. Len(j.rows) :
              /\ j.rows[i].path \in Target
              /\ j.rows[i].before \in Bytes /\ j.rows[i].after \in Bytes
              /\ j.rows[i].path = Manifest <=> i = Len(j.rows)
<1>1. /\ j.rows \in Seq([path : Target, before : Bytes, after : Bytes])
      /\ Len(j.rows) > 0
  BY DEF JournalOK, Journals, RowsOK
<1>2. DOMAIN j.rows = 1 .. Len(j.rows) /\ Len(j.rows) \in Nat \ {0}
  BY <1>1
<1>3. ASSUME NEW i \in 1 .. Len(j.rows)
      PROVE  j.rows[i] \in [path : Target, before : Bytes, after : Bytes]
  BY <1>1, <1>2, <1>3, ElementOfSeq
<1>4. \A i \in 1 .. Len(j.rows) : j.rows[i].path = Manifest <=> i = Len(j.rows)
  BY <1>2, SourcesAssumption DEF JournalOK, RowsOK, Entry
<1> QED
  BY <1>1, <1>2, <1>3, <1>4

\* A path that an original of a row has is a file, with bytes of a file.
LEMMA FileRow ==
  ASSUME NEW j, JournalOK(j), NEW i \in 1 .. Len(j.rows)
  PROVE  /\ i # Len(j.rows) => /\ i \in 1 .. Len(j.rows) - 1 /\ j.rows[i].path \in File
                               /\ j.rows[i].before \in Version \cup {Absent}
                               /\ j.rows[i].after \in Version \cup {Absent}
         /\ i = Len(j.rows) => /\ j.rows[i].before \in Contents \cup {Absent}
                               /\ j.rows[i].after \in Contents
<1>1. Len(j.rows) \in Nat \ {0}
  BY RowTypes
<1>2. CASE i # Len(j.rows)
  <2>1. i \in 1 .. Len(j.rows) - 1
    BY <1>1, <1>2
  <2>2. /\ j.rows[i].path \in File
        /\ j.rows[i].before = Reg(Entry(j.rows).before, j.rows[i].path)
        /\ j.rows[i].after = Entry(j.rows).after[j.rows[i].path]
        /\ Entry(j.rows).before \in Contents \cup {Absent} /\ Entry(j.rows).after \in Contents
    BY <2>1 DEF JournalOK, RowsOK
  <2> QED
    BY <1>2, <2>1, <2>2 DEF Contents, Reg
<1>3. CASE i = Len(j.rows)
  BY <1>3 DEF JournalOK, RowsOK, Entry
<1> QED
  BY <1>2, <1>3

\* The row of a path is the one that names it.
LEMMA RowOfIs ==
  ASSUME NEW j, JournalOK(j), NEW i \in 1 .. Len(j.rows)
  PROVE  j.rows[i].path \in Paths(j.rows) /\ RowOf(j.rows, j.rows[i].path) = j.rows[i]
<1>1. DOMAIN j.rows = 1 .. Len(j.rows)
  BY RowTypes
<1>2. \A k \in 1 .. Len(j.rows) : k # i => j.rows[k].path # j.rows[i].path
  BY DEF JournalOK, RowsOK
<1>3. (CHOOSE k \in DOMAIN j.rows : j.rows[k].path = j.rows[i].path) = i
  BY <1>1, <1>2
<1> QED
  BY <1>1, <1>3 DEF Paths, RowOf

\* Every path in question is that of a row.
LEMMA PathRow ==
  ASSUME NEW j, JournalOK(j)
  PROVE  /\ \A t \in Paths(j.rows) : \E i \in 1 .. Len(j.rows) : t = j.rows[i].path
         /\ Manifest \in Paths(j.rows)
<1>1. DOMAIN j.rows = 1 .. Len(j.rows) /\ Len(j.rows) \in 1 .. Len(j.rows)
  BY RowTypes
<1>2. j.rows[Len(j.rows)].path = Manifest
  BY DEF JournalOK, RowsOK, Entry
<1> QED
  BY <1>1, <1>2 DEF Paths

\* The two ends of a transaction, path by path.
LEMMA EndsOfRows ==
  ASSUME NEW j, JournalOK(j)
  PROVE  /\ Before(j.rows) = [t \in Target |-> Before(j.rows)[t]]
         /\ After(j.rows) = [t \in Target |-> After(j.rows)[t]]
         /\ \A i \in 1 .. Len(j.rows) :
              /\ Before(j.rows)[j.rows[i].path] = j.rows[i].before
              /\ After(j.rows)[j.rows[i].path] = j.rows[i].after
         /\ \A t \in Target \ Paths(j.rows) :
              Before(j.rows)[t] = disk[t] /\ After(j.rows)[t] = disk[t]
<1>1. \A i \in 1 .. Len(j.rows) :
        /\ j.rows[i].path \in Target /\ j.rows[i].path \in Paths(j.rows)
        /\ RowOf(j.rows, j.rows[i].path) = j.rows[i]
  BY RowTypes, RowOfIs
<1> QED
  BY <1>1 DEF Before, After

\* The sources are at an end of a transaction exactly when all its rows are.
LEMMA AtEnds ==
  ASSUME NEW j, JournalOK(j), disk \in [Target -> Bytes]
  PROVE  /\ Before(j.rows) = disk <=> AtBefore(j.rows)
         /\ After(j.rows) = disk <=> AtAfter(j.rows)
<1>1. \A t \in Paths(j.rows) : \E i \in 1 .. Len(j.rows) : t = j.rows[i].path
  BY PathRow
<1>2. \A i \in 1 .. Len(j.rows) : j.rows[i].path \in Target
  BY RowTypes
<1>3. Before(j.rows) = disk => AtBefore(j.rows)
  BY <1>2, EndsOfRows DEF AtBefore
<1>4. After(j.rows) = disk => AtAfter(j.rows)
  BY <1>2, EndsOfRows DEF AtAfter
<1>5. ASSUME AtBefore(j.rows) PROVE Before(j.rows) = disk
  <2>1. /\ \A i \in 1 .. Len(j.rows) : Before(j.rows)[j.rows[i].path] = j.rows[i].before
        /\ \A t \in Target \ Paths(j.rows) : Before(j.rows)[t] = disk[t]
        /\ Before(j.rows) = [t \in Target |-> Before(j.rows)[t]]
    BY EndsOfRows
  <2>2. \A t \in Target : Before(j.rows)[t] = disk[t]
    BY <1>1, <1>5, <2>1 DEF AtBefore
  <2> QED
    BY <2>1, <2>2
<1>6. ASSUME AtAfter(j.rows) PROVE After(j.rows) = disk
  <2>1. /\ \A i \in 1 .. Len(j.rows) : After(j.rows)[j.rows[i].path] = j.rows[i].after
        /\ \A t \in Target \ Paths(j.rows) : After(j.rows)[t] = disk[t]
        /\ After(j.rows) = [t \in Target |-> After(j.rows)[t]]
    BY EndsOfRows
  <2>2. \A t \in Target : After(j.rows)[t] = disk[t]
    BY <1>1, <1>6, <2>1 DEF AtAfter
  <2> QED
    BY <2>1, <2>2
<1> QED
  BY <1>3, <1>4, <1>5, <1>6

-----------------------------------------------------------------------------
(* Sources at rest and sources between two ends. *)

\* A journal that is there is one of those that may be left, and well formed.
LEMMA JournalIsOK ==
  ASSUME TypeInv, journal # NoJournal
  PROVE  journal \in Left /\ JournalOK(journal)
BY DEF TypeInv, DataTypes, Left

\* Sources at rest are between the ends of every journal that may be left.
LEMMA RestBetween ==
  ASSUME TypeInv, Resting, NEW j \in Left
  PROVE  Between(j.rows)
<1> DEFINE rows == j.rows
<1>1. JournalOK(j)
  BY DEF TypeInv, DataTypes
<1>2. /\ Len(rows) \in Nat \ {0} /\ \A i \in 1 .. Len(rows) : rows[i].path \in Target
      /\ rows[Len(rows)].path = Manifest
  BY <1>1, RowTypes
<1>3. Settled /\ Agree /\ (AtBefore(rows) \/ AtAfter(rows))
  BY <1>1 DEF Resting
<1>4. \A i \in 1 .. Len(rows) : may[rows[i].path] \subseteq {rows[i].before, rows[i].after}
  BY <1>2, <1>3 DEF Settled, AtBefore, AtAfter
<1>5. may[Manifest] = {Entry(rows).before} \/ \A i \in 1 .. Len(rows) - 1 : may[rows[i].path] = {rows[i].after}
  <2>1. CASE AtBefore(rows)
    <3>1. Len(rows) \in 1 .. Len(rows) /\ Manifest \in Target
      BY <1>2 DEF Target
    <3>2. disk[Manifest] = Entry(rows).before
      BY <1>2, <2>1, <3>1 DEF AtBefore, Entry
    <3> QED
      BY <1>3, <3>1, <3>2 DEF Settled
  <2>2. CASE AtAfter(rows)
    <3>1. \A i \in 1 .. Len(rows) - 1 : i \in 1 .. Len(rows)
      BY <1>2
    <3> QED
      BY <1>2, <1>3, <2>2, <3>1 DEF Settled, AtAfter
  <2> QED
    BY <1>3, <2>1, <2>2
<1>6. ASSUME NEW f \in File \ Paths(rows) PROVE may[f] = {Entry(rows).after[f]}
  <2>1. /\ Entry(rows).after[f] = Reg(Entry(rows).before, f)
        /\ Entry(rows).after # Absent
    BY <1>1, SourcesAssumption DEF JournalOK, RowsOK
  <2>2. Len(rows) \in 1 .. Len(rows)
    BY <1>2
  <2>3. disk[Manifest] = Entry(rows).before \/ disk[Manifest] = Entry(rows).after
    BY <1>2, <1>3, <2>2 DEF AtBefore, AtAfter, Entry
  <2>4. disk[f] = Reg(disk[Manifest], f)
    BY <1>3 DEF Agree, Registered, Reg
  <2>5. Reg(Entry(rows).after, f) = Entry(rows).after[f]
    BY <2>1 DEF Reg
  <2>6. f \in Target
    BY DEF Target
  <2> QED
    BY <1>3, <2>1, <2>3, <2>4, <2>5, <2>6 DEF Settled
<1> QED
  BY <1>4, <1>5, <1>6 DEF Between

\* The other way round: once all rows are at one end for good, the sources rest.
LEMMA OpenToRest ==
  ASSUME TypeInv, journal # NoJournal, Opened, Settled,
         AtBefore(journal.rows) \/ AtAfter(journal.rows)
  PROVE  Resting
<1> DEFINE rows == journal.rows
<1>1. JournalOK(journal)
  BY JournalIsOK
<1>2. /\ Len(rows) \in Nat \ {0} /\ rows[Len(rows)].path = Manifest
  BY <1>1, RowTypes
<1>3. Len(rows) \in 1 .. Len(rows)
  BY <1>2
<1>4. \A j \in Left : j.rows = rows
  BY DEF Opened, Owned, Left
<1>5. ASSUME NEW f \in File PROVE disk[f] = Registered(f)
  <2>1. Entry(rows).after # Absent
    BY <1>1, SourcesAssumption DEF JournalOK, RowsOK
  <2>2. CASE f \notin Paths(rows)
    <3>1. disk[f] = Entry(rows).after[f]
      BY <2>2 DEF Opened, Between, Settled, Target
    <3>2. Entry(rows).after[f] = Reg(Entry(rows).before, f)
      BY <1>1, <2>2 DEF JournalOK, RowsOK
    <3>3. disk[Manifest] = Entry(rows).before \/ disk[Manifest] = Entry(rows).after
      BY <1>2, <1>3 DEF AtBefore, AtAfter, Entry
    <3> QED
      BY <2>1, <3>1, <3>2, <3>3 DEF Registered, Reg
  <2>3. CASE f \in Paths(rows)
    <3>1. PICK i \in 1 .. Len(rows) : f = rows[i].path
      BY <1>1, <2>3, PathRow
    <3>2. i \in 1 .. Len(rows) - 1
      BY <1>2, <3>1, SourcesAssumption
    <3>3. /\ rows[i].before = Reg(Entry(rows).before, f)
          /\ rows[i].after = Entry(rows).after[f]
      BY <1>1, <3>1, <3>2 DEF JournalOK, RowsOK
    <3>4. CASE AtBefore(rows)
      <4>1. disk[f] = rows[i].before /\ disk[Manifest] = Entry(rows).before
        BY <1>2, <1>3, <3>1, <3>4 DEF AtBefore, Entry
      <4> QED
        BY <3>3, <4>1 DEF Registered, Reg
    <3>5. CASE AtAfter(rows)
      <4>1. disk[f] = rows[i].after /\ disk[Manifest] = Entry(rows).after
        BY <1>2, <1>3, <3>1, <3>5 DEF AtAfter, Entry
      <4> QED
        BY <2>1, <3>3, <4>1 DEF Registered, Reg
    <3> QED
      BY <3>4, <3>5
  <2> QED
    BY <2>2, <2>3
<1> QED
  BY <1>4, <1>5 DEF Resting, Agree

\* Less may be found after a power loss, and no journal with other rows.
Narrower ==
  disk' = disk /\ \A t \in Target : may'[t] \subseteq may[t] /\ disk[t] \in may'[t]
RowsKept == \A j \in Left' : \E k \in Left : j.rows = k.rows

LEMMA RestingKept ==
  ASSUME Resting, Narrower, RowsKept
  PROVE  Resting'
<1>1. Settled'
  BY DEF Resting, Settled, Narrower
<1>2. Agree'
  BY DEF Resting, Agree, Registered, Narrower
<1>3. \A r : (AtBefore(r) => AtBefore(r)') /\ (AtAfter(r) => AtAfter(r)')
  BY DEF AtBefore, AtAfter, Narrower
<1>4. ASSUME NEW j \in Left' PROVE AtBefore(j.rows)' \/ AtAfter(j.rows)'
  <2>1. PICK k \in Left : j.rows = k.rows
    BY DEF RowsKept
  <2>2. AtBefore(k.rows) \/ AtAfter(k.rows)
    BY DEF Resting
  <2> QED
    BY <1>3, <2>1, <2>2
<1> QED
  BY <1>1, <1>2, <1>4 DEF Resting

Shrunk == \A t \in Target : may'[t] \subseteq may[t] /\ may'[t] # {}

LEMMA BetweenKept ==
  ASSUME NEW j, JournalOK(j), Between(j.rows), Shrunk
  PROVE  Between(j.rows)'
<1> DEFINE rows == j.rows
<1>2. /\ Len(rows) \in Nat \ {0} /\ \A i \in 1 .. Len(rows) : rows[i].path \in Target
      /\ \A i \in 1 .. Len(rows) - 1 : i \in 1 .. Len(rows)
  BY RowTypes
<1>3. \A t \in Target : may'[t] \subseteq may[t] /\ (\A x : may[t] = {x} => may'[t] = {x})
  BY DEF Shrunk
<1>4. \A f \in File \ Paths(rows) : may'[f] = {Entry(rows).after[f]}
  BY <1>3 DEF Between, Target
<1>5. \A i \in 1 .. Len(rows) : may'[rows[i].path] \subseteq {rows[i].before, rows[i].after}
  BY <1>2, <1>3 DEF Between
<1>6. \/ may'[Manifest] = {Entry(rows).before}
      \/ \A i \in 1 .. Len(rows) - 1 : may'[rows[i].path] = {rows[i].after}
  BY <1>2, <1>3 DEF Between, Target
<1> QED
  BY <1>4, <1>5, <1>6 DEF Between, Entry, Paths

LEMMA OpenedKept ==
  ASSUME TypeInv, journal # NoJournal, Opened, Narrower, Owned', journal'.rows = journal.rows
  PROVE  Opened'
<1>1. PICK j \in Left : j = journal
  BY JournalIsOK
<1>2. Shrunk
  BY DEF Narrower, Shrunk
<1>3. Between(j.rows)'
  BY <1>1, <1>2, JournalIsOK, BetweenKept DEF Opened
<1> QED
  BY <1>1, <1>3 DEF Opened

-----------------------------------------------------------------------------
(* The rows of a new transaction. *)

\* The caller's order names every changed path once.
LEMMA OrderNamesAll ==
  ASSUME NEW S, IsFiniteSet(S), NEW order \in SetToSeqs(S)
  PROVE  /\ order \in [1 .. Cardinality(S) -> S] /\ Cardinality(S) \in Nat
         /\ Len(order) = Cardinality(S)
         /\ \A i, k \in 1 .. Cardinality(S) : i # k => order[i] # order[k]
         /\ \A s \in S : \E i \in 1 .. Cardinality(S) : order[i] = s
<1>0. Cardinality(S) \in Nat
  BY FS_CardinalityType
<1>1. /\ order \in [1 .. Cardinality(S) -> S]
      /\ \A i, k \in 1 .. Cardinality(S) : i # k => order[i] # order[k]
  BY DEF SetToSeqs
<1>2. Len(order) = Cardinality(S)
  BY <1>0, <1>1
<1>3. order \in Injection(1 .. Cardinality(S), S)
  BY <1>1 DEF Injection, IsInjective
<1>4. Cardinality(1 .. Cardinality(S)) = Cardinality(S)
  BY <1>0, FS_Interval
<1>5. order \in Surjection(1 .. Cardinality(S), S)
  BY <1>3, <1>4, FS_Injection
<1>6. \A s \in S : \E i \in 1 .. Cardinality(S) : order[i] = s
  BY <1>5 DEF Surjection
<1> QED
  BY <1>0, <1>1, <1>2, <1>6

\* What a caller may ask for names known files and their bytes.
LEMMA ChangeTypes ==
  ASSUME NEW change \in Publications \cup Deletions
  PROVE  /\ DOMAIN change \subseteq File /\ IsFiniteSet(DOMAIN change)
         /\ \A f \in DOMAIN change : change[f] \in Version \cup {Absent}
<1>1. DOMAIN change \subseteq File /\ \A f \in DOMAIN change : change[f] \in Version \cup {Absent}
  BY DEF Publications, Deletions
<1>2. IsFiniteSet(DOMAIN change)
  BY <1>1, SourcesAssumption, FS_Subset
<1> QED
  BY <1>1, <1>2

LEMMA BeginRows ==
  ASSUME TypeInv, Agree, NEW change \in Publications \cup Deletions,
         NEW order \in SetToSeqs(DOMAIN change)
  PROVE  LET rows == Rows(order, change) IN
         /\ rows \in Seq([path : Target, before : Bytes, after : Bytes])
         /\ RowsOK(rows) /\ AtBefore(rows)
<1> DEFINE n == Len(order)
           rows == Rows(order, change)
           old == [i \in 1 .. n |-> [path |-> order[i], before |-> disk[order[i]],
                                     after |-> change[order[i]]]]
           entry == [path |-> Manifest, before |-> disk[Manifest],
                     after |-> [f \in File |-> IF f \in DOMAIN change THEN change[f]
                                               ELSE Registered(f)]]
           R == [path : Target, before : Bytes, after : Bytes]
<1>1. /\ DOMAIN change \subseteq File /\ IsFiniteSet(DOMAIN change)
      /\ \A f \in DOMAIN change : change[f] \in Version \cup {Absent}
  BY ChangeTypes
<1>2. /\ n \in Nat /\ n = Cardinality(DOMAIN change)
      /\ \A i \in 1 .. n : order[i] \in DOMAIN change
      /\ \A i, k \in 1 .. n : i # k => order[i] # order[k]
      /\ \A f \in DOMAIN change : \E i \in 1 .. n : order[i] = f
  BY <1>1, OrderNamesAll
<1>3. /\ \A f \in File : disk[f] \in Version \cup {Absent}
      /\ disk[Manifest] \in Contents \cup {Absent}
      /\ \A t \in Target : disk[t] \in Bytes
  BY DEF TypeInv, DataTypes, Target
<1>4. \A f \in File : Registered(f) \in Version \cup {Absent}
  BY <1>3 DEF Registered, Contents
<1>5. entry.after \in Contents
  BY <1>1, <1>4 DEF Contents
<1>6. entry \in R
  BY <1>3, <1>5 DEF Target, Bytes
<1>7. \A i \in 1 .. n : old[i] \in R
  BY <1>1, <1>2, <1>3 DEF Target, Bytes
<1>8. old \in Seq(R) /\ Len(old) = n
  <2> HIDE DEF R
  <2>1. old \in [1 .. n -> R]
    BY <1>7
  <2> QED
    BY <1>2, <2>1
<1>9. rows = Append(old, entry)
  BY DEF Rows
<1>10. /\ rows \in Seq(R) /\ Len(rows) = n + 1 /\ rows[n + 1] = entry
       /\ \A i \in 1 .. n : rows[i] = old[i]
  <2> HIDE DEF R, rows, old, entry
  <2> QED
    BY <1>2, <1>6, <1>8, <1>9, AppendProperties
<1>11. /\ Entry(rows) = entry
       /\ \A i \in 1 .. n : /\ rows[i].path = order[i] /\ rows[i].before = disk[order[i]]
                            /\ rows[i].after = change[order[i]]
  <2>1. Entry(rows) = entry
    <3> HIDE DEF rows, entry
    <3> QED
      BY <1>10 DEF Entry
  <2>2. \A i \in 1 .. n : rows[i] = [path |-> order[i], before |-> disk[order[i]],
                                    after |-> change[order[i]]]
    <3> HIDE DEF rows
    <3>1. \A i \in 1 .. n : old[i] = [path |-> order[i], before |-> disk[order[i]],
                                    after |-> change[order[i]]]
      OBVIOUS
    <3> HIDE DEF old, n
    <3> QED
      BY <1>10, <3>1
  <2> HIDE DEF rows, entry, n
  <2>3. ASSUME NEW i \in 1 .. n
        PROVE  /\ rows[i].path = order[i] /\ rows[i].before = disk[order[i]]
               /\ rows[i].after = change[order[i]]
    <3>1. rows[i] = [path |-> order[i], before |-> disk[order[i]],
                     after |-> change[order[i]]]
      BY <2>2
    <3> QED
      BY <3>1
  <2> QED
    BY <2>1, <2>3
<1> HIDE DEF rows, old
<1>12. \A i \in 1 .. n : rows[i].path \in File
  BY <1>1, <1>2, <1>11
<1>13. 1 .. Len(rows) = (1 .. n) \cup {n + 1} /\ 1 .. Len(rows) - 1 = 1 .. n
  BY <1>2, <1>10
<1>14. AtBefore(rows)
  BY <1>10, <1>11, <1>13 DEF AtBefore
<1>8a. \A i \in 1 .. n : /\ rows[i].before = Reg(Entry(rows).before, rows[i].path)
                         /\ rows[i].after = Entry(rows).after[rows[i].path]
  BY <1>1, <1>2, <1>11, <1>12 DEF Agree, Registered, Reg
<1>16. \A i, k \in 1 .. Len(rows) : i # k => rows[i].path # rows[k].path
  BY <1>2, <1>10, <1>11, <1>12, <1>13, SourcesAssumption
<1>17. ASSUME NEW f \in File \ Paths(rows)
       PROVE  Entry(rows).after[f] = Reg(Entry(rows).before, f)
  <2>1. f \notin DOMAIN change
    <3>1. SUFFICES ASSUME f \in DOMAIN change PROVE FALSE
      OBVIOUS
    <3>2. PICK i \in 1 .. n : order[i] = f
      BY <1>2, <3>1
    <3>3. i \in DOMAIN rows
      BY <1>10, <1>13
    <3> QED
      BY <1>11, <3>2, <3>3 DEF Paths
  <2> QED
    BY <1>11, <2>1 DEF Registered, Reg
<1>18. RowsOK(rows)
  BY <1>2, <1>3, <1>5, <1>10, <1>11, <1>12, <1>13, <1>8a, <1>16, <1>17 DEF RowsOK
<1> QED
  BY <1>10, <1>14, <1>18 DEF rows

-----------------------------------------------------------------------------
(* Changes of the journal's entries. *)

\* An edited journal keeps its rows and its other entries.
LEMMA BackupOK ==
  ASSUME NEW j, JournalOK(j), NEW b \in SUBSET Target
  PROVE  LET k == [j EXCEPT !.backups = b] IN
         JournalOK(k) /\ k.rows = j.rows /\ k.record = j.record /\ k.committed = j.committed
<1> DEFINE R == Seq([path : Target, before : Bytes, after : Bytes])
<1>1. j \in [id : Nat, rows : R, backups : SUBSET Target, record : BOOLEAN, committed : BOOLEAN]
  BY DEF JournalOK, Journals
<1> HIDE DEF R
<1>2. LET k == [j EXCEPT !.backups = b] IN
      /\ k \in [id : Nat, rows : R, backups : SUBSET Target, record : BOOLEAN,
                committed : BOOLEAN]
      /\ k.rows = j.rows /\ k.record = j.record /\ k.committed = j.committed
  BY <1>1
<1> QED
  BY <1>2 DEF JournalOK, Journals, R

LEMMA EditOK ==
  ASSUME NEW j, JournalOK(j), NEW v \in BOOLEAN
  PROVE  LET record == [j EXCEPT !.record = v]
             mark == [j EXCEPT !.committed = v] IN
         /\ JournalOK(record) /\ JournalOK(mark)
         /\ record.rows = j.rows /\ mark.rows = j.rows
         /\ record.record = v /\ record.committed = j.committed
         /\ mark.record = j.record /\ mark.committed = v
<1> DEFINE R == Seq([path : Target, before : Bytes, after : Bytes])
<1>1. j \in [id : Nat, rows : R, backups : SUBSET Target, record : BOOLEAN, committed : BOOLEAN]
  BY DEF JournalOK, Journals
<1> HIDE DEF R
<1>2. /\ [j EXCEPT !.record = v] \in [id : Nat, rows : R, backups : SUBSET Target,
                                      record : BOOLEAN, committed : BOOLEAN]
      /\ [j EXCEPT !.committed = v] \in [id : Nat, rows : R, backups : SUBSET Target,
                                         record : BOOLEAN, committed : BOOLEAN]
  BY <1>1
<1>3. /\ [j EXCEPT !.record = v].rows = j.rows /\ [j EXCEPT !.committed = v].rows = j.rows
      /\ [j EXCEPT !.record = v].record = v /\ [j EXCEPT !.record = v].committed = j.committed
      /\ [j EXCEPT !.committed = v].record = j.record /\ [j EXCEPT !.committed = v].committed = v
  BY <1>1
<1> QED
  BY <1>2, <1>3 DEF JournalOK, Journals, R

\* What an edit makes of the journals that may be left: records become one of
\* "recs" at most, markers one of "coms".
Edited(j, k, recs, coms) ==
  /\ JournalOK(j) /\ j.rows = k.rows
  /\ j.record = k.record \/ j.record \in recs
  /\ j.committed = k.committed \/ j.committed \in coms
JournalEdit(recs, coms) ==
  /\ journal' \in mayJournal' /\ Edited(journal', journal, recs, coms)
  /\ \A j \in mayJournal' : j \in mayJournal \/ \E k \in Left : Edited(j, k, recs, coms)

\* What the actions that edit the journal do to its entries.
LEMMA PrepareRowEdits ==
  ASSUME DataTypes, journal # NoJournal, PrepareRow
  PROVE  /\ JournalEdit({}, {})
         /\ journal'.record = journal.record /\ journal'.committed = journal.committed
<1>0. journal \in Left /\ \A j \in Left : JournalOK(j)
  BY DEF DataTypes, Left
<1>1. CASE Row.before = Absent
  <2>1. UNCHANGED journalVars
    BY <1>1 DEF PrepareRow
  <2> QED
    BY <1>0, <2>1 DEF JournalEdit, Edited, journalVars, Left
<1>2. CASE Row.before # Absent
  <2>1. PICK t : t = Row.path
    OBVIOUS
  <2>2. /\ journal' = [journal EXCEPT !.backups = @ \cup {t}]
        /\ mayJournal' = mayJournal \cup
             {[j EXCEPT !.backups = @ \cup {t}] : j \in {k \in Left : k.id = journal.id}}
    BY <1>2, <2>1 DEF PrepareRow, ChangeJournal, Left
  <2>3. t \in Target
    BY <1>0, <2>1, RowTypes DEF PrepareRow, MoreRows, Row
  <2>4. ASSUME NEW j \in Left
        PROVE  /\ Edited([j EXCEPT !.backups = @ \cup {t}], j, {}, {})
               /\ [j EXCEPT !.backups = @ \cup {t}].record = j.record
               /\ [j EXCEPT !.backups = @ \cup {t}].committed = j.committed
    <3>1. JournalOK(j) /\ j.backups \cup {t} \in SUBSET Target
      BY <1>0, <2>3 DEF JournalOK, Journals
    <3>2. PICK b \in SUBSET Target : b = j.backups \cup {t}
      BY <3>1
    <3>3. [j EXCEPT !.backups = @ \cup {t}] = [j EXCEPT !.backups = b]
      BY <3>2
    <3>4. LET k == [j EXCEPT !.backups = b] IN
          JournalOK(k) /\ k.rows = j.rows /\ k.record = j.record /\ k.committed = j.committed
      BY <3>1, BackupOK
    <3> QED
      BY <3>3, <3>4 DEF Edited
  <2> QED
    BY <1>0, <2>2, <2>4 DEF JournalEdit
<1> QED
  BY <1>1, <1>2

LEMMA PublishRecordEdits ==
  ASSUME DataTypes, journal # NoJournal, PublishRecord
  PROVE  /\ JournalEdit({TRUE}, {})
         /\ journal'.record = TRUE /\ journal'.committed = journal.committed
<1>0. journal \in Left /\ \A j \in Left : JournalOK(j)
  BY DEF DataTypes, Left
<1>1. /\ journal' = [journal EXCEPT !.record = TRUE]
      /\ mayJournal' = mayJournal \cup
           {[j EXCEPT !.record = TRUE] : j \in {k \in Left : k.id = journal.id}}
  BY DEF PublishRecord, ChangeJournal, Left
<1>2. ASSUME NEW j \in Left
      PROVE  /\ Edited([j EXCEPT !.record = TRUE], j, {TRUE}, {})
             /\ [j EXCEPT !.record = TRUE].record = TRUE
             /\ [j EXCEPT !.record = TRUE].committed = j.committed
  BY <1>0, EditOK DEF Edited
<1> QED
  BY <1>0, <1>1, <1>2 DEF JournalEdit

LEMMA PublishCommittedEdits ==
  ASSUME DataTypes, journal # NoJournal, PublishCommitted
  PROVE  /\ JournalEdit({}, {TRUE})
         /\ journal'.record = journal.record /\ journal'.committed = TRUE
<1>0. journal \in Left /\ \A j \in Left : JournalOK(j)
  BY DEF DataTypes, Left
<1>1. /\ journal' = [journal EXCEPT !.committed = TRUE]
      /\ mayJournal' = mayJournal \cup
           {[j EXCEPT !.committed = TRUE] : j \in {k \in Left : k.id = journal.id}}
  BY DEF PublishCommitted, ChangeJournal, Left
<1>2. ASSUME NEW j \in Left
      PROVE  /\ Edited([j EXCEPT !.committed = TRUE], j, {}, {TRUE})
             /\ [j EXCEPT !.committed = TRUE].committed = TRUE
             /\ [j EXCEPT !.committed = TRUE].record = j.record
  BY <1>0, EditOK DEF Edited
<1> QED
  BY <1>0, <1>1, <1>2 DEF JournalEdit

\* An entry of a journal is removed: a copy, the record or the marker.
LEMMA RemoveEntryEdits ==
  ASSUME DataTypes, journal # NoJournal, RemoveEntry
  PROVE  \/ /\ JournalEdit({}, {})
            /\ journal'.record = journal.record /\ journal'.committed = journal.committed
         \/ /\ JournalEdit({FALSE}, {})
            /\ journal'.record = FALSE /\ journal'.committed = journal.committed
         \/ /\ JournalEdit({}, {FALSE})
            /\ journal'.record = journal.record /\ journal'.committed = FALSE
<1>0. journal \in Left /\ \A j \in Left : JournalOK(j)
  BY DEF DataTypes, Left
<1>1. ASSUME NEW t,
             journal' = [journal EXCEPT !.backups = @ \ {t}],
             mayJournal' = mayJournal \cup
               {[j EXCEPT !.backups = @ \ {t}] : j \in {k \in Left : k.id = journal.id}}
      PROVE  /\ JournalEdit({}, {})
             /\ journal'.record = journal.record /\ journal'.committed = journal.committed
  <2>1. ASSUME NEW j \in Left
        PROVE  /\ Edited([j EXCEPT !.backups = @ \ {t}], j, {}, {})
               /\ [j EXCEPT !.backups = @ \ {t}].record = j.record
               /\ [j EXCEPT !.backups = @ \ {t}].committed = j.committed
    <3>1. JournalOK(j) /\ j.backups \ {t} \in SUBSET Target
      BY <1>0 DEF JournalOK, Journals
    <3>2. PICK b \in SUBSET Target : b = j.backups \ {t}
      BY <3>1
    <3>3. [j EXCEPT !.backups = @ \ {t}] = [j EXCEPT !.backups = b]
      BY <3>2
    <3>4. LET k == [j EXCEPT !.backups = b] IN
          JournalOK(k) /\ k.rows = j.rows /\ k.record = j.record /\ k.committed = j.committed
      BY <3>1, BackupOK
    <3> QED
      BY <3>3, <3>4 DEF Edited
  <2> QED
    BY <1>0, <1>1, <2>1 DEF JournalEdit
<1>2. ASSUME journal' = [journal EXCEPT !.record = FALSE],
             mayJournal' = mayJournal \cup
               {[j EXCEPT !.record = FALSE] : j \in {k \in Left : k.id = journal.id}}
      PROVE  /\ JournalEdit({FALSE}, {})
             /\ journal'.record = FALSE /\ journal'.committed = journal.committed
  <2>1. ASSUME NEW j \in Left
        PROVE  /\ Edited([j EXCEPT !.record = FALSE], j, {FALSE}, {})
               /\ [j EXCEPT !.record = FALSE].record = FALSE
               /\ [j EXCEPT !.record = FALSE].committed = j.committed
    BY <1>0, EditOK DEF Edited
  <2> QED
    BY <1>0, <1>2, <2>1 DEF JournalEdit
<1>3. ASSUME journal' = [journal EXCEPT !.committed = FALSE],
             mayJournal' = mayJournal \cup
               {[j EXCEPT !.committed = FALSE] : j \in {k \in Left : k.id = journal.id}}
      PROVE  /\ JournalEdit({}, {FALSE})
             /\ journal'.record = journal.record /\ journal'.committed = FALSE
  <2>1. ASSUME NEW j \in Left
        PROVE  /\ Edited([j EXCEPT !.committed = FALSE], j, {}, {FALSE})
               /\ [j EXCEPT !.committed = FALSE].committed = FALSE
               /\ [j EXCEPT !.committed = FALSE].record = j.record
    BY <1>0, EditOK DEF Edited
  <2> QED
    BY <1>0, <1>3, <2>1 DEF JournalEdit
<1>4. CASE \E t \in journal.backups :
             /\ journal' = [journal EXCEPT !.backups = @ \ {t}]
             /\ mayJournal' = mayJournal \cup
                  {[j EXCEPT !.backups = @ \ {t}] : j \in {k \in Left : k.id = journal.id}}
  BY <1>1, <1>4
<1> QED
  BY <1>2, <1>3, <1>4 DEF RemoveEntry, ChangeJournal, Left

-----------------------------------------------------------------------------
(* Steps that leave disk and journal alone. *)

LEMMA StepNames ==
  /\ {"unlocked", "inside", "preparing", "recorded", "applying", "replacing", "syncing",
      "committed", "checking", "restoring", "resyncing", "removing", "removed",
      "discarding"} = Steps
  /\ Operations = Steps \ {"unlocked", "inside"}
BY DEF Steps, Operations, CommitSteps, PrepareSteps, RecoverySteps

LEMMA ControlKept ==
  ASSUME ControlTypes, NEW s \in Steps, NEW i \in Nat, Continue(s, i)
  PROVE  ControlTypes'
BY DEF ControlTypes, Continue

LEMMA EndKept ==
  ASSUME ControlTypes, NEW s \in Steps, NEW r, r \in {"published", "failed"} \/ goal = "body",
         End(s, r), count' \in [started : Nat, faults : Nat, crashes : Nat, outages : Nat]
  PROVE  ControlTypes' /\ goal' = "body"
<1> DEFINE A == [result : {"none", "pending", "published", "failed"},
                 before : [Target -> Bytes], after : [Target -> Bytes]]
<1>1. answer \in A /\ (answer' = answer \/ (answer' = [answer EXCEPT !.result = r] /\ goal # "body"))
  BY DEF ControlTypes, End
<1>2. answer' \in A
  <2> DEFINE B == [Target -> Bytes]
  <2>1. answer \in [result : {"none", "pending", "published", "failed"}, before : B, after : B]
    BY <1>1
  <2> HIDE DEF B
  <2>2. answer' \in [result : {"none", "pending", "published", "failed"}, before : B, after : B]
    BY <1>1, <2>1
  <2> QED
    BY <2>2 DEF B
<1> QED
  BY <1>2 DEF ControlTypes, End

\* A step of the holder of the lock alone keeps what is known of the sources.
SourcesSame == UNCHANGED <<disk, may, journal, mayJournal>>
LEMMA SameSources ==
  ASSUME SourcesSame
  PROVE  /\ DataTypes => DataTypes'
         /\ Resting => Resting'
         /\ Opened => Opened'
         /\ CoreInv => CoreInv'
         /\ CommittedInv => CommittedInv'
         /\ AtBefore(journal.rows) => AtBefore(journal.rows)'
         /\ AtAfter(journal.rows) => AtAfter(journal.rows)'
<1>1. DataTypes => DataTypes'
  BY DEF SourcesSame, DataTypes, Left
<1>2. /\ AtBefore(journal.rows) => AtBefore(journal.rows)'
      /\ AtAfter(journal.rows) => AtAfter(journal.rows)'
  BY DEF SourcesSame, AtBefore, AtAfter
<1>3. Resting => Resting'
  BY DEF SourcesSame, Resting, Settled, Agree, Registered, Left, AtBefore, AtAfter
<1>4. Opened => Opened'
  BY DEF SourcesSame, Opened, Owned, Between, Entry, Paths
<1>5. CoreInv => CoreInv'
  BY <1>2, <1>3, <1>4 DEF SourcesSame, CoreInv
<1>6. CommittedInv => CommittedInv'
  BY DEF SourcesSame, CommittedInv, Settled
<1> QED
  BY <1>1, <1>2, <1>3, <1>4, <1>5, <1>6

\* Where nothing is known of the sources but that they can be recovered.
LEMMA FreeSteps ==
  ASSUME step' \in {"unlocked", "checking"}, step' = "checking" => journal' # NoJournal
  PROVE  StepInv'
BY DEF StepInv, PrepareInv, ApplyInv, CommitInv, RestoreInv, RemoveInv, PrepareSteps, Operations,
   CommitSteps, RecoverySteps

LEMMA EnterKeeps ==
  ASSUME SourcesInv, EnterClean \/ EnterRecover \/ Leave
  PROVE  SourcesInv'
<1>1. SourcesSame
  BY DEF EnterClean, EnterRecover, Leave, diskVars, journalVars, SourcesSame
<1>2. DataTypes' /\ CoreInv' /\ CommittedInv'
  BY <1>1, SameSources DEF SourcesInv, TypeInv
<1>3. ControlTypes'
  <2>1. {"inside", "checking", "unlocked"} \subseteq Steps
    BY StepNames
  <2>2. Continue("inside", 0) \/ Continue("checking", 0) \/ Continue("unlocked", 0)
    BY DEF EnterClean, EnterRecover, Leave
  <2> QED
    BY <2>1, <2>2, ControlKept DEF SourcesInv, TypeInv
<1>5. CASE EnterRecover \/ Leave
  <2>1. step' \in {"unlocked", "checking"} /\ (step' = "checking" => journal' # NoJournal)
    BY <1>1, <1>5 DEF EnterRecover, Leave, Continue, SourcesSame
  <2>2. StepInv'
    BY <2>1, FreeSteps
  <2> QED
    BY <1>2, <1>3, <2>2 DEF SourcesInv, TypeInv
<1>4. CASE EnterClean
  <2>1. step' = "inside" /\ journal' = NoJournal
    BY <1>1, <1>4 DEF EnterClean, Continue, SourcesSame
  <2>2. StepInv'
    BY <2>1 DEF StepInv, PrepareInv, ApplyInv, CommitInv, RestoreInv,
     RemoveInv, PrepareSteps, Operations, CommitSteps, RecoverySteps
  <2> QED
    BY <1>2, <1>3, <2>2 DEF SourcesInv, TypeInv
<1> QED
  BY <1>4, <1>5

LEMMA StopKept ==
  ASSUME ControlTypes, NEW kind \in {"crashes", "outages"}, Stop(kind)
  PROVE  ControlTypes' /\ step' = "unlocked" /\ goal' = "body"
<1> DEFINE B == [Target -> Bytes]
<1>1. /\ answer \in [result : {"none", "pending", "published", "failed"}, before : B, after : B]
      /\ answer' = answer \/ answer' = [answer EXCEPT !.result = "none"]
  BY DEF ControlTypes, Stop
<1>2. answer' \in [result : {"none", "pending", "published", "failed"}, before : B, after : B]
  <2> HIDE DEF B
  <2> QED
    BY <1>1
<1>3. count' \in [started : Nat, faults : Nat, crashes : Nat, outages : Nat]
  BY DEF ControlTypes, Stop
<1>4. step' \in Steps /\ at' \in Nat /\ goal' \in {"body", "published", "failed"}
  BY StepNames DEF Stop
<1> QED
  BY <1>2, <1>3, <1>4 DEF ControlTypes, Stop

LEMMA CrashKeeps ==
  ASSUME SourcesInv, Crash
  PROVE  SourcesInv'
<1>1. SourcesSame /\ step' = "unlocked"
  BY DEF Crash, Stop, diskVars, journalVars, SourcesSame
<1>2. DataTypes' /\ CoreInv' /\ CommittedInv'
  BY <1>1, SameSources DEF SourcesInv, TypeInv
<1>3. ControlTypes'
  BY StopKept DEF Crash, SourcesInv, TypeInv
<1>4. StepInv'
  BY <1>1, FreeSteps
<1> QED
  BY <1>2, <1>3, <1>4 DEF SourcesInv, TypeInv

\* Once every row is at the same end for good, nothing is left to the page cache.
LEMMA RowsSettled ==
  ASSUME TypeInv, journal # NoJournal, Opened
  PROVE  /\ (\A i \in 1 .. Len(journal.rows) :
               may[journal.rows[i].path] = {journal.rows[i].before})
              => Settled /\ AtBefore(journal.rows)
         /\ (\A i \in 1 .. Len(journal.rows) :
               may[journal.rows[i].path] = {journal.rows[i].after})
              => Settled /\ AtAfter(journal.rows)
<1> DEFINE rows == journal.rows
<1>1. JournalOK(journal)
  BY JournalIsOK
<1>2. /\ \A i \in 1 .. Len(rows) : rows[i].path \in Target
      /\ \A t \in Paths(rows) : \E i \in 1 .. Len(rows) : t = rows[i].path
      /\ Manifest \in Paths(rows)
  BY <1>1, RowTypes, PathRow
<1>3. \A t \in Target : disk[t] \in may[t]
  BY DEF TypeInv, DataTypes
<1>4. ASSUME NEW t \in Target \ Paths(rows) PROVE may[t] = {disk[t]}
  <2>1. t \in File \ Paths(rows)
    BY <1>2, <1>4 DEF Target
  <2>2. may[t] = {Entry(rows).after[t]}
    BY <2>1 DEF Opened, Between
  <2> QED
    BY <1>3, <2>2
<1>5. \A i \in 1 .. Len(rows) : disk[rows[i].path] \in may[rows[i].path]
  BY <1>2, <1>3
<1>6. ASSUME \A i \in 1 .. Len(rows) : may[rows[i].path] = {rows[i].before}
      PROVE  Settled /\ AtBefore(rows)
  <2>1. \A i \in 1 .. Len(rows) : disk[rows[i].path] = rows[i].before
    BY <1>5, <1>6
  <2> QED
    BY <1>2, <1>4, <1>6, <2>1 DEF Settled, AtBefore
<1>7. ASSUME \A i \in 1 .. Len(rows) : may[rows[i].path] = {rows[i].after}
      PROVE  Settled /\ AtAfter(rows)
  <2>1. \A i \in 1 .. Len(rows) : disk[rows[i].path] = rows[i].after
    BY <1>5, <1>7
  <2> QED
    BY <1>2, <1>4, <1>7, <2>1 DEF Settled, AtAfter
<1> QED
  BY <1>6, <1>7

LEMMA MakeDirectoryKeeps ==
  ASSUME SourcesInv, MakeDirectory
  PROVE  SourcesInv'
<1>1. SourcesSame /\ step = "applying" /\ step' = "replacing" /\ at' = at
  BY DEF MakeDirectory, Continue, journalVars, SourcesSame
<1>2. DataTypes' /\ CoreInv' /\ CommittedInv'
  BY <1>1, SameSources DEF SourcesInv, TypeInv
<1>3. ControlTypes'
  BY ControlKept, StepNames DEF MakeDirectory, SourcesInv, TypeInv, ControlTypes
<1>4. /\ journal.record /\ ~journal.committed /\ Opened /\ Applied /\ journal # NoJournal
      /\ at \in 1 .. Len(journal.rows) + 1
      /\ at <= Len(journal.rows) => may[Row.path] = {Row.before}
  BY <1>1, StepNames DEF SourcesInv, StepInv, ApplyInv, RemoveInv
<1>5. at <= Len(journal.rows)
  <2>1. DOMAIN journal.rows = 1 .. Len(journal.rows)
    BY <1>4, JournalIsOK, RowTypes DEF SourcesInv
  <2> QED
    BY <2>1 DEF MakeDirectory, MoreRows
<1>6. Opened' /\ Applied'
  BY <1>1, <1>4, SameSources DEF SourcesSame, Applied
<1>7. ApplyInv'
  BY <1>1, <1>4, <1>5, <1>6 DEF ApplyInv, SourcesSame, Row
<1>8. StepInv'
  BY <1>1, <1>4, <1>7 DEF StepInv, PrepareInv, CommitInv, RestoreInv, RemoveInv, PrepareSteps,
     SourcesSame
<1> QED
  BY <1>2, <1>3, <1>8 DEF SourcesInv, TypeInv

LEMMA CheckKeeps ==
  ASSUME SourcesInv, CheckJournal
  PROVE  SourcesInv'
<1>1. SourcesSame /\ step = "checking" /\ journal # NoJournal
  BY StepNames DEF CheckJournal, diskVars, journalVars, SourcesSame, SourcesInv, StepInv, RemoveInv
<1>2. DataTypes' /\ CoreInv' /\ CommittedInv'
  BY <1>1, SameSources DEF SourcesInv, TypeInv
<1>3. /\ JournalOK(journal) /\ DOMAIN journal.rows = 1 .. Len(journal.rows)
      /\ Len(journal.rows) \in Nat \ {0}
  BY <1>1, JournalIsOK, RowTypes DEF SourcesInv
<1>4. CASE Continue("removing", 0) /\ Proven(journal) /\ journal.committed /\ Finished(journal)
  <2>1. AtAfter(journal.rows)
    BY <1>3, <1>4 DEF Finished, AtAfter
  <2>2. Settled /\ journal.record
    BY <1>1, <1>4 DEF SourcesInv, CommittedInv, Proven
  <2>3. Resting
    BY <1>1, <2>1, <2>2, OpenToRest DEF SourcesInv, CoreInv
  <2>4. Resting' /\ journal' # NoJournal /\ step' = "removing"
    BY <1>1, <1>4, <2>3, SameSources DEF SourcesSame, Continue
  <2>5. StepInv'
    BY <2>4 DEF StepInv, PrepareInv, ApplyInv, CommitInv, RestoreInv, RemoveInv, PrepareSteps
  <2>6. ControlTypes'
    BY <1>4, ControlKept, StepNames DEF SourcesInv, TypeInv
  <2> QED
    BY <1>2, <2>5, <2>6 DEF SourcesInv, TypeInv
<1>5. CASE Continue("restoring", Len(journal.rows)) /\ Proven(journal) /\ ~journal.committed
  <2>1. /\ step' = "restoring" /\ at' = Len(journal.rows) /\ journal' = journal
        /\ journal.record
    BY <1>1, <1>5 DEF Continue, SourcesSame, Proven
  <2>2. RestoreInv'
    BY <1>3, <1>5, <2>1 DEF RestoreInv, Restored
  <2>3. StepInv'
    BY <1>1, <2>1, <2>2 DEF StepInv, PrepareInv, ApplyInv, CommitInv, RemoveInv, PrepareSteps
  <2>4. ControlTypes'
    BY <1>3, <1>5, ControlKept, StepNames DEF SourcesInv, TypeInv
  <2> QED
    BY <1>2, <2>3, <2>4 DEF SourcesInv, TypeInv
<1>6. CASE Raise
  <2>1. ControlTypes'
    BY <1>6, EndKept, StepNames DEF Raise, SourcesInv, TypeInv, ControlTypes
  <2>2. StepInv'
    BY <1>6, FreeSteps DEF Raise, End
  <2> QED
    BY <1>2, <2>1, <2>2 DEF SourcesInv, TypeInv
<1> QED
  BY <1>4, <1>5, <1>6 DEF CheckJournal

LEMMA EndRestoreKeeps ==
  ASSUME SourcesInv, EndRestore
  PROVE  SourcesInv'
<1>1. SourcesSame /\ step = "restoring" /\ journal # NoJournal /\ step' = "removing"
  BY StepNames DEF EndRestore, Continue, diskVars, journalVars, SourcesSame, SourcesInv, StepInv,
     RemoveInv
<1>2. DataTypes' /\ CoreInv' /\ CommittedInv'
  BY <1>1, SameSources DEF SourcesInv, TypeInv
<1>3. /\ DOMAIN journal.rows = 1 .. Len(journal.rows) /\ Len(journal.rows) \in Nat \ {0}
  BY <1>1, JournalIsOK, RowTypes DEF SourcesInv
<1>4. journal.record /\ Restored /\ at = 0
  BY <1>1, <1>3 DEF EndRestore, MoreRows, SourcesInv, StepInv, RestoreInv
<1>5. \A i \in 1 .. Len(journal.rows) : may[journal.rows[i].path] = {journal.rows[i].before}
  BY <1>3, <1>4 DEF Restored
<1>6. Resting
  BY <1>1, <1>4, <1>5, RowsSettled, OpenToRest DEF SourcesInv, CoreInv
<1>7. Resting' /\ journal' # NoJournal
  BY <1>1, <1>6, SameSources DEF SourcesSame
<1>8. StepInv'
  BY <1>1, <1>7 DEF StepInv, PrepareInv, ApplyInv, CommitInv, RestoreInv, RemoveInv, PrepareSteps
<1>9. ControlTypes'
  BY ControlKept, StepNames DEF EndRestore, SourcesInv, TypeInv
<1> QED
  BY <1>2, <1>8, <1>9 DEF SourcesInv, TypeInv

LEMMA FaultKeeps ==
  ASSUME SourcesInv, Fault
  PROVE  SourcesInv'
<1>1. SourcesSame /\ step \in Operations
  BY SourcesAssumption DEF Fault, diskVars, journalVars, SourcesSame
<1>2. DataTypes' /\ CoreInv' /\ CommittedInv'
  BY <1>1, SameSources DEF SourcesInv, TypeInv
<1>3. count' \in [started : Nat, faults : Nat, crashes : Nat, outages : Nat]
  BY DEF Fault, SourcesInv, TypeInv, ControlTypes
<1>4. CASE step \in PrepareSteps
  <2>1. /\ step' = "discarding" /\ goal' = "failed" /\ UNCHANGED <<at, answer>>
        /\ journal # NoJournal
    BY <1>4 DEF Fault, SourcesInv, StepInv, RemoveInv, Operations, PrepareSteps, RecoverySteps
  <2>2. Resting /\ AtBefore(journal.rows)
    BY <1>4 DEF SourcesInv, StepInv, PrepareInv
  <2>3. Resting' /\ AtBefore(journal.rows)' /\ journal' # NoJournal
    BY <1>1, <2>1, <2>2, SameSources DEF SourcesSame
  <2>4. StepInv'
    BY <2>1, <2>3 DEF StepInv, PrepareInv, ApplyInv, CommitInv, RestoreInv, RemoveInv, PrepareSteps
  <2>5. ControlTypes'
    BY <1>3, <2>1, StepNames DEF ControlTypes, SourcesInv, TypeInv
  <2> QED
    BY <1>2, <2>4, <2>5 DEF SourcesInv, TypeInv
<1>5. CASE step \in CommitSteps
  <2>1. /\ step' = "checking" /\ goal' = "failed" /\ UNCHANGED <<at, answer>>
        /\ journal # NoJournal
    BY <1>5 DEF Fault, SourcesInv, StepInv, RemoveInv, Operations, PrepareSteps, CommitSteps,
       RecoverySteps
  <2>2. StepInv'
    BY <1>1, <2>1, FreeSteps DEF SourcesSame
  <2>3. ControlTypes'
    BY <1>3, <2>1, StepNames DEF ControlTypes, SourcesInv, TypeInv
  <2> QED
    BY <1>2, <2>2, <2>3 DEF SourcesInv, TypeInv
<1>6. CASE End("unlocked", "failed")
  <2>1. ControlTypes'
    BY <1>3, <1>6, EndKept, StepNames DEF SourcesInv, TypeInv
  <2>2. StepInv'
    BY <1>6, FreeSteps DEF End
  <2> QED
    BY <1>2, <2>1, <2>2 DEF SourcesInv, TypeInv
<1> QED
  BY <1>4, <1>5, <1>6 DEF Fault

-----------------------------------------------------------------------------
(* Steps that edit the journal. *)

LEMMA EditKeeps ==
  ASSUME TypeInv, journal # NoJournal, NEW recs, NEW coms, JournalEdit(recs, coms),
         UNCHANGED diskVars
  PROVE  /\ DataTypes' /\ journal' # NoJournal /\ journal'.rows = journal.rows
         /\ Resting => Resting'
         /\ AtBefore(journal.rows) => AtBefore(journal.rows)'
         /\ AtAfter(journal.rows) => AtAfter(journal.rows)'
         /\ Settled => Settled'
         /\ recs \subseteq {TRUE} /\ Opened => Opened'
<1>1. disk' = disk /\ may' = may
  BY DEF diskVars
<1>2. Narrower
  BY <1>1 DEF Narrower, TypeInv, DataTypes
<1>3. journal \in Left /\ \A j \in Left : JournalOK(j)
  BY JournalIsOK DEF TypeInv, DataTypes
<1>4. \A j : JournalOK(j) => j # NoJournal
  BY SourcesAssumption DEF JournalOK
<1>5. journal' # NoJournal /\ journal'.rows = journal.rows
  BY <1>4 DEF JournalEdit, Edited
<1>6. \A j \in Left' : JournalOK(j)
  BY <1>3 DEF JournalEdit, Edited, Left
<1>7. DataTypes'
  BY <1>1, <1>6 DEF DataTypes, TypeInv, JournalEdit
<1>8. RowsKept
  BY DEF RowsKept, JournalEdit, Edited, Left
<1>9. ASSUME recs \subseteq {TRUE}, Opened PROVE Opened'
  <2>1. ASSUME NEW j \in mayJournal'
        PROVE  j # NoJournal /\ j.record /\ j.rows = journal.rows
    <3>1. CASE j \in mayJournal
      BY <1>9, <3>1 DEF Opened, Owned
    <3>2. CASE \E k \in Left : Edited(j, k, recs, coms)
      <4>1. PICK k \in Left : Edited(j, k, recs, coms)
        BY <3>2
      <4>2. k.record = TRUE /\ k.rows = journal.rows
        <5>1. k.record /\ k.rows = journal.rows /\ k.record \in BOOLEAN
          BY <1>3, <1>9 DEF Opened, Owned, Left, JournalOK, Journals
        <5> QED
          BY <5>1
      <4> QED
        BY <1>4, <1>9, <4>1, <4>2 DEF Edited
    <3> QED
      BY <3>1, <3>2 DEF JournalEdit
  <2>2. Owned'
    BY <1>5, <2>1 DEF Owned
  <2> QED
    BY <1>2, <1>5, <1>9, <2>2, OpenedKept
<1>10. /\ AtBefore(journal.rows) => AtBefore(journal.rows)'
       /\ AtAfter(journal.rows) => AtAfter(journal.rows)'
       /\ Settled => Settled'
  BY <1>1, <1>5 DEF AtBefore, AtAfter, Settled
<1> QED
  BY <1>2, <1>5, <1>7, <1>8, <1>9, <1>10, RestingKept

LEMMA PrepareRowKeeps ==
  ASSUME SourcesInv, PrepareRow
  PROVE  SourcesInv'
<1>1. /\ step = "preparing" /\ step' = "preparing" /\ at' = at + 1 /\ UNCHANGED diskVars
      /\ journal # NoJournal
  BY StepNames DEF PrepareRow, Continue, SourcesInv, StepInv, RemoveInv
<1>2. ~journal.record /\ ~journal.committed /\ Resting /\ AtBefore(journal.rows) /\ at >= 1
  BY <1>1 DEF SourcesInv, StepInv, PrepareInv, PrepareSteps
<1>3. /\ JournalEdit({}, {})
      /\ journal'.record = journal.record /\ journal'.committed = journal.committed
  BY <1>1, PrepareRowEdits DEF SourcesInv, TypeInv
<1>4. DataTypes' /\ journal' # NoJournal /\ Resting' /\ AtBefore(journal.rows)'
  BY <1>1, <1>2, <1>3, EditKeeps DEF SourcesInv
<1>5. CoreInv' /\ CommittedInv'
  BY <1>2, <1>3, <1>4 DEF CoreInv, CommittedInv
<1>6. ControlTypes'
  BY ControlKept, StepNames DEF PrepareRow, SourcesInv, TypeInv, ControlTypes
<1>7. at' >= 1
  BY <1>1, <1>2 DEF SourcesInv, TypeInv, ControlTypes
<1>8. StepInv'
  BY <1>1, <1>2, <1>3, <1>4, <1>7 DEF StepInv, PrepareInv, ApplyInv, CommitInv, RestoreInv,
     RemoveInv
<1> QED
  BY <1>4, <1>5, <1>6, <1>8 DEF SourcesInv, TypeInv

LEMMA PublishRecordKeeps ==
  ASSUME SourcesInv, PublishRecord
  PROVE  SourcesInv'
<1>1. /\ step = "preparing" /\ step' = "recorded" /\ at' = 1 /\ UNCHANGED diskVars
      /\ journal # NoJournal
  BY StepNames DEF PublishRecord, Continue, SourcesInv, StepInv, RemoveInv
<1>2. ~journal.committed /\ Resting /\ AtBefore(journal.rows)
  BY <1>1 DEF SourcesInv, StepInv, PrepareInv, PrepareSteps
<1>3. /\ JournalEdit({TRUE}, {})
      /\ journal'.record = TRUE /\ journal'.committed = journal.committed
  BY <1>1, PublishRecordEdits DEF SourcesInv, TypeInv
<1>4. DataTypes' /\ journal' # NoJournal /\ Resting' /\ AtBefore(journal.rows)'
  BY <1>1, <1>2, <1>3, EditKeeps DEF SourcesInv
<1>5. CoreInv' /\ CommittedInv'
  BY <1>2, <1>3, <1>4 DEF CoreInv, CommittedInv
<1>6. ControlTypes'
  BY ControlKept, StepNames DEF PublishRecord, SourcesInv, TypeInv
<1>8. StepInv'
  BY <1>1, <1>2, <1>3, <1>4 DEF StepInv, PrepareInv, ApplyInv, CommitInv, RestoreInv, RemoveInv
<1> QED
  BY <1>4, <1>5, <1>6, <1>8 DEF SourcesInv, TypeInv

\* The marker is set when all rows, the catalog's among them, are durable.
LEMMA PublishCommittedKeeps ==
  ASSUME SourcesInv, PublishCommitted
  PROVE  SourcesInv'
<1>1. /\ step = "applying" /\ step' = "committed" /\ UNCHANGED diskVars
      /\ journal # NoJournal
  BY StepNames DEF PublishCommitted, Continue, SourcesInv, StepInv, RemoveInv
<1>2. /\ journal.record /\ Opened /\ Applied /\ at \in 1 .. Len(journal.rows) + 1
  BY <1>1 DEF SourcesInv, StepInv, ApplyInv
<1>3. DOMAIN journal.rows = 1 .. Len(journal.rows) /\ Len(journal.rows) \in Nat \ {0}
  BY <1>1, JournalIsOK, RowTypes DEF SourcesInv
<1>4. at = Len(journal.rows) + 1
  BY <1>2, <1>3 DEF PublishCommitted, MoreRows
<1>5. \A i \in 1 .. Len(journal.rows) : may[journal.rows[i].path] = {journal.rows[i].after}
  BY <1>2, <1>3, <1>4 DEF Applied
<1>6. Settled /\ AtAfter(journal.rows)
  BY <1>1, <1>2, <1>5, RowsSettled DEF SourcesInv
<1>7. Resting
  BY <1>1, <1>2, <1>6, OpenToRest DEF SourcesInv
<1>8. /\ JournalEdit({}, {TRUE})
      /\ journal'.record = journal.record /\ journal'.committed = TRUE
  BY <1>1, PublishCommittedEdits DEF SourcesInv, TypeInv
<1>9. DataTypes' /\ journal' # NoJournal /\ Resting' /\ AtAfter(journal.rows)' /\ Opened' /\ Settled'
  <2>1. PICK recs, coms : JournalEdit(recs, coms) /\ recs \subseteq {TRUE}
    <3>1. \A recs, coms : JournalEdit(recs, coms) /\ recs = {} => recs \subseteq {TRUE}
      OBVIOUS
    <3> QED
      BY <1>8, <3>1
  <2> QED
    BY <1>1, <1>2, <1>6, <1>7, <2>1, EditKeeps DEF SourcesInv
<1>10. CoreInv' /\ CommittedInv'
  BY <1>2, <1>8, <1>9 DEF CoreInv, CommittedInv
<1>11. ControlTypes'
  BY ControlKept, StepNames DEF PublishCommitted, SourcesInv, TypeInv, ControlTypes
<1>12. StepInv'
  BY <1>1, <1>2, <1>8, <1>9 DEF StepInv, PrepareInv, ApplyInv, CommitInv, RestoreInv, RemoveInv,
     PrepareSteps
<1> QED
  BY <1>9, <1>10, <1>11, <1>12 DEF SourcesInv, TypeInv

\* A journal is only taken apart while the sources rest.
LEMMA RemoveEntryKeeps ==
  ASSUME SourcesInv, RemoveEntry
  PROVE  SourcesInv'
<1>1. /\ step \in {"removing", "discarding"} /\ step' = step /\ at' = at /\ UNCHANGED diskVars
      /\ journal # NoJournal
  BY StepNames DEF RemoveEntry, Continue, SourcesInv, StepInv, RemoveInv
<1>2. Resting /\ (step = "discarding" => AtBefore(journal.rows))
  BY <1>1 DEF SourcesInv, StepInv, RemoveInv
<1>3. Settled
  BY <1>2 DEF Resting
<1>4. PICK recs, coms :
        /\ JournalEdit(recs, coms)
        /\ (recs \subseteq {TRUE} /\ journal'.record = journal.record) \/ journal'.record = FALSE
  <2>1. ASSUME NEW r, NEW c, JournalEdit(r, c),
               (r = {} /\ journal'.record = journal.record) \/ journal'.record = FALSE
        PROVE  \E recs, coms :
                 /\ JournalEdit(recs, coms)
                 /\ (recs \subseteq {TRUE} /\ journal'.record = journal.record)
                      \/ journal'.record = FALSE
    BY <2>1
  <2>2. \/ JournalEdit({}, {}) /\ journal'.record = journal.record
        \/ JournalEdit({FALSE}, {}) /\ journal'.record = FALSE
        \/ JournalEdit({}, {FALSE}) /\ journal'.record = journal.record
    BY <1>1, RemoveEntryEdits DEF SourcesInv, TypeInv
  <2> QED
    BY <2>1, <2>2
<1>5. /\ DataTypes' /\ journal' # NoJournal /\ Resting' /\ Settled'
      /\ AtBefore(journal.rows) => AtBefore(journal.rows)'
      /\ recs \subseteq {TRUE} /\ Opened => Opened'
  BY <1>1, <1>2, <1>3, <1>4, EditKeeps DEF SourcesInv
<1>6. CoreInv'
  BY <1>1, <1>4, <1>5 DEF CoreInv, SourcesInv
<1>7. ControlTypes'
  BY <1>1, ControlKept DEF RemoveEntry, SourcesInv, TypeInv, ControlTypes
<1>8. StepInv'
  BY <1>1, <1>2, <1>5 DEF StepInv, PrepareInv, ApplyInv, CommitInv, RestoreInv, RemoveInv,
     PrepareSteps
<1> QED
  BY <1>5, <1>6, <1>7, <1>8 DEF SourcesInv, TypeInv, CommittedInv

LEMMA RemoveJournalKeeps ==
  ASSUME SourcesInv, RemoveJournal
  PROVE  SourcesInv'
<1>1. /\ step \in {"removing", "discarding"} /\ UNCHANGED diskVars
      /\ journal' = NoJournal /\ mayJournal' = mayJournal \cup {NoJournal}
  BY DEF RemoveJournal
<1>2. Resting
  BY <1>1 DEF SourcesInv, StepInv, RemoveInv
<1>3. Left' = Left
  BY <1>1 DEF Left
<1>4. Narrower /\ RowsKept
  BY <1>1, <1>3 DEF Narrower, RowsKept, diskVars, SourcesInv, TypeInv, DataTypes
<1>5. Resting'
  BY <1>2, <1>4, RestingKept
<1>6. DataTypes'
  BY <1>1, <1>3 DEF DataTypes, SourcesInv, TypeInv, diskVars
<1>7. CoreInv' /\ CommittedInv'
  BY <1>1, <1>5 DEF CoreInv, CommittedInv
<1>8. CASE Continue("removed", 0)
  <2>1. StepInv'
    BY <1>1, <1>8 DEF Continue, StepInv, PrepareInv, ApplyInv, CommitInv, RestoreInv, RemoveInv,
       PrepareSteps
  <2>2. ControlTypes'
    BY <1>8, ControlKept, StepNames DEF SourcesInv, TypeInv
  <2> QED
    BY <1>6, <1>7, <2>1, <2>2 DEF SourcesInv, TypeInv
<1>9. CASE Raise
  <2>1. StepInv'
    BY <1>9, FreeSteps DEF Raise, End
  <2>2. ControlTypes'
    BY <1>9, EndKept, StepNames DEF Raise, SourcesInv, TypeInv, ControlTypes
  <2> QED
    BY <1>6, <1>7, <2>1, <2>2 DEF SourcesInv, TypeInv
<1> QED
  BY <1>8, <1>9 DEF RemoveJournal

-----------------------------------------------------------------------------
(* Steps that make something durable. *)

LEMMA ShrinkKeeps ==
  ASSUME TypeInv, Narrower, may' \in [Target -> SUBSET Bytes],
         mayJournal' \subseteq mayJournal, journal \in mayJournal', journal' = journal
  PROVE  /\ DataTypes'
         /\ Resting => Resting'
         /\ journal # NoJournal /\ Opened => Opened'
         /\ CoreInv => CoreInv'
         /\ CommittedInv => CommittedInv'
         /\ AtBefore(journal.rows) => AtBefore(journal.rows)'
         /\ AtAfter(journal.rows) => AtAfter(journal.rows)'
<1>1. DataTypes'
  <2>1. \A t \in Target : may'[t] \subseteq may[t] /\ disk'[t] \in may'[t]
    BY DEF Narrower
  <2>2. Manifest \in Target /\ File \subseteq Target
    BY DEF Target
  <2>3. may'[Manifest] \subseteq Contents \cup {Absent}
    BY <2>1, <2>2 DEF TypeInv, DataTypes
  <2>4. \A f \in File : may'[f] \subseteq Version \cup {Absent}
    BY <2>1, <2>2 DEF TypeInv, DataTypes
  <2>5. disk' \in [Target -> Bytes]
    BY DEF Narrower, TypeInv, DataTypes
  <2>6. journal' \in mayJournal' /\ \A j \in Left' : JournalOK(j)
    BY DEF TypeInv, DataTypes, Left
  <2> QED
    BY <2>1, <2>3, <2>4, <2>5, <2>6 DEF DataTypes
<1>2. RowsKept
  BY DEF RowsKept, Left
<1>3. /\ AtBefore(journal.rows) => AtBefore(journal.rows)'
      /\ AtAfter(journal.rows) => AtAfter(journal.rows)'
  BY DEF AtBefore, AtAfter, Narrower
<1>4. Resting => Resting'
  BY <1>2, RestingKept
<1>5. ASSUME journal # NoJournal, Opened PROVE Opened'
  <2>1. Owned'
    BY <1>5 DEF Opened, Owned
  <2> QED
    BY <1>5, <2>1, OpenedKept
<1>6. CoreInv => CoreInv'
  BY <1>3, <1>4, <1>5 DEF CoreInv
<1>7. CommittedInv => CommittedInv'
  BY DEF CommittedInv, Settled, Narrower
<1> QED
  BY <1>1, <1>3, <1>4, <1>5, <1>6, <1>7

LEMMA SyncFacts ==
  ASSUME TypeInv, NEW d, Sync(d), disk' = disk, journal' = journal
  PROVE  /\ Narrower /\ may' \in [Target -> SUBSET Bytes]
         /\ mayJournal' \subseteq mayJournal /\ journal \in mayJournal'
         /\ \A t \in Target : DirOf[t] = d => may'[t] = {disk[t]}
<1>1. \A t \in Target : /\ may'[t] = IF DirOf[t] = d THEN {disk[t]} ELSE may[t]
                        /\ disk[t] \in may[t] /\ may[t] \subseteq Bytes
  BY DEF Sync, TypeInv, DataTypes
<1>2. may' \in [Target -> SUBSET Bytes]
  <2>1. may' = [t \in Target |-> IF DirOf[t] = d THEN {disk[t]} ELSE may[t]]
    BY DEF Sync
  <2>2. \A t \in Target : (IF DirOf[t] = d THEN {disk[t]} ELSE may[t]) \in SUBSET Bytes
    BY <1>1
  <2> QED
    BY <2>1, <2>2
<1>3. mayJournal' \subseteq mayJournal /\ journal \in mayJournal'
  BY DEF Sync, TypeInv, DataTypes
<1> QED
  BY <1>1, <1>2, <1>3 DEF Narrower

\* From here on no other journal may come back, and the first row may be applied.
LEMMA SyncPreparedKeeps ==
  ASSUME SourcesInv, SyncPrepared
  PROVE  SourcesInv'
<1>1. /\ step = "recorded" /\ step' = "applying" /\ at' = at
      /\ disk' = disk /\ journal' = journal /\ mayJournal' = {journal}
      /\ may' = [may EXCEPT ![Manifest] = {disk[Manifest]}]
      /\ journal # NoJournal
  BY StepNames DEF SyncPrepared, Continue, SourcesInv, StepInv, RemoveInv
<1>2. ~journal.committed /\ Resting /\ AtBefore(journal.rows) /\ journal.record /\ at = 1
  BY <1>1 DEF SourcesInv, StepInv, PrepareInv, PrepareSteps
<1>3. may' = may
  <2>1. Manifest \in Target
    BY DEF Target
  <2> QED
    BY <1>1, <1>2, <2>1 DEF Resting, Settled, SourcesInv, TypeInv, DataTypes
<1>4. Narrower /\ may' \in [Target -> SUBSET Bytes]
  BY <1>1, <1>3 DEF Narrower, SourcesInv, TypeInv, DataTypes
<1>5. journal \in Left /\ JournalOK(journal)
  BY <1>1, JournalIsOK DEF SourcesInv
<1>6. DataTypes' /\ Resting' /\ CommittedInv' /\ AtBefore(journal.rows)'
  BY <1>1, <1>2, <1>4, <1>5, ShrinkKeeps DEF SourcesInv, Left
<1>7. Owned'
  BY <1>1, <1>2 DEF Owned
<1>8. Opened'
  <2>1. PICK j \in Left : j = journal
    BY <1>5
  <2>2. Shrunk
    BY <1>4 DEF Narrower, Shrunk
  <2>3. Between(j.rows)'
    BY <1>2, <1>5, <2>1, <2>2, RestBetween, BetweenKept DEF SourcesInv
  <2> QED
    BY <1>1, <1>7, <2>1, <2>3 DEF Opened
<1>9. CoreInv'
  BY <1>1, <1>2, <1>8 DEF CoreInv
<1>10. \A i \in 1 .. Len(journal.rows) : may'[journal.rows[i].path] = {journal.rows[i].before}
  BY <1>2, <1>3, <1>5, RowTypes DEF Resting, Settled, AtBefore
<1>11. ApplyInv'
  <2>1. Len(journal.rows) \in Nat \ {0}
    BY <1>5, RowTypes
  <2>2. Applied'
    <3>1. ASSUME NEW i \in 1 .. Len(journal.rows)
          PROVE  /\ ~(i < at') /\ may'[journal.rows[i].path] = {journal.rows[i].before}
                 /\ journal' = journal
      <4>1. ~(i < 1)
        BY <2>1
      <4> QED
        BY <1>1, <1>2, <1>10, <4>1
    <3>2. Len(journal'.rows) = Len(journal.rows)
      BY <1>1
    <3> QED
      BY <3>1, <3>2 DEF Applied
  <2>3. 1 \in 1 .. Len(journal.rows) + 1 /\ 1 \in 1 .. Len(journal.rows)
    BY <2>1
  <2>4. may'[journal'.rows[at'].path] = {journal'.rows[at'].before}
    BY <1>1, <1>2, <1>10, <2>3
  <2> QED
    BY <1>1, <1>2, <1>8, <2>2, <2>3, <2>4 DEF ApplyInv, Row
<1>12. StepInv'
  BY <1>1, <1>11 DEF StepInv, PrepareInv, CommitInv, RestoreInv, RemoveInv, PrepareSteps
<1>13. ControlTypes'
  BY ControlKept, StepNames DEF SyncPrepared, SourcesInv, TypeInv, ControlTypes
<1> QED
  BY <1>6, <1>9, <1>12, <1>13 DEF SourcesInv, TypeInv

LEMMA SyncCommittedKeeps ==
  ASSUME SourcesInv, SyncCommitted
  PROVE  SourcesInv'
<1>1. /\ step = "committed" /\ step' = "checking"
      /\ disk' = disk /\ may' = may /\ journal' = journal /\ mayJournal' = {journal}
      /\ journal # NoJournal
  BY StepNames DEF SyncCommitted, Continue, diskVars, SourcesInv, StepInv, RemoveInv
<1>2. Narrower /\ may' \in [Target -> SUBSET Bytes] /\ journal \in mayJournal
  BY <1>1 DEF Narrower, SourcesInv, TypeInv, DataTypes
<1>3. DataTypes' /\ CoreInv' /\ CommittedInv'
  BY <1>1, <1>2, ShrinkKeeps DEF SourcesInv
<1>4. StepInv'
  BY <1>1, FreeSteps
<1>5. ControlTypes'
  BY ControlKept, StepNames DEF SyncCommitted, SourcesInv, TypeInv
<1> QED
  BY <1>3, <1>4, <1>5 DEF SourcesInv, TypeInv

LEMMA SyncRowKeeps ==
  ASSUME SourcesInv, SyncRow
  PROVE  SourcesInv'
<1>1. /\ step = "syncing" /\ step' = "applying" /\ at' = at + 1
      /\ disk' = disk /\ journal' = journal /\ Sync(DirOf[Row.path])
      /\ journal # NoJournal
  BY StepNames DEF SyncRow, Continue, SourcesInv, StepInv, RemoveInv
<1>2. /\ journal.record /\ ~journal.committed /\ Opened /\ Applied
      /\ at \in 1 .. Len(journal.rows) /\ disk[Row.path] = Row.after
  BY <1>1 DEF SourcesInv, StepInv, ApplyInv
<1>3. /\ Narrower /\ may' \in [Target -> SUBSET Bytes]
      /\ mayJournal' \subseteq mayJournal /\ journal \in mayJournal'
      /\ \A t \in Target : DirOf[t] = DirOf[Row.path] => may'[t] = {disk[t]}
  BY <1>1, SyncFacts DEF SourcesInv
<1>4. DataTypes' /\ CoreInv' /\ CommittedInv' /\ Opened'
  BY <1>1, <1>2, <1>3, ShrinkKeeps DEF SourcesInv
<1>5. \A i \in 1 .. Len(journal.rows) : journal.rows[i].path \in Target
  BY <1>1, JournalIsOK, RowTypes DEF SourcesInv
<1>6. \A t \in Target : \A x : may[t] = {x} => may'[t] = {x}
  BY <1>3 DEF Narrower
<1>7. may'[journal.rows[at].path] = {journal.rows[at].after}
  BY <1>2, <1>3, <1>5 DEF Row
<1>8. Len(journal.rows) \in Nat
  BY <1>1, JournalIsOK, RowTypes DEF SourcesInv
<1>8a. ASSUME NEW i \in 1 .. Len(journal.rows)
       PROVE  /\ i < at => may'[journal.rows[i].path] = {journal.rows[i].after}
              /\ i > at => may'[journal.rows[i].path] = {journal.rows[i].before}
  <2>1. /\ i < at => may[journal.rows[i].path] = {journal.rows[i].after}
        /\ i > at => may[journal.rows[i].path] = {journal.rows[i].before}
        /\ journal.rows[i].path \in Target
    BY <1>2, <1>5 DEF Applied
  <2> QED
    BY <1>6, <2>1
<1>9. Applied'
  <2>1. ASSUME NEW i \in 1 .. Len(journal.rows)
        PROVE  /\ i < at + 1 => may'[journal.rows[i].path] = {journal.rows[i].after}
               /\ i > at + 1 => may'[journal.rows[i].path] = {journal.rows[i].before}
    <3>1. i < at + 1 => i < at \/ i = at
      BY <1>2, <1>8
    <3>2. i > at + 1 => i > at
      BY <1>2, <1>8
    <3> QED
      BY <1>7, <1>8a, <3>1, <3>2
  <2> QED
    BY <1>1, <2>1 DEF Applied
<1>10. at + 1 <= Len(journal.rows) => may'[journal.rows[at + 1].path] = {journal.rows[at + 1].before}
  <2>1. at + 1 > at /\ (at + 1 <= Len(journal.rows) => at + 1 \in 1 .. Len(journal.rows))
    BY <1>2, <1>8
  <2> QED
    BY <1>8a, <2>1
<1>11. at + 1 \in 1 .. Len(journal.rows) + 1
  BY <1>2, <1>8
<1>12. ApplyInv'
  BY <1>1, <1>2, <1>4, <1>9, <1>10, <1>11 DEF ApplyInv, Row
<1>13. StepInv'
  BY <1>1, <1>12 DEF StepInv, PrepareInv, CommitInv, RestoreInv, RemoveInv, PrepareSteps
<1>14. ControlTypes'
  BY ControlKept, StepNames DEF SyncRow, SourcesInv, TypeInv, ControlTypes
<1> QED
  BY <1>4, <1>13, <1>14 DEF SourcesInv, TypeInv

LEMMA SyncRestoredKeeps ==
  ASSUME SourcesInv, SyncRestored
  PROVE  SourcesInv'
<1>1. /\ step = "resyncing" /\ disk' = disk /\ journal' = journal /\ journal # NoJournal
  BY StepNames DEF SyncRestored, SourcesInv, StepInv, RemoveInv
<1>2. /\ journal.record /\ ~journal.committed /\ Restored
      /\ at \in 1 .. Len(journal.rows) /\ disk[Row.path] = Row.before
  BY <1>1 DEF SourcesInv, StepInv, RestoreInv
<1>3. CASE Sync(DirOf[Row.path]) /\ Continue("restoring", at - 1)
  <2>1. /\ Narrower /\ may' \in [Target -> SUBSET Bytes]
        /\ mayJournal' \subseteq mayJournal /\ journal \in mayJournal'
        /\ \A t \in Target : DirOf[t] = DirOf[Row.path] => may'[t] = {disk[t]}
    BY <1>1, <1>3, SyncFacts DEF SourcesInv
  <2>2. DataTypes' /\ CoreInv' /\ CommittedInv'
    BY <1>1, <2>1, ShrinkKeeps DEF SourcesInv
  <2>3. /\ \A i \in 1 .. Len(journal.rows) : journal.rows[i].path \in Target
        /\ Len(journal.rows) \in Nat
    BY <1>1, JournalIsOK, RowTypes DEF SourcesInv
  <2>4. \A t \in Target : \A x : may[t] = {x} => may'[t] = {x}
    BY <2>1 DEF Narrower
  <2>5. may'[journal.rows[at].path] = {journal.rows[at].before}
    BY <1>2, <2>1, <2>3 DEF Row
  <2>6. ASSUME NEW i \in 1 .. Len(journal.rows), i > at - 1
        PROVE  may'[journal.rows[i].path] = {journal.rows[i].before}
    <3>1. i > at \/ i = at
      BY <1>2, <2>3, <2>6
    <3> QED
      BY <1>2, <2>3, <2>4, <2>5, <3>1 DEF Restored
  <2>7. step' = "restoring" /\ at' = at - 1 /\ at - 1 \in 0 .. Len(journal.rows)
    BY <1>2, <1>3, <2>3 DEF Continue
  <2>8. RestoreInv'
    BY <1>1, <1>2, <2>6, <2>7 DEF RestoreInv, Restored
  <2>9. StepInv'
    BY <1>1, <2>7, <2>8 DEF StepInv, PrepareInv, ApplyInv, CommitInv, RemoveInv, PrepareSteps
  <2>10. ControlTypes'
    <3>1. at - 1 \in Nat
      BY <2>3, <2>7
    <3> QED
      BY <1>3, <3>1, ControlKept, StepNames DEF SourcesInv, TypeInv
  <2> QED
    BY <2>2, <2>9, <2>10 DEF SourcesInv, TypeInv
<1>4. CASE Raise /\ UNCHANGED <<may, mayJournal>>
  <2>1. SourcesSame
    BY <1>1, <1>4 DEF SourcesSame
  <2>2. DataTypes' /\ CoreInv' /\ CommittedInv'
    BY <2>1, SameSources DEF SourcesInv, TypeInv
  <2>3. ControlTypes'
    BY <1>4, EndKept, StepNames DEF Raise, SourcesInv, TypeInv, ControlTypes
  <2>4. StepInv'
    BY <1>4, FreeSteps DEF Raise, End
  <2> QED
    BY <2>2, <2>3, <2>4 DEF SourcesInv, TypeInv
<1> QED
  BY <1>3, <1>4 DEF SyncRestored

LEMMA SyncRemovedKeeps ==
  ASSUME SourcesInv, SyncRemoved
  PROVE  SourcesInv'
<1>1. step = "removed" /\ disk' = disk /\ journal' = journal /\ journal = NoJournal /\ Sync(Root)
  BY DEF SyncRemoved, SourcesInv, StepInv, RemoveInv
<1>2. /\ Narrower /\ may' \in [Target -> SUBSET Bytes]
      /\ mayJournal' \subseteq mayJournal /\ journal \in mayJournal'
  BY <1>1, SyncFacts DEF SourcesInv
<1>3. DataTypes' /\ CoreInv' /\ CommittedInv'
  BY <1>1, <1>2, ShrinkKeeps DEF SourcesInv
<1>4. CASE Raise
  <2>1. ControlTypes'
    BY <1>4, EndKept, StepNames DEF Raise, SourcesInv, TypeInv, ControlTypes
  <2>2. StepInv'
    BY <1>4, FreeSteps DEF Raise, End
  <2> QED
    BY <1>3, <2>1, <2>2 DEF SourcesInv, TypeInv
<1>5. CASE goal # "failed" /\ End("inside", goal) /\ UNCHANGED count
  <2>1. goal \in {"published", "failed"} \/ goal = "body"
    BY DEF SourcesInv, TypeInv, ControlTypes
  <2>2. ControlTypes'
    BY <1>5, <2>1, EndKept, StepNames DEF SourcesInv, TypeInv, ControlTypes
  <2>3. StepInv'
    BY <1>1, <1>5 DEF End, StepInv, PrepareInv, ApplyInv, CommitInv, RestoreInv, RemoveInv,
       PrepareSteps, Operations, CommitSteps, RecoverySteps
  <2> QED
    BY <1>3, <2>2, <2>3 DEF SourcesInv, TypeInv
<1> QED
  BY <1>4, <1>5 DEF SyncRemoved, Return

-----------------------------------------------------------------------------
(* Steps that write a path. *)

\* Writing one end of a row keeps the sources between the ends, if the catalog
\* leaves its prior bytes last and returns to them first.
LEMMA WriteOpened ==
  ASSUME TypeInv, journal # NoJournal, Opened, UNCHANGED journalVars,
         NEW i \in 1 .. Len(journal.rows),
         NEW c \in {journal.rows[i].before, journal.rows[i].after},
         Write(journal.rows[i].path, c),
         i # Len(journal.rows) =>
           c = journal.rows[i].after \/ may[Manifest] = {Entry(journal.rows).before},
         i = Len(journal.rows) =>
           \/ c = journal.rows[i].before
           \/ \A k \in 1 .. Len(journal.rows) - 1 :
                may[journal.rows[k].path] = {journal.rows[k].after}
  PROVE  /\ DataTypes' /\ Opened'
         /\ disk'[journal.rows[i].path] = c
         /\ \A k \in 1 .. Len(journal.rows) :
              k # i => may'[journal.rows[k].path] = may[journal.rows[k].path]
<1>0. PICK j \in Left : j = journal /\ JournalOK(j)
  BY JournalIsOK
<1> DEFINE rows == j.rows
           p == rows[i].path
<1>1. /\ Len(rows) \in Nat \ {0} /\ i \in 1 .. Len(rows)
      /\ \A k \in 1 .. Len(rows) : rows[k].path \in Target
      /\ \A k \in 1 .. Len(rows) : rows[k].path = Manifest <=> k = Len(rows)
      /\ \A k \in 1 .. Len(rows) : k # i => rows[k].path # p
      /\ rows[i].before \in Bytes /\ rows[i].after \in Bytes
  <2>1. i \in 1 .. Len(rows)
    BY <1>0
  <2>2. \A k \in 1 .. Len(rows) : k # i => rows[k].path # p
    BY <1>0, <2>1 DEF JournalOK, RowsOK
  <2>3. /\ Len(rows) \in Nat \ {0}
        /\ \A k \in 1 .. Len(rows) :
             /\ rows[k].path \in Target
             /\ rows[k].before \in Bytes /\ rows[k].after \in Bytes
             /\ rows[k].path = Manifest <=> k = Len(rows)
    BY <1>0, RowTypes
  <2> QED
    BY <2>1, <2>2, <2>3
<1>2. /\ p \in Paths(rows) /\ c \in Bytes /\ c \in {rows[i].before, rows[i].after}
  BY <1>0, <1>1, RowOfIs
<1>3. /\ disk' = [disk EXCEPT ![p] = c] /\ may' = [may EXCEPT ![p] = @ \cup {c}]
      /\ journal' = journal /\ mayJournal' = mayJournal
  BY <1>0 DEF Write, journalVars
<1>4. disk \in [Target -> Bytes] /\ may \in [Target -> SUBSET Bytes] /\ p \in Target
  BY <1>1 DEF TypeInv, DataTypes
<1> HIDE DEF p
<1>5. /\ disk'[p] = c /\ may'[p] = may[p] \cup {c}
      /\ \A t \in Target \ {p} : disk'[t] = disk[t] /\ may'[t] = may[t]
  BY <1>3, <1>4
<1>6. \A k \in 1 .. Len(rows) : k # i => may'[rows[k].path] = may[rows[k].path]
  BY <1>1, <1>5 DEF p
<1>7. DataTypes'
  <2>1. disk' \in [Target -> Bytes] /\ may' \in [Target -> SUBSET Bytes]
    BY <1>2, <1>3, <1>4
  <2>2. \A t \in Target : disk'[t] \in may'[t]
    BY <1>5 DEF TypeInv, DataTypes
  <2>3. /\ p = Manifest => c \in Contents \cup {Absent}
        /\ p # Manifest => c \in Version \cup {Absent}
    <3>1. CASE i = Len(rows)
      BY <1>0, <1>1, <1>2, <3>1, FileRow DEF p
    <3>2. CASE i # Len(rows)
      BY <1>0, <1>1, <1>2, <3>2, FileRow DEF p
    <3> QED
      BY <3>1, <3>2
  <2>4. may'[Manifest] \subseteq Contents \cup {Absent}
    <3>1. Manifest \in Target /\ may[Manifest] \subseteq Contents \cup {Absent}
      BY DEF Target, TypeInv, DataTypes
    <3> QED
      BY <1>5, <2>3, <3>1
  <2>5. ASSUME NEW f \in File PROVE may'[f] \subseteq Version \cup {Absent}
    <3>1. f \in Target /\ may[f] \subseteq Version \cup {Absent} /\ f # Manifest
      BY SourcesAssumption DEF Target, TypeInv, DataTypes
    <3> QED
      BY <1>5, <2>3, <3>1
  <2>6. journal' \in mayJournal' /\ \A k \in Left' : JournalOK(k)
    BY <1>3 DEF TypeInv, DataTypes, Left
  <2> QED
    BY <2>1, <2>2, <2>4, <2>5, <2>6 DEF DataTypes
<1>8. Owned' /\ Between(rows)
  BY <1>0, <1>3 DEF Opened, Owned
<1>9. \A f \in File \ Paths(rows) : may'[f] = {Entry(rows).after[f]}
  BY <1>2, <1>5, <1>8 DEF Between, Target
<1>10. \A k \in 1 .. Len(rows) : may'[rows[k].path] \subseteq {rows[k].before, rows[k].after}
  <2>1. may'[p] \subseteq {rows[i].before, rows[i].after}
    <3>1. may[p] \subseteq {rows[i].before, rows[i].after}
      BY <1>1, <1>8 DEF Between, p
    <3> QED
      BY <1>2, <1>5, <3>1
  <2> QED
    BY <1>6, <1>8, <2>1 DEF Between, p
<1>11. \/ may'[Manifest] = {Entry(rows).before}
       \/ \A k \in 1 .. Len(rows) - 1 : may'[rows[k].path] = {rows[k].after}
  <2>1. \A k \in 1 .. Len(rows) - 1 : k \in 1 .. Len(rows) /\ k # Len(rows)
    BY <1>1
  <2>2. CASE i = Len(rows)
    <3>1. CASE \A k \in 1 .. Len(rows) - 1 : may[rows[k].path] = {rows[k].after}
      BY <1>6, <2>1, <2>2, <3>1
    <3>2. CASE may[Manifest] = {Entry(rows).before} /\ c = rows[i].before
      <4>1. p = Manifest /\ c = Entry(rows).before
        BY <1>1, <2>2, <3>2 DEF p, Entry
      <4> QED
        BY <1>5, <3>2, <4>1
    <3> QED
      BY <1>0, <1>8, <2>2, <3>1, <3>2 DEF Between
  <2>3. CASE i # Len(rows)
    <3>1. p # Manifest /\ Manifest \in Target
      BY <1>1, <2>3 DEF p, Target
    <3>2. may'[Manifest] = may[Manifest]
      BY <1>5, <3>1
    <3>3. CASE may[Manifest] = {Entry(rows).before}
      BY <3>2, <3>3
    <3>4. CASE c = rows[i].after /\ \A k \in 1 .. Len(rows) - 1 : may[rows[k].path] = {rows[k].after}
      <4>1. i \in 1 .. Len(rows) - 1
        BY <1>1, <2>3
      <4>2. may'[p] = {rows[i].after}
        BY <1>5, <3>4, <4>1 DEF p
      <4> QED
        BY <1>6, <2>1, <3>4, <4>2 DEF p
    <3> QED
      BY <1>0, <1>8, <2>3, <3>3, <3>4 DEF Between
  <2> QED
    BY <2>2, <2>3
<1>12. Between(rows)'
  BY <1>9, <1>10, <1>11 DEF Between, Entry, Paths
<1>13. Opened'
  BY <1>0, <1>3, <1>8, <1>12 DEF Opened
<1> QED
  BY <1>0, <1>5, <1>6, <1>7, <1>13 DEF p

LEMMA ReplaceRowKeeps ==
  ASSUME SourcesInv, ReplaceRow
  PROVE  SourcesInv'
<1>1. /\ step = "replacing" /\ step' = "syncing" /\ at' = at /\ UNCHANGED journalVars
      /\ Write(Row.path, Row.after) /\ journal # NoJournal
  BY StepNames DEF ReplaceRow, Continue, SourcesInv, StepInv, RemoveInv
<1>2. /\ journal.record /\ ~journal.committed /\ Opened /\ Applied
      /\ at \in 1 .. Len(journal.rows)
  BY <1>1 DEF SourcesInv, StepInv, ApplyInv
<1>3. Len(journal.rows) \in Nat
  BY <1>1, JournalIsOK, RowTypes DEF SourcesInv
<1>4. \A k \in 1 .. Len(journal.rows) - 1 : at = Len(journal.rows) =>
        may[journal.rows[k].path] = {journal.rows[k].after}
  <2>1. \A k \in 1 .. Len(journal.rows) - 1 : k \in 1 .. Len(journal.rows)
                                              /\ (at = Len(journal.rows) => k < at)
    BY <1>3
  <2> QED
    BY <1>2, <2>1 DEF Applied
<1>5. /\ DataTypes' /\ Opened' /\ disk'[journal.rows[at].path] = journal.rows[at].after
      /\ \A k \in 1 .. Len(journal.rows) :
           k # at => may'[journal.rows[k].path] = may[journal.rows[k].path]
  <2>1. PICK i \in 1 .. Len(journal.rows) : i = at
    BY <1>2
  <2>2. PICK c \in {journal.rows[i].before, journal.rows[i].after} : c = journal.rows[i].after
    OBVIOUS
  <2>3. Write(journal.rows[i].path, c)
    BY <1>1, <2>1, <2>2 DEF Row
  <2> QED
    BY <1>1, <1>2, <1>4, <2>1, <2>2, <2>3, WriteOpened DEF SourcesInv
<1>6. journal' = journal
  BY <1>1 DEF journalVars
<1>7. CoreInv' /\ CommittedInv'
  BY <1>1, <1>2, <1>5, <1>6 DEF CoreInv, CommittedInv
<1>8. Applied'
  <2>1. ASSUME NEW i \in 1 .. Len(journal.rows)
        PROVE  /\ i < at => may'[journal.rows[i].path] = {journal.rows[i].after}
               /\ i > at => may'[journal.rows[i].path] = {journal.rows[i].before}
    <3>1. /\ i < at => may[journal.rows[i].path] = {journal.rows[i].after}
          /\ i > at => may[journal.rows[i].path] = {journal.rows[i].before}
      BY <1>2 DEF Applied
    <3>2. i < at \/ i > at => i # at
      BY <1>2, <1>3
    <3> QED
      BY <1>5, <3>1, <3>2
  <2> QED
    BY <1>1, <1>6, <2>1 DEF Applied
<1>9. ApplyInv'
  <2>1. at \in 1 .. Len(journal.rows) + 1 /\ at <= Len(journal.rows)
    BY <1>2, <1>3
  <2> QED
    BY <1>1, <1>2, <1>5, <1>6, <1>8, <2>1 DEF ApplyInv, Row
<1>10. StepInv'
  BY <1>1, <1>6, <1>9 DEF StepInv, PrepareInv, CommitInv, RestoreInv, RemoveInv, PrepareSteps
<1>11. ControlTypes'
  BY ControlKept, StepNames DEF ReplaceRow, SourcesInv, TypeInv, ControlTypes
<1> QED
  BY <1>5, <1>7, <1>10, <1>11 DEF SourcesInv, TypeInv

LEMMA RestoreRowKeeps ==
  ASSUME SourcesInv, RestoreRow
  PROVE  SourcesInv'
<1>1. /\ step = "restoring" /\ step' = "resyncing" /\ at' = at /\ UNCHANGED journalVars
      /\ Write(Row.path, Row.before) /\ journal # NoJournal
  BY StepNames DEF RestoreRow, Continue, SourcesInv, StepInv, RemoveInv
<1>2. /\ journal.record /\ ~journal.committed /\ Restored
      /\ at \in 0 .. Len(journal.rows)
  BY <1>1 DEF SourcesInv, StepInv, RestoreInv
<1>3. /\ Len(journal.rows) \in Nat \ {0} /\ DOMAIN journal.rows = 1 .. Len(journal.rows)
      /\ \A i \in 1 .. Len(journal.rows) : journal.rows[i].path \in Target
      /\ journal.rows[Len(journal.rows)].path = Manifest
  BY <1>1, JournalIsOK, RowTypes DEF SourcesInv
<1>4. at \in 1 .. Len(journal.rows)
  BY <1>3 DEF RestoreRow, MoreRows
<1>5. journal' = journal /\ mayJournal' = mayJournal
  BY <1>1 DEF journalVars
<1>6. /\ DataTypes' /\ CoreInv' /\ disk'[journal.rows[at].path] = journal.rows[at].before
      /\ \A k \in 1 .. Len(journal.rows) :
           k # at => may'[journal.rows[k].path] = may[journal.rows[k].path]
  <2>1. CASE Opened
    <3>1. at # Len(journal.rows) => may[Manifest] = {Entry(journal.rows).before}
      <4>1. Len(journal.rows) \in 1 .. Len(journal.rows)
            /\ (at # Len(journal.rows) => Len(journal.rows) > at)
        BY <1>3, <1>4
      <4> QED
        BY <1>2, <1>3, <4>1 DEF Restored, Entry
    <3>2. PICK i \in 1 .. Len(journal.rows) : i = at
      BY <1>4
    <3>3. PICK c \in {journal.rows[i].before, journal.rows[i].after} : c = journal.rows[i].before
      OBVIOUS
    <3>4. Write(journal.rows[i].path, c)
      BY <1>1, <3>2, <3>3 DEF Row
    <3>5. /\ DataTypes' /\ Opened' /\ disk'[journal.rows[i].path] = c
          /\ \A k \in 1 .. Len(journal.rows) :
               k # i => may'[journal.rows[k].path] = may[journal.rows[k].path]
      BY <1>1, <2>1, <3>1, <3>2, <3>3, <3>4, WriteOpened DEF SourcesInv
    <3> QED
      BY <1>1, <1>2, <1>5, <3>2, <3>3, <3>5 DEF CoreInv
  <2>2. CASE Resting /\ AtBefore(journal.rows)
    <3>1. PICK t \in Target : t = Row.path /\ Row.before = disk[t] /\ may[t] = {disk[t]}
      BY <1>3, <1>4, <2>2 DEF Resting, Settled, AtBefore, Row
    <3>2. disk' = [disk EXCEPT ![t] = disk[t]] /\ may' = [may EXCEPT ![t] = @ \cup {disk[t]}]
      BY <1>1, <3>1 DEF Write
    <3>3. disk' = disk /\ may' = may
      BY <3>1, <3>2 DEF SourcesInv, TypeInv, DataTypes
    <3>4. SourcesSame
      BY <1>5, <3>3 DEF SourcesSame
    <3>5. DataTypes' /\ CoreInv'
      BY <3>4, SameSources DEF SourcesInv, TypeInv
    <3> QED
      BY <3>1, <3>3, <3>5 DEF Row
  <2> QED
    BY <1>1, <1>2, <2>1, <2>2 DEF SourcesInv, CoreInv
<1>7. CommittedInv'
  BY <1>2, <1>5 DEF CommittedInv
<1>8. RestoreInv'
  <2>1. ASSUME NEW i \in 1 .. Len(journal.rows), i > at
        PROVE  may'[journal.rows[i].path] = {journal.rows[i].before}
    <3>1. i # at
      BY <1>4, <2>1
    <3> QED
      BY <1>2, <1>6, <2>1, <3>1 DEF Restored
  <2>2. at >= 1
    BY <1>4
  <2> QED
    BY <1>1, <1>2, <1>5, <1>6, <2>1, <2>2 DEF RestoreInv, Restored, Row
<1>9. StepInv'
  BY <1>1, <1>5, <1>8 DEF StepInv, PrepareInv, ApplyInv, CommitInv, RemoveInv, PrepareSteps
<1>10. ControlTypes'
  BY ControlKept, StepNames DEF RestoreRow, SourcesInv, TypeInv, ControlTypes
<1> QED
  BY <1>6, <1>7, <1>9, <1>10 DEF SourcesInv, TypeInv

-----------------------------------------------------------------------------
(* A transaction begins, and the machine stops. *)

LEMMA AfterType ==
  ASSUME NEW j, JournalOK(j), disk \in [Target -> Bytes]
  PROVE  After(j.rows) \in [Target -> Bytes]
<1>1. ASSUME NEW t \in Target PROVE After(j.rows)[t] \in Bytes
  <2>1. CASE t \in Paths(j.rows)
    <3>1. PICK i \in 1 .. Len(j.rows) : t = j.rows[i].path
      BY <2>1, PathRow
    <3>2. After(j.rows)[j.rows[i].path] = j.rows[i].after
      BY EndsOfRows
    <3>3. j.rows[i].after \in Bytes
      BY RowTypes
    <3> QED
      BY <3>1, <3>2, <3>3
  <2>2. CASE t \notin Paths(j.rows)
    BY <2>2, EndsOfRows
  <2> QED
    BY <2>1, <2>2
<1>2. After(j.rows) = [t \in Target |-> After(j.rows)[t]]
  BY EndsOfRows
<1> QED
  BY <1>1, <1>2

LEMMA BeginFacts ==
  ASSUME TypeInv, Agree, Begin
  PROVE  /\ JournalOK(journal') /\ journal' # NoJournal /\ AtBefore(journal'.rows)
         /\ ~journal'.record /\ ~journal'.committed
         /\ mayJournal' = mayJournal \cup {journal'} /\ UNCHANGED diskVars
         /\ answer' = [result |-> "pending", before |-> disk, after |-> After(journal'.rows)]
<1>1. PICK change \in Publications \cup Deletions : \E order \in SetToSeqs(DOMAIN change) :
        /\ journal' = [id |-> count.started, rows |-> Rows(order, change), backups |-> {},
                       record |-> FALSE, committed |-> FALSE]
        /\ answer' = [result |-> "pending", before |-> disk,
                      after |-> After(Rows(order, change))]
  BY DEF Begin
<1>2. PICK order \in SetToSeqs(DOMAIN change) :
        /\ journal' = [id |-> count.started, rows |-> Rows(order, change), backups |-> {},
                       record |-> FALSE, committed |-> FALSE]
        /\ answer' = [result |-> "pending", before |-> disk,
                      after |-> After(Rows(order, change))]
  BY <1>1
<1>3. PICK rows : rows = Rows(order, change)
  OBVIOUS
<1>4. /\ rows \in Seq([path : Target, before : Bytes, after : Bytes])
      /\ RowsOK(rows) /\ AtBefore(rows)
  BY <1>3, BeginRows
<1>5. journal' = [id |-> count.started, rows |-> rows, backups |-> {}, record |-> FALSE,
                  committed |-> FALSE]
  BY <1>2, <1>3
<1>6. count.started \in Nat
  BY DEF TypeInv, ControlTypes
<1>7. journal'.rows = rows /\ ~journal'.record /\ ~journal'.committed
  BY <1>5
<1>8. JournalOK(journal')
  BY <1>4, <1>5, <1>6, <1>7 DEF JournalOK, Journals
<1>9. journal' # NoJournal
  BY <1>8, SourcesAssumption DEF JournalOK
<1> QED
  BY <1>2, <1>3, <1>4, <1>7, <1>8, <1>9 DEF Begin

LEMMA BeginKeeps ==
  ASSUME SourcesInv, Begin
  PROVE  SourcesInv'
<1>1. journal = NoJournal /\ step' = "preparing" /\ at' = 1 /\ goal' = "published"
      /\ count' = [count EXCEPT !.started = @ + 1]
  BY DEF Begin
<1>2. Resting
  BY <1>1 DEF SourcesInv, CoreInv
<1>3. /\ JournalOK(journal') /\ journal' # NoJournal /\ AtBefore(journal'.rows)
      /\ ~journal'.record /\ ~journal'.committed
      /\ mayJournal' = mayJournal \cup {journal'} /\ UNCHANGED diskVars
      /\ answer' = [result |-> "pending", before |-> disk, after |-> After(journal'.rows)]
  BY <1>2, BeginFacts DEF SourcesInv, Resting
<1>4. /\ disk' = disk /\ may' = may
      /\ Left' = Left \cup {journal'}
  BY <1>3 DEF diskVars, Left
<1>5. DataTypes'
  BY <1>3, <1>4 DEF DataTypes, SourcesInv, TypeInv
<1>6. \A r : (AtBefore(r) => AtBefore(r)') /\ (AtAfter(r) => AtAfter(r)')
  BY <1>4 DEF AtBefore, AtAfter
<1>7. AtBefore(journal.rows)'
  BY <1>3, <1>4 DEF AtBefore
<1>8. Resting'
  <2>1. Settled' /\ Agree'
    BY <1>2, <1>4 DEF Resting, Settled, Agree, Registered
  <2>2. \A j \in Left' : AtBefore(j.rows)' \/ AtAfter(j.rows)'
    BY <1>2, <1>3, <1>4, <1>6 DEF Resting
  <2> QED
    BY <2>1, <2>2 DEF Resting
<1>9. CoreInv' /\ CommittedInv'
  BY <1>3, <1>8 DEF CoreInv, CommittedInv
<1>10. StepInv'
  BY <1>1, <1>3, <1>7, <1>8 DEF StepInv, PrepareInv, ApplyInv, CommitInv, RestoreInv, RemoveInv,
     PrepareSteps
<1>11. answer' \in [result : {"none", "pending", "published", "failed"},
                    before : [Target -> Bytes], after : [Target -> Bytes]]
  <2>1. PICK j : j = journal'
    OBVIOUS
  <2>2. After(j.rows) \in [Target -> Bytes] /\ disk \in [Target -> Bytes]
    BY <1>3, <2>1, AfterType DEF SourcesInv, TypeInv, DataTypes
  <2> QED
    BY <1>3, <2>1, <2>2
<1>12. ControlTypes'
  BY <1>1, <1>11, StepNames DEF ControlTypes, SourcesInv, TypeInv
<1> QED
  BY <1>5, <1>9, <1>10, <1>12 DEF SourcesInv, TypeInv

\* A power loss leaves at every path what it may hold, or takes an original that
\* the catalog does not register.
LEMMA OutageFacts ==
  ASSUME SourcesInv, DirsInv, Outage, ~lost'
  PROVE  /\ disk' = [t \in Target |-> disk'[t]] /\ may' = [t \in Target |-> {disk'[t]}]
         /\ journal' \in mayJournal /\ mayJournal' = {journal'} /\ Stop("outages")
         /\ disk'[Manifest] \in may[Manifest]
         /\ \A f \in File : \/ disk'[f] \in may[f]
                            \/ /\ disk'[f] = Absent /\ Absent \notin may[f]
                               /\ Reg(disk'[Manifest], f) = Absent
<1>1. PICK gone \in SUBSET (dirs \ lasting) :
        /\ disk' \in {d \in [Target -> UNION {may[t] : t \in Target} \cup {Absent}] :
                        \A t \in Target : IF DirOf[t] \in gone THEN d[t] = Absent
                                          ELSE d[t] \in may[t]}
        /\ lost' = (lost \/ \E f \in Torn(gone) : Registered(f)' # Absent)
  BY DEF Outage
<1>2. /\ disk' = [t \in Target |-> disk'[t]] /\ may' = [t \in Target |-> {disk'[t]}]
      /\ journal' \in mayJournal /\ mayJournal' = {journal'} /\ Stop("outages")
  BY <1>1 DEF Outage
<1>3. \A t \in Target : IF DirOf[t] \in gone THEN disk'[t] = Absent ELSE disk'[t] \in may[t]
  BY <1>1
<1>4. disk'[Manifest] \in may[Manifest]
  <2>1. DirOf[Manifest] \notin gone
    BY <1>1 DEF DirsInv, Root
  <2> QED
    BY <1>3, <2>1 DEF Target
<1>5. \A f \in Torn(gone) : Registered(f)' = Absent
  BY <1>1
<1>6. ASSUME NEW f \in File, disk'[f] \notin may[f]
      PROVE  disk'[f] = Absent /\ Absent \notin may[f] /\ Reg(disk'[Manifest], f) = Absent
  <2>1. DirOf[f] \in gone /\ disk'[f] = Absent
    BY <1>3, <1>6 DEF Target
  <2>2. Registered(f)' = Absent
    BY <1>5, <1>6, <2>1 DEF Torn
  <2> QED
    BY <1>6, <2>1, <2>2 DEF Registered, Reg
<1> QED
  BY <1>2, <1>4, <1>6

\* Sources at rest are found as they were.
LEMMA OutageRests ==
  ASSUME SourcesInv, DirsInv, Outage, ~lost', Settled, Agree
  PROVE  disk' = disk
<1>1. disk \in [Target -> Bytes] /\ disk' = [t \in Target |-> disk'[t]]
  BY OutageFacts DEF SourcesInv, TypeInv, DataTypes
<1>2. disk'[Manifest] = disk[Manifest]
  BY OutageFacts DEF Settled, Target
<1>3. ASSUME NEW f \in File PROVE disk'[f] = disk[f]
  <2>1. may[f] = {disk[f]} /\ disk[f] = Reg(disk[Manifest], f)
    BY DEF Settled, Agree, Registered, Reg, Target
  <2> QED
    BY <1>2, <2>1, OutageFacts
<1> QED
  BY <1>1, <1>2, <1>3 DEF Target

\* Sources between the ends of a journal stay between them: an original that is
\* taken without its catalog's entry is back at its prior end.
LEMMA OutageBetween ==
  ASSUME SourcesInv, DirsInv, Outage, ~lost', NEW j \in Left, j = journal, Opened
  PROVE  Between(j.rows)'
<1> DEFINE rows == j.rows
           last == Entry(j.rows)
<1>1. /\ JournalOK(j) /\ Between(rows) /\ may' = [t \in Target |-> {disk'[t]}]
  BY JournalIsOK, OutageFacts DEF Opened, SourcesInv, Left
<1>2. /\ Len(rows) \in Nat \ {0} /\ rows[Len(rows)] = last /\ last.path = Manifest
      /\ \A i \in 1 .. Len(rows) - 1 : i \in 1 .. Len(rows)
      /\ last.after # Absent
      /\ \A i \in 1 .. Len(rows) - 1 :
           /\ rows[i].path \in File
           /\ rows[i].before = Reg(last.before, rows[i].path)
           /\ rows[i].after = Reg(last.after, rows[i].path)
      /\ \A f \in File \ Paths(rows) : /\ last.after[f] = Reg(last.before, f)
                                       /\ last.after[f] = Reg(last.after, f)
  <2>1. Len(rows) \in Nat \ {0}
    BY <1>1, RowTypes
  <2>2. last.after # Absent
    BY <1>1, SourcesAssumption DEF JournalOK, RowsOK
  <2>3. \A i \in 1 .. Len(rows) - 1 : i \in 1 .. Len(rows)
    BY <2>1
  <2> QED
    BY <1>1, <2>1, <2>2, <2>3 DEF JournalOK, RowsOK, Entry, Reg
<1>3. /\ \A f \in File \ Paths(rows) : may[f] = {last.after[f]}
      /\ \A i \in 1 .. Len(rows) : may[rows[i].path] \subseteq {rows[i].before, rows[i].after}
      /\ \/ may[Manifest] = {last.before}
         \/ \A i \in 1 .. Len(rows) - 1 : may[rows[i].path] = {rows[i].after}
  BY <1>1 DEF Between
<1> HIDE DEF rows, last
<1>4. disk'[Manifest] \in may[Manifest] /\ disk'[Manifest] \in {last.before, last.after}
  <2>1. Len(rows) \in 1 .. Len(rows)
    BY <1>2
  <2> QED
    BY <1>2, <1>3, <2>1, OutageFacts
<1>5. \A f \in File : \/ disk'[f] \in may[f]
                      \/ /\ disk'[f] = Absent /\ Absent \notin may[f]
                         /\ Reg(disk'[Manifest], f) = Absent
  BY OutageFacts
<1>6. \A f \in File \ Paths(rows) : disk'[f] = last.after[f]
  BY <1>2, <1>3, <1>4, <1>5
<1>7. ASSUME NEW i \in 1 .. Len(rows) - 1
      PROVE  /\ disk'[rows[i].path] \in {rows[i].before, rows[i].after}
             /\ disk'[Manifest] # last.before => disk'[rows[i].path] = rows[i].after
  <2>1. /\ rows[i].path \in File /\ i \in 1 .. Len(rows)
        /\ rows[i].before = Reg(last.before, rows[i].path)
        /\ rows[i].after = Reg(last.after, rows[i].path)
    BY <1>2
  <2>2. CASE disk'[Manifest] = last.before
    BY <1>3, <1>5, <2>1, <2>2
  <2>3. CASE disk'[Manifest] # last.before
    <3>1. disk'[Manifest] = last.after /\ may[rows[i].path] = {rows[i].after}
      BY <1>3, <1>4, <2>3
    <3> QED
      BY <1>5, <2>1, <3>1
  <2> QED
    BY <2>2, <2>3
<1>8. \A t \in Target : may'[t] = {disk'[t]}
  BY <1>1
<1>9. /\ \A f \in File \ Paths(rows) : may'[f] = {last.after[f]}
      /\ \A i \in 1 .. Len(rows) : may'[rows[i].path] \subseteq {rows[i].before, rows[i].after}
      /\ \/ may'[Manifest] = {last.before}
         \/ \A i \in 1 .. Len(rows) - 1 : may'[rows[i].path] = {rows[i].after}
  <2>1. /\ Manifest \in Target /\ File \subseteq Target
    BY DEF Target
  <2>2. \A i \in 1 .. Len(rows) : i = Len(rows) \/ i \in 1 .. Len(rows) - 1
    BY <1>2
  <2>3. ASSUME NEW i \in 1 .. Len(rows)
        PROVE  may'[rows[i].path] \subseteq {rows[i].before, rows[i].after}
    <3>1. CASE i = Len(rows)
      BY <1>2, <1>4, <1>8, <2>1, <3>1
    <3>2. CASE i \in 1 .. Len(rows) - 1
      BY <1>2, <1>7, <1>8, <2>1, <3>2
    <3> QED
      BY <2>2, <3>1, <3>2
  <2>4. \/ may'[Manifest] = {last.before}
        \/ \A i \in 1 .. Len(rows) - 1 : may'[rows[i].path] = {rows[i].after}
    BY <1>2, <1>7, <1>8, <2>1
  <2> QED
    BY <1>6, <1>8, <2>1, <2>3, <2>4
<1> QED
  BY <1>9 DEF Between, Entry, Paths, rows, last

LEMMA OutageKeeps ==
  ASSUME SourcesInv, DirsInv, Outage, ~lost'
  PROVE  SourcesInv'
<1>1. /\ disk' = [t \in Target |-> disk'[t]] /\ may' = [t \in Target |-> {disk'[t]}]
      /\ journal' \in mayJournal /\ mayJournal' = {journal'}
      /\ Stop("outages")
  BY OutageFacts
<1>2. /\ disk'[Manifest] \in Contents \cup {Absent}
      /\ \A f \in File : disk'[f] \in Version \cup {Absent}
  <2>1. /\ may[Manifest] \subseteq Contents \cup {Absent}
        /\ \A f \in File : may[f] \subseteq Version \cup {Absent}
    BY DEF SourcesInv, TypeInv, DataTypes
  <2> QED
    BY <2>1, OutageFacts
<1>3. DataTypes'
  <2>1. \A t \in Target : disk'[t] \in Bytes
    BY <1>2 DEF Target, Bytes
  <2>2. disk' \in [Target -> Bytes] /\ may' \in [Target -> SUBSET Bytes]
    BY <1>1, <2>1
  <2>3. \A t \in Target : may'[t] = {disk'[t]}
    BY <1>1
  <2>4. /\ may'[Manifest] \subseteq Contents \cup {Absent}
        /\ \A f \in File : may'[f] \subseteq Version \cup {Absent}
    BY <1>2, <2>3 DEF Target
  <2>5. \A j \in Left' : JournalOK(j)
    BY <1>1 DEF Left, SourcesInv, TypeInv, DataTypes
  <2> QED
    BY <1>1, <2>2, <2>3, <2>4, <2>5 DEF DataTypes
<1>5. CommittedInv' /\ Settled'
  BY <1>1 DEF CommittedInv, Settled
<1>6. CoreInv'
  <2>1. ASSUME Resting PROVE CoreInv'
    <3>1. disk' = disk
      BY <2>1, OutageRests DEF Resting
    <3>2. /\ may' = [t \in Target |-> {disk[t]}] /\ may \in [Target -> SUBSET Bytes]
          /\ \A t \in Target : may[t] = {disk[t]}
      BY <1>1, <2>1, <3>1 DEF Resting, Settled, SourcesInv, TypeInv, DataTypes
    <3>3. Narrower /\ RowsKept /\ Shrunk
      BY <1>1, <3>1, <3>2 DEF Narrower, RowsKept, Left, Shrunk
    <3>4. Resting'
      BY <2>1, <3>3, RestingKept
    <3>5. ASSUME journal' # NoJournal, journal'.record PROVE Opened'
      <4>1. PICK j \in Left : j = journal' /\ JournalOK(j)
        BY <1>1, <3>5 DEF Left, SourcesInv, TypeInv, DataTypes
      <4>2. Between(j.rows)'
        BY <2>1, <3>3, <4>1, RestBetween, BetweenKept DEF SourcesInv
      <4>3. Owned'
        BY <1>1, <3>5 DEF Owned
      <4> QED
        BY <4>1, <4>2, <4>3 DEF Opened
    <3> QED
      BY <3>4, <3>5 DEF CoreInv
  <2>2. ASSUME journal # NoJournal, Opened PROVE CoreInv'
    <3>1. PICK j \in Left : j = journal /\ JournalOK(j)
      BY <2>2, JournalIsOK DEF SourcesInv
    <3>2. Between(j.rows)'
      BY <2>2, <3>1, OutageBetween
    <3>3. journal' # NoJournal /\ journal'.record /\ journal'.rows = j.rows
      BY <1>1, <2>2, <3>1 DEF Opened, Owned
    <3>4. Opened'
      BY <1>1, <3>2, <3>3 DEF Opened, Owned
    <3> QED
      BY <3>3, <3>4 DEF CoreInv
  <2> QED
    BY <2>1, <2>2 DEF SourcesInv, CoreInv
<1>7. ControlTypes' /\ step' = "unlocked"
  BY <1>1, StopKept DEF SourcesInv, TypeInv
<1>8. StepInv'
  BY <1>7, FreeSteps
<1> QED
  BY <1>3, <1>5, <1>6, <1>7, <1>8 DEF SourcesInv, TypeInv

-----------------------------------------------------------------------------

LEMMA SourcesInit ==
  ASSUME Init
  PROVE  SourcesInv
<1>1. PICK c \in Contents, registered \in BOOLEAN :
        /\ ~registered => \A f \in File : c[f] = Absent
        /\ disk = [t \in Target |-> IF t # Manifest THEN c[t]
                                    ELSE IF registered THEN c ELSE Absent]
  BY DEF Init
<1>2. /\ may = [t \in Target |-> {disk[t]}] /\ journal = NoJournal /\ mayJournal = {NoJournal}
      /\ step = "unlocked" /\ at = 0 /\ goal = "body"
      /\ answer = [result |-> "none", before |-> disk, after |-> disk]
      /\ count = [started |-> 0, faults |-> 0, crashes |-> 0, outages |-> 0]
  BY DEF Init
<1>3. \A f \in File : disk[f] = c[f] /\ c[f] \in Version \cup {Absent}
  BY <1>1, SourcesAssumption DEF Target, Contents
<1>4. disk[Manifest] = IF registered THEN c ELSE Absent
  BY <1>1 DEF Target
<1>5. disk \in [Target -> Bytes]
  <2>1. \A t \in Target : disk[t] \in Bytes
    BY <1>3, <1>4 DEF Target, Bytes
  <2> QED
    BY <1>1, <2>1
<1>6. DataTypes
  BY <1>2, <1>3, <1>4, <1>5 DEF DataTypes, Left, Target
<1>7. ControlTypes
  BY <1>2, <1>5, StepNames DEF ControlTypes
<1>8. Resting
  <2>1. c # Absent
    BY SourcesAssumption
  <2>2. Agree
    BY <1>1, <1>3, <1>4, <2>1 DEF Agree, Registered
  <2>3. Settled
    BY <1>2 DEF Settled
  <2> QED
    BY <1>2, <2>2, <2>3 DEF Resting, Left
<1>9. StepInv
  BY <1>2 DEF StepInv, PrepareInv, ApplyInv, CommitInv, RestoreInv, RemoveInv, PrepareSteps,
     Operations, CommitSteps, RecoverySteps
<1> QED
  BY <1>2, <1>6, <1>7, <1>8, <1>9 DEF SourcesInv, TypeInv, CoreInv, CommittedInv

\* Directories come and go with the root in place, and what is lost stays lost.
LEMMA DirsStep ==
  ASSUME DirsInv, [Next]_vars
  PROVE  DirsInv' /\ (lost => lost')
<1>1. CASE Outage
  <2>1. /\ lasting' = dirs' /\ lost' \in BOOLEAN /\ (lost => lost')
        /\ \E gone \in SUBSET (dirs \ lasting) : dirs' = dirs \ gone
    BY <1>1 DEF Outage, DirsInv
  <2> QED
    BY <2>1 DEF DirsInv
<1>2. CASE MakeDirectory \/ RestoreRow
  BY <1>2 DEF MakeDirectory, RestoreRow, DirsInv
<1>3. CASE UNCHANGED dirVars
  BY <1>3 DEF dirVars, DirsInv
<1>4. CASE Work
  <2>1. MakeDirectory \/ RestoreRow \/ UNCHANGED dirVars
    BY <1>4 DEF Work, Leave, PrepareRow, PublishRecord, SyncPrepared, ReplaceRow, SyncRow,
       PublishCommitted, SyncCommitted, CheckJournal, SyncRestored, EndRestore, RemoveEntry,
       RemoveJournal, SyncRemoved, diskVars
  <2> QED
    BY <1>2, <1>3, <2>1
<1>5. CASE EnterClean \/ EnterRecover \/ Begin \/ Fault \/ Crash \/ UNCHANGED vars
  <2>1. UNCHANGED dirVars
    BY <1>5 DEF EnterClean, EnterRecover, Begin, Fault, Crash, diskVars, vars
  <2> QED
    BY <1>3, <2>1
<1> QED
  BY <1>1, <1>4, <1>5 DEF Next

LEMMA SourcesStep ==
  ASSUME SourcesInv, DirsInv, [Next]_vars, ~lost'
  PROVE  SourcesInv'
<1>1. CASE Work
  BY <1>1, EnterKeeps, PrepareRowKeeps, PublishRecordKeeps, SyncPreparedKeeps,
     MakeDirectoryKeeps, ReplaceRowKeeps, SyncRowKeeps, PublishCommittedKeeps,
     SyncCommittedKeeps, CheckKeeps, RestoreRowKeeps, SyncRestoredKeeps, EndRestoreKeeps,
     RemoveEntryKeeps, RemoveJournalKeeps, SyncRemovedKeeps DEF Work
<1>2. CASE UNCHANGED vars
  <2>1. SourcesSame /\ UNCHANGED <<step, at, goal, answer, count>>
    BY <1>2 DEF vars, diskVars, journalVars, SourcesSame
  <2>2. DataTypes' /\ CoreInv' /\ CommittedInv'
    BY <2>1, SameSources DEF SourcesInv, TypeInv
  <2>3. ControlTypes'
    BY <2>1 DEF ControlTypes, SourcesInv, TypeInv
  <2>4. StepInv'
    BY <2>1, SameSources DEF SourcesInv, StepInv, PrepareInv, ApplyInv, CommitInv, RestoreInv,
       RemoveInv, SourcesSame, Applied, Restored, Row
  <2> QED
    BY <2>2, <2>3, <2>4 DEF SourcesInv, TypeInv
<1> QED
  BY <1>1, <1>2, EnterKeeps, BeginKeeps, FaultKeeps, CrashKeeps, OutageKeeps DEF Next

LEMMA DirsHold == Spec => []DirsInv
<1>1. Init => DirsInv
  <2> SUFFICES ASSUME Init PROVE DirsInv
    OBVIOUS
  <2>1. lasting = dirs /\ lost = FALSE /\ KnownDirs \subseteq dirs
    BY DEF Init
  <2> QED
    BY <2>1, SourcesAssumption DEF DirsInv
<1>2. DirsInv /\ [Next]_vars => DirsInv'
  BY DirsStep
<1> QED
  BY <1>1, <1>2, PTL DEF Spec

\* The invariant behind every promise about sources: until a power loss takes an
\* original with its new directory, whatever one may leave, originals and catalog
\* are at an end of every journal that may come back, or between the ends of the
\* only one, which is recorded.
THEOREM SourcesHold == Spec => [](~lost => SourcesInv)
<1>1. Init => SafeInv
  BY SourcesInit DEF SafeInv
<1>2. SafeInv /\ DirsInv /\ [Next]_vars => SafeInv'
  BY SourcesStep, DirsStep DEF SafeInv
<1>3. SafeInv <=> (~lost => SourcesInv)
  BY DEF SafeInv
<1> QED
  BY <1>1, <1>2, <1>3, DirsHold, PTL DEF Spec

-----------------------------------------------------------------------------
(* What readers and recoveries find. *)

\* Whoever reads without the lock finds a catalog that matches every original, or
\* one that is behind them and that a recorded journal can still undo: never one
\* that is ahead, in whatever order operations raise, processes die and power fails,
\* as long as no power loss takes an original with its new directory.
THEOREM CatalogIsNeverAhead == Spec => []CatalogNeverAhead
<1>1. (~lost => SourcesInv) => CatalogNeverAhead
  <2> SUFFICES ASSUME SourcesInv PROVE CatalogNeverAhead
    BY DEF CatalogNeverAhead
  <2>1. CASE Resting
    BY <2>1 DEF Resting, CatalogNeverAhead
  <2>2. CASE ~Resting
    <3>1. journal # NoJournal /\ journal.record /\ Opened
      BY <2>2 DEF SourcesInv, CoreInv
    <3>2. PICK j \in Left : j = journal /\ JournalOK(j)
      BY <3>1, JournalIsOK DEF SourcesInv
    <3>3. /\ Len(j.rows) \in Nat \ {0} /\ DOMAIN j.rows = 1 .. Len(j.rows)
          /\ j.rows[Len(j.rows)].path = Manifest
          /\ \A i \in 1 .. Len(j.rows) : j.rows[i].path = Manifest <=> i = Len(j.rows)
      BY <3>2, RowTypes
    <3>4. Len(j.rows) \in DOMAIN j.rows
      BY <3>3
    <3>5. CASE disk[Manifest] = Entry(j.rows).before
      <4>1. j.rows[Len(j.rows)] \in Rowset(journal)
        BY <3>2, <3>4 DEF Rowset
      <4> QED
        BY <3>1, <3>3, <3>5, <4>1 DEF CatalogNeverAhead, Entry
    <3>6. CASE disk[Manifest] # Entry(j.rows).before
      <4>1. disk[Manifest] \in may[Manifest] /\ \A f \in File : disk[f] \in may[f]
        BY DEF SourcesInv, TypeInv, DataTypes, Target
      <4>2. disk[Manifest] = Entry(j.rows).after
        BY <3>1, <3>2, <3>3, <3>4, <3>6, <4>1 DEF Opened, Between, Entry
      <4>3. \A i \in 1 .. Len(j.rows) - 1 : may[j.rows[i].path] = {j.rows[i].after}
        BY <3>1, <3>2, <3>6, <4>1 DEF Opened, Between
      <4>4. Entry(j.rows).after # Absent
        BY <3>2, SourcesAssumption DEF JournalOK, RowsOK
      <4>5. ASSUME NEW f \in File PROVE disk[f] = Entry(j.rows).after[f]
        <5>1. CASE f \notin Paths(j.rows)
          BY <3>1, <3>2, <4>1, <5>1 DEF Opened, Between
        <5>2. CASE f \in Paths(j.rows)
          <6>1. PICK i \in 1 .. Len(j.rows) : f = j.rows[i].path
            BY <3>2, <5>2, PathRow
          <6>2. i \in 1 .. Len(j.rows) - 1
            BY <3>3, <6>1, SourcesAssumption
          <6>3. j.rows[i].after = Entry(j.rows).after[f]
            BY <3>2, <6>1, <6>2 DEF JournalOK, RowsOK
          <6> QED
            BY <4>1, <4>3, <6>1, <6>2, <6>3
        <5> QED
          BY <5>1, <5>2
      <4>6. Agree
        BY <4>2, <4>4, <4>5 DEF Agree, Registered
      <4> QED
        BY <4>6 DEF CatalogNeverAhead
    <3> QED
      BY <3>5, <3>6
  <2> QED
    BY <2>1, <2>2
<1> QED
  BY <1>1, SourcesHold, PTL

-----------------------------------------------------------------------------
(* Steps that change neither a path nor the reach of a journal. *)

\* No path is written, no journal appears, and none becomes committed or goes
\* before the sources rest.
Tame ==
  /\ disk' = disk
  /\ \A j \in Left' : \E k \in Left : j.rows = k.rows /\ (j.committed => k.committed)
  /\ journal' # NoJournal =>
       /\ journal # NoJournal /\ journal'.rows = journal.rows
       /\ journal'.committed => journal.committed
  /\ journal # NoJournal /\ journal' = NoJournal => Resting

LEMMA EditIsTame ==
  ASSUME TypeInv, journal # NoJournal, NEW recs, NEW coms, JournalEdit(recs, coms),
         TRUE \notin coms, disk' = disk
  PROVE  Tame
<1>1. ASSUME NEW j, NEW k, Edited(j, k, recs, coms), JournalOK(k)
      PROVE  j.rows = k.rows /\ (j.committed => k.committed)
  <2>1. j.committed \in BOOLEAN /\ (j.committed = k.committed \/ j.committed \in coms)
    BY <1>1 DEF Edited, JournalOK, Journals
  <2>2. j.rows = k.rows
    BY <1>1 DEF Edited
  <2> QED
    BY <2>1, <2>2
<1>2. JournalOK(journal) /\ \A j \in Left : JournalOK(j)
  BY JournalIsOK DEF TypeInv, DataTypes
<1>3. /\ journal'.rows = journal.rows /\ (journal'.committed => journal.committed)
      /\ journal' # NoJournal
  BY <1>1, <1>2, SourcesAssumption DEF JournalEdit, Edited, JournalOK
<1>4. ASSUME NEW j \in Left'
      PROVE  \E k \in Left : j.rows = k.rows /\ (j.committed => k.committed)
  <2>1. CASE j \in mayJournal
    BY <1>4, <2>1 DEF Left
  <2>2. CASE \E k \in Left : Edited(j, k, recs, coms)
    BY <1>1, <1>2, <2>2
  <2> QED
    BY <1>4, <2>1, <2>2 DEF JournalEdit, Left
<1> QED
  BY <1>3, <1>4 DEF Tame

LEMMA NarrowIsTame ==
  ASSUME disk' = disk, journal' = journal, mayJournal' \subseteq mayJournal
  PROVE  Tame
BY DEF Tame, Left

\* Every other step is one of five.
LEMMA TameSteps ==
  ASSUME SourcesInv, [Next]_vars
  PROVE  Tame \/ Begin \/ ReplaceRow \/ RestoreRow \/ PublishCommitted \/ Outage
<1>1. CASE \/ EnterClean \/ EnterRecover \/ Leave \/ MakeDirectory \/ CheckJournal
           \/ EndRestore \/ Fault \/ Crash \/ UNCHANGED vars
  BY <1>1, NarrowIsTame DEF EnterClean, EnterRecover, Leave, MakeDirectory, CheckJournal,
     EndRestore, Fault, Crash, vars, diskVars, journalVars
<1>2. CASE PrepareRow
  <2>1. disk' = disk /\ journal # NoJournal
    BY <1>2, StepNames DEF PrepareRow, diskVars, SourcesInv, StepInv, RemoveInv
  <2>2. \A x : TRUE \notin {}
    OBVIOUS
  <2> QED
    BY <1>2, <2>1, PrepareRowEdits, EditIsTame DEF SourcesInv, TypeInv
<1>3. CASE PublishRecord
  <2>1. disk' = disk /\ journal # NoJournal
    BY <1>3, StepNames DEF PublishRecord, diskVars, SourcesInv, StepInv, RemoveInv
  <2> QED
    BY <1>3, <2>1, PublishRecordEdits, EditIsTame DEF SourcesInv, TypeInv
<1>4. CASE RemoveEntry
  <2>1. disk' = disk /\ journal # NoJournal
    BY <1>4, StepNames DEF RemoveEntry, diskVars, SourcesInv, StepInv, RemoveInv
  <2>2. ASSUME NEW recs, NEW coms, JournalEdit(recs, coms), coms \subseteq {FALSE}
        PROVE  Tame
    <3>1. TRUE \notin coms
      BY <2>2
    <3> QED
      BY <2>1, <2>2, <3>1, EditIsTame DEF SourcesInv
  <2>3. \E recs, coms : JournalEdit(recs, coms) /\ coms \subseteq {FALSE}
    <3>1. ASSUME NEW recs, NEW coms, JournalEdit(recs, coms), coms = {} \/ coms = {FALSE}
          PROVE  \E r, c : JournalEdit(r, c) /\ c \subseteq {FALSE}
      BY <3>1
    <3>2. JournalEdit({}, {}) \/ JournalEdit({FALSE}, {}) \/ JournalEdit({}, {FALSE})
      BY <1>4, <2>1, RemoveEntryEdits DEF SourcesInv, TypeInv
    <3> QED
      BY <3>1, <3>2
  <2> QED
    BY <2>2, <2>3
<1>5. CASE RemoveJournal
  BY <1>5 DEF RemoveJournal, Tame, Left, diskVars, SourcesInv, StepInv, RemoveInv
<1>6. CASE SyncPrepared \/ SyncCommitted
  <2>1. journal \in mayJournal
    BY DEF SourcesInv, TypeInv, DataTypes
  <2> QED
    BY <1>6, <2>1, NarrowIsTame DEF SyncPrepared, SyncCommitted, diskVars
<1>7. CASE SyncRow \/ SyncRemoved
  <2>1. disk' = disk /\ journal' = journal /\ \E d : Sync(d)
    BY <1>7 DEF SyncRow, SyncRemoved
  <2> QED
    BY <2>1, SyncFacts, NarrowIsTame DEF SourcesInv
<1>8. CASE SyncRestored
  <2>1. disk' = disk /\ journal' = journal
    BY <1>8 DEF SyncRestored
  <2>2. (\E d : Sync(d)) \/ mayJournal' = mayJournal
    BY <1>8 DEF SyncRestored
  <2> QED
    BY <2>1, <2>2, SyncFacts, NarrowIsTame DEF SourcesInv
<1> QED
  BY <1>1, <1>2, <1>3, <1>4, <1>5, <1>6, <1>7, <1>8 DEF Next, Work

-----------------------------------------------------------------------------
(* Committed journals keep their evidence. *)

\* Only a raising operation or a dying process leaves journals of other
\* transactions behind.
LEMMA AloneKept ==
  ASSUME SourcesInv, SourcesInv', SoloInv, [Next]_vars, Clean'
  PROVE  Clean /\ Alone' /\ step' # "discarding"
<1>1. Clean /\ ~Fault /\ ~Crash
  <2>1. /\ count.faults \in Nat /\ count.crashes \in Nat
        /\ count \in [started : Nat, faults : Nat, crashes : Nat, outages : Nat]
    BY DEF SourcesInv, TypeInv, ControlTypes
  <2>2. /\ Fault => count'.faults = count.faults + 1 /\ count'.crashes = count.crashes
        /\ Crash => count'.faults = count.faults /\ count'.crashes = count.crashes + 1
    BY <2>1 DEF Fault, Crash, Stop
  <2>3. ~Fault /\ ~Crash => count'.faults = count.faults /\ count'.crashes = count.crashes
    <3>1. CASE count' = count
      BY <3>1
    <3>2. CASE Begin \/ Outage
      BY <2>1, <3>2 DEF Begin, Outage, Stop
    <3>3. CASE EnterClean \/ EnterRecover \/ Work \/ UNCHANGED vars
      <4>1. count' = count
        BY <3>3 DEF EnterClean, EnterRecover, Work, Leave, PrepareRow, PublishRecord, SyncPrepared,
           MakeDirectory, ReplaceRow, SyncRow, PublishCommitted, SyncCommitted, CheckJournal,
           RestoreRow, SyncRestored, EndRestore, RemoveEntry, RemoveJournal, SyncRemoved, Continue,
           Raise, Return, vars
      <4> QED
        BY <3>1, <4>1
    <3> QED
      BY <3>2, <3>3 DEF Next
  <2> QED
    BY <2>1, <2>2, <2>3 DEF Clean
<1>2. Alone /\ step # "discarding"
  BY <1>1 DEF SoloInv
<1>3. journal \in mayJournal /\ journal' \in mayJournal'
  BY DEF SourcesInv, TypeInv, DataTypes
<1>4. CASE EnterClean \/ EnterRecover \/ Leave \/ MakeDirectory \/ ReplaceRow \/ CheckJournal
           \/ RestoreRow \/ EndRestore \/ UNCHANGED vars
  BY <1>1, <1>2, <1>4 DEF EnterClean, EnterRecover, Leave, MakeDirectory, ReplaceRow, CheckJournal,
     RestoreRow, EndRestore, Continue, Raise, End, Alone, vars, diskVars, journalVars
<1>5. CASE Begin \/ PrepareRow \/ PublishRecord \/ PublishCommitted \/ RemoveEntry \/ RemoveJournal
  BY <1>1, <1>2, <1>5 DEF Begin, PrepareRow, PublishRecord, PublishCommitted, RemoveEntry,
     RemoveJournal, Continue, Alone
<1>6. CASE SyncPrepared \/ SyncCommitted \/ Outage
  BY <1>1, <1>6 DEF SyncPrepared, SyncCommitted, Outage, Stop, Continue, Alone, diskVars
<1>7. CASE SyncRow
  <2>1. step = "syncing" /\ step' = "applying" /\ mayJournal' \subseteq mayJournal /\ journal' = journal
    BY <1>7, SyncFacts DEF SyncRow, Continue, SourcesInv
  <2> QED
    BY <1>1, <1>2, <1>3, <2>1 DEF Alone
<1>8. CASE SyncRestored
  <2>1. /\ step = "resyncing" /\ step' \in {"restoring", "unlocked"}
        /\ journal' = journal /\ mayJournal' \subseteq mayJournal
    BY <1>8, SyncFacts DEF SyncRestored, Continue, Raise, End, SourcesInv
  <2> QED
    BY <1>1, <1>2, <1>3, <2>1 DEF Alone
<1>9. CASE SyncRemoved
  <2>1. step = "removed" /\ step' \in {"inside", "unlocked"} /\ journal' = journal
    BY <1>9 DEF SyncRemoved, Return, Raise, End
  <2>2. journal = NoJournal
    BY <2>1 DEF SourcesInv, StepInv, RemoveInv
  <2>3. mayJournal' = {NoJournal}
    BY <1>9, <2>2 DEF SyncRemoved, Sync
  <2> QED
    BY <1>1, <2>1, <2>2, <2>3 DEF Alone
<1> QED
  BY <1>1, <1>4, <1>5, <1>6, <1>7, <1>8, <1>9 DEF Next, Work

\* Sources with the new bytes of the only transaction are at rest.
LEMMA AfterAgrees ==
  ASSUME SourcesInv, journal # NoJournal, AtAfter(journal.rows)
  PROVE  Agree
<1>1. CASE Opened
  <2>1. PICK j \in Left : j = journal /\ JournalOK(j)
    BY JournalIsOK DEF SourcesInv
  <2>2. /\ Len(j.rows) \in Nat \ {0} /\ Len(j.rows) \in 1 .. Len(j.rows)
        /\ Entry(j.rows).path = Manifest /\ Entry(j.rows).after # Absent
    BY <2>1, RowTypes, SourcesAssumption DEF JournalOK, RowsOK
  <2>3. disk[Manifest] = Entry(j.rows).after
    BY <2>1, <2>2 DEF AtAfter, Entry
  <2>4. ASSUME NEW f \in File PROVE disk[f] = Entry(j.rows).after[f]
    <3>1. CASE f \notin Paths(j.rows)
      <4>1. may[f] = {Entry(j.rows).after[f]} /\ disk[f] \in may[f]
        BY <1>1, <2>1, <3>1 DEF Opened, Between, SourcesInv, TypeInv, DataTypes, Target
      <4> QED
        BY <4>1
    <3>2. CASE f \in Paths(j.rows)
      <4>1. PICK i \in 1 .. Len(j.rows) : f = j.rows[i].path
        BY <2>1, <3>2, PathRow
      <4>2. i \in 1 .. Len(j.rows) - 1
        BY <2>2, <4>1, SourcesAssumption DEF Entry
      <4>3. j.rows[i].after = Entry(j.rows).after[f]
        BY <2>1, <4>1, <4>2 DEF JournalOK, RowsOK
      <4> QED
        BY <2>1, <4>1, <4>3 DEF AtAfter
    <3> QED
      BY <3>1, <3>2
  <2> QED
    BY <2>2, <2>3, <2>4 DEF Agree, Registered
<1> QED
  BY <1>1 DEF SourcesInv, CoreInv, Resting

\* No power loss takes back what a committed journal has published.
LEMMA OutageKeepsEvidence ==
  ASSUME SourcesInv, DirsInv, SoloInv, Clean, Outage, ~lost', journal' # NoJournal,
         journal'.committed
  PROVE  disk' = disk /\ AtAfter(journal'.rows)
<1>1. Alone /\ step # "discarding" /\ \A j \in Left : j.committed => AtAfter(j.rows)
  BY DEF SoloInv
<1>2. journal' \in Left
  BY OutageFacts DEF Left
<1>3. Settled /\ Agree
  <2>1. CASE mayJournal = {journal}
    <3>1. journal' = journal
      BY <2>1, OutageFacts
    <3>2. AtAfter(journal.rows)
      BY <1>1, <1>2, <3>1
    <3> QED
      BY <3>1, <3>2, AfterAgrees DEF SourcesInv, CommittedInv
  <2>2. CASE mayJournal # {journal}
    <3>1. step \in PrepareSteps \cup {"committed", "removing", "removed"}
      BY <1>1, <2>2 DEF Alone, SourcesInv, TypeInv, ControlTypes, Steps, Operations, PrepareSteps,
         CommitSteps, RecoverySteps
    <3>2. Resting
      BY <3>1 DEF SourcesInv, StepInv, PrepareInv, CommitInv, RemoveInv, CoreInv
    <3> QED
      BY <3>2 DEF Resting
  <2> QED
    BY <2>1, <2>2
<1>4. disk' = disk
  BY <1>3, OutageRests
<1> QED
  BY <1>1, <1>2, <1>4

LEMMA EvidenceKept ==
  ASSUME SourcesInv, SourcesInv', DirsInv, SoloInv, EvidenceInv, [Next]_vars, ~lost', OneKind'
  PROVE  SoloInv' /\ EvidenceInv'
<1>1. Clean' => Clean /\ Alone' /\ step' # "discarding"
  BY AloneKept
<1>2. \A j \in Left : Clean /\ j.committed => AtAfter(j.rows)
  BY DEF SoloInv
<1>3. ASSUME disk' = disk, NEW r, AtAfter(r) PROVE AtAfter(r)'
  BY <1>3 DEF AtAfter
<1>4. CASE Tame
  <2>1. ASSUME Clean, NEW j \in Left', j.committed PROVE AtAfter(j.rows)'
    <3>1. PICK k \in Left : j.rows = k.rows /\ k.committed
      BY <1>4, <2>1 DEF Tame
    <3> QED
      BY <1>2, <1>3, <1>4, <2>1, <3>1 DEF Tame
  <2>2. EvidenceInv'
    <3> SUFFICES ASSUME journal' # NoJournal, journal'.committed PROVE AtAfter(journal.rows)'
      BY DEF EvidenceInv
    <3>1. journal # NoJournal /\ journal'.rows = journal.rows /\ journal.committed /\ disk' = disk
      BY <1>4 DEF Tame
    <3>2. AtAfter(journal.rows)
      BY <3>1 DEF EvidenceInv
    <3> QED
      BY <3>1, <3>2 DEF AtAfter
  <2> QED
    BY <1>1, <2>1, <2>2 DEF SoloInv
<1>5. CASE Begin
  <2>1. /\ disk' = disk /\ mayJournal' = mayJournal \cup {journal'}
        /\ \E n, r : journal' = [id |-> n, rows |-> r, backups |-> {}, record |-> FALSE,
                                  committed |-> FALSE]
    BY <1>5 DEF Begin, diskVars
  <2>2. ~journal'.committed
    BY <2>1
  <2>3. \A j \in Left' : j.committed => j \in Left
    BY <2>1, <2>2 DEF Left
  <2>4. \A j \in Left' : Clean /\ j.committed => AtAfter(j.rows)'
    BY <1>2, <1>3, <2>1, <2>3
  <2> QED
    BY <1>1, <2>2, <2>4 DEF SoloInv, EvidenceInv
<1>6. CASE ReplaceRow \/ RestoreRow
  <2>1. journal' = journal /\ mayJournal' = mayJournal /\ step \in {"replacing", "restoring"}
    BY <1>6 DEF ReplaceRow, RestoreRow, journalVars
  <2>2. ~journal.committed
    BY <2>1 DEF SourcesInv, StepInv, ApplyInv, RestoreInv
  <2>3. Clean => mayJournal = {journal}
    BY <2>1 DEF SoloInv, Alone
  <2> QED
    BY <1>1, <2>1, <2>2, <2>3 DEF SoloInv, EvidenceInv, Left
<1>7. CASE PublishCommitted
  <2>1. step' = "committed"
    BY <1>7 DEF PublishCommitted, Continue
  <2>2. AtAfter(journal.rows)' /\ \A j \in mayJournal' : j.rows = journal'.rows
    BY <2>1 DEF SourcesInv, StepInv, CommitInv, Opened, Owned
  <2>3. \A j \in Left' : AtAfter(j.rows)'
    BY <2>2 DEF Left, AtAfter
  <2> QED
    BY <1>1, <2>2, <2>3 DEF SoloInv, EvidenceInv
<1>8. CASE Outage
  <2>1. count'.outages = count.outages + 1 /\ count.outages \in Nat /\ mayJournal' = {journal'}
    BY <1>8 DEF Outage, Stop, SourcesInv, TypeInv, ControlTypes
  <2>2. Clean
    <3>1. Clean'
      BY <2>1 DEF OneKind, Clean
    <3> QED
      BY <1>1, <3>1
  <2>3. EvidenceInv'
    <3> SUFFICES ASSUME journal' # NoJournal, journal'.committed PROVE AtAfter(journal.rows)'
      BY DEF EvidenceInv
    <3>1. disk' = disk /\ AtAfter(journal'.rows)
      BY <1>8, <2>2, OutageKeepsEvidence
    <3> QED
      BY <3>1 DEF AtAfter
  <2> QED
    BY <1>1, <2>1, <2>3 DEF SoloInv, EvidenceInv, Left
<1> QED
  BY <1>4, <1>5, <1>6, <1>7, <1>8, TameSteps

\* Power losses that meet no failure of another kind stay that way back in time.
LEMMA OneKindBefore ==
  ASSUME SourcesInv, [Next]_vars, OneKind'
  PROVE  OneKind
<1>1. /\ count \in [started : Nat, faults : Nat, crashes : Nat, outages : Nat]
      /\ count.faults \in Nat /\ count.crashes \in Nat /\ count.outages \in Nat
  BY DEF SourcesInv, TypeInv, ControlTypes
<1>2. \/ /\ count'.faults = count.faults /\ count'.crashes = count.crashes
         /\ count'.outages = count.outages
      \/ count'.faults = count.faults + 1 /\ count'.crashes = count.crashes
         /\ count'.outages = count.outages
      \/ count'.faults = count.faults /\ count'.crashes = count.crashes + 1
         /\ count'.outages = count.outages
      \/ count'.faults = count.faults /\ count'.crashes = count.crashes
         /\ count'.outages = count.outages + 1
  <2>1. CASE Begin \/ Fault \/ Crash \/ Outage
    BY <1>1, <2>1 DEF Begin, Fault, Crash, Outage, Stop
  <2>2. CASE EnterClean \/ EnterRecover \/ Work \/ UNCHANGED vars
    <3>1. count' = count
      BY <2>2 DEF EnterClean, EnterRecover, Work, Leave, PrepareRow, PublishRecord, SyncPrepared,
         MakeDirectory, ReplaceRow, SyncRow, PublishCommitted, SyncCommitted, CheckJournal,
         RestoreRow, SyncRestored, EndRestore, RemoveEntry, RemoveJournal, SyncRemoved, Continue,
         Raise, Return, vars
    <3> QED
      BY <3>1
  <2> QED
    BY <2>1, <2>2 DEF Next
<1> QED
  BY <1>1, <1>2 DEF OneKind

\* As long as power losses meet no failure of another kind, and take no original with
\* its new directory, a recorded journal never blames the sources: every row is at
\* one of its ends, and a committed one has all of its new bytes.
THEOREM EvidenceIsKept == Spec => []EvidenceHolds
<1> DEFINE SafeEvidence == ~lost /\ OneKind => SoloInv /\ EvidenceInv
<1>1. Init => SafeEvidence
  BY DEF Init, SoloInv, EvidenceInv, Alone, Left
<1>2. /\ SafeInv /\ SafeInv' /\ DirsInv /\ SafeEvidence /\ [Next]_vars
      => SafeEvidence'
  BY EvidenceKept, OneKindBefore, DirsStep DEF SafeInv
<1>3. SafeInv /\ SafeEvidence => EvidenceHolds
  <2> SUFFICES ASSUME SourcesInv, EvidenceInv, journal # NoJournal, journal.record
               PROVE  /\ \A row \in Rowset(journal) : disk[row.path] \in {row.before, row.after}
                      /\ journal.committed => Finished(journal)
    BY DEF EvidenceHolds, SafeInv
  <2>1. PICK j \in Left : j = journal /\ JournalOK(j)
    BY JournalIsOK DEF SourcesInv
  <2>2. DOMAIN j.rows = 1 .. Len(j.rows) /\ \A i \in 1 .. Len(j.rows) : j.rows[i].path \in Target
    BY <2>1, RowTypes
  <2>3. \A t \in Target : disk[t] \in may[t]
    BY DEF SourcesInv, TypeInv, DataTypes
  <2>4. ASSUME NEW i \in 1 .. Len(j.rows)
        PROVE  disk[j.rows[i].path] \in {j.rows[i].before, j.rows[i].after}
    <3>1. CASE Opened
      BY <2>1, <2>2, <2>3, <2>4, <3>1 DEF Opened, Between
    <3>2. CASE AtBefore(journal.rows)
      BY <2>1, <2>4, <3>2 DEF AtBefore
    <3> QED
      BY <3>1, <3>2 DEF SourcesInv, CoreInv
  <2>5. journal.committed => Finished(journal)
    BY <2>1, <2>2 DEF EvidenceInv, AtAfter, Finished
  <2> QED
    BY <2>1, <2>2, <2>4, <2>5 DEF Rowset
<1>4. SafeInv <=> (~lost => SourcesInv)
  BY DEF SafeInv
<1> QED
  BY <1>1, <1>2, <1>3, <1>4, SourcesHold, DirsHold, PTL DEF Spec

-----------------------------------------------------------------------------
(* A publication that was answered is kept. *)

\* The ends of a transaction move only with the paths it does not name.
LEMMA EndsKept ==
  ASSUME NEW rows, \A t \in Target \ Paths(rows) : disk'[t] = disk[t]
  PROVE  Before(rows)' = Before(rows) /\ After(rows)' = After(rows)
BY DEF Before, After, Paths, RowOf

\* Leaving tells a caller who still waits the result, and no other.
LEMMA LeavingTells ==
  ASSUME SourcesInv, NEW s, NEW r \in {"published", "failed"}, End(s, r)
  PROVE  /\ step' = s /\ goal' = "body" /\ answer'.after = answer.after
         /\ r = "failed" /\ answer'.result = "published" => answer' = answer
         /\ answer.result # "pending" => answer' = answer
<1> DEFINE B == [Target -> Bytes]
<1>1. /\ answer \in [result : {"none", "pending", "published", "failed"}, before : B, after : B]
      /\ answer' = answer \/ answer' = [answer EXCEPT !.result = r]
      /\ answer.result # "pending" => answer' = answer
      /\ step' = s /\ goal' = "body"
  BY DEF End, SourcesInv, TypeInv, ControlTypes
<1> HIDE DEF B
<1>2. answer'.after = answer.after /\ (answer' = answer \/ answer'.result = r)
  BY <1>1
<1> QED
  BY <1>1, <1>2

\* No step but the last of a commit answers that it is published.
LEMMA AnswerKept ==
  ASSUME SourcesInv, SourcesInv', DirsInv, AnswerInv, [Next]_vars, ~lost',
         answer'.result = "published"
  PROVE  disk' = answer'.after /\ mayJournal' = {NoJournal} /\ step' \in {"unlocked", "inside"}
<1> DEFINE Answered == /\ disk' = answer'.after /\ mayJournal' = {NoJournal}
                       /\ step' \in {"unlocked", "inside"}
<1>1. /\ answer.result = "published" =>
           /\ disk = answer.after /\ mayJournal = {NoJournal} /\ step \in {"unlocked", "inside"}
      /\ answer \in [result : {"none", "pending", "published", "failed"},
                     before : [Target -> Bytes], after : [Target -> Bytes]]
      /\ journal \in mayJournal
  BY DEF AnswerInv, SourcesInv, TypeInv, ControlTypes, DataTypes
<1>2. CASE EnterClean \/ EnterRecover \/ Leave \/ UNCHANGED vars
  BY <1>1, <1>2 DEF EnterClean, EnterRecover, Leave, Continue, vars, diskVars, journalVars
<1>3. CASE Begin
  <2>1. Agree
    BY <1>3 DEF Begin, SourcesInv, CoreInv, Resting
  <2> QED
    BY <1>3, <2>1, BeginFacts DEF SourcesInv
<1>4. CASE \/ PrepareRow \/ PublishRecord \/ SyncPrepared \/ MakeDirectory \/ ReplaceRow
           \/ SyncRow \/ PublishCommitted \/ SyncCommitted \/ RestoreRow \/ EndRestore
           \/ RemoveEntry
  <2>1. answer' = answer /\ step \notin {"unlocked", "inside"}
    BY <1>4 DEF PrepareRow, PublishRecord, SyncPrepared, MakeDirectory, ReplaceRow,
       SyncRow, PublishCommitted, SyncCommitted, RestoreRow, EndRestore, RemoveEntry, Continue
  <2> QED
    BY <1>1, <2>1
<1>5. CASE CheckJournal \/ SyncRestored \/ RemoveJournal
  <2>1. step \notin {"unlocked", "inside"} /\ (answer' = answer \/ End("unlocked", "failed"))
    BY <1>5 DEF CheckJournal, SyncRestored, RemoveJournal, Continue, Raise
  <2>2. answer' = answer
    BY <2>1, LeavingTells DEF SourcesInv
  <2> QED
    BY <1>1, <2>1, <2>2
<1>6. CASE SyncRemoved
  <2>1. step = "removed" /\ disk' = disk /\ journal = NoJournal /\ Sync(Root)
    BY <1>6 DEF SyncRemoved, SourcesInv, StepInv, RemoveInv
  <2>2. answer.result # "published"
    BY <1>1, <2>1
  <2>3. CASE goal = "failed"
    <3>1. End("unlocked", "failed")
      BY <1>6, <2>3 DEF SyncRemoved, Return, Raise
    <3> QED
      BY <2>2, <3>1, LeavingTells
  <2>4. CASE goal = "body"
    BY <1>6, <2>2, <2>4 DEF SyncRemoved, Return, End
  <2>5. CASE goal = "published"
    <3>1. End("inside", "published")
      BY <1>6, <2>5 DEF SyncRemoved, Return
    <3>2. step' = "inside" /\ answer'.after = answer.after
      BY <2>5, <3>1, LeavingTells
    <3>3. disk = answer.after
      BY <2>1, <2>5 DEF AnswerInv, Planned
    <3>4. mayJournal' = {NoJournal}
      BY <2>1 DEF Sync
    <3> QED
      BY <2>1, <3>2, <3>3, <3>4
  <2> QED
    BY <2>3, <2>4, <2>5 DEF SourcesInv, TypeInv, ControlTypes
<1>7. CASE Fault
  <2>1. step \in Operations /\ (answer' = answer \/ End("unlocked", "failed"))
    BY <1>7, SourcesAssumption DEF Fault
  <2>2. answer' = answer
    BY <2>1, LeavingTells
  <2> QED
    BY <1>1, <2>1, <2>2, StepNames
<1>8. CASE Crash \/ Outage
  <2>1. /\ step' = "unlocked"
        /\ answer' = answer \/ answer' = [answer EXCEPT !.result = "none"]
    BY <1>8 DEF Crash, Outage, Stop
  <2>2. answer' = answer
    <3>1. answer' = [answer EXCEPT !.result = "none"] => answer'.result = "none"
      BY <1>1
    <3> QED
      BY <2>1, <3>1
  <2>3. disk = answer.after /\ mayJournal = {NoJournal} /\ journal = NoJournal
    BY <1>1, <2>2
  <2>4. CASE Crash
    BY <2>1, <2>2, <2>3, <2>4 DEF Crash, diskVars, journalVars
  <2>5. CASE Outage
    <3>1. Settled /\ Agree
      BY <2>3 DEF SourcesInv, CoreInv, Resting
    <3>2. disk' = disk /\ mayJournal' = {journal'} /\ journal' \in mayJournal
      BY <2>5, <3>1, OutageFacts, OutageRests
    <3> QED
      BY <2>1, <2>2, <2>3, <3>2
  <2> QED
    BY <1>8, <2>4, <2>5
<1> QED
  BY <1>2, <1>3, <1>4, <1>5, <1>6, <1>7, <1>8 DEF Next, Work

\* Whatever a commit still does, what its caller is to be told of stays what its
\* journal leads to.
LEMMA PlanKept ==
  ASSUME SourcesInv, SourcesInv', Planned, [Next]_vars
  PROVE  Planned'
<1> SUFFICES ASSUME goal' = "published" PROVE Planned'
  BY DEF Planned
<1>1. /\ disk \in [Target -> Bytes] /\ disk' \in [Target -> Bytes]
      /\ step \in Operations \ {"removed"} => journal # NoJournal
  BY DEF SourcesInv, TypeInv, DataTypes, StepInv, RemoveInv
<1>2. CASE EnterClean \/ EnterRecover \/ Leave
  <2>1. goal = "published" /\ step \in {"unlocked", "inside"}
    BY <1>2 DEF EnterClean, EnterRecover, Leave, Continue
  <2> QED
    BY <2>1 DEF Planned, PrepareSteps, CommitSteps
<1>3. CASE Begin
  <2>1. Agree
    BY <1>3 DEF Begin, SourcesInv, CoreInv, Resting
  <2>2. /\ step' = "preparing" /\ disk' = disk
        /\ answer' = [result |-> "pending", before |-> disk, after |-> After(journal'.rows)]
    BY <1>3, <2>1, BeginFacts DEF Begin, diskVars, SourcesInv
  <2>3. PICK r : r = journal'.rows
    OBVIOUS
  <2>4. After(r)' = After(r) /\ answer'.after = After(r)
    BY <2>2, <2>3, EndsKept
  <2>5. answer'.after = (After(journal.rows))'
    BY <2>3, <2>4
  <2> QED
    BY <2>2, <2>5 DEF Planned, PrepareSteps
<1>4. CASE PrepareRow \/ PublishRecord \/ SyncPrepared \/ MakeDirectory \/ ReplaceRow \/ SyncRow
           \/ PublishCommitted \/ SyncCommitted
  <2>1. /\ goal = "published" /\ answer' = answer
        /\ step \in PrepareSteps \cup CommitSteps
        /\ step' \in PrepareSteps \cup CommitSteps \cup {"checking"}
        /\ step' = "checking" => SyncCommitted
    BY <1>4 DEF PrepareRow, PublishRecord, SyncPrepared, MakeDirectory, ReplaceRow,
       SyncRow, PublishCommitted, SyncCommitted, Continue, PrepareSteps, CommitSteps
  <2>2. journal # NoJournal
    BY <1>1, <2>1, StepNames DEF PrepareSteps, CommitSteps
  <2>3. PICK j \in Left : j = journal /\ JournalOK(j)
    BY <2>2, JournalIsOK DEF SourcesInv
  <2>4. journal'.rows = j.rows
    BY <1>4, <2>2, <2>3, PrepareRowEdits, PublishRecordEdits, PublishCommittedEdits
       DEF JournalEdit, Edited, SourcesInv, TypeInv, SyncPrepared, MakeDirectory, ReplaceRow,
       SyncRow, SyncCommitted, journalVars
  <2>5. \A t \in Target \ Paths(j.rows) : disk'[t] = disk[t]
    <3>1. CASE ReplaceRow
      <4>1. step = "replacing"
        BY <3>1 DEF ReplaceRow
      <4>2. at \in 1 .. Len(j.rows)
        BY <2>3, <4>1 DEF SourcesInv, StepInv, ApplyInv, TypeInv, ControlTypes
      <4>3. j.rows[at].path \in Paths(j.rows)
        BY <2>3, <4>2, RowOfIs
      <4> QED
        BY <1>1, <2>3, <3>1, <4>3 DEF ReplaceRow, Write, Row
    <3>2. CASE ~ReplaceRow
      <4>1. disk' = disk
        BY <1>4, <3>2 DEF PrepareRow, PublishRecord, SyncPrepared, MakeDirectory, SyncRow,
           PublishCommitted, SyncCommitted, diskVars
      <4> QED
        BY <4>1
    <3> QED
      BY <3>1, <3>2
  <2>6. After(j.rows)' = After(j.rows)
    BY <2>5, EndsKept
  <2>7. answer.after = After(j.rows)
    BY <2>1, <2>3 DEF Planned
  <2>8. answer'.after = (After(journal.rows))'
    BY <2>1, <2>4, <2>6, <2>7
  <2>9. step' = "checking" => journal'.committed /\ (AtAfter(journal.rows))'
    BY <2>1 DEF SyncCommitted, diskVars, SourcesInv, StepInv, CommitInv, AtAfter
  <2> QED
    BY <2>1, <2>8, <2>9 DEF Planned, PrepareSteps, CommitSteps
<1>5. CASE CheckJournal
  <2>1. goal' # "body"
    OBVIOUS
  <2>2. /\ step = "checking" /\ goal = "published" /\ answer' = answer /\ disk' = disk
        /\ step' \in {"removing", "restoring"} /\ (step' = "restoring" => ~journal.committed)
    BY <1>5, <2>1 DEF CheckJournal, Continue, Raise, End, diskVars
  <2>3. journal.committed /\ AtAfter(journal.rows) /\ answer.after = After(journal.rows)
    BY <2>2 DEF Planned
  <2>4. JournalOK(journal)
    BY <1>1, <2>2, StepNames, JournalIsOK DEF SourcesInv
  <2>5. After(journal.rows) = disk
    BY <1>1, <2>3, <2>4, AtEnds
  <2> QED
    BY <2>2, <2>3, <2>5 DEF Planned, PrepareSteps, CommitSteps
<1>6. CASE RestoreRow \/ SyncRestored \/ EndRestore
  <2>1. goal = "published" /\ step \in {"restoring", "resyncing"}
    BY <1>6 DEF RestoreRow, SyncRestored, EndRestore, Continue, Raise, End
  <2> QED
    BY <2>1 DEF Planned, PrepareSteps, CommitSteps
<1>7. CASE RemoveEntry \/ RemoveJournal
  <2>1. /\ goal = "published" /\ answer' = answer /\ disk' = disk
        /\ step \in {"removing", "discarding"}
        /\ step' \in {"removing", "removed", "discarding"}
        /\ step' = "discarding" => step = "discarding"
    BY <1>7 DEF RemoveEntry, RemoveJournal, Continue, Raise, End, diskVars
  <2>2. step = "removing" /\ disk = answer.after
    BY <2>1 DEF Planned, PrepareSteps, CommitSteps
  <2> QED
    BY <2>1, <2>2 DEF Planned, PrepareSteps, CommitSteps
<1>8. CASE SyncRemoved \/ Fault \/ Crash \/ Outage
  BY <1>8 DEF SyncRemoved, Return, Raise, End, Fault, Crash, Outage, Stop
<1>9. CASE UNCHANGED vars
  BY <1>9 DEF vars, diskVars, journalVars, Planned, After, AtAfter
<1> QED
  BY <1>2, <1>3, <1>4, <1>5, <1>6, <1>7, <1>8, <1>9 DEF Next, Work

\* A publication that was answered survives whatever dies or fails afterwards,
\* until the next transaction begins, as long as no power loss takes an original with
\* its new directory: no journal of it, or of one before it, can come back and undo it.
THEOREM AnsweredIsKept == Spec => []PublishedIsKept
<1> DEFINE SafeAnswer == ~lost => AnswerInv
<1>1. Init => SafeAnswer
  BY DEF Init, AnswerInv, Planned
<1>2. SafeInv /\ SafeInv' /\ DirsInv /\ SafeAnswer /\ [Next]_vars => SafeAnswer'
  <2> SUFFICES ASSUME SafeInv, SafeInv', DirsInv, SafeAnswer, [Next]_vars, ~lost' PROVE AnswerInv'
    OBVIOUS
  <2>1. SourcesInv /\ SourcesInv' /\ AnswerInv
    BY DirsStep DEF SafeInv
  <2>2. Planned'
    BY <2>1, PlanKept DEF AnswerInv
  <2>3. answer'.result = "published" =>
          disk' = answer'.after /\ mayJournal' = {NoJournal} /\ step' \in {"unlocked", "inside"}
    BY <2>1, AnswerKept
  <2> QED
    BY <2>2, <2>3 DEF AnswerInv
<1>3. SafeAnswer => PublishedIsKept
  BY DEF AnswerInv, PublishedIsKept
<1>4. SafeInv <=> (~lost => SourcesInv)
  BY DEF SafeInv
<1> QED
  BY <1>1, <1>2, <1>3, <1>4, SourcesHold, DirsHold, PTL DEF Spec

-----------------------------------------------------------------------------
(* Originals and catalog change together. *)

LEMMA BeforeType ==
  ASSUME NEW j, JournalOK(j), disk \in [Target -> Bytes]
  PROVE  Before(j.rows) \in [Target -> Bytes]
<1>1. ASSUME NEW t \in Target PROVE Before(j.rows)[t] \in Bytes
  <2>1. CASE t \in Paths(j.rows)
    <3>1. PICK i \in 1 .. Len(j.rows) : t = j.rows[i].path
      BY <2>1, PathRow
    <3>2. Before(j.rows)[j.rows[i].path] = j.rows[i].before
      BY EndsOfRows
    <3>3. j.rows[i].before \in Bytes
      BY RowTypes
    <3> QED
      BY <3>1, <3>2, <3>3
  <2>2. CASE t \notin Paths(j.rows)
    BY <2>2, EndsOfRows
  <2> QED
    BY <2>1, <2>2
<1>2. Before(j.rows) = [t \in Target |-> Before(j.rows)[t]]
  BY EndsOfRows
<1> QED
  BY <1>1, <1>2

\* What a reader of the abstract specification sees: nothing while every journal is
\* harmless, and otherwise the ends of any harmful one.
Quiet == \A j \in mayJournal : Harmless(j)
View ==
  /\ Quiet => Ends = NoJournal /\ Recovered = disk
  /\ \A h \in mayJournal : ~Harmless(h) =>
       /\ Ends = {Before(h.rows), After(h.rows)} /\ Ends # NoJournal
       /\ Recovered \in Ends

LEMMA ViewNow == SourcesInv /\ LoneInv => View
<1> SUFFICES ASSUME SourcesInv, LoneInv PROVE View
  OBVIOUS
<1>1. /\ disk \in [Target -> Bytes] /\ journal \in mayJournal
      /\ \A j \in mayJournal : j # NoJournal => JournalOK(j)
  BY DEF SourcesInv, TypeInv, DataTypes, Left
<1>2. ASSUME Quiet PROVE Ends = NoJournal /\ Recovered = disk
  <2>1. {j \in mayJournal : ~Harmless(j)} = {}
    BY <1>2 DEF Quiet
  <2>2. Harmless(journal)
    BY <1>1, <1>2 DEF Quiet
  <2> QED
    BY <2>1, <2>2 DEF Ends, Recovered, Harmless
<1>3. ASSUME NEW h \in mayJournal, ~Harmless(h)
      PROVE  /\ Ends = {Before(h.rows), After(h.rows)} /\ Ends # NoJournal
             /\ Recovered \in Ends
  <2> DEFINE open == {j \in mayJournal : ~Harmless(j)}
             one == CHOOSE j \in open : TRUE
  <2>1. h \in open /\ one \in open
    BY <1>3
  <2>2. one.rows = h.rows
    BY <2>1 DEF LoneInv, Harmful
  <2>3. Ends = {Before(one.rows), After(one.rows)}
    BY <2>1 DEF Ends
  <2>4. Ends = {Before(h.rows), After(h.rows)}
    BY <2>2, <2>3
  <2> HIDE DEF open, one
  <2>5. h # NoJournal /\ JournalOK(h)
    BY <1>1, <1>3 DEF Harmless
  <2>6. Ends # NoJournal
    <3>1. PICK b, a : b = Before(h.rows) /\ a = After(h.rows)
      OBVIOUS
    <3>2. b \in [Target -> Bytes] /\ a \in [Target -> Bytes]
      BY <1>1, <2>5, <3>1, BeforeType, AfterType
    <3>3. NoJournal # {b, a}
      BY <3>2, SourcesAssumption
    <3> QED
      BY <2>4, <3>1, <3>3
  <2>7. CASE Opened /\ journal # NoJournal /\ journal.record
    BY <2>4, <2>6, <2>7 DEF Opened, Owned, Recovered
  <2>8. CASE Resting
    <3>1. AtBefore(h.rows) \/ AtAfter(h.rows)
      BY <2>5, <2>8 DEF Resting, Left
    <3>2. disk \in Ends
      <4>1. Before(h.rows) = disk \/ After(h.rows) = disk
        BY <1>1, <2>5, <3>1, AtEnds
      <4> QED
        BY <2>4, <4>1
    <3>3. CASE journal = NoJournal \/ ~journal.record
      BY <2>4, <2>6, <3>2, <3>3 DEF Recovered
    <3>4. CASE journal # NoJournal /\ journal.record /\ Harmless(journal)
      BY <2>4, <2>6, <3>2, <3>4 DEF Recovered, Harmless
    <3>5. CASE ~Harmless(journal)
      <4>1. journal.rows = h.rows
        BY <1>1, <1>3, <3>5 DEF LoneInv, Harmful
      <4>2. Recovered \in {disk, Before(journal.rows), After(journal.rows)}
        BY DEF Recovered
      <4> QED
        BY <2>4, <2>6, <3>2, <4>1, <4>2
    <3> QED
      BY <3>3, <3>4, <3>5
  <2> QED
    BY <2>4, <2>6, <2>7, <2>8 DEF SourcesInv, CoreInv
<1> QED
  BY <1>2, <1>3 DEF View

LEMMA ViewNext == SourcesInv' /\ LoneInv' => View'
BY ViewNow, PTL

\* A journal stays harmless, and is so after any edit that does not mark it.
LEMMA HarmlessKept ==
  ASSUME disk' = disk, NEW g, NEW k, k # NoJournal, g.rows = k.rows,
         g.committed => k.committed, Harmless(k)
  PROVE  Harmless(g)'
<1>1. Before(k.rows) = disk /\ (k.committed => After(k.rows) = disk)
  BY DEF Harmless
<1>2. Before(k.rows)' = Before(k.rows) /\ After(k.rows)' = After(k.rows)
  BY EndsKept
<1> QED
  BY <1>1, <1>2 DEF Harmless

\* A step changes no path and makes no journal harmful, or only one transaction
\* can still change the sources.
Calm ==
  /\ disk' = disk
  /\ \A g \in mayJournal' :
       ~Harmless(g)' => \E k \in mayJournal : ~Harmless(k) /\ k.rows = g.rows
  /\ Resting \/ (Opened /\ journal' # NoJournal /\ journal'.rows = journal.rows)
OpenStep ==
  /\ Opened
  /\ \A g \in mayJournal' : g # NoJournal /\ g.rows = journal.rows
  /\ \A t \in Target \ Paths(journal.rows) : disk'[t] = disk[t]
  /\ Quiet => Recovered' = disk

LEMMA RowStep ==
  ASSUME SourcesInv, Opened, journal.record, ~journal.committed, UNCHANGED journalVars,
         NEW i \in 1 .. Len(journal.rows), NEW c, Write(journal.rows[i].path, c)
  PROVE  OpenStep
<1>1. journal # NoJournal /\ journal' = journal /\ mayJournal' = mayJournal
      /\ journal \in mayJournal
  BY DEF Opened, Owned, journalVars, SourcesInv, TypeInv, DataTypes
<1>2. PICK j \in Left : j = journal /\ JournalOK(j)
  BY <1>1, JournalIsOK DEF SourcesInv
<1>3. \A t \in Target \ Paths(j.rows) : disk'[t] = disk[t]
  <2>1. j.rows[i].path \in Paths(j.rows)
    BY <1>2, RowOfIs
  <2> QED
    BY <1>2, <2>1 DEF Write, SourcesInv, TypeInv, DataTypes
<1>4. ASSUME Quiet PROVE Recovered' = disk
  <2>1. Before(j.rows) = disk
    BY <1>1, <1>2, <1>4 DEF Quiet, Harmless
  <2>2. Before(j.rows)' = Before(j.rows)
    BY <1>3, EndsKept
  <2>3. Recovered' = (Before(journal.rows))'
    BY <1>1 DEF Recovered
  <2> QED
    BY <1>1, <1>2, <2>1, <2>2, <2>3
<1> QED
  BY <1>1, <1>2, <1>3, <1>4 DEF OpenStep, Opened, Owned

LEMMA AtomicSteps ==
  ASSUME SourcesInv, SourcesInv', DirsInv, [Next]_vars, ~lost'
  PROVE  Calm \/ OpenStep
<1>1. /\ disk \in [Target -> Bytes] /\ journal \in mayJournal /\ journal' \in mayJournal'
      /\ journal' # NoJournal => JournalOK(journal')
      /\ journal = NoJournal => Resting
      /\ ~Resting => Opened /\ journal # NoJournal
  BY DEF SourcesInv, TypeInv, DataTypes, CoreInv, Left
<1>2. CASE Tame
  <2>1. ASSUME NEW g \in mayJournal', ~Harmless(g)'
        PROVE  \E k \in mayJournal : ~Harmless(k) /\ k.rows = g.rows
    <3>1. g \in Left'
      BY <2>1 DEF Left, Harmless
    <3>2. PICK k \in Left : g.rows = k.rows /\ (g.committed => k.committed)
      BY <1>2, <3>1 DEF Tame
    <3>3. ~Harmless(k)
      BY <1>2, <2>1, <3>2, HarmlessKept DEF Tame, Left
    <3> QED
      BY <3>2, <3>3 DEF Left
  <2> QED
    BY <1>1, <1>2, <2>1 DEF Calm, Tame
<1>3. CASE Begin
  <2>1. Resting /\ Agree
    BY <1>1, <1>3 DEF Begin, Resting
  <2>2. PICK n : n = journal' /\ JournalOK(n) /\ AtBefore(n.rows) /\ ~n.committed
                 /\ mayJournal' = mayJournal \cup {n} /\ disk' = disk
    BY <1>3, <2>1, BeginFacts DEF SourcesInv, diskVars
  <2>3. Before(n.rows) = disk /\ Before(n.rows)' = Before(n.rows)
    BY <1>1, <2>2, AtEnds, EndsKept
  <2>4. Harmless(n)'
    BY <2>2, <2>3 DEF Harmless
  <2>5. ASSUME NEW g \in mayJournal', ~Harmless(g)' PROVE g \in mayJournal /\ ~Harmless(g)
    <3>1. g \in mayJournal /\ g # NoJournal
      BY <2>2, <2>4, <2>5 DEF Harmless
    <3> QED
      BY <2>2, <2>5, <3>1, HarmlessKept
  <2> QED
    BY <2>1, <2>2, <2>5 DEF Calm
<1>4. CASE ReplaceRow
  <2>1. journal.record /\ ~journal.committed /\ Opened /\ at \in 1 .. Len(journal.rows)
    BY <1>4 DEF ReplaceRow, SourcesInv, StepInv, ApplyInv, TypeInv, ControlTypes
  <2> QED
    BY <1>4, <2>1, RowStep DEF ReplaceRow, Row
<1>5. CASE RestoreRow
  <2>1. /\ step = "restoring" /\ Write(Row.path, Row.before) /\ journal # NoJournal
        /\ journal.record /\ ~journal.committed /\ UNCHANGED journalVars
    BY <1>5, StepNames DEF RestoreRow, SourcesInv, StepInv, RestoreInv, RemoveInv
  <2>2. /\ at \in 1 .. Len(journal.rows)
        /\ \A i \in 1 .. Len(journal.rows) : journal.rows[i].path \in Target
    BY <1>5, <2>1, JournalIsOK, RowTypes DEF RestoreRow, MoreRows, SourcesInv
  <2>3. CASE Opened
    BY <2>1, <2>2, <2>3, RowStep DEF Row
  <2>4. CASE Resting /\ AtBefore(journal.rows)
    <3>1. PICK t \in Target : t = Row.path /\ Row.before = disk[t]
      BY <2>2, <2>4 DEF AtBefore, Row
    <3>2. disk' = disk /\ mayJournal' = mayJournal
      BY <1>1, <2>1, <3>1 DEF Write, journalVars
    <3>3. \A g \in mayJournal' : ~Harmless(g)' => ~Harmless(g)
      BY <3>2, HarmlessKept DEF Harmless
    <3> QED
      BY <2>4, <3>2, <3>3 DEF Calm
  <2> QED
    BY <2>1, <2>3, <2>4 DEF SourcesInv, CoreInv
<1>6. CASE PublishCommitted
  <2>1. journal # NoJournal /\ Opened /\ disk' = disk /\ step' = "committed"
    BY <1>6, StepNames DEF PublishCommitted, diskVars, Continue, SourcesInv, StepInv, ApplyInv,
       RemoveInv
  <2>2. journal'.rows = journal.rows
    BY <1>6, <2>1, PublishCommittedEdits DEF JournalEdit, Edited, SourcesInv, TypeInv
  <2>3. /\ journal'.record /\ journal'.committed /\ (AtAfter(journal.rows))'
        /\ \A g \in mayJournal' : g # NoJournal /\ g.rows = journal'.rows
    BY <2>1 DEF SourcesInv, StepInv, CommitInv, Opened, Owned
  <2>4. PICK n : n = journal' /\ JournalOK(n) /\ n # NoJournal
    BY <1>1, <2>3
  <2>5. AtAfter(n.rows)
    BY <2>1, <2>3, <2>4 DEF AtAfter
  <2>6. After(n.rows)' = disk
    BY <1>1, <2>1, <2>4, <2>5, AtEnds, EndsKept
  <2>7. Recovered' = (After(journal.rows))'
    BY <2>3, <2>4 DEF Recovered
  <2>8. Recovered' = disk
    BY <2>4, <2>6, <2>7
  <2> QED
    BY <2>1, <2>2, <2>3, <2>8 DEF OpenStep
<1>7. CASE Outage
  <2>1. mayJournal' = {journal'} /\ journal' \in mayJournal
    BY <1>7, OutageFacts
  <2>2. CASE Resting
    <3>1. disk' = disk
      BY <1>7, <2>2, OutageRests DEF Resting
    <3>2. \A g \in mayJournal' : ~Harmless(g)' => g \in mayJournal /\ ~Harmless(g)
      BY <2>1, <3>1, HarmlessKept DEF Harmless
    <3> QED
      BY <2>2, <3>1, <3>2 DEF Calm
  <2>3. CASE ~Resting
    <3>1. Opened /\ journal # NoJournal
      BY <1>1, <2>3
    <3>2. PICK n \in mayJournal : n = journal'
      BY <2>1
    <3>3. n # NoJournal /\ n.record /\ n.rows = journal.rows /\ JournalOK(n)
      BY <1>1, <3>1, <3>2 DEF Opened, Owned
    <3>4. \A t \in Target \ Paths(n.rows) : disk'[t] = disk[t]
      <4>1. Manifest \in Paths(n.rows) /\ Target \ Paths(n.rows) \subseteq File \ Paths(n.rows)
        BY <3>3, PathRow DEF Target
      <4>2. PICK j \in Left : j = journal /\ JournalOK(j)
        BY <3>1, JournalIsOK DEF SourcesInv
      <4>3. Between(j.rows) /\ Between(j.rows)'
        BY <1>7, <3>1, <4>2, OutageBetween DEF Opened
      <4>4. \A f \in File \ Paths(n.rows) : /\ may[f] = {Entry(j.rows).after[f]}
                                            /\ may'[f] = {Entry(j.rows).after[f]}
        BY <3>3, <4>2, <4>3 DEF Between, Entry, Paths
      <4>5. \A t \in Target : disk[t] \in may[t] /\ disk'[t] \in may'[t]
        BY DEF SourcesInv, TypeInv, DataTypes
      <4> QED
        BY <4>1, <4>4, <4>5 DEF Target
    <3>5. ASSUME Quiet PROVE Recovered' = disk
      <4>1. Before(n.rows) = disk /\ (n.committed => After(n.rows) = disk)
        BY <3>2, <3>3, <3>5 DEF Quiet, Harmless
      <4>2. Before(n.rows)' = Before(n.rows) /\ After(n.rows)' = After(n.rows)
        BY <3>4, EndsKept
      <4>3. Recovered' = (IF journal.committed THEN After(journal.rows)
                          ELSE Before(journal.rows))'
        BY <3>2, <3>3 DEF Recovered
      <4> QED
        BY <3>2, <4>1, <4>2, <4>3
    <3> QED
      BY <2>1, <3>1, <3>2, <3>3, <3>4, <3>5 DEF OpenStep
  <2> QED
    BY <2>2, <2>3
<1> QED
  BY <1>2, <1>3, <1>4, <1>5, <1>6, <1>7, TameSteps

LEMMA LoneKept ==
  ASSUME LoneInv, Calm \/ OpenStep
  PROVE  LoneInv'
<1>1. CASE Calm
  <2>1. \A g \in mayJournal' : ~Harmless(g)' =>
          \E k \in mayJournal : ~Harmless(k) /\ k.rows = g.rows
    BY <1>1 DEF Calm
  <2> QED
    BY <2>1 DEF LoneInv, Harmful
<1>2. CASE OpenStep
  BY <1>2 DEF OpenStep, LoneInv, Harmful
<1> QED
  BY <1>1, <1>2

\* Every step of the sources is one of the abstract specification, or none.
LEMMA AtomicStep ==
  ASSUME SourcesInv, SourcesInv', LoneInv, View, View', Calm \/ OpenStep, lost' = lost
  PROVE  [Atomic!Next]_(Atomic!vars)
<1>1. /\ disk \in [Target -> Bytes] /\ journal \in mayJournal /\ journal' \in mayJournal'
      /\ \A j \in mayJournal : j # NoJournal => j \in Left /\ JournalOK(j)
  BY DEF SourcesInv, TypeInv, DataTypes, Left
<1>2. /\ Quiet => Ends = NoJournal /\ Recovered = disk
      /\ Quiet' => Ends' = NoJournal /\ Recovered' = disk'
      /\ ~Quiet => Ends # NoJournal /\ Recovered \in Ends
      /\ ~Quiet' => Ends' # NoJournal /\ Recovered' \in Ends'
  BY DEF View, Quiet
<1>3. ASSUME NEW h \in mayJournal, ~Harmless(h), NEW r, r = h.rows,
             disk' \in {Before(r), After(r)}, Quiet'
      PROVE  [Atomic!Next]_(Atomic!vars)
  <2>1. Ends = {Before(r), After(r)} /\ ~Quiet
    BY <1>3 DEF View, Quiet
  <2>2. Atomic!Resolve
    BY <1>2, <1>3, <2>1 DEF Atomic!Resolve
  <2> QED
    BY <2>2 DEF Atomic!Next
<1>4. ASSUME NEW h \in mayJournal, ~Harmless(h), NEW r, r = h.rows,
             NEW g \in mayJournal', ~Harmless(g)', g.rows = r,
             Before(r)' = Before(r), After(r)' = After(r)
      PROVE  [Atomic!Next]_(Atomic!vars)
  <2>1. Ends = {Before(r), After(r)} /\ ~Quiet /\ ~Quiet'
    BY <1>4 DEF View, Quiet
  <2>2. Ends' = {Before(r)', After(r)'}
    <3>1. Ends' = {Before(g.rows)', After(g.rows)'}
      BY <1>4 DEF View
    <3> QED
      BY <1>4, <3>1
  <2>3. Atomic!Decide
    BY <1>2, <1>4, <2>1, <2>2 DEF Atomic!Decide
  <2> QED
    BY <2>3 DEF Atomic!Next
<1>5. CASE Calm
  <2>1. CASE Quiet
    <3>1. Quiet'
      BY <1>5, <2>1 DEF Calm, Quiet
    <3> QED
      BY <1>2, <1>5, <2>1, <3>1 DEF Calm, Atomic!vars
  <2>2. CASE ~Quiet
    <3>1. PICK h \in mayJournal : ~Harmless(h)
      BY <2>2 DEF Quiet
    <3>2. PICK r : r = h.rows
      OBVIOUS
    <3>3. h # NoJournal /\ JournalOK(h) /\ h \in Left
      BY <1>1, <3>1 DEF Harmless
    <3>4. disk' = disk /\ Before(r)' = Before(r) /\ After(r)' = After(r)
      BY <1>5, EndsKept DEF Calm
    <3>5. CASE Quiet'
      <4>1. CASE Resting
        <5>1. AtBefore(h.rows) \/ AtAfter(h.rows)
          BY <3>3, <4>1 DEF Resting
        <5>2. disk' \in {Before(r), After(r)}
          BY <1>1, <3>2, <3>3, <3>4, <5>1, AtEnds
        <5> QED
          BY <1>3, <3>1, <3>2, <3>5, <5>2
      <4>2. CASE Opened /\ journal' # NoJournal /\ journal'.rows = journal.rows
        <5>1. journal'.rows = r
          BY <3>2, <4>2 DEF Opened, Owned
        <5>2. (Before(journal.rows))' = disk'
          BY <1>1, <3>5, <4>2 DEF Quiet, Harmless
        <5>3. Before(r) = disk'
          BY <3>4, <5>1, <5>2
        <5> QED
          BY <1>3, <3>1, <3>2, <3>5, <5>3
      <4> QED
        BY <1>5, <4>1, <4>2 DEF Calm
    <3>6. CASE ~Quiet'
      <4>1. PICK g \in mayJournal' : ~Harmless(g)'
        BY <3>6 DEF Quiet
      <4>2. PICK k \in mayJournal : ~Harmless(k) /\ k.rows = g.rows
        BY <1>5, <4>1 DEF Calm
      <4>3. g.rows = r
        BY <3>1, <3>2, <4>2 DEF LoneInv, Harmful
      <4> QED
        BY <1>4, <3>1, <3>2, <3>4, <4>1, <4>3
    <3> QED
      BY <3>5, <3>6
  <2> QED
    BY <2>1, <2>2
<1>6. CASE OpenStep
  <2>1. PICK r : r = journal.rows
    OBVIOUS
  <2>2. /\ journal # NoJournal /\ journal' # NoJournal /\ journal'.rows = r
        /\ \A j \in mayJournal : j.rows = r
        /\ \A g \in mayJournal' : g.rows = r
    BY <1>1, <1>6, <2>1 DEF OpenStep, Opened, Owned
  <2>3. Before(r)' = Before(r) /\ After(r)' = After(r)
    BY <1>6, <2>1, EndsKept DEF OpenStep
  <2>4. Quiet' => Before(r)' = disk'
    <3>1. Quiet' => (Before(journal.rows))' = disk'
      BY <1>1, <2>2 DEF Quiet, Harmless
    <3> QED
      BY <2>2, <3>1
  <2>5. CASE Quiet
    <3>1. Recovered' = Recovered
      BY <1>2, <1>6, <2>5 DEF OpenStep
    <3>2. CASE Quiet'
      BY <1>2, <2>5, <3>1, <3>2 DEF Atomic!vars
    <3>3. CASE ~Quiet'
      <4>1. Atomic!Begin
        BY <1>2, <2>5, <3>1, <3>3 DEF Atomic!Begin
      <4> QED
        BY <4>1 DEF Atomic!Next
    <3> QED
      BY <3>2, <3>3
  <2>6. CASE ~Quiet
    <3>1. PICK h \in mayJournal : ~Harmless(h)
      BY <2>6 DEF Quiet
    <3>2. r = h.rows
      BY <2>2
    <3>3. CASE Quiet'
      <4>1. disk' \in {Before(r), After(r)}
        BY <2>3, <2>4, <3>3
      <4> QED
        BY <1>3, <3>1, <3>2, <3>3, <4>1
    <3>4. CASE ~Quiet'
      <4>1. PICK g \in mayJournal' : ~Harmless(g)'
        BY <3>4 DEF Quiet
      <4> QED
        BY <1>4, <2>2, <2>3, <3>1, <3>2, <4>1
    <3> QED
      BY <3>3, <3>4
  <2> QED
    BY <2>5, <2>6
<1> QED
  BY <1>5, <1>6

\* Originals and catalog only ever change together, as a recovery leaves them, and
\* only from what they were to what one transaction wanted: the journalled
\* publication implements the abstract one, whatever raises, dies or fails, until a
\* power loss takes an original with its new directory.
THEOREM SourcesAreAtomic == Spec => AtomicSpec
<1> DEFINE SafeLone == ~lost => LoneInv
<1>1. Init => SafeLone
  BY DEF Init, LoneInv, Harmful, Harmless
<1>2. Init => Ends = NoJournal /\ ~lost
  <2> SUFFICES ASSUME Init PROVE Ends = NoJournal /\ ~lost
    OBVIOUS
  <2>1. {j \in mayJournal : ~Harmless(j)} = {}
    BY DEF Init, Harmless
  <2> QED
    BY <2>1 DEF Ends, Init
<1>3. SafeInv /\ SafeInv' /\ DirsInv /\ SafeLone /\ [Next]_vars => SafeLone'
  BY AtomicSteps, LoneKept, DirsStep DEF SafeInv
<1>4. SafeInv /\ SafeInv' /\ DirsInv /\ SafeLone /\ SafeLone' /\ [Next]_vars
      => [Atomic!Next]_(Atomic!vars)
  <2> SUFFICES ASSUME SafeInv, SafeInv', DirsInv, SafeLone, SafeLone', [Next]_vars
               PROVE  [Atomic!Next]_(Atomic!vars)
    OBVIOUS
  <2>1. DirsInv' /\ (lost => lost')
    BY DirsStep
  <2>2. CASE lost'
    <3>1. lost' = TRUE
      BY <2>1, <2>2 DEF DirsInv
    <3> QED
      BY <3>1 DEF Atomic!Next, Atomic!Tear
  <2>3. CASE ~lost'
    <3>1. SourcesInv /\ SourcesInv' /\ LoneInv /\ LoneInv'
      BY <2>1, <2>3 DEF SafeInv
    <3>2. View /\ View'
      BY <3>1, ViewNow, ViewNext
    <3>3. lost' = lost
      BY <2>1, <2>3 DEF DirsInv
    <3>4. Calm \/ OpenStep
      BY <2>3, <3>1, AtomicSteps
    <3> QED
      BY <3>1, <3>2, <3>3, <3>4, AtomicStep
  <2> QED
    BY <2>2, <2>3
<1>5. Init => Atomic!Init
  BY <1>2 DEF Atomic!Init
<1>6. SafeInv <=> (~lost => SourcesInv)
  BY DEF SafeInv
<1> QED
  BY <1>1, <1>3, <1>4, <1>5, <1>6, SourcesHold, DirsHold, PTL DEF Spec, AtomicSpec, Atomic!Spec

=============================================================================
