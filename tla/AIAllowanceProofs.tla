------------------------- MODULE AIAllowanceProofs -------------------------
(***************************************************************************)
(* Theorems about AIAllowance, for every number of processes, addresses   *)
(* and salts, all limits and window lengths, and every clock that is set  *)
(* back by at most Keep - Day.                                            *)
(***************************************************************************)
EXTENDS AIAllowance, FoldInduction, FiniteSetTheorems, TLAPS

Inside(p) == pc[p] = "inside"

\* The write lock has one holder, and what it read is still the ledger.
LockInv ==
    /\ \A p, q \in Process : Inside(p) /\ Inside(q) => p = q
    /\ \A p \in Process : Inside(p) => op[p] \in Operation /\ seen[p] = ledger

\* All processes know a client by the same name.
SaltInv ==
    /\ \A p \in Process : pc[p] # "down" => key[p] = salt /\ salt \in Salt
    /\ \A r \in history : r.kind = "request" => r.client \in Client /\ r.client.salt = salt

\* The clock, and the time a transaction read.
ClockInv ==
    /\ now <= high /\ high - MaxSetback <= now
    /\ \A p \in Process : Inside(p) => at[p] <= high

\* A row that was forgotten can no longer be in a window: neither of the transaction that
\* holds the lock nor of one that takes it later.
KeptInv ==
    /\ ledger \subseteq history /\ IsFiniteSet(history)
    /\ \A r \in history \ ledger :
           r.stamp <= high - Keep /\ \A p \in Process : Inside(p) => r.stamp <= at[p] - Day

IInv == TypeOK /\ LockInv /\ SaltInv /\ ClockInv /\ KeptInv

-----------------------------------------------------------------------------
\* Reserved units are a number.
LEMMA UnitsAreNatural == ASSUME NEW a \in Nat PROVE Units(a) \in Nat
  <1>1. Fraction \in Nat /\ Fraction > 0 BY AllowanceAssumption
  <1>2. a + Fraction - 1 \in Nat BY <1>1
  <1> QED BY <1>1, <1>2, Z3 DEF Units

LEMMA AmountsAreNatural == ASSUME NEW a \in Amount \cup {0} PROVE a \in Nat
  BY AllowanceAssumption

\* One row more is at most one more of its window.
LEMMA OneMore ==
    ASSUME NEW S, NEW T, NEW x, IsFiniteSet(S), T \subseteq S \cup {x}
    PROVE  IsFiniteSet(T) /\ Cardinality(T) <= Cardinality(S) + 1
  <1>1. IsFiniteSet(S \cup {x})
        /\ (Cardinality(S \cup {x}) = Cardinality(S) \/ Cardinality(S \cup {x}) = Cardinality(S) + 1)
    BY FS_AddElement
  <1>2. IsFiniteSet(T) /\ Cardinality(T) <= Cardinality(S \cup {x}) BY <1>1, FS_Subset
  <1>3. Cardinality(S) \in Nat /\ Cardinality(T) \in Nat BY <1>2, FS_CardinalityType
  <1> QED BY <1>1, <1>2, <1>3

LEMMA InitInv == Init => IInv
  <1> SUFFICES ASSUME Init PROVE IInv OBVIOUS
  <1> USE AllowanceAssumption DEF Init
  <1>1. TypeOK BY DEF TypeOK
  <1>2. LockInv /\ SaltInv BY DEF LockInv, SaltInv, Inside
  <1>3. ClockInv BY DEF ClockInv, Inside
  <1>4. KeptInv BY FS_EmptySet DEF KeptInv
  <1> QED BY <1>1, <1>2, <1>3, <1>4 DEF IInv

-----------------------------------------------------------------------------
(* One lemma per action: it keeps the invariant. *)

LEMMA StartInv == ASSUME IInv, NEW p \in Process, Start(p) PROVE IInv'
  <1> USE AllowanceAssumption DEF IInv, Start, clock
  <1>0. salt' \in Salt /\ (salt # None => salt' = salt) BY DEF TypeOK
  <1>1. TypeOK' BY DEF TypeOK
  <1>2. LockInv' BY DEF TypeOK, LockInv, Inside
  <1>3. SaltInv'
    <2>1. \A q \in Process : pc'[q] # "down" => key'[q] = salt' BY <1>0 DEF TypeOK, SaltInv
    <2>2. \A r \in history : r.kind = "request" => r.client.salt = salt' BY <1>0 DEF SaltInv, Client
    <2> QED BY <1>0, <2>1, <2>2 DEF SaltInv
  <1>4. ClockInv' BY DEF TypeOK, ClockInv, Inside
  <1>5. KeptInv' BY DEF TypeOK, ClockInv, KeptInv, Inside
  <1> QED BY <1>1, <1>2, <1>3, <1>4, <1>5

LEMMA BeginInv == ASSUME IInv, NEW p \in Process, NEW o \in Operation, Begin(p, o) PROVE IInv'
  <1> USE AllowanceAssumption DEF IInv, Begin, clock
  <1>1. TypeOK' BY DEF TypeOK
  <1>2. LockInv' BY DEF TypeOK, LockInv, Inside
  <1>3. SaltInv' BY DEF TypeOK, SaltInv
  <1>4. ClockInv' BY DEF TypeOK, ClockInv, Inside
  <1>5. KeptInv' BY DEF TypeOK, ClockInv, KeptInv, Inside, Row
  <1> QED BY <1>1, <1>2, <1>3, <1>4, <1>5

LEMMA UnavailableInv == ASSUME IInv, NEW p \in Process, Unavailable(p) PROVE IInv'
  <1> USE AllowanceAssumption DEF IInv, Unavailable, Leave, clock
  <1>1. TypeOK' BY DEF TypeOK
  <1>2. LockInv' BY DEF TypeOK, LockInv, Inside
  <1>3. SaltInv' BY DEF TypeOK, SaltInv
  <1>4. ClockInv' BY DEF TypeOK, ClockInv, Inside
  <1>5. KeptInv' BY DEF TypeOK, ClockInv, KeptInv, Inside
  <1> QED BY <1>1, <1>2, <1>3, <1>4, <1>5

LEMMA EndRequestInv == ASSUME IInv, NEW p \in Process, EndRequest(p) PROVE IInv'
  <1> USE AllowanceAssumption DEF IInv, EndRequest, clock
  <1>1. TypeOK' BY DEF TypeOK
  <1>2. LockInv' BY DEF TypeOK, LockInv, Inside
  <1>3. SaltInv' BY DEF TypeOK, SaltInv
  <1>4. ClockInv' BY DEF TypeOK, ClockInv, Inside
  <1>5. KeptInv' BY DEF TypeOK, ClockInv, KeptInv, Inside
  <1> QED BY <1>1, <1>2, <1>3, <1>4, <1>5

LEMMA CrashInv == ASSUME IInv, NEW p \in Process, Crash(p) PROVE IInv'
  <1> USE AllowanceAssumption DEF IInv, Crash, Leave, clock
  <1>1. TypeOK' BY DEF TypeOK
  <1>2. LockInv' BY DEF TypeOK, LockInv, Inside
  <1>3. SaltInv' BY DEF TypeOK, SaltInv
  <1>4. ClockInv' BY DEF TypeOK, ClockInv, Inside
  <1>5. KeptInv' BY DEF TypeOK, ClockInv, KeptInv, Inside
  <1> QED BY <1>1, <1>2, <1>3, <1>4, <1>5

LEMMA SetClockInv == ASSUME IInv, NEW t \in Nat, SetClock(t) PROVE IInv'
  <1> USE AllowanceAssumption DEF IInv, SetClock
  <1>1. TypeOK' BY DEF TypeOK
  <1>2. LockInv' /\ SaltInv' BY DEF LockInv, SaltInv, Inside
  <1>3. ClockInv' BY DEF TypeOK, ClockInv, Inside
  <1>4. KeptInv' BY DEF TypeOK, ClockInv, KeptInv, Inside, Row
  <1> QED BY <1>1, <1>2, <1>3, <1>4

LEMMA StutterInv == ASSUME IInv, UNCHANGED vars PROVE IInv'
  BY DEF vars, clock, IInv, TypeOK, LockInv, SaltInv, ClockInv, KeptInv, Inside

\* What the holder of the lock works on.
LEMMA Holder ==
    ASSUME IInv, NEW p \in Process, Inside(p)
    PROVE  /\ op[p] \in Operation /\ seen[p] = ledger /\ at[p] \in Nat /\ at[p] <= high
           /\ key[p] = salt /\ salt \in Salt
           /\ \A q \in Process : Inside(q) => q = p
           /\ \A r \in history \ ledger : r.stamp <= at[p] - Day
  BY DEF IInv, TypeOK, LockInv, SaltInv, ClockInv, KeptInv, Inside

\* Committing a row, or none, and forgetting rows older than Keep, keeps the invariant.
LEMMA CommitInv ==
    ASSUME IInv, NEW p \in Process, Inside(p), Leave(p, "idle"),
           UNCHANGED <<now, high, salt, key>>,
           admitted' \in [Process -> BOOLEAN], retryAt' \in [Client -> Nat \cup {None}],
           NEW new \in SUBSET Row, IsFiniteSet(new),
           \A r \in new : r.kind = "request" => r.client \in Client /\ r.client.salt = salt,
           history' = history \cup new,
           \/ ledger' = ledger \cup new
           \/ ledger' = Pruned(ledger, at[p]) \cup new
    PROVE  IInv'
  <1> USE AllowanceAssumption, Holder DEF Leave, Pruned
  <1>1. TypeOK'
    <2>1. ledger' \subseteq Row /\ history' \subseteq Row BY DEF IInv, TypeOK
    <2>2. pc' \in [Process -> {"down", "idle", "inside"}] BY DEF IInv, TypeOK
    <2>3. op' \in [Process -> Operation \cup {None}] BY DEF IInv, TypeOK
    <2>4. at' \in [Process -> Nat] /\ seen' \in [Process -> SUBSET Row] BY DEF IInv, TypeOK
    <2> QED BY <2>1, <2>2, <2>3, <2>4 DEF IInv, TypeOK
  <1>2. LockInv' BY DEF IInv, TypeOK, LockInv, Inside
  <1>3. SaltInv' BY DEF IInv, TypeOK, SaltInv
  <1>4. ClockInv' BY DEF IInv, TypeOK, ClockInv, Inside
  <1>5. KeptInv'
    <2>1. ledger' \subseteq history' BY DEF IInv, KeptInv
    <2>2. IsFiniteSet(history') BY FS_Union DEF IInv, KeptInv
    <2>3. \A q \in Process : ~Inside(q)' BY DEF IInv, TypeOK, Inside
    <2>4. \A r \in history' \ ledger' : r.stamp <= high' - Keep
      <3> TAKE r \in history' \ ledger'
      <3>1. r \in Row /\ r.stamp \in Int BY DEF IInv, TypeOK, Row
      <3>2. CASE r \notin ledger BY <3>2 DEF IInv, KeptInv
      <3>3. CASE r \in ledger
        <4>1. ~(r.stamp > at[p] - Keep) BY <3>3
        <4> QED BY <3>1, <4>1 DEF IInv, TypeOK
      <3> QED BY <3>2, <3>3
    <2> QED BY <2>1, <2>2, <2>3, <2>4 DEF KeptInv
  <1> QED BY <1>1, <1>2, <1>3, <1>4, <1>5 DEF IInv

\* A row that another transaction commits.
LEMMA NewRow ==
    ASSUME IInv, NEW k \in {"request", "openai"}, NEW c \in Client \cup {None}, NEW t \in Nat,
           NEW a \in Nat, NEW u \in Nat
    PROVE  [id |-> Cardinality(history), kind |-> k, client |-> c, stamp |-> t, amount |-> a,
            units |-> u] \in Row
  BY FS_CardinalityType DEF IInv, KeptInv, Row

LEMMA CommitCostInv == ASSUME IInv, NEW p \in Process, CommitCost(p) PROVE IInv'
  <1> DEFINE units == Units(op[p].amount)
             row == [id |-> Cardinality(history), kind |-> "openai", client |-> None,
                     stamp |-> at[p], amount |-> op[p].amount, units |-> units]
  <1>1. Inside(p) BY DEF CommitCost, Inside
  <1>2. op[p] \in Operation /\ at[p] \in Nat BY <1>1, Holder
  <1>3. op[p].amount \in Nat
    <2>1. op[p].type = "reserve" BY DEF CommitCost
    <2>2. op[p] \in [type : {"reserve"}, address : {None}, amount : Amount \cup {0}]
      BY <1>2, <2>1 DEF Operation
    <2>3. op[p].amount \in Amount \cup {0} BY <2>2
    <2> QED BY <2>3, AmountsAreNatural
  <1>4. units \in Nat BY <1>3, UnitsAreNatural
  <1>5. row \in Row BY <1>2, <1>3, <1>4, NewRow
  <1>6. admitted \in [Process -> BOOLEAN] /\ retryAt \in [Client -> Nat \cup {None}] BY DEF IInv, TypeOK
  <1>7. PICK new \in {{}, {row}} : history' = history \cup new /\ ledger' = ledger \cup new
    BY DEF CommitCost, Insert
  <1>8. new \in SUBSET Row /\ IsFiniteSet(new) /\ \A r \in new : r.kind = "openai"
    BY <1>5, <1>7, FS_EmptySet, FS_Singleton
  <1>9. Leave(p, "idle") /\ UNCHANGED <<now, high, salt, key, admitted, retryAt>>
    BY DEF CommitCost, clock
  <1> QED BY <1>1, <1>6, <1>7, <1>8, <1>9, CommitInv

\* Seconds to wait are a number.
LEMMA ResetIsInteger ==
    ASSUME NEW window \in SUBSET Row, NEW t \in Nat, NEW span \in Nat
    PROVE  ResetSeconds(window, t, span) \in Nat
  <1>1. CASE window = {} BY <1>1 DEF ResetSeconds
  <1>2. CASE window # {}
    <2> DEFINE stamps == {r.stamp : r \in window}
    <2>1. stamps \subseteq Nat /\ stamps # {} BY <1>2 DEF Row
    <2>2. Min(stamps) \in Nat BY <2>1, LeastNat DEF Min
    <2> QED BY <1>2, <2>2 DEF ResetSeconds
  <1> QED BY <1>1, <1>2

LEMMA RetryIsInteger ==
    ASSUME NEW rows \in SUBSET Row, NEW c, NEW t \in Nat
    PROVE  RetryAfter(rows, c, t) \in Nat
  <1>1. \A span : Recent(rows, c, t, span) \in SUBSET Row BY DEF Recent
  <1> QED BY <1>1, ResetIsInteger, AllowanceAssumption DEF RetryAfter

\* A wish of a client that is refused, or of a request that is admitted.
LEMMA CommitRateInv == ASSUME IInv, NEW p \in Process, CommitRate(p) PROVE IInv'
  <1> DEFINE c == Me(p)
             rows == Pruned(seen[p], at[p])
             row == [id |-> Cardinality(history), kind |-> "request", client |-> c,
                     stamp |-> at[p], amount |-> 0, units |-> 0]
  <1>1. Inside(p) BY DEF CommitRate, Inside
  <1>2. /\ op[p] \in Operation /\ at[p] \in Nat /\ seen[p] = ledger /\ key[p] = salt
        /\ salt \in Salt
    BY <1>1, Holder
  <1>3. op[p].address \in Address BY <1>2 DEF CommitRate, Operation
  <1>4. c \in Client /\ c.salt = salt BY <1>2, <1>3 DEF Me, Client
  <1>5. row \in Row BY <1>2, <1>4, NewRow
  <1>6. rows \subseteq Row BY <1>2 DEF Pruned, IInv, TypeOK
  <1>7. RetryAfter(rows, c, at[p]) \in Nat BY <1>2, <1>6, RetryIsInteger
  <1>8. at[p] + RetryAfter(rows, c, at[p]) \in Nat BY <1>2, <1>7
  <1>9. retryAt' \in [Client -> Nat \cup {None}] /\ admitted' \in [Process -> BOOLEAN]
    BY <1>8 DEF CommitRate, IInv, TypeOK
  <1>10. PICK new \in {{}, {row}} : history' = history \cup new /\ ledger' = Pruned(ledger, at[p]) \cup new
    BY DEF CommitRate, Insert
  <1>11. /\ new \in SUBSET Row /\ IsFiniteSet(new)
         /\ \A r \in new : r.kind = "request" => r.client \in Client /\ r.client.salt = salt
    <2>1. CASE new = {} BY <2>1, FS_EmptySet
    <2>2. CASE new = {row}
      <3>1. row.client = c OBVIOUS
      <3>2. IsFiniteSet({row}) BY FS_Singleton
      <3> HIDE DEF row, c
      <3> QED BY <2>2, <3>1, <3>2, <1>4, <1>5
    <2> QED BY <2>1, <2>2, <1>10
  <1>12. Leave(p, "idle") /\ UNCHANGED <<now, high, salt, key>> BY DEF CommitRate, clock
  <1> QED BY <1>1, <1>9, <1>10, <1>11, <1>12, CommitInv

LEMMA NextInv == IInv /\ [Next]_vars => IInv'
  <1> SUFFICES ASSUME IInv, [Next]_vars PROVE IInv' OBVIOUS
  <1>1. ASSUME NEW p \in Process, Step(p) PROVE IInv'
    BY <1>1, StartInv, BeginInv, UnavailableInv, CommitRateInv, CommitCostInv, EndRequestInv,
       CrashInv DEF Step
  <1>2. ASSUME NEW t \in 0..MaxTime, SetClock(t) PROVE IInv'
    <2>1. t \in Nat BY AllowanceAssumption
    <2> QED BY <1>2, <2>1, SetClockInv
  <1> QED BY <1>1, <1>2, StutterInv DEF Next

-----------------------------------------------------------------------------
\* The invariant that all processes keep: types, one holder of the lock, one salt, and
\* nothing forgotten that could still count.
THEOREM LedgerInvariant == Spec => []IInv
  BY InitInv, NextInv, PTL DEF Spec

\* Every variable of the shared ledger and its processes keeps its type (TypeOK).
THEOREM AllowanceTypes == Spec => []TypeOK
  <1>1. IInv => TypeOK BY DEF IInv
  <1> QED BY <1>1, LedgerInvariant, PTL

-----------------------------------------------------------------------------
\* One more request of a client whose window was not full.
LEMMA WindowStep ==
    ASSUME IInv, NEW p \in Process, Inside(p), NEW c \in Client, c.salt = salt,
           NEW row \in Row, row.kind = "request", row.client = c, row.stamp = at[p],
           history' = history \cup {row},
           NEW span \in Nat \ {0}, span <= Day, NEW limit \in Nat,
           Cardinality(Recent(Pruned(ledger, at[p]), c, at[p], span)) < limit,
           \A r \in history : r.kind = "request" => Cardinality(Window(r, span)) <= limit
    PROVE  \A r \in history' : r.kind = "request" => Cardinality(Window(r, span)') <= limit
  <1> DEFINE counted == Recent(Pruned(ledger, at[p]), c, at[p], span)
  <1> SUFFICES ASSUME NEW r \in history', r.kind = "request"
               PROVE  Cardinality(Window(r, span)') <= limit
    OBVIOUS
  <1>1. history \subseteq Row /\ r \in Row /\ row \in Row BY DEF IInv, TypeOK
  <1>2. \A x \in Row : x.stamp \in Nat BY DEF Row
  <1>3. at[p] \in Nat /\ \A x \in history \ ledger : x.stamp <= at[p] - Day BY Holder
  <1>4. span <= Keep /\ Day \in Nat /\ Keep \in Nat BY AllowanceAssumption
  <1>5. CASE row \notin Window(r, span)'
    <2>1. r # row
      <3>1. row \in Window(row, span)' BY <1>1, <1>2 DEF Window
      <3> QED BY <3>1, <1>5
    <2>2. Window(r, span)' = Window(r, span) BY <1>5 DEF Window
    <2> QED BY <2>1, <2>2
  <1>6. CASE row \in Window(r, span)'
    <2>1. r.client.address = c.address /\ at[p] <= r.stamp BY <1>6 DEF Window
    <2>2. ASSUME NEW x \in Window(r, span)', x # row PROVE x \in counted
      <3>1. /\ x \in history /\ x.kind = "request" /\ x.client.address = c.address
            /\ r.stamp - span < x.stamp /\ x.stamp \in Nat /\ r.stamp \in Nat
        BY <2>1, <2>2, <1>1, <1>2 DEF Window
      <3>2. x.stamp > at[p] - span BY <3>1, <2>1, <1>3
      <3>3. x \in ledger
        <4>1. ~(x.stamp <= at[p] - Day) BY <3>1, <3>2, <1>3, <1>4
        <4> QED BY <4>1, <3>1, <1>3
      <3>4. x.stamp > at[p] - Keep BY <3>1, <3>2, <1>3, <1>4
      <3>5. x.client = c
        <4>1. x.client \in Client /\ x.client.salt = c.salt BY <3>1 DEF IInv, SaltInv
        <4> QED BY <4>1, <3>1 DEF Client
      <3> QED BY <3>1, <3>2, <3>3, <3>4, <3>5 DEF Recent, Pruned
    <2>3. Window(r, span)' \subseteq counted \cup {row} BY <2>2
    <2>4. IsFiniteSet(counted)
      <3>1. counted \subseteq history BY DEF Recent, Pruned, IInv, KeptInv
      <3> QED BY <3>1, FS_Subset DEF IInv, KeptInv
    <2>5. Cardinality(Window(r, span)') <= Cardinality(counted) + 1 BY <2>3, <2>4, OneMore
    <2>6. Cardinality(counted) \in Nat /\ IsFiniteSet(Window(r, span)') BY <2>3, <2>4, FS_CardinalityType, OneMore
    <2>7. Cardinality(Window(r, span)') \in Nat BY <2>6, FS_CardinalityType
    <2> QED BY <2>5, <2>6, <2>7
  <1> QED BY <1>5, <1>6

LEMMA WindowsNext == IInv /\ WindowsHold /\ [Next]_vars => WindowsHold'
  <1> SUFFICES ASSUME IInv, WindowsHold, [Next]_vars PROVE WindowsHold' OBVIOUS
  <1>1. ASSUME history' = history PROVE WindowsHold'
    BY <1>1 DEF WindowsHold, Window
  <1>2. ASSUME NEW p \in Process, NEW row, history' = history \cup {row}, row.kind = "openai"
        PROVE  WindowsHold'
    <2>1. ASSUME NEW r, NEW span PROVE Window(r, span)' = Window(r, span) BY <1>2 DEF Window
    <2> QED BY <1>2, <2>1 DEF WindowsHold
  <1>3. ASSUME NEW p \in Process, CommitRate(p) PROVE WindowsHold'
    <2> DEFINE c == Me(p)
               row == [id |-> Cardinality(history), kind |-> "request", client |-> c,
                       stamp |-> at[p], amount |-> 0, units |-> 0]
    <2>1. Inside(p) BY <1>3 DEF CommitRate, Inside
    <2>2. /\ op[p] \in Operation /\ at[p] \in Nat /\ seen[p] = ledger /\ key[p] = salt
          /\ salt \in Salt
      BY <2>1, Holder
    <2>3. op[p].address \in Address BY <1>3, <2>2 DEF CommitRate, Operation
    <2>4. c \in Client /\ c.salt = salt BY <2>2, <2>3 DEF Me, Client
    <2>5. row \in Row BY <2>2, <2>4, NewRow
    <2>6. CASE history' # history
      <3>1. Allowed(Pruned(ledger, at[p]), c, at[p]) /\ history' = history \cup {row}
        BY <1>3, <2>2, <2>6 DEF CommitRate, Insert
      <3>2. row.kind = "request" /\ row.client = c /\ row.stamp = at[p] OBVIOUS
      <3>3. {PerMinute, PerDay, Minute, Day} \subseteq Nat \ {0} /\ Minute <= Day
        BY AllowanceAssumption
      <3> HIDE DEF row, c
      <3>4. ASSUME NEW span \in Nat, Cardinality(Recent(Pruned(ledger, at[p]), c, at[p], span)) \notin Nat
            PROVE  FALSE
        <4>1. Recent(Pruned(ledger, at[p]), c, at[p], span) \subseteq history
          BY DEF Recent, Pruned, IInv, KeptInv
        <4> QED BY <4>1, <3>4, FS_Subset, FS_CardinalityType DEF IInv, KeptInv
      <3>5. /\ Cardinality(Recent(Pruned(ledger, at[p]), c, at[p], Minute)) < PerMinute
            /\ Cardinality(Recent(Pruned(ledger, at[p]), c, at[p], Day)) < PerDay
        BY <3>1, <3>3, <3>4 DEF Allowed, MinuteFull, DayFull
      <3>6. \A r \in history' : r.kind = "request" => Cardinality(Window(r, Minute)') <= PerMinute
        BY <2>1, <2>4, <2>5, <3>1, <3>2, <3>3, <3>5, WindowStep DEF WindowsHold
      <3>7. \A r \in history' : r.kind = "request" => Cardinality(Window(r, Day)') <= PerDay
        BY <2>1, <2>4, <2>5, <3>1, <3>2, <3>3, <3>5, WindowStep DEF WindowsHold
      <3> QED BY <3>3, <3>6, <3>7 DEF WindowsHold, Window
    <2> QED BY <1>1, <2>6
  <1>4. ASSUME NEW p \in Process, CommitCost(p) PROVE WindowsHold'
    <2>1. CASE history' = history BY <1>1, <2>1
    <2>2. CASE history' # history
      <3> DEFINE row == [id |-> Cardinality(history), kind |-> "openai", client |-> None, stamp |-> at[p],
                         amount |-> op[p].amount, units |-> Units(op[p].amount)]
      <3>1. history' = history \cup {row} BY <1>4, <2>2 DEF CommitCost, Insert
      <3>2. row.kind = "openai" OBVIOUS
      <3> HIDE DEF row
      <3> QED BY <1>2, <3>1, <3>2
    <2> QED BY <2>1, <2>2
  <1>5. ASSUME NEW p \in Process, Step(p) PROVE WindowsHold'
    BY <1>1, <1>3, <1>4, <1>5
    DEF Step, Start, Begin, Unavailable, EndRequest, Crash
  <1> QED BY <1>1, <1>5 DEF Next, SetClock, vars

\* Two processes that admit at once, restarts, lapsed locks and a clock that is set back:
\* no address gets more than its requests per minute and per day (WindowsHold).
THEOREM WindowsAreKept == Spec => []WindowsHold
  <1>1. Init => WindowsHold BY DEF Init, WindowsHold
  <1> QED BY <1>1, InitInv, NextInv, WindowsNext, PTL DEF Spec

-----------------------------------------------------------------------------
\* A refused client that has waited long enough is admitted, whenever it comes back.
RetryInv ==
    \A c \in Client : \A t \in Nat :
        retryAt[c] # None /\ t >= retryAt[c] => Allowed(ledger, c, t)

\* Forgetting rows refuses nobody.
LEMMA FewerRows ==
    ASSUME NEW rows, IsFiniteSet(rows), NEW fewer, NEW c, NEW t,
           \A r \in fewer : r.kind = "request" /\ r.client = c => r \in rows,
           Allowed(rows, c, t)
    PROVE  Allowed(fewer, c, t)
  <1>1. ASSUME NEW span, NEW limit \in Nat, ~(Cardinality(Recent(rows, c, t, span)) >= limit)
        PROVE  ~(Cardinality(Recent(fewer, c, t, span)) >= limit)
    <2>1. Recent(fewer, c, t, span) \subseteq Recent(rows, c, t, span) BY DEF Recent
    <2>2. Recent(rows, c, t, span) \subseteq rows BY DEF Recent
    <2>3. IsFiniteSet(Recent(rows, c, t, span)) BY <2>2, FS_Subset
    <2>4. /\ IsFiniteSet(Recent(fewer, c, t, span))
          /\ Cardinality(Recent(fewer, c, t, span)) <= Cardinality(Recent(rows, c, t, span))
      BY <2>1, <2>3, FS_Subset
    <2>5. /\ Cardinality(Recent(fewer, c, t, span)) \in Nat
          /\ Cardinality(Recent(rows, c, t, span)) \in Nat
      BY <2>3, <2>4, FS_CardinalityType
    <2> QED BY <1>1, <2>4, <2>5
  <1>2. PerMinute \in Nat /\ PerDay \in Nat BY AllowanceAssumption
  <1> QED BY <1>1, <1>2 DEF Allowed, MinuteFull, DayFull

\* The latest of times that are not after a time.
LEMMA LatestExists ==
    ASSUME NEW a \in Nat, NEW S \in SUBSET Nat, S # {}, \A x \in S : x <= a
    PROVE  \E x \in S : \A y \in S : y <= x
  <1> DEFINE T == {i \in Nat : \E x \in S : i = a - x}
  <1>1. T \in SUBSET Nat /\ T # {}
    <2>1. PICK x \in S : TRUE OBVIOUS
    <2>2. a - x \in Nat BY <2>1
    <2>3. a - x \in T BY <2>2
    <2> QED BY <2>3
  <1>2. PICK i \in T : \A j \in T : i <= j BY <1>1, LeastNat
  <1>3. PICK x \in S : i = a - x BY <1>2
  <1>4. ASSUME NEW y \in S PROVE y <= x
    <2>1. a - y \in Nat BY <1>4
    <2>2. a - y \in T BY <2>1
    <2>3. i <= a - y BY <1>2, <2>2
    <2> QED BY <1>3, <2>3
  <1> QED BY <1>4

\* Once the time until a full window has a free place is over, it has one: no window
\* ever holds more than its limit.
LEMMA WindowClears ==
    ASSUME IInv, NEW rows \in SUBSET history, NEW c \in Client, NEW a \in Nat, NEW t \in Nat, t >= a,
           NEW span \in Nat \ {0}, NEW limit \in Nat \ {0},
           \A r \in Recent(rows, c, a, span) : r.stamp <= a,
           \A r \in history : r.kind = "request" => Cardinality(Window(r, span)) <= limit,
           Cardinality(Recent(rows, c, a, span)) >= limit =>
               t >= a + ResetSeconds(Recent(rows, c, a, span), a, span)
    PROVE  ~(Cardinality(Recent(rows, c, t, span)) >= limit)
  <1> DEFINE W == Recent(rows, c, a, span)
             V == Recent(rows, c, t, span)
  <1>1. /\ IsFiniteSet(W) /\ Cardinality(W) \in Nat /\ IsFiniteSet(V) /\ Cardinality(V) \in Nat
        /\ W \subseteq history /\ W \subseteq Row
    <2>1. W \subseteq history /\ V \subseteq history BY DEF Recent
    <2>2. history \subseteq Row BY DEF IInv, TypeOK
    <2> QED BY <2>1, <2>2, FS_Subset, FS_CardinalityType DEF IInv, KeptInv
  <1>2. \A r \in Row : r.stamp \in Nat BY DEF Row
  <1>3. V \subseteq W
    <2> SUFFICES ASSUME NEW r \in V PROVE r \in W OBVIOUS
    <2>1. r \in rows /\ r.kind = "request" /\ r.client = c /\ r.stamp > t - span BY DEF Recent
    <2>2. r.stamp \in Nat BY <2>1, <1>2 DEF IInv, TypeOK
    <2>3. r.stamp > a - span BY <2>1, <2>2
    <2> QED BY <2>1, <2>3 DEF Recent
  <1>4. CASE ~(Cardinality(W) >= limit)
    <2>1. Cardinality(V) <= Cardinality(W) BY <1>1, <1>3, FS_Subset
    <2> HIDE DEF V, W
    <2>2. ~(Cardinality(V) >= limit) BY <1>1, <1>4, <2>1
    <2> QED BY <2>2 DEF V
  <1>5. CASE Cardinality(W) >= limit
    <2> DEFINE stamps == {r.stamp : r \in W}
    <2>1. W # {}
      <3>1. Cardinality({}) = 0 BY FS_EmptySet
      <3> QED BY <1>5, <3>1
    <2>2. stamps \in SUBSET Nat /\ stamps # {} /\ \A s \in stamps : s <= a
      <3>1. \A r \in W : r.stamp \in Nat /\ r.stamp <= a BY <1>1, <1>2
      <3> HIDE DEF W
      <3> QED BY <2>1, <3>1
    <2>3. PICK x \in W : \A s \in stamps : x.stamp <= s /\ Min(stamps) = x.stamp
      <3>1. \E m \in stamps : \A s \in stamps : m <= s BY <2>2, LeastNat
      <3>2. Min(stamps) \in stamps /\ \A s \in stamps : Min(stamps) <= s BY <3>1 DEF Min
      <3>3. PICK x \in W : x.stamp = Min(stamps) BY <3>2
      <3> HIDE DEF W, stamps
      <3> QED BY <3>2, <3>3
    <2>4. PICK y \in W : \A r \in W : r.stamp <= y.stamp
      <3>1. PICK m \in stamps : \A s \in stamps : s <= m BY <2>2, LatestExists
      <3>2. PICK y \in W : y.stamp = m BY <3>1
      <3>3. \A r \in W : r.stamp \in stamps OBVIOUS
      <3> HIDE DEF W, stamps
      <3> QED BY <3>1, <3>2, <3>3
    <2>5. Cardinality(W) <= limit
      <3>1. W \subseteq Window(y, span)
        <4> SUFFICES ASSUME NEW r \in W PROVE r \in Window(y, span) OBVIOUS
        <4>1. /\ r \in history /\ r.kind = "request" /\ r.client = c /\ r.stamp > a - span
              /\ y.client = c
          BY <1>1, <2>4 DEF Recent
        <4>2. r.stamp \in Nat /\ y.stamp \in Nat /\ r.stamp <= y.stamp /\ y.stamp <= a
          BY <1>1, <1>2, <2>4
        <4>3. y.stamp - span < r.stamp BY <4>1, <4>2
        <4> QED BY <4>1, <4>2, <4>3 DEF Window
      <3>2. y \in history /\ y.kind = "request" BY <1>1, <2>4 DEF Recent
      <3>3. Cardinality(Window(y, span)) <= limit BY <3>2
      <3>4. Window(y, span) \subseteq history BY DEF Window
      <3>5. IsFiniteSet(Window(y, span)) BY <3>4, FS_Subset DEF IInv, KeptInv
      <3>6. /\ Cardinality(W) <= Cardinality(Window(y, span))
            /\ Cardinality(Window(y, span)) \in Nat
        BY <3>1, <3>5, FS_Subset, FS_CardinalityType
      <3> HIDE DEF W
      <3> QED BY <1>1, <3>3, <3>6
    <2>6. x \notin V
      <3>1. x.stamp \in Nat BY <1>1, <1>2, <2>3
      <3>2. \E s \in stamps : TRUE BY <2>2
      <3>3. Min(stamps) = x.stamp BY <2>3, <3>2
      <3>4. ResetSeconds(W, a, span) >= x.stamp + span - a
        <4>1. ResetSeconds(W, a, span) = IF x.stamp + span - a < 1 THEN 1 ELSE x.stamp + span - a
          BY <2>1, <3>3 DEF ResetSeconds
        <4> QED BY <3>1, <4>1
      <3>5. ResetSeconds(W, a, span) \in Int
        BY <2>1, <3>1, <3>3 DEF ResetSeconds
      <3>6. t >= a + ResetSeconds(W, a, span) BY <1>5
      <3>7. ~(x.stamp > t - span)
        <4> DEFINE wait == ResetSeconds(W, a, span)
        <4>1. wait \in Int /\ wait >= x.stamp + span - a /\ t >= a + wait BY <3>4, <3>5, <3>6
        <4> HIDE DEF wait
        <4> QED BY <3>1, <4>1
      <3> QED BY <3>7 DEF Recent
    <2>7. Cardinality(V) <= Cardinality(W) - 1
      <3>1. V \subseteq W \ {x} BY <1>3, <2>6
      <3>2. IsFiniteSet(W \ {x}) /\ Cardinality(W \ {x}) = Cardinality(W) - 1
        BY <1>1, <2>3, FS_RemoveElement
      <3> QED BY <3>1, <3>2, FS_Subset
    <2> HIDE DEF V, W
    <2>8. ~(Cardinality(V) >= limit) BY <1>1, <2>5, <2>7
    <2> QED BY <2>8 DEF V
  <1> QED BY <1>4, <1>5

\* The longer of the waits is long enough for both windows.
LEMMA WaitIsEnough ==
    ASSUME IInv, WindowsHold, NEW rows \in SUBSET history, NEW c \in Client, NEW a \in Nat,
           NEW t \in Nat, ~Allowed(rows, c, a), \A r \in Recent(rows, c, a, Day) : r.stamp <= a,
           t >= a + RetryAfter(rows, c, a)
    PROVE  Allowed(rows, c, t)
  <1> DEFINE minute == ResetSeconds(Recent(rows, c, a, Minute), a, Minute)
             day == ResetSeconds(Recent(rows, c, a, Day), a, Day)
  <1>1. {PerMinute, PerDay, Minute, Day} \subseteq Nat \ {0} /\ Minute <= Day
    BY AllowanceAssumption
  <1>2. history \subseteq Row /\ rows \subseteq Row BY DEF IInv, TypeOK
  <1>3. minute \in Nat /\ day \in Nat BY <1>1, <1>2, ResetIsInteger DEF Recent
  <1>4. RetryAfter(rows, c, a) = (LET m == IF MinuteFull(rows, c, a) THEN minute ELSE 0
                                      d == IF DayFull(rows, c, a) THEN day ELSE 0
                                  IN  IF m < d THEN d ELSE m)
    BY DEF RetryAfter
  <1> HIDE DEF minute, day
  <1>5. /\ RetryAfter(rows, c, a) \in Nat
        /\ MinuteFull(rows, c, a) => RetryAfter(rows, c, a) >= minute
        /\ DayFull(rows, c, a) => RetryAfter(rows, c, a) >= day
    BY <1>3, <1>4
  <1>6. /\ t >= a /\ (MinuteFull(rows, c, a) => t >= a + minute)
        /\ (DayFull(rows, c, a) => t >= a + day)
    <2> DEFINE wait == RetryAfter(rows, c, a)
    <2>1. wait \in Nat /\ t >= a + wait BY <1>5
    <2> HIDE DEF wait
    <2> QED BY <1>3, <1>5, <2>1 DEF wait
  <1>7. \A r \in Recent(rows, c, a, Minute) : r.stamp <= a
    <2> SUFFICES ASSUME NEW r \in Recent(rows, c, a, Minute) PROVE r.stamp <= a OBVIOUS
    <2>1. r \in rows /\ r.kind = "request" /\ r.client = c /\ r.stamp > a - Minute BY DEF Recent
    <2>2. r.stamp \in Nat BY <1>2, <2>1 DEF Row
    <2>3. r.stamp > a - Day BY <1>1, <2>1, <2>2
    <2>4. r \in Recent(rows, c, a, Day) BY <2>1, <2>3 DEF Recent
    <2> QED BY <2>4
  <1>8. ~MinuteFull(rows, c, t)
    BY <1>1, <1>6, <1>7, WindowClears DEF MinuteFull, WindowsHold, minute
  <1>9. ~DayFull(rows, c, t)
    BY <1>1, <1>6, WindowClears DEF DayFull, WindowsHold, day
  <1> QED BY <1>8, <1>9 DEF Allowed

\* Whatever a process does next, what refused clients were told stays true.
LEMMA RetryNext == IInv /\ WindowsHold /\ RetryInv /\ [Next]_vars => RetryInv'
  <1> SUFFICES ASSUME IInv, WindowsHold, RetryInv, [Next]_vars PROVE RetryInv' OBVIOUS
  <1>1. CASE ledger' = ledger /\ retryAt' = retryAt
    BY <1>1 DEF RetryInv, Allowed, MinuteFull, DayFull, Recent
  <1>2. IsFiniteSet(ledger) /\ ledger \subseteq history /\ ledger \subseteq Row
    BY FS_Subset DEF IInv, KeptInv, TypeOK
  <1>3. ASSUME NEW p \in Process, CommitCost(p) PROVE RetryInv'
    <2>1. CASE ledger' = ledger BY <1>1, <1>3, <2>1 DEF CommitCost
    <2>2. CASE ledger' # ledger
      <3> DEFINE row == [id |-> Cardinality(history), kind |-> "openai", client |-> None, stamp |-> at[p],
                         amount |-> op[p].amount, units |-> Units(op[p].amount)]
      <3>1. ledger' = ledger \cup {row} /\ retryAt' = retryAt BY <1>3, <2>2 DEF CommitCost, Insert
      <3>2. row.kind = "openai" OBVIOUS
      <3> HIDE DEF row
      <3>3. \A r \in ledger' : r.kind = "request" => r \in ledger BY <3>1, <3>2
      <3>4. ASSUME NEW c \in Client, NEW t \in Nat, Allowed(ledger, c, t) PROVE Allowed(ledger', c, t)
        BY <1>2, <3>3, <3>4, FewerRows
      <3> QED BY <3>1, <3>4 DEF RetryInv, Allowed, MinuteFull, DayFull, Recent
    <2> QED BY <2>1, <2>2
  <1>4. ASSUME NEW p \in Process, CommitRate(p) PROVE RetryInv'
    <2> DEFINE me == Me(p)
               a == at[p]
               rows == Pruned(ledger, a)
               row == [id |-> Cardinality(history), kind |-> "request", client |-> me,
                       stamp |-> a, amount |-> 0, units |-> 0]
               consumes == op[p].type = "admit" /\ Allowed(rows, me, a)
    <2>1. Inside(p) BY <1>4 DEF CommitRate, Inside
    <2>2. op[p] \in Operation /\ a \in Nat /\ seen[p] = ledger /\ key[p] = salt /\ salt \in Salt
      BY <2>1, Holder
    <2>3. me \in Client
      <3>1. op[p].address \in Address BY <1>4, <2>2 DEF CommitRate, Operation
      <3> QED BY <2>2, <3>1 DEF Me, Client
    <2>4. /\ ledger' = IF consumes THEN rows \cup {row} ELSE rows
          /\ retryAt' = [retryAt EXCEPT ![me] =
               IF consumes THEN None
               ELSE IF ~Allowed(rows, me, a) /\ \A r \in Recent(rows, me, a, Day) : r.stamp <= a
               THEN a + RetryAfter(rows, me, a) ELSE @]
      BY <1>4, <2>2 DEF CommitRate, Insert
    <2>5. rows \subseteq ledger BY DEF Pruned
    <2>6. row.client = me OBVIOUS
    <2>7. retryAt \in [Client -> Nat \cup {None}] BY DEF IInv, TypeOK
    <2> HIDE DEF me, a, rows, row, consumes
    <2>8. ASSUME NEW c \in Client, NEW t \in Nat, retryAt'[c] # None, t >= retryAt'[c]
          PROVE  Allowed(ledger', c, t)
      <3>1. CASE c # me
        <4>1. retryAt'[c] = retryAt[c] BY <2>4, <2>7, <3>1
        <4>2. Allowed(ledger, c, t) BY <2>8, <4>1 DEF RetryInv
        <4>3. \A r \in ledger' : r.client = c => r \in ledger BY <2>4, <2>5, <2>6, <3>1
        <4> QED BY <1>2, <4>2, <4>3, FewerRows
      <3>2. CASE c = me
        <4>1. ~consumes BY <2>3, <2>4, <2>7, <2>8, <3>2
        <4>2. ledger' = rows BY <2>4, <4>1
        <4>3. CASE ~Allowed(rows, me, a) /\ \A r \in Recent(rows, me, a, Day) : r.stamp <= a
          <5>1. t >= a + RetryAfter(rows, me, a) BY <2>3, <2>4, <2>7, <2>8, <3>2, <4>1, <4>3
          <5>2. rows \in SUBSET history BY <1>2, <2>5
          <5>3. Allowed(rows, me, t) BY <2>2, <2>3, <4>3, <5>1, <5>2, WaitIsEnough
          <5> QED BY <3>2, <4>2, <5>3
        <4>4. CASE ~(~Allowed(rows, me, a) /\ \A r \in Recent(rows, me, a, Day) : r.stamp <= a)
          <5>1. retryAt'[c] = retryAt[c] BY <2>3, <2>4, <2>7, <3>2, <4>1, <4>4
          <5>2. Allowed(ledger, c, t) BY <2>8, <5>1 DEF RetryInv
          <5> QED BY <1>2, <2>5, <4>2, <5>2, FewerRows
        <4> QED BY <4>3, <4>4
      <3> QED BY <3>1, <3>2
    <2> QED BY <2>8 DEF RetryInv, Allowed, MinuteFull, DayFull, Recent
  <1>5. ASSUME NEW p \in Process, Step(p) PROVE RetryInv'
    BY <1>1, <1>3, <1>4, <1>5
    DEF Step, Start, Begin, Unavailable, EndRequest, Crash
  <1> QED BY <1>1, <1>5 DEF Next, SetClock, vars

\* Retry-After is honest, whatever the other processes, the clock and restarts do: a client
\* that waits as long as it was told is admitted (RetryAfterSuffices).
THEOREM RetryIsHonest == Spec => []RetryAfterSuffices
  <1>1. Init => WindowsHold /\ RetryInv BY DEF Init, WindowsHold, RetryInv
  <1>2. IInv /\ RetryInv => RetryAfterSuffices
    BY DEF IInv, TypeOK, RetryInv, RetryAfterSuffices
  <1> QED BY <1>1, <1>2, InitInv, NextInv, WindowsNext, RetryNext, PTL DEF Spec

-----------------------------------------------------------------------------
\* The units of some rows are added up by a sum over their set.
LEMMA UnitsSum ==
    ASSUME NEW S \in SUBSET Row, IsFiniteSet(S)
    PROVE  \E g : IsSum(g, [r \in Row |-> r.units], S) /\ MapThenSumSet(LAMBDA r : r.units, S) = g[S]
  <1> DEFINE w == [r \in Row |-> r.units]
             F(h) == [s \in SUBSET S |->
                         IF s = {} THEN 0
                         ELSE (CHOOSE x \in s : TRUE).units + h[s \ {CHOOSE x \in s : TRUE}]]
             f == CHOOSE h : h = F(h)
  <1>1. MapThenSumSet(LAMBDA r : r.units, S) = f[S] BY DEF MapThenSumSet, MapThenFoldSet
  <1>2. \A x \in S : x \in Row /\ w[x] = x.units /\ w[x] \in Nat BY DEF Row
  <1> HIDE DEF w
  <1>3. PICK g : IsSum(g, w, S) BY <1>2, SumExists
  <1>4. F(g) = g
    <2>1. ASSUME NEW s \in SUBSET S PROVE F(g)[s] = g[s]
      <3>1. CASE s = {} BY <1>3, <3>1 DEF IsSum
      <3>2. CASE s # {}
        <4>1. (CHOOSE x \in s : TRUE) \in s BY <3>2
        <4> QED BY <1>2, <1>3, <3>2, <4>1 DEF IsSum
      <3> QED BY <3>1, <3>2
    <2>2. g \in [SUBSET S -> Nat] BY <1>3 DEF IsSum
    <2> QED BY <2>1, <2>2
  <1>5. f = F(f) BY <1>4
  <1>6. \A s \in SUBSET S : f[s] = IF s = {} THEN 0
                                   ELSE w[CHOOSE x \in s : TRUE] + f[s \ {CHOOSE x \in s : TRUE}]
    <2> HIDE DEF f
    <2> SUFFICES ASSUME NEW s \in SUBSET S
                 PROVE f[s] = IF s = {} THEN 0
                              ELSE w[CHOOSE x \in s : TRUE] + f[s \ {CHOOSE x \in s : TRUE}]
      OBVIOUS
    <2>1. F(f)[s] = f[s] BY <1>5
    <2>2. s # {} => (CHOOSE x \in s : TRUE) \in S OBVIOUS
    <2> QED BY <1>2, <2>1, <2>2
  <1> HIDE DEF f
  <1>7. f[S] = g[S] BY <1>3, <1>6, SumChosen
  <1> QED BY <1>1, <1>3, <1>7 DEF w

\* So are the amounts.
LEMMA AmountSum ==
    ASSUME NEW S \in SUBSET Row, IsFiniteSet(S)
    PROVE  \E g : IsSum(g, [r \in Row |-> r.amount], S) /\ MapThenSumSet(LAMBDA r : r.amount, S) = g[S]
  <1> DEFINE w == [r \in Row |-> r.amount]
             F(h) == [s \in SUBSET S |->
                         IF s = {} THEN 0
                         ELSE (CHOOSE x \in s : TRUE).amount + h[s \ {CHOOSE x \in s : TRUE}]]
             f == CHOOSE h : h = F(h)
  <1>1. MapThenSumSet(LAMBDA r : r.amount, S) = f[S] BY DEF MapThenSumSet, MapThenFoldSet
  <1>2. \A x \in S : x \in Row /\ w[x] = x.amount /\ w[x] \in Nat BY DEF Row
  <1> HIDE DEF w
  <1>3. PICK g : IsSum(g, w, S) BY <1>2, SumExists
  <1>4. F(g) = g
    <2>1. ASSUME NEW s \in SUBSET S PROVE F(g)[s] = g[s]
      <3>1. CASE s = {} BY <1>3, <3>1 DEF IsSum
      <3>2. CASE s # {}
        <4>1. (CHOOSE x \in s : TRUE) \in s BY <3>2
        <4> QED BY <1>2, <1>3, <3>2, <4>1 DEF IsSum
      <3> QED BY <3>1, <3>2
    <2>2. g \in [SUBSET S -> Nat] BY <1>3 DEF IsSum
    <2> QED BY <2>1, <2>2
  <1>5. f = F(f) BY <1>4
  <1>6. \A s \in SUBSET S : f[s] = IF s = {} THEN 0
                                   ELSE w[CHOOSE x \in s : TRUE] + f[s \ {CHOOSE x \in s : TRUE}]
    <2> HIDE DEF f
    <2> SUFFICES ASSUME NEW s \in SUBSET S
                 PROVE f[s] = IF s = {} THEN 0
                              ELSE w[CHOOSE x \in s : TRUE] + f[s \ {CHOOSE x \in s : TRUE}]
      OBVIOUS
    <2>1. F(f)[s] = f[s] BY <1>5
    <2>2. s # {} => (CHOOSE x \in s : TRUE) \in S OBVIOUS
    <2> QED BY <1>2, <2>1, <2>2
  <1> HIDE DEF f
  <1>7. f[S] = g[S] BY <1>3, <1>6, SumChosen
  <1> QED BY <1>1, <1>3, <1>7 DEF w

\* Two times of the same day.
LEMMA DayParts ==
    ASSUME NEW x \in Nat, NEW t \in Nat, StartOfDay(x) = StartOfDay(t)
    PROVE  x >= StartOfDay(t) /\ x > t - Day
  <1> DEFINE D == Day
             qx == x \div D
             qt == t \div D
  <1>1. D \in Nat /\ D > 0 BY AllowanceAssumption
  <1> HIDE DEF D
  <1>2. qx \in Int /\ qt \in Int /\ qx * D <= x /\ x < qx * D + D /\ qt * D <= t /\ t < qt * D + D BY <1>1, Z3
  <1>3. qx * D = qt * D BY DEF StartOfDay, D
  <1>4. qt * D \in Int BY <1>1, <1>2
  <1>5. StartOfDay(t) = qt * D BY DEF StartOfDay, D
  <1> HIDE DEF qx, qt
  <1> DEFINE m == qt * D
  <1>6. m \in Int /\ m <= x /\ x < m + D /\ t < m + D BY <1>2, <1>3, <1>4
  <1> HIDE DEF m
  <1>7. m <= x /\ x > t - D
    <2>1. m <= t BY <1>2 DEF m
    <2> QED BY <1>1, <1>6, <2>1
  <1> QED BY <1>5, <1>7 DEF m, D

\* Rounding up never charges too little.
LEMMA UnitsCover == ASSUME NEW a \in Nat PROVE Units(a) \in Nat /\ a <= Fraction * Units(a)
  <1> DEFINE F == Fraction
             u == (a + F - 1) \div F
  <1>1. F \in Nat /\ F > 0 BY AllowanceAssumption
  <1> HIDE DEF F
  <1>2. a + F - 1 \in Nat BY <1>1
  <1>3. u \in Nat /\ a + F - 1 < F * u + F BY <1>1, <1>2, Z3
  <1>4. Units(a) = u BY DEF Units, F
  <1> HIDE DEF u
  <1>5. F * u \in Nat BY <1>1, <1>3
  <1>6. a <= F * u BY <1>1, <1>3, <1>5
  <1> QED BY <1>3, <1>4, <1>6 DEF F

\* The whole limit in micro-dollars is within the limit.
LEMMA CeilingFits == Ceiling \in Nat /\ Fraction * Ceiling <= DailyLimit
  <1> DEFINE F == Fraction
             u == DailyLimit \div F
  <1>1. F \in Nat /\ F > 0 /\ DailyLimit \in Nat BY AllowanceAssumption
  <1> HIDE DEF F
  <1>2. u \in Nat /\ F * u <= DailyLimit BY <1>1, Z3
  <1> QED BY <1>2 DEF Ceiling, F

\* The reservations among some rows of the UTC day of a time, and what they cost.
DayRows(rows, t) == {x \in rows : x.kind = "openai" /\ StartOfDay(x.stamp) = StartOfDay(t)}
Cost(rows) == MapThenSumSet(LAMBDA x : x.amount, rows)

\* No reservation costs more than the units it was charged.
CostInv == \A r \in history : r.kind = "openai" => r.amount <= Fraction * r.units

\* A reservation that fits what the ledger still knows of its day fits all of the day: a
\* row of the day is not forgotten while the day lasts.
LEMMA DayStep ==
    ASSUME IInv, CostInv, NEW p \in Process, Inside(p),
           NEW row \in Row, row.kind = "openai", row.stamp = at[p], row.amount <= Fraction * row.units,
           Spent(ledger, at[p]) + row.units <= Ceiling
    PROVE  Cost(DayRows(history \cup {row}, at[p])) <= DailyLimit
  <1> DEFINE t == at[p]
             D == DayRows(history \cup {row}, t)
             rest == D \ {row}
             B == {r \in ledger : r.kind = "openai" /\ r.stamp >= StartOfDay(t)}
             w == [r \in Row |-> r.amount]
             v == [r \in Row |-> r.units]
  <1>1. /\ t \in Nat /\ \A x \in history \ ledger : x.stamp <= t - Day
        /\ history \subseteq Row /\ ledger \subseteq history /\ IsFiniteSet(history)
    BY Holder DEF IInv, TypeOK, KeptInv
  <1>2. \A x \in Row : /\ x.stamp \in Nat /\ x.amount \in Nat /\ x.units \in Nat
                       /\ w[x] = x.amount /\ v[x] = x.units
    BY DEF Row
  <1>3. rest \subseteq B
    <2> SUFFICES ASSUME NEW x \in rest PROVE x \in B OBVIOUS
    <2>1. x \in history /\ x.kind = "openai" /\ StartOfDay(x.stamp) = StartOfDay(t) BY DEF DayRows
    <2>2. x.stamp \in Nat BY <1>1, <1>2, <2>1
    <2>3. x.stamp >= StartOfDay(t) /\ x.stamp > t - Day BY <1>1, <2>1, <2>2, DayParts
    <2>4. x \in ledger
      <3>1. ~(x.stamp <= t - Day) BY <1>1, <2>2, <2>3, AllowanceAssumption
      <3> QED BY <1>1, <2>1, <3>1
    <2> QED BY <2>1, <2>3, <2>4
  <1>4. row \in D /\ D \in SUBSET Row /\ IsFiniteSet(D) /\ B \in SUBSET Row /\ IsFiniteSet(B)
    <2>1. IsFiniteSet(history \cup {row}) BY <1>1, FS_AddElement
    <2>2. D \subseteq history \cup {row} /\ B \subseteq history BY <1>1 DEF DayRows
    <2>3. IsFiniteSet(D) /\ IsFiniteSet(B) BY <1>1, <2>1, <2>2, FS_Subset
    <2>4. row \in D BY DEF DayRows
    <2> QED BY <1>1, <2>2, <2>3, <2>4
  <1>5. PICK g : IsSum(g, w, D) /\ Cost(D) = g[D] BY <1>4, AmountSum DEF Cost
  <1>6. PICK h : IsSum(h, v, B) /\ Spent(ledger, t) = h[B] BY <1>4, UnitsSum DEF Spent
  <1>7. \A x \in rest : x.amount <= Fraction * x.units
    BY DEF CostInv, DayRows
  <1>8. Fraction \in Nat /\ Ceiling \in Nat /\ Fraction * Ceiling <= DailyLimit /\ DailyLimit \in Nat
    BY CeilingFits, AllowanceAssumption
  <1>9. Cost(D) = row.amount + g[rest]
    <2> HIDE DEF D, w
    <2> QED BY <1>2, <1>4, <1>5 DEF IsSum
  <1>10. g[rest] \in Nat /\ h[B] \in Nat /\ g[rest] <= Fraction * h[B]
    <2>1. rest \in SUBSET D OBVIOUS
    <2>2. \A x \in B : v[x] \in Nat BY <1>2, <1>4
    <2>3. \A x \in rest : w[x] \in Nat /\ w[x] <= Fraction * v[x] BY <1>2, <1>4, <1>7
    <2> HIDE DEF rest, B, D, v, w
    <2> QED BY <1>3, <1>4, <1>5, <1>6, <1>8, <2>1, <2>2, <2>3, SumBound
  <1> HIDE DEF D, B, rest
  <1> DEFINE u == row.units
             s == h[B]
             a == row.amount
             b == g[rest]
  <1>11. u \in Nat /\ a \in Nat BY <1>2
  <1>12. s \in Nat /\ b \in Nat /\ s + u <= Ceiling /\ b <= Fraction * s /\ a <= Fraction * u
    BY <1>6, <1>10
  <1>13. Cost(D) = a + b BY <1>9
  <1> HIDE DEF a, b, s, u
  <1>14. a + b <= DailyLimit
    <2> DEFINE fs == Fraction * s
               fu == Fraction * u
               fc == Fraction * Ceiling
    <2>1. fs \in Nat /\ fu \in Nat /\ fc \in Nat BY <1>8, <1>11, <1>12
    <2>2. fs + fu = Fraction * (s + u) BY <1>8, <1>11, <1>12
    <2>3. Fraction * (s + u) <= fc BY <1>8, <1>11, <1>12, Z3
    <2>4. fc <= DailyLimit /\ b <= fs /\ a <= fu BY <1>8, <1>12
    <2> HIDE DEF fs, fu, fc
    <2> QED BY <1>8, <1>11, <1>12, <2>1, <2>2, <2>3, <2>4
  <1> QED BY <1>13, <1>14 DEF D

\* Whatever a process does next, what it reserves is covered.
LEMMA CostNext == IInv /\ CostInv /\ DailyCostHolds /\ [Next]_vars => CostInv' /\ DailyCostHolds'
  <1> SUFFICES ASSUME IInv, CostInv, DailyCostHolds, [Next]_vars PROVE CostInv' /\ DailyCostHolds' OBVIOUS
  <1>0. /\ \A r \in history : r.kind = "openai" => Cost(DayRows(history, r.stamp)) <= DailyLimit
        /\ (\A r \in history' : r.kind = "openai" => Cost(DayRows(history', r.stamp)) <= DailyLimit)
              => DailyCostHolds'
    <2>1. \A r \in history : r.kind = "openai" => Cost(DayRows(history, r.stamp)) <= DailyLimit
      BY DEF DailyCostHolds, Cost, DayRows
    <2>2. (\A r \in history' : r.kind = "openai" => Cost(DayRows(history', r.stamp)) <= DailyLimit)
              => DailyCostHolds'
      BY DEF DailyCostHolds, Cost, DayRows, MapThenSumSet, MapThenFoldSet
    <2> QED BY <2>1, <2>2
  <1>1. CASE history' = history BY <1>0, <1>1 DEF CostInv
  <1>2. ASSUME NEW p \in Process, CommitRate(p) PROVE CostInv' /\ DailyCostHolds'
    <2>1. CASE history' = history BY <1>1, <2>1
    <2>2. CASE history' # history
      <3> DEFINE row == [id |-> Cardinality(history), kind |-> "request", client |-> Me(p),
                         stamp |-> at[p], amount |-> 0, units |-> 0]
      <3>1. history' = history \cup {row} BY <1>2, <2>2 DEF CommitRate, Insert
      <3>2. row.kind # "openai" OBVIOUS
      <3> HIDE DEF row
      <3>3. \A t : DayRows(history', t) = DayRows(history, t) BY <3>1, <3>2 DEF DayRows
      <3>4. \A r \in history' : r.kind = "openai" => r \in history BY <3>1, <3>2
      <3> QED BY <1>0, <3>3, <3>4 DEF CostInv
    <2> QED BY <2>1, <2>2
  <1>3. ASSUME NEW p \in Process, CommitCost(p) PROVE CostInv' /\ DailyCostHolds'
    <2>1. CASE history' = history BY <1>1, <2>1
    <2>2. CASE history' # history
      <3> DEFINE units == Units(op[p].amount)
                 row == [id |-> Cardinality(history), kind |-> "openai", client |-> None,
                         stamp |-> at[p], amount |-> op[p].amount, units |-> units]
      <3>1. Inside(p) BY <1>3 DEF CommitCost, Inside
      <3>2. op[p] \in Operation /\ at[p] \in Nat /\ seen[p] = ledger BY <3>1, Holder
      <3>3. op[p].amount \in Nat
        <4>1. op[p].type = "reserve" BY <1>3 DEF CommitCost
        <4>2. op[p] \in [type : {"reserve"}, address : {None}, amount : Amount \cup {0}]
          BY <3>2, <4>1 DEF Operation
        <4>3. op[p].amount \in Amount \cup {0} BY <4>2
        <4> QED BY <4>3, AmountsAreNatural
      <3>4. units \in Nat /\ op[p].amount <= Fraction * units BY <3>3, UnitsCover
      <3>5. row \in Row BY <3>2, <3>3, <3>4, NewRow
      <3>6. history' = history \cup {row} /\ Spent(ledger, at[p]) + units <= Ceiling
        BY <1>3, <2>2, <3>2 DEF CommitCost, Insert
      <3>7. /\ row.kind = "openai" /\ row.stamp = at[p] /\ row.units = units
            /\ row.amount = op[p].amount
        OBVIOUS
      <3> HIDE DEF row, units
      <3>8. CostInv' BY <3>4, <3>6, <3>7 DEF CostInv
      <3>9. Cost(DayRows(history \cup {row}, at[p])) <= DailyLimit
        BY <3>1, <3>4, <3>5, <3>6, <3>7, DayStep
      <3>10. ASSUME NEW r \in history', r.kind = "openai" PROVE Cost(DayRows(history', r.stamp)) <= DailyLimit
        <4>1. CASE StartOfDay(r.stamp) = StartOfDay(at[p])
          <5>1. DayRows(history', r.stamp) = DayRows(history \cup {row}, at[p])
            BY <3>6, <4>1 DEF DayRows
          <5> QED BY <3>9, <5>1
        <4>2. CASE StartOfDay(r.stamp) # StartOfDay(at[p])
          <5>1. DayRows(history', r.stamp) = DayRows(history, r.stamp) BY <3>6, <3>7, <4>2 DEF DayRows
          <5>2. r \in history BY <3>6, <3>7, <3>10, <4>2
          <5> QED BY <1>0, <3>10, <5>1, <5>2
        <4> QED BY <4>1, <4>2
      <3> QED BY <1>0, <3>8, <3>10
    <2> QED BY <2>1, <2>2
  <1>4. ASSUME NEW p \in Process, Step(p) PROVE CostInv' /\ DailyCostHolds'
    BY <1>1, <1>2, <1>3, <1>4
    DEF Step, Start, Begin, Unavailable, EndRequest, Crash
  <1> QED BY <1>1, <1>4 DEF Next, SetClock, vars

\* Reservations of all processes, those of dead ones and of a clock that is set back: what a
\* UTC day's provider calls cost never exceeds the daily limit (DailyCostHolds).
THEOREM DailyCostIsKept == Spec => []DailyCostHolds
  <1>1. Init => CostInv /\ DailyCostHolds BY DEF Init, CostInv, DailyCostHolds
  <1> QED BY <1>1, InitInv, NextInv, CostNext, PTL DEF Spec
=============================================================================
